---------------------------- MODULE BoundedLead -----------------------------
(***************************************************************************)
(* What the field promises of one quantity that grows on every session:    *)
(* no session advances to more than Lead past the slowest, and a reset     *)
(* takes all of them back to zero at once.  Lockstep implements it three   *)
(* times: for the grant round (the barrier), for the execution cursor in   *)
(* Pace (the join) and for the played time in Race (the watermark).        *)
(***************************************************************************)
EXTENDS Integers

CONSTANTS Session,     \* the participating sessions
          Lead         \* how far one session may get ahead of another

VARIABLE pos           \* pos[s]: how far session s is

Init == pos = [s \in Session |-> 0]

Advance(s) ==
  /\ pos' = [pos EXCEPT ![s] = pos'[s]]
  /\ pos'[s] \in Nat
  /\ pos'[s] > pos[s]
  /\ \A t \in Session : pos'[s] <= pos[t] + Lead

Reset == pos' = [s \in Session |-> 0]

Next == Reset \/ \E s \in Session : Advance(s)

Spec == Init /\ [][Next]_pos
=============================================================================
