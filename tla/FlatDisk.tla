------------------------------ MODULE FlatDisk -------------------------------
(***************************************************************************)
(* What FatFs may rely on: a linear array of logical sectors.  A write     *)
(* changes nothing but the sectors it was asked to write, and once it is   *)
(* acknowledged they hold what was written; a write that is refused or     *)
(* interrupted leaves those sectors, and no others, in any state.  A       *)
(* format blanks all of them.                                              *)
(***************************************************************************)
CONSTANTS Sector, Content,
          Blank      \* what an erased sector reads as

VARIABLES disk,      \* disk[s]: what a read of sector s returns
          pending    \* the write in progress: sector -> its new content

NoWrite == [s \in {} |-> s]

Init == /\ disk \in [Sector -> Content]
        /\ pending = NoWrite

Begin == /\ pending = NoWrite
         /\ \E S \in (SUBSET Sector) \ {{}} : pending' \in [S -> Content]
         /\ UNCHANGED disk

UntouchedKept == /\ disk' \in [Sector -> Content]
                 /\ \A s \in Sector \ DOMAIN pending : disk'[s] = disk[s]

Work   == UntouchedKept /\ UNCHANGED pending

Commit == /\ UntouchedKept
          /\ \A s \in DOMAIN pending : disk'[s] = pending[s]
          /\ pending' = NoWrite

Abort  == UntouchedKept /\ pending # NoWrite /\ pending' = NoWrite

Format == /\ disk' = [s \in Sector |-> Blank]
          /\ pending' = NoWrite

Next == Begin \/ Work \/ Commit \/ Abort \/ Format

Spec == Init /\ [][Next]_<<disk, pending>>
=============================================================================
