----------------------------- MODULE FileStore ------------------------------
(***************************************************************************)
(* What a mounted file system promises its callers: a tree of files, of    *)
(* which a call changes the one that it names and no other.  A call that   *)
(* succeeds has done all that it was asked; one that fails has done        *)
(* nothing, unless it is a write that ran out of space: that has written   *)
(* the beginning of its data.  Taking the volume away leaves the files     *)
(* that are open for writing, and only those, in any state.                *)
(***************************************************************************)
EXTENDS Integers, Sequences

CONSTANTS
  Path,
  Data,    \* what may be written to each file
  Size     \* how much a call may write

VARIABLES
  store,      \* what each path names
  writing,    \* the files that are open for writing
  ok          \* whether the last call succeeded

Absent  == [is |-> "absent"]
Dir     == [is |-> "dir"]
File(d) == [is |-> "file", data |-> d]

Parent(p)      == SubSeq(p, 1, Len(p) - 1)
Rooted(p)      == Len(p) = 1 \/ store[Parent(p)] = Dir
Writable(p)    == Rooted(p) /\ store[p] # Dir /\ p \notin writing
Fill(x, n)     == [i \in 1..n |-> x]

\* n units x from the unit after "at" on.
Patch(d, at, x, n) ==
  [i \in 1..(IF at + n > Len(d) THEN at + n ELSE Len(d)) |->
     IF i \in (at + 1)..(at + n) THEN x ELSE d[i]]

Extends(d, c) == Len(c) < Len(d) /\ SubSeq(d, 1, Len(c)) = c

Init == /\ store = [p \in Path |-> Absent]
        /\ writing = {}
        /\ ok = TRUE

Fail == ok' = FALSE /\ UNCHANGED <<store, writing>>
Read == ok' = TRUE /\ UNCHANGED <<store, writing>>

Put(p, x, n) ==
  /\ Writable(p)
  /\ \E k \in 0..n : /\ store' = [store EXCEPT ![p] = File(Fill(x, k))]
                     /\ ok' = (k = n)
  /\ UNCHANGED writing

OpenNew(p) == /\ Writable(p)
              /\ store' = [store EXCEPT ![p] = File(<<>>)]
              /\ writing' = writing \cup {p}
              /\ ok' = TRUE

OpenOld(p) == /\ Writable(p) /\ store[p] # Absent
              /\ writing' = writing \cup {p}
              /\ ok' = TRUE
              /\ UNCHANGED store

Write(p, x, n) ==
  /\ \E at \in 0..Len(store[p].data), k \in 0..n :
       /\ store' = [store EXCEPT ![p] = File(Patch(@.data, at, x, k))]
       /\ ok' = (k = n)
  /\ UNCHANGED writing

\* A seek beyond the end: the file is longer by what the chip holds there.
Stretch(p) == /\ store' = [store EXCEPT ![p] = store'[p]]
              /\ store'[p].is = "file" /\ Extends(store'[p].data, store[p].data)
              /\ ok' = TRUE
              /\ UNCHANGED writing

Close(p) == writing' = writing \ {p} /\ ok' = TRUE /\ UNCHANGED store

Delete(p) == /\ store[p] # Absent /\ p \notin writing
             /\ \A q \in Path : Len(q) > 1 /\ Parent(q) = p => store[q] = Absent
             /\ store' = [store EXCEPT ![p] = Absent]
             /\ ok' = TRUE
             /\ UNCHANGED writing

Mkdir(p) == /\ Rooted(p) /\ store[p] = Absent
            /\ store' = [store EXCEPT ![p] = Dir]
            /\ ok' = TRUE
            /\ UNCHANGED writing

Format == /\ store' = [p \in Path |-> Absent]
          /\ writing' = {}
          /\ ok' = TRUE

Lose == /\ store' = [p \in Path |-> IF p \in writing THEN store'[p] ELSE store[p]]
        /\ writing' = {}
        /\ ok' = TRUE

Next ==
  \/ Fail \/ Read \/ Format \/ Lose
  \/ \E p \in Path : OpenNew(p) \/ OpenOld(p) \/ Delete(p) \/ Mkdir(p)
  \/ \E p \in DOMAIN Data, n \in Size : \E x \in Data[p] : Put(p, x, n)
  \/ \E p \in writing : Stretch(p) \/ Close(p)
  \/ \E p \in writing, n \in Size : \E x \in Data[p] : Write(p, x, n)

Spec == Init /\ [][Next]_<<store, writing, ok>>
=============================================================================
