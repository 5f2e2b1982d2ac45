------------------------------ MODULE FatTable ------------------------------
(***************************************************************************)
(* FatFs as this project builds it (fs/fatfs/src/ff.c), its lower half:    *)
(* the one-sector window through which directories and the FAT are read    *)
(* and changed, and the chains of clusters.                                *)
(*                                                                         *)
(* The volume is the one that ff_format() of bindings/fatfs/shim.c makes:  *)
(* FAT12, one sector per cluster, two copies of a FAT that fits a sector,  *)
(* and a root directory of one sector.  The value v is the FATFS object    *)
(* with the disk under it; an operator takes the volume before a call and  *)
(* gives the volume after it.  The disk does not fail here (device.js      *)
(* never does; WearLevel.tla has what the layer between would do then),    *)
(* so FR_DISK_ERR does not occur, and neither does FR_INT_ERR, which is    *)
(* the answer to a chain that is not sound: ChainsSound says they are.     *)
(***************************************************************************)
EXTENDS Integers, Sequences, FiniteSets, SequencesExt

CONSTANTS
  LastCluster,   \* n_fatent - 1: clusters are numbered from 2
  U,             \* directory entries in a sector; data is counted in their size
  Blank          \* what an erased sector reads as

\* A new directory begins with two entries.
ASSUME FatAssumption == LastCluster \in Nat /\ LastCluster >= 2 /\ U \in Nat /\ U >= 2

Cluster == 2..LastCluster
FREE    == 0
EOC     == LastCluster + 1

\* Sectors: boot record, the two FATs, the root directory, then the clusters.
VBR  == 0
FAT  == 1
FAT2 == 2
ROOT == 3
Sect == 0..(LastCluster + 2)

clst2sect(c) == c + 2

Zero  == [kind |-> "zero"]          \* an entry of a sector filled with zeros
ZEROS == [i \in 1..U |-> Zero]

NoWindow == -1

-----------------------------------------------------------------------------
(* The window *)

\* (fault) The second FAT is not written.
SyncOneFat(v) ==
  IF v.wflag THEN [v EXCEPT !.disk[v.winsect] = v.win, !.wflag = FALSE] ELSE v

\* sync_window(), and sync_fs(), which adds nothing to it on FAT12.
Sync(v) ==
  IF ~v.wflag THEN v
  ELSE IF v.winsect = FAT
       THEN [v EXCEPT !.disk[FAT] = v.win, !.disk[FAT2] = v.win, !.wflag = FALSE]
       ELSE [v EXCEPT !.disk[v.winsect] = v.win, !.wflag = FALSE]

MoveWindow(v, s) ==
  IF s = v.winsect THEN v
  ELSE LET w == Sync(v) IN [w EXCEPT !.win = w.disk[s], !.winsect = s]

\* What FatFs takes sector s to hold.
See(v, s) == IF s = v.winsect THEN v.win ELSE v.disk[s]

SetUnit(v, slot, unit) == [v EXCEPT !.win[slot] = unit, !.wflag = TRUE]

-----------------------------------------------------------------------------
(* Chains *)

\* get_fat() leaves the FAT in the window.
InFat(v) == MoveWindow(v, FAT)
FatOf(v) == See(v, FAT)

\* The clusters that follow c, c first.
Chain(fat, c) ==
  LET links[n \in 0..LastCluster] ==
        IF n = 0 THEN IF c \in Cluster THEN <<c>> ELSE <<>>
        ELSE LET s == links[n - 1]
             IN  IF s # <<>> /\ fat[s[Len(s)]] \in Cluster \ ToSet(s)
                 THEN Append(s, fat[s[Len(s)]]) ELSE s
  IN  links[LastCluster]

RemoveChain(v, c) ==
  LET w == InFat(v)  gone == ToSet(Chain(w.win, c))
  IN  [w EXCEPT !.win = [d \in Cluster |-> IF d \in gone THEN FREE ELSE @[d]],
                !.wflag = TRUE]

\* The search for a free cluster goes up from the cluster after scl, and round.
Distance(scl, c) == IF c > scl THEN c - scl ELSE c - scl + LastCluster

\* (fault) The search stops at the top of the FAT.
FirstFreeNoWrap(fat, scl) ==
  LET free == {c \in Cluster : fat[c] = FREE /\ c > scl}
  IN  IF free = {} THEN 0
      ELSE CHOOSE c \in free : \A d \in free : c <= d

\* (fault) The cluster is taken without looking whether it is free.
FirstFreeBlind(fat, scl) == IF scl + 1 \in Cluster THEN scl + 1 ELSE 0

\* 0: there is none.
FirstFree(fat, scl) ==
  LET free == {c \in Cluster : fat[c] = FREE}
  IN  IF free = {} THEN 0
      ELSE CHOOSE c \in free : \A d \in free : Distance(scl, c) <= Distance(scl, d)

\* create_chain(): the new cluster ends its chain, and prev, if any, leads to it.
Allocated(v, clst, prev) ==
  LET w == [v EXCEPT !.win[clst] = EOC, !.wflag = TRUE, !.last_clst = clst]
  IN  IF clst = 0 THEN v ELSE IF prev = 0 THEN w ELSE [w EXCEPT !.win[prev] = clst]

\* create_chain(obj, 0): a new chain, from where the last cluster was found.
NewChain(v) ==
  LET From(clst) == [v |-> Allocated(InFat(v), clst, 0), clst |-> clst]
  IN  From(FirstFree(FatOf(v), IF v.last_clst \in Cluster THEN v.last_clst ELSE 1))

\* create_chain(obj, clst): the cluster that follows prev, or a new one there,
\* the adjacent one if it is free.
Stretch(v, prev) ==
  LET next == IF prev + 1 \in Cluster THEN prev + 1 ELSE 2
      scl  == IF v.last_clst \in Cluster THEN v.last_clst ELSE prev
      New(w, clst) == [v |-> Allocated(w, clst, prev), clst |-> clst]
      In(w) == IF w.win[prev] \in Cluster THEN [v |-> w, clst |-> w.win[prev]]
               ELSE New(w, IF w.win[next] = FREE THEN next ELSE FirstFree(w.win, scl))
  IN  In(InFat(v))
=============================================================================
