---------------------------- MODULE FatDirectory ----------------------------
(***************************************************************************)
(* Directories of FatFs (ff.c): tables of entries, in the root's sector or *)
(* in a chain of clusters, that a name is looked up in, registered in and  *)
(* removed from.  A short name takes one entry; any other name takes a     *)
(* generated short name and, before it, its pieces of 13 characters, last  *)
(* piece first, each with the checksum of that short name.                 *)
(*                                                                         *)
(* Names are abstracted to what tells them apart.  A short name is a pair  *)
(* <<body, suffix>>, suffix 0 without a ~; its checksum stands for itself. *)
(* Pieces are compared without case, so they are given without.            *)
(***************************************************************************)
EXTENDS FatTable

CONSTANTS
  Name,          \* names that callers use, all different when case is ignored
  Info,          \* what create_name() makes of them
  Tries          \* how many numbered short names are tried (99)

\* sfn: the short name; loss: it needs a number; lfn: the name needs pieces;
\* num: the short names gen_numname() makes of it, the first five with their
\* number for a suffix, the others with a hash, which may repeat another suffix.
NEnt(n) == IF Info[n].lfn THEN Len(Info[n].pieces) + 1 ELSE 1

\* Two names without a number differ in their short names, two names in their
\* pieces, and no caller's own name has a ~ suffix.
ASSUME NameAssumption ==
  /\ Tries \in Nat
  /\ \A n \in Name :
       /\ Info[n].sfn = <<Info[n].sfn[1], 0>> /\ Info[n].sfn[1] \notin {".", ".."}
       /\ {Info[n].loss, Info[n].lfn} \subseteq BOOLEAN /\ (Info[n].loss => Info[n].lfn)
       /\ Info[n].loss => \A k \in 1..Tries :
            LET s == Info[n].num[k]
            IN  s = <<s[1], s[2]>> /\ s[1] \notin {".", ".."} /\ s[2] # 0
       /\ Info[n].pieces \in Seq(ToSet(Info[n].pieces)) /\ Len(Info[n].pieces) \in 1..20
       /\ NEnt(n) <= U
  /\ \A n, m \in Name : n # m => /\ Info[n].pieces # Info[m].pieces
                                 /\ Info[n].sfn # Info[m].sfn \/ Info[n].loss \/ Info[m].loss

Deleted == [kind |-> "deleted"]
Piece(n, ord, sfn) == [kind |-> "lfn", of |-> n, ord |-> ord,
                       last |-> ord = Len(Info[n].pieces), sum |-> sfn]
Entry(n, sfn)      == [kind |-> "sfn", of |-> n, sfn |-> sfn,
                       dir |-> FALSE, clust |-> 0, size |-> 0]
Dot(name, clust)   == [kind |-> "dot", sfn |-> <<name, 0>>, dir |-> TRUE, clust |-> clust]

Lesser(i, j) == IF i < j THEN i ELSE j

-----------------------------------------------------------------------------
(* The table: dir is its first cluster, 0 for the root *)

DirSects(v, dir) ==
  IF dir = 0 THEN <<ROOT>>
  ELSE LET Sects(chain) == [k \in 1..Len(chain) |-> clst2sect(chain[k])]
       IN  Sects(Chain(FatOf(v), dir))

\* Entry i is in slot Slot(i) of sector SectNo(i) of the table.
Slot(i)   == ((i - 1) % U) + 1
SectNo(i) == ((i - 1) \div U) + 1

Entries(v, dir) ==
  LET In(sects) == [i \in 1..(U * Len(sects)) |-> See(v, sects[SectNo(i)])[Slot(i)]]
  IN  In(DirSects(v, dir))

\* dir_next() from entry i to entry j: the FAT is read at the end of a cluster,
\* and the sector of an entry when the entry is looked at.
Scan(v, dir, i, j) ==
  LET On(w, sects, k) == IF dir = 0 THEN w
                         ELSE IF k > Len(sects) THEN InFat(w)
                         ELSE MoveWindow(InFat(w), sects[k])
      Over(sects) ==
        LET w[k \in SectNo(i)..SectNo(j)] ==
              IF k = SectNo(i) THEN MoveWindow(v, sects[k]) ELSE On(w[k - 1], sects, k)
        IN  w[SectNo(j)]
  IN  Over(DirSects(v, dir))

\* move_window() to the sector of entry i, which takes a read of the FAT or not.
GoTo(v, dir, i, reads) ==
  MoveWindow(IF reads THEN InFat(v) ELSE v, DirSects(v, dir)[SectNo(i)])

\* The units are stored in the entries from i on.  dir_sdi() follows the chain to
\* the first of several, dir_next() reads the FAT where a cluster ends; to a
\* single entry nothing has to lead.
PutUnits(v, dir, i, units) ==
  LET Leads(k) == IF k = 1 THEN Len(units) > 1 ELSE Slot(i + k - 1) = 1
      w[k \in 0..Len(units)] ==
        IF k = 0 THEN v
        ELSE SetUnit(GoTo(w[k - 1], dir, i + k - 1, SectNo(i + k - 1) > 1 /\ Leads(k)),
                     Slot(i + k - 1), units[k])
  IN  w[Len(units)]

\* The cluster is zeroed on the chip, and the window is on it.
DirClear(v, clst) ==
  [Sync(v) EXCEPT !.disk[clst2sect(clst)] = ZEROS,
                  !.win = ZEROS, !.winsect = clst2sect(clst)]

-----------------------------------------------------------------------------
(* Names *)

\* What dir_find() looks for: the caller's name, or a short name only.
Key(n)      == [sfn |-> Info[n].sfn, loss |-> Info[n].loss, nolfn |-> FALSE,
                pieces |-> Info[n].pieces]
NumKey(n,k) == [Key(n) EXCEPT !.sfn = Info[n].num[k], !.loss = FALSE, !.nolfn = TRUE]

\* (fault) A name that begins alike is taken for the name.
CmpFirst(e, pieces) == Info[e.of].pieces[1] = pieces[1]

cmp_lfn(e, pieces) ==
  /\ e.ord <= Len(pieces)
  /\ Info[e.of].pieces[e.ord] = pieces[e.ord]
  /\ e.last => e.ord = Len(pieces)

NoOrd == 99

\* The pieces before a short name count down to 0 from the last, and have its
\* checksum: s.ord is the piece that would be next, s.blk where they began.
Unnamed == [stop |-> 0, found |-> FALSE, ord |-> NoOrd, sum |-> <<>>, blk |-> 0]

WithPiece(s, i, e, fits) ==
  LET r == IF e.last THEN [s EXCEPT !.sum = e.sum, !.ord = e.ord, !.blk = i] ELSE s
  IN  [r EXCEPT !.ord = IF e.ord = r.ord /\ e.sum = r.sum /\ fits THEN e.ord - 1 ELSE NoOrd]

LfnMatched(s, e) == s.ord = 0 /\ s.sum = e.sfn

\* A table without a zero entry is searched to its end.
Stopped(s, len) == IF s.stop = 0 THEN [s EXCEPT !.stop = len + 1] ELSE s

FindStep(key, s, i, e) ==
  IF s.stop # 0 THEN s
  ELSE CASE e.kind = "zero"    -> [s EXCEPT !.stop = i]
         [] e.kind = "deleted" -> [s EXCEPT !.ord = NoOrd, !.blk = 0]
         [] e.kind = "lfn"     -> IF key.nolfn THEN s
                                  ELSE WithPiece(s, i, e, cmp_lfn(e, key.pieces))
         [] OTHER -> IF LfnMatched(s, e) \/ (~key.loss /\ key.sfn = e.sfn)
                     THEN [s EXCEPT !.stop = i, !.found = TRUE]
                     ELSE [s EXCEPT !.ord = NoOrd, !.blk = 0]

\* dir_find(): where the entry is, and where its pieces begin (0: none).
DirFind(v, dir, key) ==
  LET Over(es) ==
        LET s[i \in 0..Len(es)] ==
              IF i = 0 THEN Unnamed ELSE FindStep(key, s[i - 1], i, es[i])
        IN  Stopped(s[Len(es)], Len(es))
      At(r) == [v |-> Scan(v, dir, 1, r.stop), found |-> r.found, at |-> r.stop, blk |-> r.blk]
  IN  At(Over(Entries(v, dir)))

\* dir_read() for files and directories, from entry i on, and get_fileinfo():
\* a name without its pieces is known by its short name.
ReadStep(s, i, e) ==
  IF s.stop # 0 THEN s
  ELSE CASE e.kind = "zero"               -> [s EXCEPT !.stop = i]
         [] e.kind \in {"deleted", "dot"} -> [s EXCEPT !.ord = NoOrd]
         [] e.kind = "lfn"                -> WithPiece(s, i, e, TRUE)
         [] OTHER -> [s EXCEPT !.stop = i, !.found = TRUE,
                               !.blk = IF LfnMatched(s, e) THEN @ ELSE 0]

EntryRead(es, r) == IF r.found THEN es[r.stop] ELSE Zero
ByAlias(es, r)   == r.found /\ r.blk = 0 /\ Info[es[r.stop].of].lfn

DirRead(v, dir, from) ==
  LET At(es, r) == [v |-> Scan(v, dir, from, r.stop), found |-> r.found, at |-> r.stop,
                    entry |-> EntryRead(es, r), byAlias |-> ByAlias(es, r)]
      Over(es) ==
        LET s[i \in (from - 1)..Len(es)] ==
              IF i = from - 1 THEN Unnamed ELSE ReadStep(s[i - 1], i, es[i])
        IN  At(es, Stopped(s[Len(es)], Len(es)))
  IN  Over(Entries(v, dir))

-----------------------------------------------------------------------------
(* Registering and removing *)

\* The entries up to i, n of them, are free as far as there are any.
FreeRow(es, n, i) ==
  \A j \in (i - n + 1)..i : j \in DOMAIN es => es[j].kind \in {"zero", "deleted"}

Place(es, n) ==
  CHOOSE i \in n..(Len(es) + n) : FreeRow(es, n, i) /\ \A k \in n..(i - 1) : ~FreeRow(es, n, k)

\* dir_alloc(): the last of n free entries in a row.  A table other than the
\* root's is stretched by a cluster when it has no such row.
DirAlloc(v, dir, n) ==
  LET Grown(new, at) == IF new.clst = 0 THEN [v |-> new.v, at |-> at, ok |-> FALSE]
                        ELSE [v |-> DirClear(new.v, new.clst), at |-> at, ok |-> TRUE]
      In(w, len, at) ==
        IF at <= len THEN [v |-> w, at |-> at, ok |-> TRUE]
        ELSE IF dir = 0 THEN [v |-> w, at |-> at, ok |-> FALSE]
        ELSE Grown(Stretch(w, Last(Chain(FatOf(v), dir))), at)
      Over(es, at) == In(Scan(v, dir, 1, Lesser(at, Len(es) + 1)), Len(es), at)
      Of(es) == Over(es, Place(es, n))
  IN  Of(Entries(v, dir))

\* The tries whose short names are free while those before are in the table.
FirstFreeNumber(v, dir, n) ==
  LET Taken(k) == DirFind(v, dir, NumKey(n, k)).found
  IN  {k \in 1..Tries : ~Taken(k) /\ \A j \in 1..(k - 1) : Taken(j)}

\* (fault) After too many collisions the last number is taken.
NumberAnyway(v, dir, n) ==
  LET first == FirstFreeNumber(v, dir, n)
  IN  IF first = {} THEN Tries ELSE CHOOSE k \in first : TRUE

\* The first try that finds a free short name, 0 if all are taken.
Number(v, dir, n) ==
  LET first == FirstFreeNumber(v, dir, n)
  IN  IF first = {} THEN 0 ELSE CHOOSE k \in first : TRUE

\* dir_find() for the first k numbered names.
Searched(v, dir, n, k) ==
  LET w[j \in 0..k] == IF j = 0 THEN v ELSE DirFind(w[j - 1], dir, NumKey(n, j)).v
  IN  w[k]

\* (fault) The pieces are stored first piece first.
PiecesForward(n, sfn) ==
  [j \in 1..NEnt(n) |-> IF j = NEnt(n) THEN Entry(n, sfn) ELSE Piece(n, j, sfn)]

Pieces(n, sfn) ==
  [j \in 1..NEnt(n) |-> IF j = NEnt(n) THEN Entry(n, sfn) ELSE Piece(n, NEnt(n) - j, sfn)]

\* dir_register(); when all numbered names are taken it is denied.
DirRegister(v, dir, n) ==
  LET Put(new, sfn) ==
        IF ~new.ok THEN new
        ELSE [new EXCEPT !.v = PutUnits(@, dir, new.at - NEnt(n) + 1, Pieces(n, sfn))]
      Under(w, sfn) == Put(DirAlloc(w, dir, NEnt(n)), sfn)
      Tried(k) == IF k = 0 THEN [v |-> Searched(v, dir, n, Tries), at |-> 0, ok |-> FALSE]
                  ELSE Under(Searched(v, dir, n, k), Info[n].num[k])
  IN  IF Info[n].loss THEN Tried(Number(v, dir, n)) ELSE Under(v, Info[n].sfn)

DirRemove(v, dir, at, blk) ==
  LET first == IF blk = 0 THEN at ELSE blk
  IN  PutUnits(v, dir, first, [j \in 1..(at - first + 1) |-> Deleted])
=============================================================================
