------------------------------ MODULE FatFile ------------------------------
(***************************************************************************)
(* The calls of FatFs (ff.c) that bindings/fatfs/shim.c makes: paths,      *)
(* files and directories.  Each operator takes the volume, and the file or *)
(* directory object, before the call and gives them after it, with "ok".   *)
(*                                                                         *)
(* A file's data is a sequence of units of the size of a directory entry,  *)
(* U to a sector.                                                          *)
(***************************************************************************)
EXTENDS FatDirectory

-----------------------------------------------------------------------------
(* Volume *)

\* What f_mkfs() leaves on a chip that was just erased.
Mkfs == [s \in Sect |->
           CASE s = VBR           -> Blank
             [] s \in {FAT, FAT2} -> [c \in Cluster |-> FREE]
             [] s = ROOT          -> ZEROS
             [] OTHER             -> [i \in 1..U |-> Blank]]

\* Nothing of the window outlives an unmounted volume: check_fs() drops it.
Unmounted(v, how) ==
  [v EXCEPT !.win = Blank, !.winsect = NoWindow, !.wflag = FALSE, !.last_clst = 0,
            !.mount = how]

DoMount(v) == MoveWindow(Unmounted(v, "mounted"), VBR)

\* mount_volume(), with which every call on a path begins.
mount_volume(v) == IF v.mount = "mounted" THEN v ELSE DoMount(v)

-----------------------------------------------------------------------------
(* Paths *)

\* follow_path(): "root" for the empty path, else what became of the last name
\* and the table it was looked up in.
FollowPath(v0, path) ==
  LET v    == mount_volume(v0)
      root == [v |-> v, res |-> IF path = <<>> THEN "root" ELSE "in", dir |-> 0,
               at |-> 0, blk |-> 0, entry |-> Zero]
      At(f, r, entry, last) ==
        CASE ~r.found -> [f EXCEPT !.v = r.v, !.res = IF last THEN "no file" ELSE "no path"]
          [] r.found /\ last -> [f EXCEPT !.v = r.v, !.res = "ok", !.at = r.at,
                                          !.blk = r.blk, !.entry = entry]
          [] r.found /\ ~last /\ ~entry.dir -> [f EXCEPT !.v = r.v, !.res = "no path"]
          [] OTHER -> [f EXCEPT !.v = r.v, !.dir = entry.clust]
      Found(f, r, last) == At(f, r, r.v.win[Slot(r.at)], last)
      Into(f, j) ==
        IF f.res # "in" THEN f
        ELSE Found(f, DirFind(f.v, f.dir, Key(path[j])), j = Len(path))
      f[j \in 0..Len(path)] == IF j = 0 THEN root ELSE Into(f[j - 1], j)
  IN  f[Len(path)]

NameOf(path) == path[Len(path)]

-----------------------------------------------------------------------------
(* Files *)

\* The file object; sect = 0: the buffer holds no sector.
Fil(v, slot, entry, write, changed) ==
  [valid |-> TRUE, write |-> write, modified |-> changed, dirty |-> FALSE,
   sclust |-> entry.clust, size |-> entry.size, fptr |-> 0, clust |-> 0,
   sect |-> 0, buf |-> ZEROS, dsect |-> v.winsect, dslot |-> slot]

SetEntry(v, slot, clust, size) ==
  [v EXCEPT !.win[slot].clust = clust, !.win[slot].size = size, !.wflag = TRUE]

\* f_open() with FA_CREATE_ALWAYS: an empty file, whose clusters go back.
Truncate(v, slot) ==
  LET cl   == v.win[slot].clust
      w    == SetEntry(v, slot, 0, 0)
  IN  IF cl = 0 THEN w
      ELSE [MoveWindow(RemoveChain(w, cl), v.winsect) EXCEPT !.last_clst = cl - 1]

\* FA_OPEN_APPEND: to the end of the file, with its last sector in the buffer.
SeekEnd(v, f) ==
  LET w == IF f.size > U THEN InFat(v) ELSE v
      To(g, sect) == [v |-> w, f |-> IF g.size % U = 0 THEN g
                                     ELSE [g EXCEPT !.sect = sect, !.buf = w.disk[sect]]]
      At(last) == To([f EXCEPT !.fptr = f.size, !.clust = last], clst2sect(last))
  IN  At(Chain(FatOf(v), f.sclust)[SectNo(f.size)])

\* f_open(); mode is "r", "w" or "a".
Open(v, path, mode) ==
  LET Failed(w)   == [v |-> w, ok |-> FALSE, f |-> Zero]
      Opened(o)   == [v |-> o.v, ok |-> TRUE, f |-> o.f]
      Old(t, write) == [v |-> t.v, f |-> Fil(t.v, Slot(t.at), t.entry, write, FALSE)]
      ToEnd(o)    == IF o.f.size = 0 THEN o ELSE SeekEnd(o.v, o.f)
      Empty(w, slot) == [v |-> w, f |-> Fil(w, slot, w.win[slot], TRUE, TRUE)]
      \* new.ok: the entry at new.at is there, found or registered.
      Created(new) == IF new.ok THEN Opened(Empty(Truncate(new.v, Slot(new.at)), Slot(new.at)))
                      ELSE Failed(new.v)
      Found(t) ==
        CASE t.res = "ok" /\ t.entry.dir -> Failed(t.v)
          [] t.res = "ok" /\ ~t.entry.dir /\ mode = "r" -> Opened(Old(t, FALSE))
          [] t.res = "ok" /\ ~t.entry.dir /\ mode = "a" -> Opened(ToEnd(Old(t, TRUE)))
          [] t.res = "ok" /\ ~t.entry.dir /\ mode = "w" ->
               Created([v |-> t.v, at |-> t.at, ok |-> TRUE])
          [] t.res = "no file" /\ mode # "r" ->
               Created(DirRegister(t.v, t.dir, NameOf(path)))
          [] OTHER -> Failed(t.v)
  IN  Found(FollowPath(v, path))

\* A transfer of n units is cut where sectors end.
Cuts(fptr, n) ==
  LET first == IF fptr % U = 0 THEN 0 ELSE Lesser(n, U - (fptr % U))
      whole == (n - first) \div U
      rest  == (n - first) % U
  IN  (IF first > 0 THEN <<first>> ELSE <<>>) \o [i \in 1..whole |-> U]
        \o (IF rest > 0 THEN <<rest>> ELSE <<>>)

\* (fault) The dirty buffer is dropped when another sector comes into it.
NotWrittenBack(v, f) == [v |-> v, f |-> [f EXCEPT !.dirty = FALSE]]

WriteBack(v, f) ==
  [v |-> IF f.dirty THEN [v EXCEPT !.disk[f.sect] = f.buf] ELSE v,
   f |-> [f EXCEPT !.dirty = FALSE]]

\* (fault) The buffer is taken for any sector's.
AnyInBuffer(v, f, sect) == f.buf

\* The buffer with sector sect in it.
InBuffer(v, f, sect) == IF f.sect = sect THEN f.buf ELSE v.disk[sect]

\* The part of f_read() that is within one sector.
ReadCut(s, n) ==
  LET f     == s.f
      ofs   == f.fptr % U
      whole == ofs = 0 /\ n = U
      next  == CASE ofs # 0    -> [v |-> s.v, clst |-> f.clust]
                 [] f.fptr = 0 -> [v |-> s.v, clst |-> f.sclust]
                 [] OTHER      -> [v |-> InFat(s.v), clst |-> FatOf(s.v)[f.clust]]
      Part(data) == s.out \o SubSeq(data, ofs + 1, ofs + n)
      From(v, clst, buf) ==
        [v   |-> v,
         f   |-> [f EXCEPT !.fptr = @ + n, !.clust = clst, !.buf = buf,
                           !.sect = IF whole THEN @ ELSE clst2sect(clst)],
         out |-> Part(IF whole THEN v.disk[clst2sect(clst)] ELSE buf)]
      In(to) == From(to.v, to.clst, IF ofs = 0 /\ ~whole
                                    THEN InBuffer(to.v, f, clst2sect(to.clst)) ELSE f.buf)
  IN  In(next)

Read(v, f, n) ==
  FoldLeft(ReadCut, [v |-> v, f |-> f, out |-> <<>>],
           Cuts(f.fptr, Lesser(n, f.size - f.fptr)))

\* (fault) The file does not grow.
AdvancedOnly(f, n) == [f EXCEPT !.fptr = @ + n]

Advanced(f, n) ==
  [f EXCEPT !.fptr = @ + n, !.size = IF f.fptr + n > @ THEN f.fptr + n ELSE @]

Fill(x, n) == [i \in 1..n |-> x]

\* n units into the buffer.
Buffered(f, n, x) ==
  LET ofs == f.fptr % U
  IN  [Advanced(f, n) EXCEPT
         !.buf = SubSeq(@, 1, ofs) \o Fill(x, n) \o SubSeq(@, ofs + n + 1, U),
         !.dirty = TRUE]

\* The part of f_write() that is within one sector: whole sectors pass the buffer by.
WriteCut(s, n, x) ==
  LET f    == s.f
      data == Fill(x, U)
      next == CASE f.fptr = 0 /\ f.sclust # 0 -> [v |-> s.v, clst |-> f.sclust]
                [] f.fptr = 0 /\ f.sclust = 0 -> NewChain(s.v)
                [] OTHER                      -> Stretch(s.v, f.clust)
      Whole(w, g, sect) ==
        [s EXCEPT !.v = [w EXCEPT !.disk[sect] = data],
                  !.f = [Advanced(g, U) EXCEPT !.buf = IF g.sect = sect THEN data ELSE @]]
      Part(w, g, sect) ==
        [s EXCEPT !.v = w,
                  !.f = Buffered([g EXCEPT !.sect = sect,
                                           !.buf = IF g.fptr < g.size
                                                   THEN InBuffer(w, g, sect) ELSE @], n, x)]
      Into(wb, clst) ==
        LET g == [wb.f EXCEPT !.clust = clst, !.sclust = IF @ = 0 THEN clst ELSE @]
        IN  IF n = U THEN Whole(wb.v, g, clst2sect(clst)) ELSE Part(wb.v, g, clst2sect(clst))
      In(to) == IF to.clst = 0 THEN [s EXCEPT !.v = to.v, !.full = TRUE]
                ELSE Into(WriteBack(to.v, f), to.clst)
  IN  IF s.full THEN s
      ELSE IF f.fptr % U # 0 THEN [s EXCEPT !.f = Buffered(f, n, x)]
      ELSE In(next)

\* f_write() of n units x.
Write(v, f, n, x) ==
  [FoldLeft(LAMBDA s, cut : WriteCut(s, cut, x), [v |-> v, f |-> f, full |-> FALSE],
            Cuts(f.fptr, n)) EXCEPT !.f.modified = TRUE]

\* f_sync(), all that f_close() does to a valid file.
SyncFile(v, f) ==
  LET wb == WriteBack(v, f)
  IN  IF ~f.modified THEN [v |-> v, f |-> f]
      ELSE [v |-> Sync(SetEntry(MoveWindow(wb.v, f.dsect), f.dslot, f.sclust, f.size)),
            f |-> [wb.f EXCEPT !.modified = FALSE]]

\* One more cluster on the way to ofs: f_lseek() stretches what it may write.
SeekCut(s) ==
  LET Onto(next) ==
        [v   |-> next.v,
         f   |-> [s.f EXCEPT !.fptr = @ + U, !.clust = IF next.clst = 0 THEN @ ELSE next.clst],
         ofs |-> IF next.clst = 0 THEN 0 ELSE s.ofs - U]
  IN  IF s.ofs <= U THEN s
      ELSE Onto(IF s.f.write THEN Stretch(s.v, s.f.clust)
                ELSE [v |-> InFat(s.v), clst |-> FatOf(s.v)[s.f.clust]])

\* f_lseek().
Seek(v, f, target) ==
  LET ofs    == IF ~f.write /\ target > f.size THEN f.size ELSE target
      onward == f.fptr > 0 /\ ofs > 0 /\ (ofs - 1) \div U >= (f.fptr - 1) \div U
      base   == ((f.fptr - 1) \div U) * U
      Top(new) == [v   |-> new.v,
                   f   |-> [f EXCEPT !.fptr = 0, !.clust = new.clst, !.sclust = new.clst],
                   ofs |-> IF new.clst = 0 THEN 0 ELSE ofs]
      start  == CASE ofs = 0 -> [v |-> v, f |-> [f EXCEPT !.fptr = 0], ofs |-> 0]
                  [] onward  -> [v |-> v, f |-> [f EXCEPT !.fptr = base], ofs |-> ofs - base]
                  [] OTHER   -> Top(IF f.sclust # 0 THEN [v |-> v, clst |-> f.sclust]
                                    ELSE NewChain(v))
      s[k \in 0..LastCluster] == IF k = 0 THEN start ELSE SeekCut(s[k - 1])
      Sized(g) == IF g.fptr > g.size THEN [g EXCEPT !.size = g.fptr, !.modified = TRUE] ELSE g
      Filled(wb, sect) ==
        [v |-> wb.v, f |-> [wb.f EXCEPT !.sect = sect, !.buf = InBuffer(wb.v, wb.f, sect)]]
      Landed(w, h) == IF h.fptr % U = 0 \/ clst2sect(h.clust) = h.sect THEN [v |-> w, f |-> h]
                      ELSE Filled(WriteBack(w, h), clst2sect(h.clust))
      At(r) == Landed(r.v, Sized([r.f EXCEPT !.fptr = @ + r.ofs]))
  IN  At(s[LastCluster])

-----------------------------------------------------------------------------
(* Directories *)

\* f_unlink()
Unlink(v, path) ==
  LET Freed(gone, clst) == Sync(IF clst = 0 THEN gone ELSE RemoveChain(gone, clst))
      Checked(t, sub) ==
        IF sub.found THEN [v |-> sub.v, ok |-> FALSE]
        ELSE [v |-> Freed(DirRemove(sub.v, t.dir, t.at, t.blk), t.entry.clust), ok |-> TRUE]
      Found(t) ==
        IF t.res # "ok" THEN [v |-> t.v, ok |-> FALSE]
        ELSE Checked(t, IF t.entry.dir THEN DirRead(t.v, t.entry.clust, 1)
                        ELSE [v |-> t.v, found |-> FALSE])
  IN  Found(FollowPath(v, path))

\* (fault) The cluster of a directory that could not be registered is kept.
Kept(v, clst) == v

\* The cluster of a directory that could not be registered.
GivenBack(v, clst) == RemoveChain(v, clst)

\* f_mkdir(); ff_mkdir() takes FR_EXIST for success.
Mkdir(v, path) ==
  LET Table(new, parent) ==
        SetUnit(SetUnit(DirClear(new.v, new.clst), 1, Dot(".", new.clst)), 2, Dot("..", parent))
      Entered(w, slot, clst) == [SetEntry(w, slot, clst, 0) EXCEPT !.win[slot].dir = TRUE]
      Registered(reg, clst) ==
        IF reg.ok THEN [v |-> Sync(Entered(reg.v, Slot(reg.at), clst)), ok |-> TRUE]
        ELSE [v |-> GivenBack(reg.v, clst), ok |-> FALSE]
      With(new, dir) ==
        IF new.clst = 0 THEN [v |-> new.v, ok |-> FALSE]
        ELSE Registered(DirRegister(Table(new, dir), dir, NameOf(path)), new.clst)
      Found(t) == CASE t.res = "ok"      -> [v |-> t.v, ok |-> TRUE]
                    [] t.res = "no file" -> With(NewChain(t.v), t.dir)
                    [] OTHER             -> [v |-> t.v, ok |-> FALSE]
  IN  Found(FollowPath(v, path))

\* f_opendir(): the table of the directory, read from entry "from" on (0: ended).
Opendir(v, path) ==
  LET Found(t) ==
        [v  |-> t.v, ok |-> t.res = "root" \/ (t.res = "ok" /\ t.entry.dir),
         d  |-> [dir |-> IF t.res = "ok" THEN t.entry.clust ELSE t.dir, from |-> 1]]
  IN  Found(FollowPath(v, path))

\* (fault) The iterator stays on the entry that it has read.
SamePlace(es, at) == at

\* dir_next() after an entry was read; 0 at the end of the table.
NextPlace(es, at) == IF at >= Len(es) THEN 0 ELSE at + 1

\* f_readdir(): the next entry, and on to the one after it.
Readdir(v, d) ==
  LET At(r) ==
        IF ~r.found THEN [v |-> r.v, found |-> FALSE, d |-> [d EXCEPT !.from = 0]]
        ELSE [v |-> IF r.at % U = 0 /\ d.dir # 0 THEN InFat(r.v) ELSE r.v,
              found |-> TRUE, entry |-> r.entry, byAlias |-> r.byAlias,
              d |-> [d EXCEPT !.from = NextPlace(Entries(v, d.dir), r.at)]]
  IN  IF d.from = 0 THEN [v |-> v, found |-> FALSE, d |-> d]
      ELSE At(DirRead(v, d.dir, d.from))
=============================================================================
