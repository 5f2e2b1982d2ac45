----------------------------- MODULE FatVolume ------------------------------
(***************************************************************************)
(* The FatFs volume as its callers drive it through bindings/fatfs/shim.c: *)
(* whole files, files and directories that stay open between calls,        *)
(* deletions, directories, listings, the walk for the telemetry, formats,  *)
(* mounts and unmounts, in any order.  A call is one step: the code is     *)
(* one thread, and a call runs to its end.                                 *)
(*                                                                         *)
(* ffconf.h builds FatFs without its lock (FF_FS_LOCK 0), which leaves it  *)
(* to the caller never to open a file twice when one of the two writes,    *)
(* and never to remove what is open: callers here keep to that.            *)
(***************************************************************************)
EXTENDS FatFile

CONSTANTS
  FilePath,      \* paths that are used for files
  Data,          \* what may be written to each of them
  DirPath,       \* paths that are used for directories
  ListPath,      \* directories that are listed through an open handle
  PutSize,       \* sizes of whole files
  WriteSize,     \* sizes of writes through an open file
  ReadSize,      \* sizes of reads through an open file
  Offset,        \* where seeks go, from the place they count from
  Files, Dirs,   \* handles of open files and directories
  Beyond         \* where a seek before the start ends up: it wraps

Path == FilePath \cup DirPath

ASSUME VolumeAssumption ==
  /\ \A p \in Path : Len(p) \in 1..2 /\ (Len(p) = 2 => <<p[1]>> \in DirPath)
  /\ Beyond > LastCluster * U

VARIABLES
  v,       \* the FATFS object and the disk: see FatTable
  file,    \* FIL of each file handle
  dirs,    \* DIR of each directory handle
  ok,      \* whether the last call that may change something succeeded
  store,   \* (history) what the volume holds: read off it after every call
  torn     \* the volume was taken away from a writer since the last format

vars == <<v, file, dirs, ok, store, torn>>

Closed == [open |-> FALSE]

OpenFile(p, f)  == [open |-> TRUE, valid |-> TRUE, path |-> p, fil |-> f]
Stale(o)        == IF o.open THEN [open |-> TRUE, valid |-> FALSE] ELSE Closed
Usable(o)       == o.open /\ o.valid

\* Files that are open, and those that are open for writing.
OpenPaths == {file[h].path : h \in {g \in Files : Usable(file[g])}}
Writers   == {h \in Files : Usable(file[h]) /\ file[h].fil.write}
writing   == {file[h].path : h \in Writers}

-----------------------------------------------------------------------------
(* What is on the volume, whichever way FatFs looks it up *)

LiveIn(w, dir) ==
  LET In(es) == {es[i] : i \in {j \in DOMAIN es : /\ es[j].kind = "sfn"
                                                  /\ \A k \in 1..(j - 1) : es[k].kind # "zero"}}
  IN  In(Entries(w, dir))

Called(n, es) == {e \in es : Info[e.of].pieces = Info[n].pieces}

\* root is LiveIn(w, 0).
Objects(w, root, p) ==
  IF Len(p) = 1 THEN Called(p[1], root)
  ELSE UNION {Called(p[2], LiveIn(w, e.clust)) : e \in {d \in Called(p[1], root) : d.dir}}

\* "buf" is what sector "sect" is about to hold.
Content(w, sclust, size, sect, buf) ==
  LET chain == Chain(FatOf(w), sclust)
      Unit(i) == IF SectNo(i) \notin DOMAIN chain THEN Blank
                 ELSE IF clst2sect(chain[SectNo(i)]) = sect THEN buf[Slot(i)]
                 ELSE w.disk[clst2sect(chain[SectNo(i)])][Slot(i)]
  IN  [i \in 1..size |-> Unit(i)]

\* A file that is being written is what its handle says, any other what the
\* directory says.
Held(w, files, root, p) ==
  LET hs == {h \in Files : Usable(files[h]) /\ files[h].fil.write /\ files[h].path = p}
      f  == files[CHOOSE h \in hs : TRUE].fil
      os == Objects(w, root, p)
      e  == CHOOSE e \in os : TRUE
  IN  CASE hs # {} -> [is |-> "file", data |-> Content(w, f.sclust, f.size,
                                                 IF f.dirty THEN f.sect ELSE VBR, f.buf)]
        [] hs = {} /\ os = {} -> [is |-> "absent"]
        [] OTHER -> IF e.dir THEN [is |-> "dir"]
                    ELSE [is |-> "file", data |-> Content(w, e.clust, e.size, VBR, ZEROS)]

-----------------------------------------------------------------------------
(* Calls that change the tree *)

Enabled == v.mount # "off"

\* "stayed": the files that were there ever since the directory was opened.
NamesIn(w, dir) == {e.of : e \in {x \in LiveIn(w, dir) : ~x.dir}}

Volume(w) ==
  /\ v' = w
  /\ dirs' = [h \in Dirs |->
                IF ~Usable(dirs[h]) THEN dirs[h]
                ELSE [dirs[h] EXCEPT !.stayed = @ \cap NamesIn(w, dirs[h].d.dir),
                                     !.listed = @ \cap NamesIn(w, dirs[h].d.dir)]]

\* ff_write(): open, write and close.
Whole(p, x, n) ==
  LET Written(r) == [v |-> SyncFile(r.v, r.f).v, ok |-> ~r.full]
      Opened(o)  == IF o.ok THEN Written(Write(o.v, o.f, n, x)) ELSE [v |-> o.v, ok |-> FALSE]
  IN  Opened(Open(v, p, "w"))

WriteFile(p, x, n) ==
  /\ Enabled
  /\ p \notin OpenPaths
  /\ \E r \in {Whole(p, x, n)} : Volume(r.v) /\ ok' = r.ok
  /\ UNCHANGED <<file, torn>>

\* ff_delete()
Delete(p) ==
  /\ Enabled
  /\ p \notin OpenPaths
  /\ ~\E h \in Dirs : Usable(dirs[h]) /\ dirs[h].path = p
  /\ \E r \in {Unlink(v, p)} : Volume(r.v) /\ ok' = r.ok
  /\ UNCHANGED <<file, torn>>

\* ff_mkdir()
MakeDir(p) ==
  /\ Enabled
  /\ \E r \in {Mkdir(v, p)} : Volume(r.v) /\ ok' = r.ok
  /\ UNCHANGED <<file, torn>>

-----------------------------------------------------------------------------
(* Open files *)

FirstClosed(pool) == {h \in DOMAIN pool : ~pool[h].open
                                          /\ \A g \in DOMAIN pool : g < h => pool[g].open}

\* ff_open()
FileOpen(p, mode) ==
  /\ Enabled
  /\ p \notin (IF mode = "r" THEN writing ELSE OpenPaths)
  /\ \E h \in FirstClosed(file), o \in {Open(v, p, mode)} :
       /\ Volume(o.v)
       /\ file' = IF o.ok THEN [file EXCEPT ![h] = OpenFile(p, o.f)] ELSE file
       /\ ok' = o.ok
  /\ UNCHANGED torn

\* ff_file_write()
FileWrite(h, n) ==
  /\ h \in Writers
  /\ \E x \in Data[file[h].path] : \E r \in {Write(v, file[h].fil, n, x)} :
       /\ Volume(r.v)
       /\ file' = [file EXCEPT ![h].fil = r.f]
       /\ ok' = ~r.full
  /\ UNCHANGED torn

\* ff_file_read()
FileRead(h, n) ==
  /\ Usable(file[h]) /\ h \notin Writers
  /\ \E r \in {Read(v, file[h].fil, n)} :
       /\ Volume(r.v)
       /\ file' = [file EXCEPT ![h].fil = r.f]
  /\ UNCHANGED <<ok, torn>>

\* What ff_file_seek() asks of f_lseek(): the sum is unsigned.
Target(f, off, whence) ==
  LET base == CASE whence = "set" -> 0 [] whence = "cur" -> f.fptr [] OTHER -> f.size
  IN  IF base + off < 0 THEN Beyond ELSE base + off

\* ff_file_seek()
FileSeek(h, off, whence) ==
  /\ Usable(file[h])
  /\ \E r \in {Seek(v, file[h].fil, Target(file[h].fil, off, whence))} :
       /\ Volume(r.v)
       /\ file' = [file EXCEPT ![h].fil = r.f]
       /\ ok' = TRUE
  /\ UNCHANGED torn

\* ff_file_close(): the handle is given back also when there is nothing to close.
FileClose(h) ==
  /\ file[h].open
  /\ \E w \in {IF Usable(file[h]) THEN SyncFile(v, file[h].fil).v ELSE v} : Volume(w)
  /\ file' = [file EXCEPT ![h] = Closed]
  /\ ok' = Usable(file[h])
  /\ UNCHANGED torn

-----------------------------------------------------------------------------
(* Looking: only the window moves *)

Looked(w) == (\E u \in {w} : Volume(u)) /\ UNCHANGED <<file, ok, torn>>

\* ff_read()
ReadWhole(p) ==
  LET Opened(o) == IF o.ok THEN Read(o.v, o.f, o.f.size).v ELSE o.v
  IN  Opened(Open(v, p, "r"))

ReadFile(p) == Enabled /\ p \notin writing /\ Looked(ReadWhole(p))

\* ff_stat(), ff_exists()
Stat(p) == Enabled /\ Looked(FollowPath(v, p).v)

EndOf(w, dir) ==
  LET es == Entries(w, dir)  zero == {i \in DOMAIN es : es[i] = Zero}
  IN  IF zero = {} THEN Len(es) + 1 ELSE CHOOSE i \in zero : \A j \in zero : i <= j

ScanAll(w, dir) == Scan(w, dir, 1, EndOf(w, dir))

\* ff_list()
List == Enabled /\ Looked(ScanAll(mount_volume(v), 0))

\* walk() of the telemetry: the root, and every directory where it is met.
Walk(w) ==
  LET es == Entries(w, 0)
  IN  MoveWindow(FoldLeft(LAMBDA u, e : IF e \in LiveIn(w, 0) /\ e.dir
                                        THEN ScanAll(MoveWindow(u, ROOT), e.clust) ELSE u,
                          MoveWindow(w, ROOT), es),
                 ROOT)

Committed == Enabled /\ Looked(Walk(mount_volume(v)))

\* ff_dir_open(), ff_dir_read() and ff_dir_close(): files only.
DirOpen(p) ==
  /\ Enabled
  /\ \E h \in FirstClosed(dirs), o \in {Opendir(v, p)} :
       /\ v' = o.v
       /\ dirs' = IF ~o.ok THEN dirs
                  ELSE [dirs EXCEPT ![h] =
                          [open |-> TRUE, valid |-> TRUE, path |-> p, d |-> o.d,
                           twice |-> FALSE, stayed |-> NamesIn(o.v, o.d.dir), listed |-> {}]]
  /\ UNCHANGED <<file, ok, torn>>

NextFile(w, d) ==
  FoldLeft(LAMBDA r, k : IF r.found /\ r.entry.dir THEN Readdir(r.v, r.d) ELSE r,
           Readdir(w, d), [k \in 1..(LastCluster * U) |-> k])

DirNext(h) ==
  /\ Usable(dirs[h])
  /\ \E r \in {NextFile(v, dirs[h].d)} :
       /\ v' = r.v
       /\ dirs' = [dirs EXCEPT ![h].d = r.d,
                     ![h].twice  = @ \/ (r.found /\ r.entry.of \in dirs[h].listed),
                     ![h].listed = IF r.found /\ ~r.byAlias
                                   THEN @ \cup ({r.entry.of} \cap dirs[h].stayed)
                                   ELSE @]
  /\ UNCHANGED <<file, ok, torn>>

DirClose(h) ==
  /\ dirs[h].open
  /\ dirs' = [dirs EXCEPT ![h] = Closed]
  /\ UNCHANGED <<v, file, ok, torn>>

-----------------------------------------------------------------------------
(* The volume itself: what is open does not survive *)

Invalidated == /\ file' = [h \in Files |-> Stale(file[h])]
               /\ dirs' = [h \in Dirs |-> Stale(dirs[h])]
               /\ ok' = TRUE

\* ff_format(), after runner.format() has reset the chip
Format ==
  /\ v' = [Unmounted(v, IF v.mount = "off" THEN "off" ELSE "formatted") EXCEPT !.disk = Mkfs]
  /\ torn' = FALSE
  /\ Invalidated

Taken == torn' = (torn \/ v.wflag \/ Writers # {})

\* ff_mount(), also of a volume that is mounted
Mount == v' = DoMount(v) /\ Taken /\ Invalidated

\* ff_unmount()
Unmount == Enabled /\ v' = Unmounted(v, "off") /\ Taken /\ Invalidated

-----------------------------------------------------------------------------

\* After boot: the chip is formatted and mounted.
Init ==
  /\ v = [disk |-> Mkfs, win |-> Blank, winsect |-> VBR, wflag |-> FALSE,
          last_clst |-> 0, mount |-> "mounted"]
  /\ file = [h \in Files |-> Closed]
  /\ dirs = [h \in Dirs |-> Closed]
  /\ ok = TRUE
  /\ torn = FALSE
  /\ store = [p \in Path |-> [is |-> "absent"]]

Call ==
  \/ \E p \in FilePath, n \in PutSize : \E x \in Data[p] : WriteFile(p, x, n)
  \/ \E p \in Path : Delete(p) \/ Stat(p)
  \/ \E p \in FilePath : ReadFile(p)
  \/ \E p \in DirPath : MakeDir(p)
  \/ \E p \in FilePath, mode \in {"r", "w", "a"} : FileOpen(p, mode)
  \/ \E h \in Files, n \in WriteSize : FileWrite(h, n)
  \/ \E h \in Files, n \in ReadSize : FileRead(h, n)
  \/ \E h \in Files, off \in Offset, whence \in {"set", "cur", "end"} : FileSeek(h, off, whence)
  \/ \E h \in Files : FileClose(h)
  \/ \E p \in ListPath : DirOpen(p)
  \/ \E h \in Dirs : DirNext(h) \/ DirClose(h)
  \/ List \/ Committed \/ Format \/ Mount \/ Unmount

Next == /\ Call
        /\ \E w \in {v'}, files \in {file'}, root \in {LiveIn(v', 0)} :
             store' = [p \in Path |-> Held(w, files, root, p)]

Spec == Init /\ [][Next]_vars

-----------------------------------------------------------------------------
(* Properties *)

\* A writer's place is within its file: f_write() and f_lseek() move the size
\* along with it.
TypeOK ==
  /\ v.winsect \in Sect \cup {NoWindow}
  /\ v.wflag \in BOOLEAN
  /\ v.last_clst \in 0..LastCluster
  /\ v.mount \in {"mounted", "formatted", "off"}
  /\ DOMAIN v.disk = Sect
  /\ \A c \in Cluster : v.disk[FAT][c] \in {FREE, EOC} \cup Cluster
  /\ \A h \in Writers : file[h].fil.fptr \in 0..file[h].fil.size
  /\ ok \in BOOLEAN /\ torn \in BOOLEAN

\* What owns clusters: directories, files that are being written, and files as
\* their entries have them.
Tables == {0} \cup {e.clust : e \in {d \in LiveIn(v, 0) : d.dir}}

CeilDiv(n) == (n + U - 1) \div U

BeingWritten(t, e) ==
  \E h \in Writers : /\ file[h].fil.dsect \in ToSet(DirSects(v, t))
                     /\ See(v, file[h].fil.dsect)[file[h].fil.dslot] = e

Owners ==
  {[id |-> <<"dir", t>>, clust |-> t, need |-> -1] : t \in Tables \ {0}}
  \cup {[id |-> <<"file", h>>, clust |-> file[h].fil.sclust,
         need |-> CeilDiv(file[h].fil.size)] : h \in Writers}
  \cup UNION {{[id |-> <<"entry", t, e.sfn>>, clust |-> e.clust, need |-> CeilDiv(e.size)] :
                 e \in {x \in LiveIn(v, t) : ~x.dir /\ ~BeingWritten(t, x)}} : t \in Tables}

\* No cluster belongs to two files or directories, every chain ends and is as
\* long as its file needs, and no cluster is lost: create_chain(), remove_chain()
\* and the calls that fail half way.  A writer from whom the volume was taken
\* may leave a chain that is too long and clusters that are lost, and no more.
ChainsSound ==
  LET fat == FatOf(v)
      Of(o) == Chain(fat, o.clust)
  IN  /\ \A o \in Owners :
           LET s == Of(o)
           IN  /\ o.clust # 0 => s # <<>> /\ fat[s[Len(s)]] = EOC
               /\ o.need = Len(s) \/ o.need = -1 \/ (torn /\ o.need < Len(s))
      /\ \A o1, o2 \in Owners : o1.id # o2.id => ToSet(Of(o1)) \cap ToSet(Of(o2)) = {}
      /\ torn \/ \A c \in Cluster : fat[c] # FREE => \E o \in Owners : c \in ToSet(Of(o))

PiecesBefore(es, i) ==
  \A j \in 1..(NEnt(es[i].of) - 1) :
    i - j >= 1 /\ es[i - j] = Piece(es[i].of, j, es[i].sfn)

\* In every directory, whatever was registered in it and removed from it in
\* deleted and stretched room: nothing follows its end, a name stands behind all
\* of its own pieces, no two entries have one short or one long name, and no
\* piece is left without its name (dir_alloc(), dir_register(), dir_remove()).
DirectoriesSound ==
  \A t \in Tables :
    LET es   == Entries(v, t)
        live == {i \in DOMAIN es : es[i].kind = "sfn"}
    IN  /\ \A i \in DOMAIN es : es[i] = Zero => \A j \in i..Len(es) : es[j] = Zero
        /\ \A i \in live : PiecesBefore(es, i)
        /\ \A i, j \in live : i # j => /\ es[i].sfn # es[j].sfn
                                       /\ Info[es[i].of].pieces # Info[es[j].of].pieces
        /\ torn \/ \A i \in DOMAIN es : es[i].kind = "lfn" =>
                     \E j \in live : j > i /\ j - i < NEnt(es[j].of)
        /\ t # 0 => es[1] = Dot(".", t) /\ es[2] = Dot("..", 0)

\* Between calls, and when no file is open for writing, all that was done is on
\* the chip, where a remount finds it and the map of the chip reads it, and the
\* copies of the FAT agree.  One thing is not: a cluster that f_mkdir() gave back
\* when its parent was full is still in use there until the next call that syncs.
ChipIsCurrent ==
  /\ v.disk[FAT2] = v.disk[FAT]
  /\ Writers = {} =>
       /\ \A s \in Sect \ {FAT, FAT2} : See(v, s) = v.disk[s]
       /\ \A c \in Cluster : \/ FatOf(v)[c] = v.disk[FAT][c]
                             \/ FatOf(v)[c] = FREE /\ v.disk[FAT][c] = EOC

\* Reading shows what was last written: a whole file that is opened now, and a
\* file that was opened for reading before any number of other calls, from the
\* buffer that it has kept.
ReadsAreCurrent ==
  v.mount = "mounted" =>
    /\ \A p \in FilePath \ writing :
         LET Shown(o) == /\ o.ok = (store[p].is = "file")
                         /\ o.ok => Read(o.v, o.f, Beyond).out = store[p].data
         IN  Shown(Open(v, p, "r"))
    /\ \A h \in Files \ Writers : Usable(file[h]) =>
         \A n \in ReadSize :
           LET f == file[h].fil  d == store[file[h].path].data
           IN  Read(v, f, n).out = SubSeq(d, f.fptr + 1, Lesser(f.fptr + n, Len(d)))

\* ff_dir_read() lists no file twice, and by its end it has listed every file
\* that was there all the time, by its own name and not by its generated short
\* one, whatever was created and deleted around its place meanwhile.
ListingIsComplete ==
  \A h \in Dirs : Usable(dirs[h]) =>
    /\ ~dirs[h].twice
    /\ dirs[h].d.from = 0 => dirs[h].stayed \subseteq dirs[h].listed

\* A write stops short only when there is no cluster left: the search of
\* create_chain() misses none, wherever it begins.
ShortOnlyWhenFull ==
  [][~ok' /\ store' # store => \A c \in Cluster : FatOf(v')[c] # FREE]_vars

\* Whatever is read off the chip after every call is a tree of files in which
\* the call has done what a file system promises: see FileStore.
Store == INSTANCE FileStore WITH Size <- PutSize \cup WriteSize

ImplementsFileStore == Store!Spec
=============================================================================
