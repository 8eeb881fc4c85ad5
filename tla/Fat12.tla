------------------------------- MODULE Fat12 -------------------------------
(***************************************************************************)
(* The FAT12 disks that Floppy.c makes of the files in a directory.        *)
(*                                                                         *)
(* A disk is two copies of the file allocation table, a directory, and the *)
(* clusters of its data.  Entries of the table have 12 bits: the even one  *)
(* and the odd one after it share three bytes.                             *)
(***************************************************************************)
EXTENDS Integers, Sequences, SequencesExt, FiniteSets, FiniteSetsExt

CONSTANTS
  DSK_FAT_SIZE,      \* clusters are 2 .. DSK_FAT_SIZE - 1
  DSK_DIR_SIZE,      \* entries of the directory, 112
  DSK_CLUSTER_SIZE,  \* bytes of a cluster, 1024
  NameLen, ExtLen,   \* of a file on the disk, 8 and 3
  toupper            \* characters of host names to capitals

VARIABLES
  made,  \* the disk that is being made of a directory, or NoDsk
  read   \* the files of the directory that have been read

ASSUME FatAssumption ==
  /\ DSK_FAT_SIZE \in 3 .. 4080 /\ DSK_DIR_SIZE \in Nat \ {0}
  /\ DSK_CLUSTER_SIZE \in Nat \ {0}
  /\ NameLen \in Nat \ {0} /\ ExtLen \in Nat

EndOfChain == 4095                  \* 0xFFF
Linked(j)  == j > 1 /\ j < 4081     \* 0xFF1
Unused     == <<>>                  \* the name in an entry that is all zeros
Deleted    == "E5"                  \* the character 0xE5
Erased(name) == [name EXCEPT ![1] = Deleted]

(***************************************************************************)
(* The three bytes at 3*(j>>1), and what the code reads of and puts in     *)
(* them for entry j.                                                       *)
(***************************************************************************)
At(j) == 3 * (j \div 2)
FatEntry(fat, j) ==
  IF j % 2 = 1 THEN fat[At(j) + 1] \div 16 + 16 * fat[At(j) + 2]
               ELSE fat[At(j)] + 256 * (fat[At(j) + 1] % 16)

Chained(fat, j, v) ==
  IF j % 2 = 1
  THEN [fat EXCEPT ![At(j) + 1] = (@ % 16) + 16 * (v % 16), ![At(j) + 2] = v \div 16]
  ELSE [fat EXCEPT ![At(j) + 1] = 16 * (@ \div 16) + v \div 256, ![At(j)] = v % 256]

\* Both copies get the bytes of the first one.
Chain(dsk, j, v) ==
  LET new == Chained(dsk.fat, j, v)
      from == IF j % 2 = 1 THEN 1 ELSE 0 IN
  [dsk EXCEPT
     !.fat = new,
     !.fat2 = [b \in DOMAIN @ |->
                 IF b \in At(j) + from .. At(j) + from + 1 THEN new[b] ELSE @[b]]]

FindFreeCluster(dsk, start) ==
  LET free == {j \in 2 .. DSK_FAT_SIZE - 1 : j >= start /\ FatEntry(dsk.fat, j) = 0}
  IN IF free = {} THEN 0 ELSE Min(free)

DSKCreate ==
  LET fat == [b \in 0 .. At(DSK_FAT_SIZE) + 2 |->
                CASE b = 0 -> 249 [] b \in {1, 2} -> 255 [] OTHER -> 0] IN
  [fat |-> fat,
   fat2 |-> [b \in DOMAIN fat |-> 0],
   dir |-> [id \in 1 .. DSK_DIR_SIZE |-> [name |-> Unused, first |-> 0, size |-> 0]],
   data |-> [j \in 2 .. DSK_FAT_SIZE - 1 |-> <<>>]]

\* Entries whose name starts with 0x00 or 0xE5 are free.
HasFile(dsk, id) == dsk.dir[id].name # Unused /\ dsk.dir[id].name[1] # Deleted

(***************************************************************************)
(* Loops over the clusters of a file, as functions of the number of turns: *)
(* a turn after the loop has ended changes nothing.                        *)
(***************************************************************************)
Turns == DSK_FAT_SIZE
Ended(loop) == loop[Turns]

DSKDelete(dsk, id) ==
  LET walk[n \in 0 .. Turns] ==
        IF n = 0 THEN [dsk |-> dsk, j |-> dsk.dir[id].first]
        ELSE LET w == walk[n - 1]
                 next == FatEntry(w.dsk.fat, w.j) IN
             IF ~Linked(w.j) THEN w
             ELSE [dsk |-> IF next < 4081 \/ next > 4087
                           THEN Chain(w.dsk, w.j, 0) ELSE w.dsk,
                   j |-> next]
  IN IF HasFile(dsk, id)
     THEN [Ended(walk).dsk EXCEPT !.dir[id].name = Erased(dsk.dir[id].name)] ELSE dsk

DSKRead(dsk, id) ==
  LET size == dsk.dir[id].size
      walk[n \in 0 .. Turns] ==
        IF n = 0 THEN [read |-> <<>>, j |-> dsk.dir[id].first]
        ELSE LET w == walk[n - 1]
                 left == size - Len(w.read) IN
             IF left <= 0 \/ ~Linked(w.j) THEN w
             ELSE [read |-> w.read \o
                            SubSeq(dsk.data[w.j], 1, Min({left, DSK_CLUSTER_SIZE})),
                   j |-> FatEntry(dsk.fat, w.j)]
  IN Ended(walk).read

\* The disk after DSKWrite() and the number of bytes written.
Writing(dsk, start, buf) ==
  LET walk[n \in 0 .. Turns] ==
        IF n = 0 THEN [dsk |-> dsk, j |-> start, written |-> 0]
        ELSE LET w == walk[n - 1]
                 upto == Min({w.written + DSK_CLUSTER_SIZE, Len(buf)})
                 free == IF upto < Len(buf) THEN FindFreeCluster(w.dsk, w.j + 1) ELSE 0
                 next == IF free = 0 THEN EndOfChain ELSE free IN
             IF w.j = EndOfChain \/ w.written >= Len(buf) THEN w
             ELSE [dsk |-> Chain([w.dsk EXCEPT
                             !.data[w.j] = SubSeq(buf, w.written + 1, upto)], w.j, next),
                   j |-> next,
                   written |-> upto]
  IN Ended(walk)

DSKWrite(dsk, id, buf) ==
  LET empty == [DSKDelete(dsk, id) EXCEPT !.dir[id].name = dsk.dir[id].name]
      start == FindFreeCluster(empty, 2)
      w == Writing([empty EXCEPT !.dir[id].first = start], start, buf) IN
  IF ~HasFile(dsk, id) THEN [dsk |-> dsk, written |-> 0]
  ELSE IF start = 0 THEN [dsk |-> DSKDelete(empty, id), written |-> 0]
  ELSE [dsk |-> [w.dsk EXCEPT !.dir[id].size = w.written], written |-> w.written]

\* The ID DSKFile() gives a new file, 0 if the name or all entries are taken.
NewID(dsk, name) ==
  LET free == {id \in DOMAIN dsk.dir : ~HasFile(dsk, id)} IN
  IF free = {} \/ \E id \in DOMAIN dsk.dir \ free : dsk.dir[id].name = name
  THEN 0 ELSE Min(free)
DSKFile(dsk, name) ==
  [dsk EXCEPT !.dir[NewID(dsk, name)] =
     [name |-> name, first |-> FindFreeCluster(dsk, 2), size |-> 0]]

(***************************************************************************)
(* DSKLoad().  Host names are cut at the first dot, and padded with blanks. *)
(***************************************************************************)
Padded(s, n) == [k \in 1 .. n |-> IF k <= Len(s) THEN toupper[s[k]] ELSE " "]
Name83(host) ==
  LET dots == {k \in DOMAIN host : host[k] = "."}
      dot == IF dots = {} THEN Len(host) + 1 ELSE Min(dots) IN
  Padded(SubSeq(host, 1, dot - 1), NameLen)
    \o Padded(SubSeq(host, dot + 1, Len(host)), ExtLen)

\* One turn of the loop over the directory, for a file [name, bytes].
WithFile_KeepsCut(dsk, f) ==
  LET id == NewID(dsk, Name83(f.name)) IN
  IF f.bytes = <<>> \/ id = 0 THEN dsk
  ELSE DSKWrite(DSKFile(dsk, Name83(f.name)), id, f.bytes).dsk
WithFile(dsk, f) ==
  LET id == NewID(dsk, Name83(f.name))
      w == DSKWrite(DSKFile(dsk, Name83(f.name)), id, f.bytes) IN
  IF f.bytes = <<>> \/ id = 0 THEN dsk
  ELSE IF w.written = Len(f.bytes) THEN w.dsk ELSE DSKDelete(w.dsk, id)

(***************************************************************************)
(* The files of a directory are read in any order, as the host lists them. *)
(***************************************************************************)
NoDsk == [fat |-> <<>>]

StartDSK ==
  /\ made = NoDsk
  /\ made' = DSKCreate /\ read' = {}
AddFile(f) ==
  /\ made # NoDsk /\ f \notin read
  /\ made' = WithFile(made, f) /\ read' = read \cup {f}
EndDSK ==
  /\ made # NoDsk
  /\ made' = NoDsk /\ read' = {}

DSKLoad(files) ==
  /\ made = NoDsk /\ read = {}
  /\ [][StartDSK \/ EndDSK \/ \E f \in files : AddFile(f)]_<<made, read>>

(***************************************************************************)
(* What a directory promises of the disk that is made of it.               *)
(***************************************************************************)
\* The clusters of a file, in their order.
Chains(d, id) ==
  LET walk[n \in 0 .. Turns] ==
        IF n = 0 THEN <<>>
        ELSE LET c == walk[n - 1]
                 j == IF c = <<>> THEN d.dir[id].first ELSE FatEntry(d.fat, c[Len(c)]) IN
             IF Linked(j) THEN Append(c, j) ELSE c
  IN walk[Turns]

Clusters == 2 .. DSK_FAT_SIZE - 1
FreeClusters(d) == {j \in Clusters : FatEntry(d.fat, j) = 0}
FileIDs(d) == {id \in DOMAIN d.dir : HasFile(d, id)}

NamesDiffer(d) == \A i, k \in FileIDs(d) : i # k => d.dir[i].name # d.dir[k].name
\* A file on the disk is one that has been read.
ReadBack(d) ==
  \A id \in FileIDs(d) : \E f \in read :
    Name83(f.name) = d.dir[id].name /\ DSKRead(d, id) = f.bytes
\* A file that is not there is empty, or has no name, no entry or no room left;
\* a name that starts with the character 0xE5 is taken for that of a deleted file.
NoneMissing(d) ==
  \A f \in read :
    \/ f.bytes = <<>> \/ Name83(f.name)[1] = Deleted
    \/ \E id \in FileIDs(d) : d.dir[id].name = Name83(f.name)
    \/ FileIDs(d) = DOMAIN d.dir
    \/ Len(f.bytes) > DSK_CLUSTER_SIZE * Cardinality(FreeClusters(d))
InOneFile(d) ==
  \A j \in Clusters \ FreeClusters(d) :
    Cardinality({x \in FileIDs(d) \X (1 .. DSK_FAT_SIZE) :
      x[2] \in DOMAIN Chains(d, x[1]) /\ Chains(d, x[1])[x[2]] = j}) = 1
TablesAgree(d) == \A b \in DOMAIN d.fat : b > 2 => d.fat2[b] = d.fat[b]

\* Every file that has been read can be read back from the disk by its name,
\* unless it is empty, its name starts with 0xE5, another one has its name, or
\* there is no entry or no room for it; no cluster is in two files or in none,
\* and the second table is a copy of the first one but for its first three bytes.
FilesOnDisk ==
  made # NoDsk =>
    /\ NamesDiffer(made) /\ ReadBack(made) /\ NoneMissing(made)
    /\ InOneFile(made) /\ TablesAgree(made)
============================================================================
