--------------------------- MODULE DiskControlProofs ---------------------------
(***************************************************************************)
(* Proofs about DiskControl, and from "Entries of the file allocation      *)
(* table" on about Fat12: the disks that are made of directories.          *)
(***************************************************************************)
EXTENDS DiskControl, Fat12, SequenceTheorems, FiniteSetTheorems,
        WellFoundedInduction, TLAPS

(***************************************************************************)
(* Types                                                                   *)
(***************************************************************************)
Indices == 0 .. MAXDISKS - 1
Short(S) == {s \in Seq(S) : Len(s) <= MAXDISKS}
Patches == [dir : Short(Indices), slot : [1 .. MAXDISKS -> Contents \cup {Nothing}]]
Files   == [Images -> Contents \cup {Nothing}]
Cores   == [paths : Short(Images), index : 0 .. MAXDISKS, inserted : BOOLEAN,
            name : Images, disk : Disk, dirty : Nat,
            sram : {NoSram} \cup Patches, ptr : 0 .. MAXDISKS, patched : BOOLEAN]

\* What keeps the directory of the SRAM within its MAXDISKS entries.
Whole(c) ==
  /\ c \in Cores
  /\ IsInjective(c.sram.dir)
  /\ c.disk # Empty /\ c.paths # <<>> => c.index < Len(c.paths)
  /\ c.dirty > 0 => c.disk # Empty
  /\ c.sram = NoSram => c.ptr = 0
Slotted(m, k, c) ==
  /\ k \in {"m3u", "dsk"}
  /\ k = "m3u" => c.paths # <<>> /\ (m = "sram" => c.sram # NoSram)
  /\ k = "dsk" => c.paths = <<>>
TypedState ==
  /\ mode \in Modes /\ kind \in Kinds
  /\ phase \in {"off", "loaded", "running", "closing"}
  /\ file \in Files /\ srm \in {NoSram} \cup Patches /\ IsInjective(srm.dir)
  /\ writes \in 0 .. MaxWrites /\ latest \in [Images -> Contents]
Typed ==
  /\ TypedState /\ Whole(core) /\ core.dirty < fps
  /\ IF phase = "off" THEN core = CoreOff ELSE Slotted(mode, kind, core)

LEMMA Ground ==
  /\ MAXDISKS \in Nat /\ MAXDISKS >= 1 /\ Playlist \in Short(Images)
  /\ Playlist # <<>> /\ IsInjective(Playlist)
  /\ MaxWrites \in Nat /\ fps \in Nat /\ fps >= 2
  /\ Single \in Images /\ Appendable \subseteq Images
  /\ Nothing \notin Contents
  /\ \A i \in Images : <<i, 0>> \in Contents
<1>1. MAXDISKS \in Nat /\ MaxWrites \in Nat /\ fps \in Nat /\ fps >= 2 /\ Single \in Images
      /\ Appendable \subseteq Images /\ Playlist # <<>> /\ IsInjective(Playlist)
      /\ Playlist \in Short(Images)
  BY ImageAssumption, OptionAssumption DEF Short
<1>2. Len(Playlist) \in Nat \ {0} /\ Len(Playlist) <= MAXDISKS
  BY <1>1, EmptySeq DEF Short
<1>3. Nothing \notin Contents
  BY ImageAssumption DEF Contents, Nothing
<1>4. \A i \in Images : <<i, 0>> \in Contents
  BY <1>1 DEF Contents
<1> QED BY <1>1, <1>2, <1>3, <1>4

\* Sequences of bounded length, as the type invariant writes them.
LEMMA Shorts ==
  ASSUME NEW S
  PROVE  Short(S) = UNION {[1 .. n -> S] : n \in 0 .. MAXDISKS}
<1>1. ASSUME NEW s \in Short(S) PROVE s \in UNION {[1 .. n -> S] : n \in 0 .. MAXDISKS}
  <2>1. s \in [1 .. Len(s) -> S] /\ Len(s) \in 0 .. MAXDISKS
    BY Ground, LenProperties DEF Short
  <2> QED BY <2>1
<1>2. ASSUME NEW s \in UNION {[1 .. n -> S] : n \in 0 .. MAXDISKS} PROVE s \in Short(S)
  <2>1. PICK n \in 0 .. MAXDISKS : s \in [1 .. n -> S]
    OBVIOUS
  <2>2. n \in Nat /\ s \in Seq(S)
    BY <2>1, Ground, SeqDef
  <2>3. Len(s) = n
    BY <2>1, <2>2, LenProperties
  <2> QED BY <2>2, <2>3 DEF Short
<1> QED BY <1>1, <1>2

LEMMA SramTypes ==
  /\ Sram = {NoSram} \cup Patches
  /\ NoSram \notin Patches
  /\ BlankSram \in Patches
  /\ IsInjective(NoSram.dir) /\ IsInjective(BlankSram.dir)
  /\ BlankSram.dir = <<>>
<1>1. Sram = {NoSram} \cup Patches
  BY Shorts DEF Sram, Patches, Indices
<1>2. NoSram.dir = <<-1>> /\ BlankSram.dir = <<>>
  BY DEF NoSram, BlankSram
<1>3. NoSram \notin Patches
  <2> SUFFICES ASSUME NoSram \in Patches PROVE FALSE
    OBVIOUS
  <2>1. <<-1>> \in Seq(Indices)
    BY <1>2 DEF Patches, Short
  <2>2. -1 \in Indices
    BY <2>1, ElementOfSeq
  <2> QED BY <2>2, Ground DEF Indices
<1>4. <<>> \in Short(Indices)
  BY EmptySeq, Ground DEF Short
<1>5. BlankSram \in Patches
  BY <1>4 DEF BlankSram, Patches
<1>6. IsInjective(NoSram.dir) /\ IsInjective(BlankSram.dir)
  BY <1>2 DEF IsInjective
<1> QED BY <1>1, <1>2, <1>3, <1>5, <1>6

\* The state of the core is a record with these fields.
LEMMA TypedIsTypeOK == ASSUME Typed PROVE TypeOK
<1>1. core \in Cores /\ core.dirty < fps
  BY DEF Typed, Whole
<1>2. core.paths \in UNION {[1 .. n -> Images] : n \in 0 .. MAXDISKS}
  BY <1>1, Shorts DEF Cores
<1>3. core.sram \in Sram /\ srm \in Sram
  BY <1>1, SramTypes DEF Cores, Typed, TypedState
<1>4. core.dirty \in 0 .. fps - 1
  BY <1>1, Ground DEF Cores
<1> QED BY <1>1, <1>2, <1>3, <1>4 DEF Cores, Typed, TypedState, TypeOK, Files

(***************************************************************************)
(* The directory                                                           *)
(***************************************************************************)
Named(c) == \E r \in DOMAIN c.sram.dir : c.sram.dir[r] = c.index

LEMMA Slots ==
  ASSUME NEW c \in Cores, c.sram \in Patches
  PROVE  /\ Len(c.sram.dir) \in 0 .. MAXDISKS /\ DOMAIN c.sram.dir = 1 .. Len(c.sram.dir)
         /\ SlotOf(c) \in 1 .. Len(c.sram.dir) + 1
         /\ SlotOf(c) <= Len(c.sram.dir) <=> Named(c)
         /\ Named(c) => c.sram.dir[SlotOf(c)] = c.index
<1>1. c.sram.dir \in Seq(Indices) /\ Len(c.sram.dir) <= MAXDISKS
  BY DEF Patches, Short
<1>2. Len(c.sram.dir) \in Nat /\ DOMAIN c.sram.dir = 1 .. Len(c.sram.dir)
  BY <1>1, LenProperties
<1>3. CASE Named(c)
  <2>1. SlotOf(c) \in DOMAIN c.sram.dir /\ c.sram.dir[SlotOf(c)] = c.index
    BY <1>3 DEF Named, SlotOf
  <2> QED BY <1>1, <1>2, <1>3, <2>1, Ground
<1>4. CASE ~Named(c)
  <2>1. SlotOf(c) = Len(c.sram.dir) + 1
    BY <1>4 DEF Named, SlotOf
  <2> QED BY <1>1, <1>2, <1>4, <2>1, Ground
<1> QED BY <1>3, <1>4

\* A directory in which an index is missing has room for it.
LEMMA Room ==
  ASSUME NEW dir \in Short(Indices), IsInjective(dir),
         NEW n \in Indices, \A r \in DOMAIN dir : dir[r] # n
  PROVE  Len(dir) < MAXDISKS
<1> DEFINE S == 1 .. Len(dir)
           T == Indices \ {n}
<1>1. Len(dir) \in Nat /\ dir \in [S -> Indices] /\ DOMAIN dir = S
  BY LenProperties DEF Short
<1>2. dir \in [S -> T]
  BY <1>1
<1>3. IsFiniteSet(S) /\ Cardinality(S) = Len(dir)
  <2>1. Len(dir) \in Int /\ 1 \in Int
    BY <1>1
  <2>2. IsFiniteSet(1 .. Len(dir))
        /\ Cardinality(1 .. Len(dir)) = IF 1 > Len(dir) THEN 0 ELSE Len(dir) - 1 + 1
    BY <2>1, FS_Interval
  <2>3. IsFiniteSet(S)
    BY <2>2
  <2>4. Cardinality(S) = IF 1 > Len(dir) THEN 0 ELSE Len(dir) - 1 + 1
    BY <2>2
  <2> HIDE DEF S
  <2>5. Cardinality(S) = Len(dir)
    BY <1>1, <2>4
  <2> QED BY <2>3, <2>5
<1>4. IsFiniteSet(T) /\ Cardinality(T) = MAXDISKS - 1
  <2>1. IsFiniteSet(0 .. MAXDISKS - 1)
        /\ Cardinality(0 .. MAXDISKS - 1) = IF 0 > MAXDISKS - 1 THEN 0 ELSE MAXDISKS - 1 - 0 + 1
    BY Ground, FS_Interval
  <2>2. IsFiniteSet(Indices) /\ Cardinality(Indices) = MAXDISKS
    BY <2>1, Ground DEF Indices
  <2> QED BY <2>2, FS_RemoveElement
<1>5. \A x, y \in S : dir[x] = dir[y] => x = y
  BY <1>1 DEF IsInjective
<1> HIDE DEF S, T
<1>6. ~(Cardinality(T) < Cardinality(S))
  <2> SUFFICES ASSUME Cardinality(T) < Cardinality(S) PROVE FALSE
    OBVIOUS
  <2>1. \E x, y \in S : x # y /\ dir[x] = dir[y]
    BY <1>2, <1>3, <1>4, FS_PigeonHole
  <2> QED BY <2>1, <1>5
<1> QED BY <1>1, <1>3, <1>4, <1>6, Ground

\* d differs from c in the SRAM and where the pointer is.
SameButSram(c, d) ==
  /\ d.paths = c.paths /\ d.index = c.index /\ d.inserted = c.inserted /\ d.name = c.name
  /\ d.disk = c.disk /\ d.patched = c.patched

LEMMA DiskFields ==
  ASSUME NEW c \in Cores
  PROVE  /\ c.disk # Empty => c.disk.in \in Images /\ c.disk.data \in Contents
         /\ c.sram # NoSram => c.sram \in Patches
         /\ c.paths \in Seq(Images) /\ Len(c.paths) \in 0 .. MAXDISKS
         /\ c.paths = <<>> <=> Len(c.paths) = 0
         /\ c.index \in Nat
<1>1. c.disk # Empty => c.disk.in \in Images /\ c.disk.data \in Contents
  BY DEF Cores, Disk
<1>2. c.paths \in Seq(Images) /\ Len(c.paths) <= MAXDISKS
  BY DEF Cores, Short
<1>3. Len(c.paths) \in Nat
  BY <1>2, LenProperties
<1>4. c.paths = <<>> <=> Len(c.paths) = 0
  BY <1>2, <1>3, EmptySeq
<1> QED BY <1>1, <1>2, <1>3, <1>4, Ground DEF Cores

LEMMA ListedFields ==
  ASSUME NEW c \in Cores, IsInjective(c.sram.dir), c.sram \in Patches,
         c.paths # <<>>, c.index < Len(c.paths)
  PROVE  /\ Listed(c) \in Cores /\ SameButSram(c, Listed(c))
         /\ Listed(c).dirty = c.dirty
         /\ Listed(c).ptr = SlotOf(c) /\ SlotOf(c) \in 1 .. MAXDISKS
         /\ Listed(c).sram \in Patches
         /\ Listed(c).sram.slot = c.sram.slot
         /\ IsInjective(Listed(c).sram.dir)
         /\ Listed(c).sram.dir = IF Named(c) THEN c.sram.dir ELSE Append(c.sram.dir, c.index)
<1> DEFINE dir == IF Named(c) THEN c.sram.dir ELSE Append(c.sram.dir, c.index)
           s == [c.sram EXCEPT !.dir = dir]
<1>1. c.index \in Indices
  BY DiskFields, Ground DEF Indices
<1>2. c.sram.dir \in Short(Indices) /\ c.sram.dir \in Seq(Indices)
  BY DEF Patches, Short
<1>3. dir \in Short(Indices) /\ IsInjective(dir) /\ SlotOf(c) \in 1 .. MAXDISKS
  <2>1. CASE Named(c)
    BY <1>2, <2>1, Slots, Ground
  <2>2. CASE ~Named(c)
    <3>1. Len(c.sram.dir) < MAXDISKS
      BY <1>1, <1>2, <2>2, Room DEF Named
    <3>2. /\ Append(c.sram.dir, c.index) \in Seq(Indices)
          /\ Len(Append(c.sram.dir, c.index)) = Len(c.sram.dir) + 1
          /\ \A i \in 1 .. Len(c.sram.dir) : Append(c.sram.dir, c.index)[i] = c.sram.dir[i]
          /\ Append(c.sram.dir, c.index)[Len(c.sram.dir) + 1] = c.index
      BY <1>1, <1>2, AppendProperties
    <3>3. DOMAIN Append(c.sram.dir, c.index) = 1 .. Len(c.sram.dir) + 1
          /\ DOMAIN c.sram.dir = 1 .. Len(c.sram.dir) /\ Len(c.sram.dir) \in Nat
      BY <1>2, <3>2, LenProperties
    <3>4. dir = Append(c.sram.dir, c.index)
      BY <2>2
    <3> HIDE DEF dir
    <3>5. dir \in Short(Indices)
      BY <3>1, <3>2, <3>3, <3>4, Ground DEF Short
    <3>6. IsInjective(dir)
      BY <3>2, <3>3, <3>4, <2>2 DEF IsInjective, Named
    <3>7. SlotOf(c) \in 1 .. MAXDISKS
      BY <2>2, <3>1, Slots, Ground
    <3> QED BY <3>5, <3>6, <3>7
  <2> QED BY <2>1, <2>2
<1>4. Listed(c) = [c EXCEPT !.ptr = SlotOf(c), !.sram = s]
  <2>1. SlotOf(c) > Len(c.sram.dir) <=> ~Named(c)
    BY Slots
  <2> QED BY <2>1 DEF Listed
<1>5. s \in Patches /\ s.slot = c.sram.slot /\ s.dir = dir
  BY <1>3 DEF Patches
<1> HIDE DEF s, dir
<1> DEFINE at == SlotOf(c)
<1>a. at \in 0 .. MAXDISKS /\ at = SlotOf(c)
  BY <1>3, Ground
<1> HIDE DEF at
<1>6. Listed(c) \in Cores /\ Listed(c).sram = s /\ Listed(c).ptr = SlotOf(c)
  BY <1>a, <1>4, <1>5 DEF Cores
<1>7. SameButSram(c, Listed(c)) /\ Listed(c).dirty = c.dirty
  BY <1>4 DEF Cores, SameButSram
<1>8. dir = IF Named(c) THEN c.sram.dir ELSE Append(c.sram.dir, c.index)
  BY DEF dir
<1> QED BY <1>3, <1>5, <1>6, <1>7, <1>8

LEMMA StoredFields ==
  ASSUME NEW c \in Cores, c.sram \in Patches, c.disk # Empty, c.ptr # 0
  PROVE  /\ StoredInSram(c) \in Cores /\ SameButSram(c, StoredInSram(c))
         /\ StoredInSram(c).dirty = c.dirty
         /\ StoredInSram(c).ptr = c.ptr
         /\ StoredInSram(c).sram \in Patches
         /\ StoredInSram(c).sram.dir = c.sram.dir
         /\ \A r \in 1 .. MAXDISKS : StoredInSram(c).sram.slot[r] =
               IF r = c.ptr THEN c.disk.data ELSE c.sram.slot[r]
<1> DEFINE slot == [c.sram.slot EXCEPT ![c.ptr] = c.disk.data]
           s == [c.sram EXCEPT !.slot = slot]
<1>1. c.disk.data \in Contents /\ c.sram.slot \in [1 .. MAXDISKS -> Contents \cup {Nothing}]
      /\ c.ptr \in 1 .. MAXDISKS
  BY DiskFields, Ground DEF Patches, Cores
<1>2. slot \in [1 .. MAXDISKS -> Contents \cup {Nothing}]
      /\ \A r \in 1 .. MAXDISKS : slot[r] = IF r = c.ptr THEN c.disk.data ELSE c.sram.slot[r]
  BY <1>1
<1>3. StoredInSram(c) = [c EXCEPT !.sram = s]
  BY DEF StoredInSram
<1> HIDE DEF slot
<1>4. s \in Patches /\ s.slot = slot /\ s.dir = c.sram.dir
  BY <1>2 DEF Patches
<1> HIDE DEF s
<1>5. StoredInSram(c) \in Cores /\ StoredInSram(c).sram = s /\ StoredInSram(c).ptr = c.ptr
  BY <1>3, <1>4 DEF Cores
<1>6. SameButSram(c, StoredInSram(c)) /\ StoredInSram(c).dirty = c.dirty
  BY <1>3 DEF Cores, SameButSram
<1> QED BY <1>2, <1>4, <1>5, <1>6

(***************************************************************************)
(* flush_disk()                                                            *)
(***************************************************************************)
\* Where a flush puts the disk: the SRAM, in the slot of its index or, for a
\* .dsk game, in the slot that ptr points to.
FlushesTo(c, d) ==
  LET at == IF c.paths = <<>> THEN c.ptr ELSE SlotOf(c) IN
  /\ c.sram \in Patches => d.sram \in Patches
  /\ c.sram = NoSram => d.sram = NoSram
  /\ d.ptr = at /\ at \in 0 .. MAXDISKS /\ (c.paths # <<>> => at # 0)
  /\ c.sram # NoSram =>
       d.sram.dir = IF c.paths = <<>> \/ Named(c) THEN c.sram.dir
                    ELSE Append(c.sram.dir, c.index)
  /\ IsInjective(d.sram.dir)
  /\ c.sram # NoSram =>
       \A r \in 1 .. MAXDISKS : d.sram.slot[r] =
          IF r = at THEN c.disk.data ELSE c.sram.slot[r]

LEMMA StoredListed ==
  ASSUME NEW c, Whole(c), c.disk # Empty, c.paths # <<>> => c.sram # NoSram
  PROVE  /\ StoredInSram(Listed(c)) \in Cores
         /\ SameButSram(c, StoredInSram(Listed(c)))
         /\ StoredInSram(Listed(c)).dirty = c.dirty
         /\ FlushesTo(c, StoredInSram(Listed(c)))
<1> DEFINE l == Listed(c)
           d == StoredInSram(l)
<1>1. c \in Cores /\ IsInjective(c.sram.dir) /\ (c.paths # <<>> => c.index < Len(c.paths))
      /\ c.ptr \in 0 .. MAXDISKS /\ (c.sram = NoSram => c.ptr = 0)
      /\ (c.sram # NoSram => c.sram \in Patches)
  BY DiskFields DEF Whole, Cores
<1>2. CASE c.paths # <<>>
  <2>1. c.sram \in Patches /\ c.sram # NoSram
    BY <1>1, <1>2
  <2>2. /\ l \in Cores /\ SameButSram(c, l) /\ l.dirty = c.dirty
        /\ l.ptr = SlotOf(c) /\ SlotOf(c) \in 1 .. MAXDISKS
        /\ l.sram \in Patches /\ l.sram.slot = c.sram.slot /\ IsInjective(l.sram.dir)
        /\ l.sram.dir = IF Named(c) THEN c.sram.dir ELSE Append(c.sram.dir, c.index)
    BY <1>1, <1>2, <2>1, ListedFields
  <2> HIDE DEF l
  <2>3. l.disk # Empty /\ l.ptr # 0 /\ l.disk = c.disk
    BY <2>2 DEF SameButSram
  <2>4. /\ d \in Cores /\ SameButSram(l, d) /\ d.dirty = l.dirty /\ d.ptr = l.ptr
        /\ d.sram \in Patches /\ d.sram.dir = l.sram.dir
        /\ \A r \in 1 .. MAXDISKS : d.sram.slot[r] =
              IF r = l.ptr THEN l.disk.data ELSE l.sram.slot[r]
    BY <2>2, <2>3, StoredFields
  <2> HIDE DEF d
  <2>5. SameButSram(c, d) /\ d.dirty = c.dirty
    BY <2>2, <2>4 DEF SameButSram
  <2>6. FlushesTo(c, d)
    <3>1. \A r \in 1 .. MAXDISKS : d.sram.slot[r] =
            IF r = SlotOf(c) THEN c.disk.data ELSE c.sram.slot[r]
      BY <2>2, <2>3, <2>4
    <3>2. d.sram.dir = IF Named(c) THEN c.sram.dir ELSE Append(c.sram.dir, c.index)
      BY <2>2, <2>4
    <3>3. d.ptr = SlotOf(c) /\ SlotOf(c) \in 0 .. MAXDISKS /\ SlotOf(c) # 0
          /\ IsInjective(d.sram.dir) /\ d.sram \in Patches
      BY <2>2, <2>4, Ground
    <3> QED BY <3>1, <3>2, <3>3, <2>1, <1>2 DEF FlushesTo
  <2> QED BY <2>4, <2>5, <2>6 DEF d, l
<1>3. CASE c.paths = <<>> /\ c.ptr # 0
  <2>1. c.sram \in Patches /\ c.sram # NoSram /\ l = c
    BY <1>1, <1>3 DEF Listed
  <2>2. /\ d \in Cores /\ SameButSram(c, d) /\ d.dirty = c.dirty /\ d.ptr = c.ptr
        /\ d.sram \in Patches /\ d.sram.dir = c.sram.dir
        /\ \A r \in 1 .. MAXDISKS : d.sram.slot[r] =
              IF r = c.ptr THEN c.disk.data ELSE c.sram.slot[r]
    BY <1>1, <1>3, <2>1, StoredFields
  <2> HIDE DEF d
  <2>3. FlushesTo(c, d)
    BY <1>1, <1>3, <2>1, <2>2 DEF FlushesTo
  <2> QED BY <2>2, <2>3 DEF d
<1>4. CASE c.paths = <<>> /\ c.ptr = 0
  <2>1. d = c
    BY <1>4 DEF Listed, StoredInSram
  <2> HIDE DEF d
  <2>2. c.sram # NoSram => c.sram.slot \in [1 .. MAXDISKS -> Contents \cup {Nothing}]
    BY <1>1 DEF Patches
  <2>3. \A r \in 1 .. MAXDISKS : r # c.ptr
    BY <1>4
  <2>4. FlushesTo(c, d)
    BY <1>1, <1>4, <2>1, <2>3 DEF FlushesTo
  <2> QED BY <1>1, <2>1, <2>4 DEF SameButSram, d
<1> QED BY <1>2, <1>3, <1>4

\* What flush_disk() does to the core and the files.
Flushes(c, f) == c.dirty > 0 /\ mode # "never"
LEMMA FlushedFields ==
  ASSUME NEW c, NEW f \in Files, Whole(c), mode = "sram" /\ c.paths # <<>> => c.sram # NoSram
  PROVE  /\ Whole(Flushed(c, f)) /\ SameButSram(c, Flushed(c, f))
         /\ mode # "never" => Flushed(c, f).dirty = 0
         /\ Flushed(c, f).dirty <= c.dirty
         /\ Flushed(c, f).sram = NoSram <=> c.sram = NoSram
         /\ Flushes(c, f) /\ ToSram(c, f) => FlushesTo(c, Flushed(c, f))
         /\ ~(Flushes(c, f) /\ ToSram(c, f)) =>
              Flushed(c, f).sram = c.sram /\ Flushed(c, f).ptr = c.ptr
<1> DEFINE F == Flushed(c, f)
<1>1. c \in Cores /\ c.dirty \in Nat /\ (c.dirty > 0 => c.disk # Empty)
  BY DEF Whole, Cores
<1>2. CASE ~Flushes(c, f)
  <2>1. F = c
    BY <1>1, <1>2 DEF Flushed, Flushes
  <2> HIDE DEF F
  <2> QED BY <1>1, <1>2, <2>1 DEF SameButSram, Flushes, F
<1>3. CASE Flushes(c, f) /\ ~ToSram(c, f)
  <2>1. F = [c EXCEPT !.dirty = 0]
    BY <1>1, <1>3 DEF Flushed, Flushes
  <2> HIDE DEF F
  <2>2. F \in Cores /\ SameButSram(c, F) /\ F.dirty = 0 /\ F.sram = c.sram /\ F.ptr = c.ptr
    BY <1>1, <2>1 DEF Cores, SameButSram
  <2>3. Whole(F)
    BY <2>2 DEF Whole, SameButSram
  <2> QED BY <1>1, <1>3, <2>2, <2>3 DEF F
<1>4. CASE Flushes(c, f) /\ ToSram(c, f)
  <2> DEFINE d == StoredInSram(Listed(c))
  <2>1. c.disk # Empty /\ (c.paths # <<>> => c.sram # NoSram)
    BY <1>1, <1>4 DEF Flushes, ToSram
  <2>2. d \in Cores /\ SameButSram(c, d) /\ d.dirty = c.dirty /\ FlushesTo(c, d)
    BY <2>1, StoredListed
  <2>3. F = [d EXCEPT !.dirty = 0]
    BY <1>1, <1>4 DEF Flushed, Flushes
  <2> HIDE DEF F, d
  <2>4. F \in Cores /\ SameButSram(c, F) /\ F.dirty = 0 /\ F.sram = d.sram /\ F.ptr = d.ptr
    BY <2>2, <2>3 DEF Cores, SameButSram
  <2>5. FlushesTo(c, F)
    BY <2>2, <2>4 DEF FlushesTo
  <2>6. F.sram = NoSram <=> c.sram = NoSram
    BY <1>1, <2>5, SramTypes, DiskFields DEF FlushesTo
  <2>7. Whole(F)
    <3>1. c.disk # Empty /\ c.paths # <<>> => c.index < Len(c.paths)
      BY DEF Whole
    <3>2. F.sram = NoSram => F.ptr = 0
      <4> SUFFICES ASSUME F.sram = NoSram PROVE F.ptr = 0
        OBVIOUS
      <4>1. c.sram = NoSram
        BY <2>6
      <4>2. c.ptr = 0 /\ c.paths = <<>>
        BY <4>1, <2>1 DEF Whole
      <4> QED BY <4>2, <2>5 DEF FlushesTo
    <3> QED BY <2>4, <2>5, <3>1, <3>2 DEF Whole, SameButSram, FlushesTo
  <2> QED BY <1>1, <1>4, <2>4, <2>5, <2>6, <2>7 DEF F
<1> QED BY <1>2, <1>3, <1>4

LEMMA FilesFlushedType ==
  ASSUME NEW c, NEW f \in Files, Whole(c)
  PROVE  /\ FilesFlushed(c, f) \in Files
         /\ ~Flushes(c, f) \/ ToSram(c, f) => FilesFlushed(c, f) = f
         /\ Flushes(c, f) /\ ~ToSram(c, f) =>
              \A i \in Images : FilesFlushed(c, f)[i] = IF i = c.name THEN c.disk.data ELSE f[i]
<1>1. c \in Cores /\ c.dirty \in Nat /\ (c.dirty > 0 => c.disk.data \in Contents)
  BY DiskFields DEF Whole, Cores
<1>2. CASE ~Flushes(c, f) \/ ToSram(c, f)
  BY <1>1, <1>2 DEF Flushes, FilesFlushed
<1>3. CASE Flushes(c, f) /\ ~ToSram(c, f)
  <2>1. FilesFlushed(c, f) = [f EXCEPT ![c.name] = c.disk.data] /\ c.disk.data \in Contents
    BY <1>1, <1>3 DEF Flushes, FilesFlushed
  <2> QED BY <1>3, <2>1 DEF Files
<1> QED BY <1>2, <1>3

(***************************************************************************)
(* Disks in and out of the drive                                           *)
(***************************************************************************)
\* d differs from c in the drive, and perhaps in the name of the disk.
SameButDisk(c, d) ==
  /\ d.paths = c.paths /\ d.index = c.index /\ d.inserted = c.inserted
  /\ d.sram = c.sram /\ d.ptr = c.ptr /\ d.patched = c.patched

LEMMA SlotSame ==
  ASSUME NEW c, NEW d, c.sram = d.sram, c.index = d.index
  PROVE  SlotOf(c) = SlotOf(d) /\ (Named(c) <=> Named(d))
BY DEF SlotOf, Named

LEMMA EjectedFields ==
  ASSUME NEW c \in Cores
  PROVE  /\ Ejected(c) \in Cores /\ SameButDisk(c, Ejected(c)) /\ Ejected(c).name = c.name
         /\ Ejected(c).disk = Empty /\ Ejected(c).dirty = 0
<1>1. Empty \in Disk
  BY DEF Disk
<1> QED BY <1>1 DEF Ejected, Cores, SameButDisk

LEMMA ChangedFields ==
  ASSUME NEW c \in Cores, NEW f \in Files
  PROVE  /\ Changed(c, f) \in Cores /\ SameButDisk(c, Changed(c, f))
         /\ Changed(c, f).name = c.name /\ Changed(c, f).dirty = 0
         /\ f[c.name] = Nothing => Changed(c, f).disk = Empty
         /\ f[c.name] # Nothing =>
              /\ Changed(c, f).disk # Empty
              /\ Changed(c, f).disk.in = c.name /\ Changed(c, f).disk.data = f[c.name]
<1>1. CASE f[c.name] = Nothing
  <2>1. Changed(c, f) = Ejected(c)
    BY <1>1 DEF Changed, Exists
  <2> QED BY <1>1, <2>1, EjectedFields
<1>2. CASE f[c.name] # Nothing
  <2> DEFINE disk == [in |-> c.name, data |-> f[c.name]]
  <2>1. disk \in Disk /\ disk # Empty /\ disk.in = c.name /\ disk.data = f[c.name]
    <3>1. c.name \in Images /\ f[c.name] \in Contents
      BY <1>2 DEF Files, Cores
    <3> QED BY <3>1, <1>2 DEF Disk, Empty
  <2>2. Changed(c, f) = [[c EXCEPT !.disk = disk] EXCEPT !.dirty = 0]
    BY <1>2 DEF Changed, Exists, Cores
  <2> HIDE DEF disk
  <2>3. Changed(c, f).disk = disk /\ Changed(c, f).dirty = 0 /\ Changed(c, f).name = c.name
        /\ SameButDisk(c, Changed(c, f))
    BY <2>2 DEF Cores, SameButDisk
  <2>4. Changed(c, f) \in Cores
    <3>1. disk \in Disk
      BY <2>1
    <3> DEFINE x == [c EXCEPT !.disk = disk]
    <3>2. x \in Cores
      BY <3>1 DEF Cores
    <3>3. Changed(c, f) = [x EXCEPT !.dirty = 0]
      BY <2>2
    <3> HIDE DEF x
    <3> QED BY <3>2, <3>3 DEF Cores
  <2> QED BY <1>2, <2>1, <2>3, <2>4
<1> QED BY <1>1, <1>2

LEMMA NewDiskFields ==
  ASSUME NEW c \in Cores
  PROVE  /\ NewDisk(c) \in Cores /\ SameButDisk(c, NewDisk(c))
         /\ NewDisk(c).name = c.name /\ NewDisk(c).dirty = 1
         /\ NewDisk(c).disk # Empty
         /\ NewDisk(c).disk.in = c.name /\ NewDisk(c).disk.data = <<c.name, 0>>
<1> DEFINE disk == [in |-> c.name, data |-> <<c.name, 0>>]
<1>1. disk \in Disk /\ disk # Empty /\ disk.in = c.name /\ disk.data = <<c.name, 0>>
  <2>1. c.name \in Images /\ <<c.name, 0>> \in Contents
    BY Ground DEF Cores
  <2>2. <<c.name, 0>> # Nothing
    BY <2>1, Ground
  <2> QED BY <2>1, <2>2 DEF Disk, Empty
<1>2. NewDisk(c) = [[c EXCEPT !.disk = disk] EXCEPT !.dirty = 1]
  BY DEF NewDisk, Cores
<1> HIDE DEF disk
<1>3. NewDisk(c).disk = disk /\ NewDisk(c).dirty = 1 /\ NewDisk(c).name = c.name
      /\ SameButDisk(c, NewDisk(c))
  BY <1>2 DEF Cores, SameButDisk
<1>4. NewDisk(c) \in Cores
  <2>1. disk \in Disk
    BY <1>1
  <2> DEFINE x == [c EXCEPT !.disk = disk]
  <2>2. x \in Cores
    BY <2>1 DEF Cores
  <2>3. NewDisk(c) = [x EXCEPT !.dirty = 1]
    BY <1>2
  <2> HIDE DEF x
  <2> QED BY <2>2, <2>3 DEF Cores
<1> QED BY <1>1, <1>3, <1>4

\* The slot of the SRAM that patch_disk() looks at.
PatchAt(c) ==
  IF c.sram = NoSram \/ c.paths = <<>> THEN c.ptr ELSE IF Named(c) THEN SlotOf(c) ELSE 0

LEMMA PatchedFields ==
  ASSUME NEW c \in Cores, c.sram = NoSram => c.ptr = 0
  PROVE  /\ Patched(c) \in Cores
         /\ Patched(c).paths = c.paths /\ Patched(c).index = c.index
         /\ Patched(c).inserted = c.inserted /\ Patched(c).name = c.name
         /\ Patched(c).dirty = c.dirty /\ Patched(c).sram = c.sram
         /\ Patched(c).patched = c.patched
         /\ Patched(c).ptr = PatchAt(c) /\ PatchAt(c) \in 0 .. MAXDISKS
         /\ Patched(c).disk = Empty <=> c.disk = Empty
         /\ c.disk # Empty =>
              /\ Patched(c).disk.in = c.disk.in
              /\ Patched(c).disk.data =
                   IF PatchAt(c) # 0 /\ c.sram.slot[PatchAt(c)] # Nothing
                   THEN c.sram.slot[PatchAt(c)] ELSE c.disk.data
<1> DEFINE p == Pointed(c)
           at == PatchAt(c)
<1>1. at \in 0 .. MAXDISKS /\ (c.sram = NoSram => at = 0)
  <2>1. c.ptr \in 0 .. MAXDISKS /\ 0 \in 0 .. MAXDISKS
    BY Ground DEF Cores
  <2>2. CASE c.sram = NoSram \/ c.paths = <<>>
    BY <2>1, <2>2 DEF PatchAt
  <2>3. CASE ~(c.sram = NoSram \/ c.paths = <<>>) /\ Named(c)
    <3>1. c.sram \in Patches
      BY <2>3, DiskFields
    <3>2. SlotOf(c) \in 0 .. MAXDISKS
      BY <3>1, <2>3, Slots, Ground
    <3> QED BY <3>2, <2>3 DEF PatchAt
  <2>4. CASE ~(c.sram = NoSram \/ c.paths = <<>>) /\ ~Named(c)
    BY <2>1, <2>4 DEF PatchAt
  <2> QED BY <2>2, <2>3, <2>4
<1>2. p = [c EXCEPT !.ptr = at]
  <2>1. CASE c.sram = NoSram \/ c.paths = <<>>
    BY <2>1 DEF Pointed, PatchAt, Cores
  <2>2. CASE ~(c.sram = NoSram \/ c.paths = <<>>)
    <3>1. c.sram \in Patches
      BY <2>2, DiskFields
    <3>2. SlotOf(c) > Len(c.sram.dir) <=> ~Named(c)
      BY <3>1, Slots
    <3> QED BY <3>2, <2>2 DEF Pointed, PatchAt
  <2> QED BY <2>1, <2>2
<1> HIDE DEF p, at
<1>3. /\ p \in Cores /\ p.paths = c.paths /\ p.index = c.index /\ p.inserted = c.inserted
      /\ p.name = c.name /\ p.dirty = c.dirty /\ p.sram = c.sram /\ p.patched = c.patched
      /\ p.disk = c.disk /\ p.ptr = at
  BY <1>1, <1>2 DEF Cores
<1>4. CASE at # 0 /\ c.sram.slot[at] # Nothing /\ c.disk # Empty
  <2> DEFINE disk == [c.disk EXCEPT !.data = c.sram.slot[at]]
  <2>1. c.sram \in Patches /\ at \in 1 .. MAXDISKS
    BY <1>1, <1>4, DiskFields, Ground
  <2>2. c.sram.slot[at] \in Contents
    BY <1>4, <2>1 DEF Patches
  <2>3. disk \in Disk /\ disk # Empty /\ disk.in = c.disk.in /\ disk.data = c.sram.slot[at]
    BY <1>4, <2>2, Ground DEF Disk, Empty, Cores
  <2>4. Patched(c) = [p EXCEPT !.disk = disk]
    BY <1>1, <1>3, <1>4, Ground DEF Patched, p
  <2> HIDE DEF disk
  <2> QED BY <1>1, <1>3, <1>4, <2>3, <2>4 DEF Cores, at
<1>5. CASE ~(at # 0 /\ c.sram.slot[at] # Nothing /\ c.disk # Empty)
  <2>1. Patched(c) = p
    BY <1>1, <1>3, <1>5, Ground DEF Patched, p
  <2> QED BY <1>1, <1>3, <1>5, <2>1 DEF at
<1> QED BY <1>4, <1>5

\* What set_image_index(n) leaves in the drive.
Inserted(c, n, f, d) ==
  /\ d.index = n /\ d.dirty \in {0, 1}
  /\ d.disk = Empty => d.dirty = 0
  /\ d.disk # Empty /\ f[d.name] = Nothing => d.dirty = 1
  /\ n < Len(c.paths) => d.name = c.paths[n + 1]
  /\ d.disk # Empty =>
       /\ n < Len(c.paths) /\ d.disk.in = d.name
       /\ f[d.name] = Nothing => phantom_disk /\ d.disk.data = <<d.name, 0>>
       /\ f[d.name] # Nothing =>
            /\ d.dirty = 0
            /\ d.disk.data =
                 IF mode = "sram" /\ c.sram # NoSram /\ Named(d) /\ c.sram.slot[SlotOf(d)] # Nothing
                 THEN c.sram.slot[SlotOf(d)] ELSE f[d.name]
SameButImage(c, d) ==
  /\ d.paths = c.paths /\ d.inserted = c.inserted
  /\ d.sram = c.sram /\ d.patched = c.patched

LEMMA ImageSetFields ==
  ASSUME NEW c, Whole(c), NEW n \in 0 .. Len(c.paths), NEW f \in Files
  PROVE  /\ Whole(ImageSet(c, n, f))
         /\ SameButImage(c, ImageSet(c, n, f))
         /\ Inserted(c, n, f, ImageSet(c, n, f))
<1> DEFINE at == [c EXCEPT !.index = n]
           d == ImageSet(c, n, f)
<1>1. c \in Cores /\ IsInjective(c.sram.dir) /\ (c.sram = NoSram => c.ptr = 0)
  BY DEF Whole
<1>2. Len(c.paths) \in 0 .. MAXDISKS /\ n \in 0 .. MAXDISKS /\ n \in Nat
      /\ (c.paths = <<>> <=> Len(c.paths) = 0)
  BY <1>1, DiskFields, Ground
<1>3. /\ at \in Cores /\ at.index = n /\ at.paths = c.paths /\ at.inserted = c.inserted
      /\ at.sram = c.sram /\ at.patched = c.patched /\ at.ptr = c.ptr /\ at.name = c.name
  BY <1>1, <1>2 DEF Cores
<1>4. CASE n >= Len(c.paths)
  <2> DEFINE e == Ejected(at)
  <2>1. e \in Cores /\ SameButDisk(at, e) /\ e.disk = Empty /\ e.dirty = 0
    BY <1>3, EjectedFields
  <2>2. d = [e EXCEPT !.ptr = 0]
    BY <1>4 DEF ImageSet
  <2> HIDE DEF e, d, at
  <2>3. /\ d \in Cores /\ d.paths = c.paths /\ d.inserted = c.inserted /\ d.sram = c.sram
        /\ d.patched = c.patched /\ d.index = n /\ d.disk = Empty /\ d.dirty = 0 /\ d.ptr = 0
    <3>1. 0 \in 0 .. MAXDISKS
      BY Ground
    <3>2. d \in Cores /\ d.disk = Empty /\ d.dirty = 0 /\ d.ptr = 0 /\ SameButImage(e, d)
          /\ d.index = e.index
      BY <2>1, <2>2, <3>1 DEF Cores, SameButImage
    <3> QED BY <2>1, <3>2, <1>3 DEF SameButDisk, SameButImage
  <2>4. Whole(d)
    BY <1>1, <2>3 DEF Whole
  <2>5. SameButImage(c, d) /\ Inserted(c, n, f, d)
    BY <1>2, <1>4, <2>3 DEF SameButImage, Inserted
  <2> QED BY <2>4, <2>5 DEF d
<1>5. CASE n < Len(c.paths)
  <2> DEFINE named == [at EXCEPT !.name = c.paths[n + 1]]
             loaded == Changed(named, f)
  <2>1. n + 1 \in 1 .. Len(c.paths) /\ c.paths \in Seq(Images)
    BY <1>1, <1>2, <1>5, DiskFields
  <2>2. c.paths[n + 1] \in Images
    BY <2>1, ElementOfSeq
  <2>3. /\ named \in Cores /\ named.index = n /\ named.paths = c.paths
        /\ named.inserted = c.inserted /\ named.sram = c.sram /\ named.patched = c.patched
        /\ named.ptr = c.ptr /\ named.name = c.paths[n + 1]
    BY <1>3, <2>2 DEF Cores
  <2>4. d = IF loaded.disk # Empty
            THEN (IF mode = "sram" THEN Patched(loaded) ELSE loaded)
            ELSE IF phantom_disk THEN NewDisk(loaded) ELSE loaded
    BY <1>2, <1>5 DEF ImageSet
  <2> HIDE DEF named, d
  <2>5. /\ loaded \in Cores /\ SameButDisk(named, loaded)
        /\ loaded.name = named.name /\ loaded.dirty = 0
        /\ f[named.name] = Nothing => loaded.disk = Empty
        /\ f[named.name] # Nothing =>
              /\ loaded.disk # Empty
              /\ loaded.disk.in = named.name /\ loaded.disk.data = f[named.name]
    BY <2>3, ChangedFields
  <2> HIDE DEF loaded
  <2>6. /\ loaded.index = n /\ loaded.paths = c.paths /\ loaded.sram = c.sram
        /\ loaded.inserted = c.inserted /\ loaded.patched = c.patched
        /\ loaded.ptr = c.ptr /\ loaded.name = c.paths[n + 1]
    BY <2>3, <2>5 DEF SameButDisk
  <2>7. CASE f[loaded.name] = Nothing /\ phantom_disk
    <3>1. d = NewDisk(loaded)
      BY <2>4, <2>5, <2>7
    <3>2. /\ d \in Cores /\ SameButDisk(loaded, d) /\ d.name = loaded.name /\ d.dirty = 1
          /\ d.disk # Empty /\ d.disk.in = loaded.name /\ d.disk.data = <<loaded.name, 0>>
      BY <3>1, <2>5, NewDiskFields
    <3>3. SameButImage(c, d) /\ d.index = n /\ d.ptr = c.ptr
      BY <2>6, <3>2 DEF SameButDisk, SameButImage
    <3>4. Whole(d)
      BY <1>1, <1>5, <3>2, <3>3 DEF Whole, SameButImage
    <3>5. Inserted(c, n, f, d)
      BY <1>5, <2>6, <2>7, <3>2, <3>3 DEF Inserted
    <3> QED BY <3>3, <3>4, <3>5 DEF d
  <2>8. CASE f[loaded.name] = Nothing /\ ~phantom_disk
    <3>1. d = loaded /\ d.disk = Empty
      BY <2>4, <2>5, <2>8
    <3>2. Whole(d)
      BY <1>1, <2>5, <2>6, <3>1 DEF Whole
    <3> QED BY <2>5, <2>6, <3>1, <3>2 DEF d, SameButImage, Inserted
  <2>9. CASE f[loaded.name] # Nothing /\ mode = "sram"
    <3>1. d = Patched(loaded) /\ loaded.disk # Empty /\ loaded.disk.in = loaded.name
          /\ loaded.disk.data = f[loaded.name]
      BY <2>4, <2>5, <2>9
    <3>2. loaded.sram = NoSram => loaded.ptr = 0
      BY <2>6, <1>1
    <3>3. /\ d \in Cores /\ d.paths = loaded.paths /\ d.index = loaded.index
          /\ d.inserted = loaded.inserted /\ d.name = loaded.name
          /\ d.dirty = loaded.dirty /\ d.sram = loaded.sram /\ d.patched = loaded.patched
          /\ d.ptr = PatchAt(loaded) /\ d.disk # Empty /\ d.disk.in = loaded.disk.in
          /\ d.disk.data =
               IF PatchAt(loaded) # 0 /\ loaded.sram.slot[PatchAt(loaded)] # Nothing
               THEN loaded.sram.slot[PatchAt(loaded)] ELSE loaded.disk.data
      BY <3>1, <3>2, <2>5, PatchedFields
    <3>4. SameButImage(c, d) /\ d.index = n /\ d.dirty = 0
      BY <2>5, <2>6, <3>3 DEF SameButImage
    <3>5. c.sram = NoSram => PatchAt(loaded) = 0
      BY <1>1, <2>6 DEF PatchAt
    <3>6. Whole(d)
      BY <1>1, <1>5, <3>3, <3>4, <3>5, <2>6 DEF Whole, SameButImage
    <3>7. SlotOf(d) = SlotOf(loaded) /\ (Named(d) <=> Named(loaded))
      BY <3>3, SlotSame
    <3>8. c.sram # NoSram => PatchAt(loaded) = IF Named(d) THEN SlotOf(d) ELSE 0
      BY <3>7, <2>6, <1>2, <1>5 DEF PatchAt
    <3>9. c.sram # NoSram /\ Named(d) => SlotOf(d) # 0
      <4> SUFFICES ASSUME c.sram # NoSram, Named(d) PROVE SlotOf(d) # 0
        OBVIOUS
      <4>1. d.sram \in Patches /\ d.sram # NoSram
        BY <3>3, <3>4, DiskFields DEF SameButImage
      <4> QED BY <4>1, <3>3, Slots
    <3>10. Inserted(c, n, f, d)
      BY <1>5, <2>6, <2>9, <3>1, <3>3, <3>4, <3>5, <3>8, <3>9 DEF Inserted
    <3> QED BY <3>4, <3>6, <3>10 DEF d
  <2>10. CASE f[loaded.name] # Nothing /\ mode # "sram"
    <3>1. d = loaded /\ d.disk # Empty
      BY <2>4, <2>5, <2>10
    <3>2. Whole(d)
      BY <1>1, <1>5, <2>5, <2>6, <3>1 DEF Whole
    <3>3. Inserted(c, n, f, d)
      BY <1>5, <2>5, <2>6, <2>10, <3>1 DEF Inserted
    <3> QED BY <2>6, <3>1, <3>2, <3>3 DEF d, SameButImage
  <2> QED BY <2>7, <2>8, <2>9, <2>10
<1> QED BY <1>2, <1>4, <1>5

(***************************************************************************)
(* Frames                                                                  *)
(***************************************************************************)
LEMMA FirstPatchFields ==
  ASSUME NEW c, Whole(c)
  PROVE  /\ Whole(FirstPatch(c)) /\ FirstPatch(c).dirty = c.dirty
         /\ FirstPatch(c).paths = c.paths /\ FirstPatch(c).index = c.index
         /\ FirstPatch(c).inserted = c.inserted /\ FirstPatch(c).name = c.name
         /\ FirstPatch(c).sram = c.sram
         /\ ~(mode = "sram" /\ ~c.patched) => FirstPatch(c) = c
         /\ mode = "sram" /\ ~c.patched =>
              /\ FirstPatch(c).patched
              /\ FirstPatch(c).ptr = PatchAt(c)
              /\ FirstPatch(c).disk = Empty <=> c.disk = Empty
              /\ c.disk # Empty =>
                   /\ FirstPatch(c).disk.in = c.disk.in
                   /\ FirstPatch(c).disk.data =
                        IF PatchAt(c) # 0 /\ c.sram.slot[PatchAt(c)] # Nothing
                        THEN c.sram.slot[PatchAt(c)] ELSE c.disk.data
<1>1. CASE ~(mode = "sram" /\ ~c.patched)
  <2>1. FirstPatch(c) = c
    BY <1>1 DEF FirstPatch
  <2> QED BY <1>1, <2>1
<1>2. CASE mode = "sram" /\ ~c.patched
  <2> DEFINE p == Patched(c)
             d == FirstPatch(c)
  <2>1. d = [p EXCEPT !.patched = TRUE]
    BY <1>2 DEF FirstPatch
  <2>2. c \in Cores /\ (c.sram = NoSram => c.ptr = 0)
    BY DEF Whole
  <2>3. /\ p \in Cores /\ p.paths = c.paths /\ p.index = c.index /\ p.inserted = c.inserted
        /\ p.name = c.name /\ p.dirty = c.dirty /\ p.sram = c.sram
        /\ p.ptr = PatchAt(c) /\ (p.disk = Empty <=> c.disk = Empty)
        /\ c.disk # Empty =>
             /\ p.disk.in = c.disk.in
             /\ p.disk.data =
                  IF PatchAt(c) # 0 /\ c.sram.slot[PatchAt(c)] # Nothing
                  THEN c.sram.slot[PatchAt(c)] ELSE c.disk.data
    BY <2>2, PatchedFields
  <2> HIDE DEF p, d
  <2>4. /\ d \in Cores /\ d.paths = p.paths /\ d.index = p.index /\ d.inserted = p.inserted
        /\ d.name = p.name /\ d.dirty = p.dirty /\ d.sram = p.sram /\ d.ptr = p.ptr
        /\ d.disk = p.disk /\ d.patched
    BY <2>1, <2>3 DEF Cores
  <2>5. c.sram = NoSram => PatchAt(c) = 0
    BY <2>2 DEF PatchAt
  <2>6. Whole(d)
    BY <2>3, <2>4, <2>5 DEF Whole
  <2> QED BY <1>2, <2>3, <2>4, <2>6 DEF d
<1> QED BY <1>1, <1>2

LEMMA WrittenFields ==
  ASSUME NEW c, Whole(c), c.disk # Empty, c.disk.data[1] \in Images,
         writes \in 0 .. MaxWrites, writes < MaxWrites
  PROVE  /\ Whole(Written(c)) /\ Written(c).dirty = 1
         /\ Written(c).paths = c.paths /\ Written(c).index = c.index
         /\ Written(c).inserted = c.inserted /\ Written(c).name = c.name
         /\ Written(c).patched = c.patched
         /\ Written(c).sram = c.sram /\ Written(c).ptr = c.ptr
         /\ Written(c).disk # Empty /\ Written(c).disk.in = c.disk.in
         /\ Written(c).disk.data = <<c.disk.data[1], writes + 1>>
         /\ Written(c).disk.data \in Contents
<1> DEFINE data == <<c.disk.data[1], writes + 1>>
           new  == [c.disk EXCEPT !.data = data]
           d    == Written(c)
<1>1. c \in Cores
  BY DEF Whole
<1>2. writes + 1 \in 0 .. MaxWrites
  BY Ground
<1>3. data \in Contents
  BY <1>2 DEF Contents
<1> HIDE DEF data
<1>4. new \in Disk /\ new # Empty /\ new.in = c.disk.in /\ new.data = data
  <2>1. data # Nothing
    BY <1>3, Ground
  <2>2. c.disk \in [in : Images, data : Contents]
    BY <1>1 DEF Cores, Disk
  <2> QED BY <1>3, <2>1, <2>2 DEF Disk, Empty
<1> DEFINE x == [c EXCEPT !.disk = new]
<1>5. d = [x EXCEPT !.dirty = 1]
  BY <1>1 DEF Written, Cores, data
<1> HIDE DEF new, d
<1>6. /\ x \in Cores /\ x.paths = c.paths /\ x.index = c.index /\ x.inserted = c.inserted
      /\ x.name = c.name /\ x.sram = c.sram /\ x.ptr = c.ptr /\ x.disk = new
      /\ x.patched = c.patched
  <2>1. new \in Disk
    BY <1>4
  <2>2. x \in Cores
    BY <1>1, <2>1 DEF Cores
  <2> QED BY <1>1, <2>2 DEF Cores
<1> HIDE DEF x
<1>7. /\ d \in Cores /\ d.paths = c.paths /\ d.index = c.index /\ d.inserted = c.inserted
      /\ d.name = c.name /\ d.sram = c.sram /\ d.ptr = c.ptr /\ d.disk = new
      /\ d.patched = c.patched /\ d.dirty = 1
  BY <1>5, <1>6 DEF Cores
<1>8. Whole(d)
  BY <1>4, <1>7 DEF Whole
<1> QED BY <1>3, <1>4, <1>7, <1>8 DEF d, data

Ticked(c) == [c EXCEPT !.dirty = @ + 1]

LEMMA TickedFields ==
  ASSUME NEW c, Whole(c), c.dirty > 0
  PROVE  /\ Whole(Ticked(c)) /\ SameButSram(c, Ticked(c))
         /\ Ticked(c).sram = c.sram /\ Ticked(c).ptr = c.ptr
         /\ Ticked(c).dirty = c.dirty + 1
<1> DEFINE d == Ticked(c)
           n == c.dirty + 1
<1>1. c \in Cores /\ c.dirty \in Nat
  BY DEF Whole, Cores
<1>2. n \in Nat /\ n > 0
  BY <1>1
<1>3. d = [c EXCEPT !.dirty = n]
  BY DEF Ticked
<1> HIDE DEF d, n
<1>4. d \in Cores /\ SameButSram(c, d) /\ d.sram = c.sram /\ d.ptr = c.ptr /\ d.dirty = n
  BY <1>1, <1>2, <1>3 DEF Cores, SameButSram
<1>5. Whole(d)
  BY <1>4 DEF Whole, SameButSram
<1> QED BY <1>4, <1>5 DEF d, n

\* The end of a frame leaves the disk as it is, counts, or flushes it.
LEMMA DebouncedCases ==
  ASSUME NEW c, NEW f, Whole(c), c.dirty < fps
  PROVE  \/ Debounced(c, f) = c /\ FilesDebounced(c, f) = f
         \/ /\ Debounces(c) /\ c.dirty + 1 < fps
            /\ Debounced(c, f) = Ticked(c) /\ FilesDebounced(c, f) = f
         \/ /\ Debounces(c) /\ mode # "never"
            /\ Debounced(c, f) = Flushed(Ticked(c), f)
            /\ FilesDebounced(c, f) = FilesFlushed(Ticked(c), f)
<1>1. CASE ~Debounces(c)
  BY <1>1 DEF Debounced, FilesDebounced
<1>2. CASE Debounces(c)
  <2> DEFINE d == Ticked(c)
  <2>1. c.dirty > 0 /\ mode # "never" /\ c.dirty \in Nat
    BY <1>2 DEF Debounces, Whole, Cores
  <2>2. d.dirty = c.dirty + 1 /\ d.name = c.name /\ d.disk = c.disk
    BY <2>1, TickedFields DEF SameButSram
  <2>3. Debounced(c, f) = IF d.dirty >= fps THEN Flushed(d, f) ELSE d
    BY <1>2 DEF Debounced, Ticked
  <2>4. FilesDebounced(c, f) = IF d.dirty >= fps THEN FilesFlushed(c, f) ELSE f
    BY <1>2, <2>2 DEF FilesDebounced
  <2>5. FilesFlushed(c, f) = FilesFlushed(d, f)
    <3>1. ~(c.dirty = 0) /\ ~(d.dirty = 0)
      BY <2>1, <2>2
    <3> HIDE DEF d
    <3> QED BY <3>1, <2>2 DEF FilesFlushed, ToSram
  <2> HIDE DEF d
  <2>6. CASE d.dirty >= fps
    BY <2>1, <2>3, <2>4, <2>5, <2>6, <1>2 DEF d
  <2>7. CASE ~(d.dirty >= fps)
    BY <2>1, <2>2, <2>3, <2>4, <2>7, <1>2, Ground DEF d
  <2> QED BY <2>6, <2>7
<1> QED BY <1>1, <1>2

(***************************************************************************)
(* Games are loaded                                                        *)
(***************************************************************************)
LEMMA OffFields ==
  /\ CoreOff \in Cores /\ Whole(CoreOff) /\ CoreOff.paths = <<>> /\ CoreOff.index = 0
  /\ CoreOff.name = Single /\ CoreOff.disk = Empty /\ CoreOff.dirty = 0
  /\ CoreOff.sram = NoSram /\ CoreOff.ptr = 0 /\ CoreOff.patched = FALSE
<1>1. <<>> \in Short(Images) /\ 0 \in 0 .. MAXDISKS /\ Empty \in Disk /\ Single \in Images
  BY Ground, EmptySeq DEF Short, Disk
<1>2. /\ CoreOff.paths = <<>> /\ CoreOff.index = 0
      /\ CoreOff.name = Single /\ CoreOff.disk = Empty /\ CoreOff.dirty = 0
      /\ CoreOff.sram = NoSram /\ CoreOff.ptr = 0 /\ CoreOff.patched = FALSE
  BY DEF CoreOff
<1>3. CoreOff \in Cores
  BY <1>1 DEF CoreOff, Cores
<1>4. Whole(CoreOff)
  BY <1>2, <1>3, SramTypes DEF Whole
<1> QED BY <1>2, <1>3, <1>4

Loads(s) == IF s = NoSram THEN BlankSram ELSE s

LEMMA LoadsType ==
  ASSUME NEW s \in {NoSram} \cup Patches, IsInjective(s.dir)
  PROVE  Loads(s) \in Patches /\ Loads(s) # NoSram /\ IsInjective(Loads(s).dir)
BY SramTypes DEF Loads

LEMMA LoadM3uFields ==
  ASSUME file \in Files, srm \in {NoSram} \cup Patches, IsInjective(srm.dir)
  PROVE  /\ Whole(LoadM3u) /\ LoadM3u.paths = Playlist /\ LoadM3u.index = 0
         /\ LoadM3u.dirty = 0 /\ LoadM3u.patched = FALSE
         /\ LoadM3u.name = Playlist[1]
         /\ LoadM3u.sram = IF mode = "sram" THEN Loads(srm) ELSE NoSram
         /\ LoadM3u.disk # Empty =>
              /\ LoadM3u.disk.in = LoadM3u.name /\ file[LoadM3u.name] # Nothing
              /\ LoadM3u.disk.data = file[LoadM3u.name]
<1> DEFINE c == [CoreOff EXCEPT !.paths = Playlist]
           set == ImageSet(c, 0, file)
           d == Changed(set, file)
           s == IF mode = "sram" THEN Loads(srm) ELSE NoSram
           l == LoadM3u
<1>1. /\ c \in Cores /\ c.paths = Playlist /\ c.disk = Empty /\ c.dirty = 0
      /\ c.sram = NoSram /\ c.ptr = 0 /\ c.patched = FALSE
  BY OffFields, Ground DEF Cores
<1>2. Whole(c)
  BY <1>1, SramTypes DEF Whole
<1>3. l = [d EXCEPT !.inserted = TRUE, !.sram = s]
  BY DEF LoadM3u, Loads
<1> HIDE DEF c, l
<1>4. Len(c.paths) >= 1 /\ Len(c.paths) \in Nat
  BY <1>1, Ground, DiskFields
<1>5. 0 \in 0 .. Len(c.paths) /\ 0 < Len(c.paths)
  BY <1>4
<1>6. /\ Whole(set) /\ SameButImage(c, set) /\ Inserted(c, 0, file, set)
  BY <1>2, <1>5, ImageSetFields
<1> HIDE DEF set
<1>7. /\ set \in Cores /\ set.name = Playlist[1] /\ set.index = 0 /\ set.paths = Playlist
      /\ set.patched = FALSE /\ set.sram = NoSram /\ set.ptr = 0
  <2>1. set \in Cores /\ set.paths = Playlist /\ set.patched = FALSE /\ set.sram = NoSram
    BY <1>1, <1>6 DEF Whole, SameButImage
  <2>2. set.index = 0 /\ set.name = Playlist[0 + 1]
    BY <1>1, <1>5, <1>6 DEF Inserted
  <2>3. set.ptr = 0
    BY <1>6, <2>1 DEF Whole
  <2> QED BY <2>1, <2>2, <2>3
<1>8. /\ d \in Cores /\ SameButDisk(set, d) /\ d.name = set.name /\ d.dirty = 0
      /\ file[set.name] = Nothing => d.disk = Empty
      /\ file[set.name] # Nothing =>
           d.disk # Empty /\ d.disk.in = set.name /\ d.disk.data = file[set.name]
  BY <1>7, ChangedFields
<1> HIDE DEF d
<1>9. s \in {NoSram} \cup Patches /\ IsInjective(s.dir)
  BY LoadsType, SramTypes
<1> HIDE DEF s
<1>10. /\ l \in Cores /\ l.paths = d.paths /\ l.index = d.index /\ l.name = d.name
       /\ l.disk = d.disk /\ l.dirty = d.dirty /\ l.ptr = d.ptr /\ l.patched = d.patched
       /\ l.sram = s
  BY <1>3, <1>8, <1>9 DEF Cores
<1>11. /\ l.paths = Playlist /\ l.index = 0 /\ l.name = Playlist[1] /\ l.dirty = 0
       /\ l.ptr = 0 /\ l.patched = FALSE
  BY <1>7, <1>8, <1>10 DEF SameButDisk
<1>12. Whole(l)
  BY <1>1, <1>5, <1>9, <1>10, <1>11 DEF Whole
<1> QED BY <1>7, <1>8, <1>10, <1>11, <1>12 DEF l, s

LEMMA LoadDskFields ==
  ASSUME file \in Files, srm \in {NoSram} \cup Patches, IsInjective(srm.dir)
  PROVE  /\ Whole(LoadDsk) /\ LoadDsk.paths = <<>> /\ LoadDsk.name = Single
         /\ LoadDsk.dirty \in {0, 1} /\ LoadDsk.patched = FALSE
         /\ mode = "sram" /\ file[Single] # Nothing =>
              LoadDsk.sram = Loads(srm) /\ LoadDsk.ptr = 1
         /\ ~(mode = "sram" /\ file[Single] # Nothing) => LoadDsk.sram = NoSram
         /\ LoadDsk.disk # Empty => LoadDsk.disk.in = Single
         /\ file[Single] # Nothing =>
              LoadDsk.disk # Empty /\ LoadDsk.dirty = 0 /\ LoadDsk.disk.data = file[Single]
         /\ file[Single] = Nothing /\ LoadDsk.disk # Empty =>
              phantom_disk /\ LoadDsk.disk.data = <<Single, 0>>
<1> DEFINE c == IF Exists(Single, file) THEN Changed(CoreOff, file)
                ELSE IF phantom_disk THEN NewDisk(CoreOff) ELSE CoreOff
           l == LoadDsk
<1>1. /\ c \in Cores /\ SameButDisk(CoreOff, c) /\ c.name = Single /\ c.dirty \in {0, 1}
      /\ c.disk # Empty => c.disk.in = Single
      /\ c.disk = Empty => c.dirty = 0
      /\ file[Single] # Nothing =>
           c.disk # Empty /\ c.dirty = 0 /\ c.disk.data = file[Single]
      /\ file[Single] = Nothing /\ c.disk # Empty =>
           phantom_disk /\ c.disk.data = <<Single, 0>>
  <2>1. CASE file[Single] # Nothing
    <3>1. c = Changed(CoreOff, file)
      BY <2>1 DEF Exists
    <3> HIDE DEF c
    <3> QED BY <2>1, <3>1, OffFields, ChangedFields
  <2>2. CASE file[Single] = Nothing /\ phantom_disk
    <3>1. c = NewDisk(CoreOff)
      BY <2>2 DEF Exists
    <3> HIDE DEF c
    <3> QED BY <2>2, <3>1, OffFields, NewDiskFields
  <2>3. CASE file[Single] = Nothing /\ ~phantom_disk
    <3>1. c = CoreOff
      BY <2>3 DEF Exists
    <3> HIDE DEF c
    <3> QED BY <2>3, <3>1, OffFields DEF SameButDisk
  <2> QED BY <2>1, <2>2, <2>3
<1>2. l = IF mode = "sram" /\ file[Single] # Nothing
          THEN [c EXCEPT !.sram = Loads(srm), !.ptr = 1] ELSE c
  BY DEF LoadDsk, Exists, Loads
<1> HIDE DEF c, l
<1>3. c.paths = <<>> /\ c.patched = FALSE /\ c.sram = NoSram /\ c.ptr = 0
  BY <1>1, OffFields DEF SameButDisk
<1>4. CASE mode = "sram" /\ file[Single] # Nothing
  <2> DEFINE s == Loads(srm)
  <2>1. s \in Patches /\ s # NoSram /\ IsInjective(s.dir) /\ 1 \in 0 .. MAXDISKS
    BY LoadsType, Ground
  <2>2. l = [c EXCEPT !.sram = s, !.ptr = 1]
    BY <1>2, <1>4
  <2> HIDE DEF s
  <2>3. /\ l \in Cores /\ l.sram = s /\ l.ptr = 1 /\ l.paths = c.paths /\ l.name = c.name
        /\ l.dirty = c.dirty /\ l.patched = c.patched /\ l.disk = c.disk
    BY <1>1, <2>1, <2>2 DEF Cores
  <2>4. Whole(l)
    BY <1>1, <1>3, <2>1, <2>3 DEF Whole
  <2> QED BY <1>1, <1>3, <1>4, <2>3, <2>4 DEF l, s
<1>5. CASE ~(mode = "sram" /\ file[Single] # Nothing)
  <2>1. l = c
    BY <1>2, <1>5
  <2>2. Whole(l)
    BY <1>1, <1>3, <2>1, SramTypes DEF Whole
  <2> QED BY <1>1, <1>3, <1>5, <2>1, <2>2 DEF l
<1> QED BY <1>4, <1>5

(***************************************************************************)
(* Every action keeps the types                                            *)
(***************************************************************************)
LEMMA LoadTyped ==
  ASSUME Typed, retro_load_game
  PROVE  Typed'
<1>1. file \in Files /\ srm \in {NoSram} \cup Patches /\ IsInjective(srm.dir) /\ kind \in Kinds
  BY DEF Typed, TypedState
<1>2. kind \in {"m3u", "dsk"}
  BY <1>1, OptionAssumption
<1>3. TypedState' /\ phase' = "loaded"
  BY DEF Typed, TypedState, retro_load_game
<1>4. CASE kind = "m3u"
  <2>1. core' = LoadM3u /\ mode' = mode /\ kind' = kind
    BY <1>4 DEF retro_load_game
  <2>2. /\ Whole(LoadM3u) /\ LoadM3u.dirty = 0
        /\ LoadM3u.sram = IF mode = "sram" THEN Loads(srm) ELSE NoSram
    BY <1>1, LoadM3uFields
  <2>3. Whole(core') /\ core'.dirty < fps
    BY <2>1, <2>2, Ground
  <2>4. Slotted(mode', kind', core')
    <3>1. LoadM3u.paths # <<>>
      BY <1>1, LoadM3uFields, Ground
    <3> QED BY <2>1, <2>2, <3>1, <1>1, <1>4, LoadsType DEF Slotted
  <2> QED BY <1>3, <2>3, <2>4 DEF Typed
<1>5. CASE kind = "dsk"
  <2>1. core' = LoadDsk /\ mode' = mode /\ kind' = kind
    BY <1>5 DEF retro_load_game
  <2>2. Whole(LoadDsk) /\ LoadDsk.paths = <<>> /\ LoadDsk.dirty \in {0, 1}
    BY <1>1, LoadDskFields
  <2>3. Whole(core') /\ core'.dirty < fps
    BY <2>1, <2>2, Ground
  <2>4. Slotted(mode', kind', core')
    BY <1>5, <2>1, <2>2 DEF Slotted
  <2> QED BY <1>3, <2>3, <2>4 DEF Typed
<1> QED BY <1>2, <1>4, <1>5

\* The end of a frame, of a disk that was written to or not.
LEMMA EndFrameTyped ==
  ASSUME NEW c, Whole(c), c.dirty < fps, Slotted(mode, kind, c), file \in Files, EndFrame(c)
  PROVE  Whole(core') /\ core'.dirty < fps /\ Slotted(mode, kind, core') /\ file' \in Files
<1>1. core' = Debounced(c, file) /\ file' = FilesDebounced(c, file)
  BY DEF EndFrame
<1>2. CASE core' = c /\ file' = file
  BY <1>2
<1>3. CASE Debounces(c) /\ c.dirty + 1 < fps /\ core' = Ticked(c) /\ file' = file
  <2>1. c.dirty > 0
    BY <1>3 DEF Debounces
  <2>2. /\ Whole(Ticked(c)) /\ SameButSram(c, Ticked(c)) /\ Ticked(c).sram = c.sram
        /\ Ticked(c).dirty = c.dirty + 1
    BY <2>1, TickedFields
  <2> QED BY <1>3, <2>2 DEF Slotted, SameButSram
<1>4. CASE /\ Debounces(c) /\ mode # "never" /\ core' = Flushed(Ticked(c), file)
           /\ file' = FilesFlushed(Ticked(c), file)
  <2> DEFINE d == Ticked(c)
  <2>1. c.dirty > 0
    BY <1>4 DEF Debounces
  <2>2. Whole(d) /\ SameButSram(c, d) /\ d.sram = c.sram
    BY <2>1, TickedFields
  <2> HIDE DEF d
  <2>3. mode = "sram" /\ d.paths # <<>> => d.sram # NoSram
    BY <2>2 DEF Slotted, SameButSram
  <2>4. /\ Whole(Flushed(d, file)) /\ SameButSram(d, Flushed(d, file))
        /\ Flushed(d, file).dirty = 0
        /\ (Flushed(d, file).sram = NoSram <=> d.sram = NoSram)
    BY <2>2, <2>3, <1>4, FlushedFields
  <2>5. FilesFlushed(d, file) \in Files
    BY <2>2, FilesFlushedType
  <2>6. core' = Flushed(d, file) /\ file' = FilesFlushed(d, file)
    BY <1>4 DEF d
  <2>7. Slotted(mode, kind, core')
    BY <2>2, <2>4, <2>6 DEF Slotted, SameButSram
  <2> QED BY <2>4, <2>5, <2>6, <2>7, Ground
<1> QED BY <1>1, <1>2, <1>3, <1>4, DebouncedCases

LEMMA RunTyped ==
  ASSUME Typed, retro_run
  PROVE  Typed'
<1> DEFINE c == FirstPatch(core)
<1>1. Whole(core) /\ core.dirty < fps /\ Slotted(mode, kind, core) /\ file \in Files
      /\ writes \in 0 .. MaxWrites /\ latest \in [Images -> Contents]
  BY DEF Typed, TypedState, retro_run
<1>2. Whole(c) /\ c.dirty = core.dirty /\ c.paths = core.paths /\ c.sram = core.sram
  BY <1>1, FirstPatchFields
<1>3. Slotted(mode, kind, c)
  BY <1>1, <1>2 DEF Slotted
<1>4. /\ mode' = mode /\ kind' = kind /\ srm' = srm /\ phase' = "running"
      /\ \/ EndFrame(c) /\ writes' = writes /\ latest' = latest
         \/ /\ c.disk # Empty /\ writes < MaxWrites /\ EndFrame(Written(c))
            /\ writes' = writes + 1
            /\ latest' = [latest EXCEPT ![c.disk.in] = Written(c).disk.data]
  BY DEF retro_run
<1> HIDE DEF c
<1>5. CASE EndFrame(c) /\ writes' = writes /\ latest' = latest
  <2>1. Whole(core') /\ core'.dirty < fps /\ Slotted(mode, kind, core') /\ file' \in Files
    BY <1>1, <1>2, <1>3, <1>5, EndFrameTyped
  <2>2. TypedState'
    BY <1>4, <1>5, <2>1 DEF Typed, TypedState
  <2> QED BY <1>4, <2>1, <2>2 DEF Typed
<1>6. CASE /\ c.disk # Empty /\ writes < MaxWrites /\ EndFrame(Written(c))
           /\ writes' = writes + 1
           /\ latest' = [latest EXCEPT ![c.disk.in] = Written(c).disk.data]
  <2> DEFINE w == Written(c)
  <2>1. c.disk.in \in Images /\ c.disk.data[1] \in Images
    BY <1>2, <1>6, DiskFields DEF Whole, Contents
  <2>2. /\ Whole(w) /\ w.dirty = 1 /\ w.paths = c.paths /\ w.sram = c.sram
        /\ w.disk.data \in Contents
    BY <1>1, <1>2, <1>6, <2>1, WrittenFields
  <2> HIDE DEF w
  <2>3. Slotted(mode, kind, w) /\ w.dirty < fps
    BY <1>3, <2>2, Ground DEF Slotted
  <2>4. Whole(core') /\ core'.dirty < fps /\ Slotted(mode, kind, core') /\ file' \in Files
    BY <1>1, <1>6, <2>2, <2>3, EndFrameTyped DEF w
  <2>5. latest' \in [Images -> Contents] /\ writes' \in 0 .. MaxWrites
    <3>1. latest' = [latest EXCEPT ![c.disk.in] = w.disk.data]
      BY <1>6 DEF w
    <3>2. latest' \in [Images -> Contents]
      BY <1>1, <2>2, <3>1
    <3>3. writes' = writes + 1 /\ writes < MaxWrites
      BY <1>6
    <3> QED BY <1>1, <3>2, <3>3, Ground
  <2>6. TypedState'
    BY <1>4, <2>4, <2>5 DEF Typed, TypedState
  <2> QED BY <1>4, <2>4, <2>6 DEF Typed
<1> QED BY <1>4, <1>5, <1>6

LEMMA TypedNow ==
  ASSUME Typed, phase # "off"
  PROVE  /\ core \in Cores /\ Whole(core) /\ core.dirty < fps /\ Slotted(mode, kind, core)
         /\ file \in Files /\ srm \in {NoSram} \cup Patches /\ IsInjective(srm.dir)
         /\ (mode = "sram" /\ core.paths # <<>> => core.sram # NoSram)
         /\ core.dirty \in Nat
BY DEF Typed, TypedState, Whole, Slotted, Cores

\* A flush of the disk in the drive.
LEMMA FlushTyped ==
  ASSUME Typed, phase # "off"
  PROVE  /\ Whole(Flushed(core, file)) /\ Flushed(core, file).dirty < fps
         /\ Slotted(mode, kind, Flushed(core, file)) /\ FilesFlushed(core, file) \in Files
<1> DEFINE F == Flushed(core, file)
<1>1. /\ Whole(F) /\ SameButSram(core, F) /\ F.dirty <= core.dirty
      /\ (F.sram = NoSram <=> core.sram = NoSram)
  BY TypedNow, FlushedFields
<1> HIDE DEF F
<1>2. F.dirty < fps
  BY <1>1, TypedNow, Ground DEF Whole, Cores
<1>3. Slotted(mode, kind, F)
  BY <1>1, TypedNow DEF Slotted, SameButSram
<1> QED BY <1>1, <1>2, <1>3, TypedNow, FilesFlushedType DEF F

LEMMA ResetTyped ==
  ASSUME Typed, retro_reset
  PROVE  Typed'
<1>1. core' = Flushed(core, file) /\ file' = FilesFlushed(core, file)
      /\ phase = "running" /\ UNCHANGED <<mode, kind, phase, srm, writes, latest>>
  BY DEF retro_reset, Kept
<1>2. TypedState'
  BY <1>1, FlushTyped DEF Typed, TypedState
<1> QED BY <1>1, <1>2, FlushTyped DEF Typed

LEMMA EjectTyped ==
  ASSUME Typed, NEW ejected \in BOOLEAN, set_eject_state(ejected)
  PROVE  Typed'
<1>1. phase = "running" /\ UNCHANGED <<mode, kind, phase, srm, writes, latest>>
  BY DEF set_eject_state, Kept, Swappable
<1>2. CASE ejected
  <2> DEFINE F == Flushed(core, file)
             e == Ejected(F)
  <2>1. Whole(F) /\ Slotted(mode, kind, F) /\ FilesFlushed(core, file) \in Files
    BY <1>1, FlushTyped
  <2>2. core' = [e EXCEPT !.inserted = FALSE, !.ptr = 0] /\ file' = FilesFlushed(core, file)
    BY <1>2 DEF set_eject_state
  <2> HIDE DEF F
  <2>3. e \in Cores /\ SameButDisk(F, e) /\ e.disk = Empty /\ e.dirty = 0
    BY <2>1, EjectedFields DEF Whole
  <2> HIDE DEF e
  <2>4. /\ core' \in Cores /\ core'.paths = e.paths /\ core'.sram = e.sram /\ core'.disk = Empty
        /\ core'.dirty = 0 /\ core'.ptr = 0
    <3>1. 0 \in 0 .. MAXDISKS
      BY Ground
    <3> QED BY <2>2, <2>3, <3>1 DEF Cores
  <2>5. Whole(core') /\ Slotted(mode', kind', core')
    BY <1>1, <2>1, <2>3, <2>4 DEF Whole, Slotted, SameButDisk
  <2>6. TypedState'
    BY <1>1, <2>1, <2>2 DEF Typed, TypedState
  <2> QED BY <1>1, <2>4, <2>5, <2>6, Ground DEF Typed
<1>3. CASE ~ejected
  <2>1. core' = [core EXCEPT !.inserted = TRUE] /\ file' = file
    BY <1>3 DEF set_eject_state
  <2>2. /\ core' \in Cores /\ core'.paths = core.paths /\ core'.sram = core.sram
        /\ core'.disk = core.disk /\ core'.dirty = core.dirty /\ core'.ptr = core.ptr
        /\ core'.index = core.index
    BY <1>1, <2>1, TypedNow DEF Cores
  <2>3. Whole(core') /\ Slotted(mode', kind', core')
    BY <1>1, <2>2, TypedNow DEF Whole, Slotted
  <2>4. TypedState'
    BY <1>1, <2>1 DEF Typed, TypedState
  <2> QED BY <1>1, <2>2, <2>3, <2>4, TypedNow DEF Typed
<1> QED BY <1>2, <1>3

\* An image is inserted by the frontend, or by the keyboard after a flush.
LEMMA InsertTyped ==
  ASSUME NEW c, Whole(c), Slotted(mode, kind, c), NEW n \in 0 .. Len(c.paths), NEW f \in Files
  PROVE  /\ Whole(ImageSet(c, n, f)) /\ ImageSet(c, n, f).dirty < fps
         /\ Slotted(mode, kind, ImageSet(c, n, f))
<1>1. /\ Whole(ImageSet(c, n, f)) /\ SameButImage(c, ImageSet(c, n, f))
      /\ Inserted(c, n, f, ImageSet(c, n, f))
  BY ImageSetFields
<1>2. ImageSet(c, n, f).dirty < fps
  BY <1>1, Ground DEF Inserted
<1>3. Slotted(mode, kind, ImageSet(c, n, f))
  BY <1>1 DEF Slotted, SameButImage
<1> QED BY <1>1, <1>2, <1>3

LEMMA SetIndexTyped ==
  ASSUME Typed, NEW n \in 0 .. Len(core.paths), set_image_index(n)
  PROVE  Typed'
<1>1. core' = ImageSet(core, n, file) /\ file' = file
      /\ phase = "running" /\ UNCHANGED <<mode, kind, phase, srm, writes, latest>>
  BY DEF set_image_index, Kept, Swappable
<1>2. TypedState'
  BY <1>1 DEF Typed, TypedState
<1>3. /\ Whole(ImageSet(core, n, file)) /\ ImageSet(core, n, file).dirty < fps
      /\ Slotted(mode, kind, ImageSet(core, n, file))
  BY <1>1, TypedNow, InsertTyped
<1> QED BY <1>1, <1>2, <1>3 DEF Typed

LEMMA KeySwapTyped ==
  ASSUME Typed, NEW n \in 0 .. Len(core.paths), KeySwap(n)
  PROVE  Typed'
<1> DEFINE F == Flushed(core, file)
           f == FilesFlushed(core, file)
<1>1. core' = ImageSet(F, n, f) /\ file' = f
      /\ phase = "running" /\ UNCHANGED <<mode, kind, phase, srm, writes, latest>>
  BY DEF KeySwap, Kept, Swappable
<1>2. Whole(F) /\ Slotted(mode, kind, F) /\ f \in Files
  BY <1>1, FlushTyped
<1>3. F.paths = core.paths
  BY <1>1, TypedNow, FlushedFields DEF SameButSram
<1> HIDE DEF F, f
<1>4. TypedState'
  BY <1>1, <1>2 DEF Typed, TypedState
<1>5. /\ Whole(ImageSet(F, n, f)) /\ ImageSet(F, n, f).dirty < fps
      /\ Slotted(mode, kind, ImageSet(F, n, f))
  BY <1>2, <1>3, InsertTyped
<1> QED BY <1>1, <1>4, <1>5 DEF Typed

\* The list of images changes.
LEMMA ListTyped ==
  ASSUME Typed, Swappable, NEW p \in Short(Images), Len(p) >= Len(core.paths), p # <<>>,
         core' = [core EXCEPT !.paths = p], file' = file,
         UNCHANGED <<mode, kind, phase, srm, writes, latest>>
  PROVE  Typed'
<1>0. phase # "off" /\ kind = "m3u"
  BY DEF Swappable
<1>1. /\ core' \in Cores /\ core'.paths = p /\ core'.sram = core.sram
      /\ core'.disk = core.disk /\ core'.dirty = core.dirty /\ core'.ptr = core.ptr
      /\ core'.index = core.index
  BY <1>0, TypedNow DEF Cores
<1>2. Whole(core') /\ Slotted(mode', kind', core')
  <2>1. core.disk # Empty /\ p # <<>> => core.index < Len(p)
    <3>1. core.paths # <<>>
      BY <1>0, TypedNow DEF Slotted
    <3>2. core.disk # Empty => core.index < Len(core.paths)
      BY <3>1, <1>0, TypedNow DEF Whole
    <3>3. core.index \in Nat /\ Len(core.paths) \in Nat /\ Len(p) \in Nat
      BY <1>0, TypedNow, DiskFields, LenProperties DEF Short
    <3> QED BY <3>2, <3>3
  <2> QED BY <1>1, <2>1, <1>0, TypedNow DEF Whole, Slotted
<1>3. TypedState'
  BY DEF Typed, TypedState
<1> QED BY <1>1, <1>2, <1>3, <1>0, TypedNow DEF Typed

LEMMA AppendTyped ==
  ASSUME Typed, NEW i \in Appendable, AppendImage(i)
  PROVE  Typed'
<1> DEFINE p == Append(core.paths, i)
<1>1. phase # "off" /\ Swappable /\ Len(core.paths) < MAXDISKS
  BY DEF AppendImage, Swappable
<1>2. core.paths \in Seq(Images) /\ Len(core.paths) \in Nat /\ i \in Images
  BY <1>1, TypedNow, DiskFields, Ground
<1>3. p \in Seq(Images) /\ p # <<>> /\ Len(p) = Len(core.paths) + 1
  BY <1>2, AppendProperties
<1>4. core' = [core EXCEPT !.paths = p] /\ file' = file
      /\ UNCHANGED <<mode, kind, phase, srm, writes, latest>>
  BY DEF AppendImage, Kept
<1> HIDE DEF p
<1>5. p \in Short(Images) /\ Len(p) >= Len(core.paths)
  BY <1>1, <1>2, <1>3, Ground DEF Short
<1> QED BY <1>1, <1>3, <1>4, <1>5, ListTyped

LEMMA ReplaceTyped ==
  ASSUME Typed, NEW n \in 0 .. Len(core.paths) - 1, NEW i \in Appendable, ReplaceImage(n, i)
  PROVE  Typed'
<1> DEFINE p == [core.paths EXCEPT ![n + 1] = i]
<1>1. phase # "off" /\ Swappable
  BY DEF ReplaceImage, Swappable
<1>2. /\ core.paths \in Seq(Images) /\ Len(core.paths) \in 0 .. MAXDISKS /\ i \in Images
      /\ Len(core.paths) \in Nat
  BY <1>1, TypedNow, DiskFields, Ground
<1>3. n + 1 \in 1 .. Len(core.paths)
  BY <1>2
<1>4. p \in Seq(Images) /\ Len(p) = Len(core.paths)
  BY <1>2, <1>3, ExceptSeq
<1>5. core' = [core EXCEPT !.paths = p] /\ file' = file
      /\ UNCHANGED <<mode, kind, phase, srm, writes, latest>>
  BY DEF ReplaceImage, Kept
<1> HIDE DEF p
<1>6. p \in Short(Images) /\ Len(p) >= Len(core.paths)
  BY <1>2, <1>4, Ground DEF Short
<1>7. p # <<>>
  BY <1>2, <1>3, <1>4, EmptySeq
<1> QED BY <1>1, <1>5, <1>6, <1>7, ListTyped

LEMMA SavedType ==
  ASSUME NEW c \in Cores, c.sram \in Patches
  PROVE  /\ Saved(c) \in Patches /\ Saved(c).dir = c.sram.dir
         /\ \A r \in 1 .. MAXDISKS : Saved(c).slot[r] =
               IF kind = "dsk" \/ r <= Len(c.sram.dir) THEN c.sram.slot[r] ELSE Nothing
<1> DEFINE slot == [r \in DOMAIN c.sram.slot |->
                      IF kind = "dsk" \/ r <= Len(c.sram.dir) THEN c.sram.slot[r] ELSE Nothing]
<1>1. c.sram.slot \in [1 .. MAXDISKS -> Contents \cup {Nothing}]
  BY DEF Patches
<1>2. /\ slot \in [1 .. MAXDISKS -> Contents \cup {Nothing}]
      /\ \A r \in 1 .. MAXDISKS : slot[r] =
            IF kind = "dsk" \/ r <= Len(c.sram.dir) THEN c.sram.slot[r] ELSE Nothing
  BY <1>1
<1>3. Saved(c) = [c.sram EXCEPT !.slot = slot]
  BY DEF Saved
<1> HIDE DEF slot
<1>4. Saved(c) \in Patches /\ Saved(c).slot = slot /\ Saved(c).dir = c.sram.dir
  BY <1>2, <1>3 DEF Patches
<1> QED BY <1>2, <1>4

LEMMA CleanedFields ==
  ASSUME NEW c, Whole(c)
  PROVE  /\ Whole(Cleaned(c)) /\ Cleaned(c).paths = c.paths /\ Cleaned(c).sram = NoSram
         /\ Cleaned(c).dirty = c.dirty /\ Cleaned(c).disk = c.disk
         /\ Cleaned(c).name = c.name
<1> DEFINE d == Cleaned(c)
<1>1. c \in Cores /\ 0 \in 0 .. MAXDISKS
  BY Ground DEF Whole
<1>2. d = [c EXCEPT !.sram = NoSram, !.ptr = 0, !.patched = FALSE]
  BY DEF Cleaned
<1> HIDE DEF d
<1>3. /\ d \in Cores /\ d.paths = c.paths /\ d.sram = NoSram /\ d.dirty = c.dirty
      /\ d.disk = c.disk /\ d.index = c.index /\ d.ptr = 0 /\ d.name = c.name
  BY <1>1, <1>2 DEF Cores
<1>4. Whole(d)
  BY <1>3, SramTypes DEF Whole
<1> QED BY <1>3, <1>4 DEF d

LEMMA SaveTyped ==
  ASSUME Typed, SaveFiles
  PROVE  Typed'
<1> DEFINE c == Flushed(core, file)
<1>1. /\ phase = "running" /\ phase' \in {"closing", "running"}
      /\ UNCHANGED <<mode, kind, writes, latest>>
  BY DEF SaveFiles
<1>2. CASE mode # "sram"
  <2>1. UNCHANGED <<core, srm, file>>
    BY <1>2 DEF SaveFiles
  <2>2. TypedState'
    BY <1>1, <2>1 DEF Typed, TypedState
  <2> QED BY <1>1, <2>1, <2>2, TypedNow DEF Typed
<1>3. CASE mode = "sram"
  <2>1. Whole(c) /\ c.dirty < fps /\ Slotted(mode, kind, c) /\ FilesFlushed(core, file) \in Files
    BY <1>1, FlushTyped
  <2>2. /\ core' = IF kind = "dsk" /\ c.sram # NoSram /\ c.sram.slot[1] = Nothing
                   THEN Cleaned(c) ELSE c
        /\ srm' = IF core'.sram = NoSram THEN srm ELSE Saved(c)
        /\ file' = FilesFlushed(core, file)
    BY <1>3 DEF SaveFiles
  <2> HIDE DEF c
  <2>3. Whole(core') /\ core'.dirty < fps
    BY <2>1, <2>2, CleanedFields
  <2>4. Slotted(mode', kind', core')
    BY <1>1, <2>1, <2>2, CleanedFields DEF Slotted
  <2>5. srm' \in {NoSram} \cup Patches /\ IsInjective(srm'.dir)
    <3>1. CASE core'.sram = NoSram
      <4>1. srm' = srm
        BY <2>2, <3>1
      <4> QED BY <1>1, <4>1, TypedNow
    <3>2. CASE core'.sram # NoSram
      <4>1. core' = c /\ srm' = Saved(c)
        BY <2>1, <2>2, <3>2, CleanedFields
      <4>2. c \in Cores /\ c.sram \in Patches /\ IsInjective(c.sram.dir)
        BY <2>1, <3>2, <4>1, DiskFields DEF Whole
      <4>3. Saved(c) \in Patches /\ Saved(c).dir = c.sram.dir
        BY <4>2, SavedType
      <4> QED BY <4>1, <4>2, <4>3
    <3> QED BY <3>1, <3>2
  <2>6. TypedState'
    BY <1>1, <2>1, <2>2, <2>5 DEF Typed, TypedState
  <2> QED BY <1>1, <2>3, <2>4, <2>6 DEF Typed
<1> QED BY <1>2, <1>3

LEMMA UnloadTyped ==
  ASSUME Typed, retro_unload_game
  PROVE  Typed'
<1>1. /\ phase = "closing" /\ phase' = "off" /\ file' = FilesFlushed(core, file)
      /\ core' = CoreOff /\ UNCHANGED <<mode, kind, srm, writes, latest>>
  BY DEF retro_unload_game
<1>2. FilesFlushed(core, file) \in Files
  BY <1>1, FlushTyped
<1>3. TypedState'
  BY <1>1, <1>2 DEF Typed, TypedState
<1> QED BY <1>1, <1>3, OffFields, Ground DEF Typed

LEMMA InitTyped == ASSUME Init PROVE Typed
<1>1. file \in Files
  BY Ground DEF Init, Files
<1>2. latest \in [Images -> Contents]
  BY Ground DEF Init
<1>3. TypedState
  BY <1>1, <1>2, Ground, SramTypes DEF Init, TypedState
<1> QED BY <1>3, OffFields, Ground DEF Init, Typed

LEMMA NextTyped == ASSUME Typed, [Next]_vars PROVE Typed'
<1>1. CASE retro_load_game
  BY <1>1, LoadTyped
<1>2. CASE retro_run
  BY <1>2, RunTyped
<1>3. CASE retro_reset
  BY <1>3, ResetTyped
<1>4. CASE \E ejected \in BOOLEAN : set_eject_state(ejected)
  BY <1>4, EjectTyped
<1>5. CASE \E n \in 0 .. Len(core.paths) : set_image_index(n) \/ KeySwap(n)
  BY <1>5, SetIndexTyped, KeySwapTyped
<1>6. CASE \E i \in Appendable : AppendImage(i)
  BY <1>6, AppendTyped
<1>7. CASE \E n \in 0 .. Len(core.paths) - 1, i \in Appendable : ReplaceImage(n, i)
  BY <1>7, ReplaceTyped
<1>8. CASE SaveFiles
  BY <1>8, SaveTyped
<1>9. CASE retro_unload_game
  BY <1>9, UnloadTyped
<1>10. CASE UNCHANGED vars
  BY <1>10 DEF vars, Typed, TypedState
<1> QED BY <1>1, <1>2, <1>3, <1>4, <1>5, <1>6, <1>7, <1>8, <1>9, <1>10 DEF Next

\* Every variable has its type in every reachable state, whatever the frontend
\* does with the tray: the debounce counter stays below fps, and the directory
\* that listed_disk() appends to in the SRAM within MAXDISKS entries, since an
\* image is only flushed while it is in the list and has one entry at most.
THEOREM TypeCorrect == Spec => []TypeOK
<1>1. Init => Typed
  BY InitTyped
<1>2. Typed /\ [Next]_vars => Typed'
  BY NextTyped
<1>3. Typed => TypeOK
  BY TypedIsTypeOK
<1> QED BY <1>1, <1>2, <1>3, PTL DEF Spec

\* What a step may do to the files that exist: a flush to the SRAM or none at
\* all leaves them alone.
LEMMA FlushKeepsFiles ==
  ASSUME mode \in {"sram", "never"}, file \in Files, NEW c, NEW i \in Images, Exists(i, file)
  PROVE  FilesFlushed(c, file)[i] = file[i]
<1>1. CASE c.dirty = 0 \/ mode = "never" \/ ToSram(c, file)
  BY <1>1 DEF FilesFlushed
<1>2. CASE ~(c.dirty = 0 \/ mode = "never" \/ ToSram(c, file))
  <2>1. ~Exists(c.name, file)
    BY <1>2 DEF ToSram
  <2>2. FilesFlushed(c, file) = [file EXCEPT ![c.name] = c.disk.data] /\ c.name # i
    BY <1>2, <2>1 DEF FilesFlushed
  <2> QED BY <2>2 DEF Files
<1> QED BY <1>1, <1>2

\* "This will leave your content files intact": with "To/From SRAM" and with
\* "Never", no step changes an image file that exists.
THEOREM FilesIntact == Spec => ContentIntact
<1> DEFINE Intact ==
      \A i \in Images : mode \in {"sram", "never"} /\ Exists(i, file) => file'[i] = file[i]
<1>1. ASSUME Typed, [Next]_vars PROVE Intact
  <2> SUFFICES ASSUME NEW i \in Images, mode \in {"sram", "never"}, Exists(i, file)
               PROVE  file'[i] = file[i]
    OBVIOUS
  <2>1. file \in Files
    BY <1>1 DEF Typed, TypedState
  <2>2. \A c : FilesFlushed(c, file)[i] = file[i]
    BY <2>1, FlushKeepsFiles
  <2>3. \A c : FilesDebounced(c, file)[i] = file[i]
    BY <2>2 DEF FilesDebounced
  <2>4. CASE retro_run
    <3> DEFINE c == FirstPatch(core)
    <3>1. EndFrame(c) \/ EndFrame(Written(c))
      BY <2>4 DEF retro_run
    <3> QED BY <2>3, <3>1 DEF EndFrame
  <2>5. CASE retro_reset \/ retro_unload_game
    BY <2>2, <2>5 DEF retro_reset, retro_unload_game
  <2>6. CASE \E ejected \in BOOLEAN : set_eject_state(ejected)
    BY <2>2, <2>6 DEF set_eject_state
  <2>7. CASE \E n \in 0 .. Len(core.paths) : set_image_index(n) \/ KeySwap(n)
    BY <2>2, <2>7 DEF set_image_index, KeySwap
  <2>8. CASE SaveFiles
    BY <2>2, <2>8 DEF SaveFiles
  <2>9. CASE \/ retro_load_game \/ \E j \in Appendable : AppendImage(j)
             \/ \E n \in 0 .. Len(core.paths) - 1, j \in Appendable : ReplaceImage(n, j)
             \/ UNCHANGED vars
    BY <2>9 DEF retro_load_game, AppendImage, ReplaceImage, vars
  <2> QED BY <1>1, <2>4, <2>5, <2>6, <2>7, <2>8, <2>9 DEF Next
<1>2. Typed /\ [Next]_vars => [Intact]_vars
  BY <1>1
<1>3. Spec => []Typed
  <2>1. Init => Typed
    BY InitTyped
  <2>2. Typed /\ [Next]_vars => Typed'
    BY NextTyped
  <2> QED BY <2>1, <2>2, PTL DEF Spec
<1>4. Spec => [][Intact]_vars
  BY <1>2, <1>3, PTL DEF Spec
<1> QED BY <1>4 DEF ContentIntact

(***************************************************************************)
(* Where a change is kept                                                  *)
(***************************************************************************)
\* Frontends and options with which no change is lost.  A frontend that sets
\* an image again while a disk is in drops what it did not flush; the SRAM of
\* a .dsk game that was saved with nothing in it is gone until the game is
\* loaded again; the first write to a phantom disk goes to its new file and
\* the next has no slot; and the SRAM tells images by their index only.
Supported ==
  /\ ~Reselects
  /\ "sram" \in Modes =>
       /\ "dsk" \notin SavesWhile
       /\ phantom_disk => Single \notin Missing
       /\ \A i, j \in Appendable \ ToSet(Playlist) : i = j

\* The images of an .m3u game by their index, with the one that can be added.
Extra == CHOOSE i \in Appendable : i \notin ToSet(Playlist)
FullList ==
  IF Appendable \ ToSet(Playlist) # {} /\ Len(Playlist) < MAXDISKS
  THEN Append(Playlist, Extra) ELSE Playlist

\* Slot r of the SRAM s holds the image that belongs there.
InPlace(k, s, r) ==
  IF k = "dsk" THEN r = 1 /\ s.slot[r][1] = Single
  ELSE /\ r \in DOMAIN s.dir /\ s.dir[r] < Len(FullList)
       /\ s.slot[r][1] = FullList[s.dir[r] + 1]
SramGood(k, s, f) ==
  s # NoSram =>
    \A r \in 1 .. MAXDISKS :
      s.slot[r] # Nothing => InPlace(k, s, r) /\ f[s.slot[r][1]] # Nothing

\* Image i is found as a program last left it: its patched version in the SRAM
\* if there is one, or else its file, or else a blank disk.
Copy(s, r, i) == s # NoSram /\ s.slot[r] # Nothing /\ s.slot[r][1] = i
Held(f, i) == IF f[i] = Nothing THEN <<i, 0>> ELSE f[i]
Safe(s, f, l, i) ==
  /\ \A r \in 1 .. MAXDISKS : Copy(s, r, i) => s.slot[r] = l[i]
  /\ (\A r \in 1 .. MAXDISKS : ~Copy(s, r, i)) => l[i] = Held(f, i)
AllSafe(m, s, f, l) == m # "never" => \A i \in Images : Safe(s, f, l, i)

FilesGood(f) ==
  \A i \in Images : /\ i \notin Missing => f[i] # Nothing
                    /\ f[i] # Nothing => f[i][1] = i
SrmGood(m, k, ss, f) ==
  /\ m # "sram" => ss = NoSram
  /\ k = "dsk" /\ ss # NoSram => ss.slot[1] # Nothing
  /\ SramGood(k, ss, f)

\* What is in the drive is what its name says, and its place in the SRAM.
DriveGood(m, k, c, f) ==
  c.disk # Empty =>
    /\ c.disk.in = c.name /\ c.disk.data[1] = c.name
    /\ c.dirty = 0 => f[c.name] # Nothing
    /\ k = "dsk" => c.name = Single
    /\ m = "sram" /\ k = "m3u" => c.index < Len(c.paths) /\ c.name = c.paths[c.index + 1]
    /\ m = "sram" /\ k = "dsk" => f[c.name] # Nothing
SramMode(m, k, c, f) ==
  /\ m # "sram" => c.sram = NoSram
  /\ m = "sram" /\ k = "m3u" => c.paths \in {Playlist, FullList}
  /\ m = "sram" /\ k = "dsk" =>
       /\ c.sram # NoSram <=> f[Single] # Nothing
       /\ c.sram # NoSram => c.ptr = 1
  /\ SramGood(k, c.sram, f)
CoreGood(m, k, c, f) == DriveGood(m, k, c, f) /\ SramMode(m, k, c, f)
SrmKept(k, c, ss) ==
  k = "dsk" /\ ss # NoSram => c.sram # NoSram /\ c.sram.slot[1] # Nothing

\* Before the first frame, which patches the disk from the SRAM.
Fresh(m, c, f, l) ==
  /\ ~c.patched
  /\ c.disk # Empty => c.disk.data = Held(f, c.name) /\ (c.dirty > 0 => f[c.name] = Nothing)
  /\ AllSafe(m, c.sram, f, l)
\* From then on: only the disk in the drive may be nowhere else.
Current(m, c, s, f, l) ==
  m # "never" =>
    /\ c.disk # Empty => c.disk.data = l[c.name]
    /\ \A i \in Images : (c.dirty > 0 /\ c.name = i) \/ Safe(s, f, l, i)
Playing(m, c, f, l) == (m = "sram" => c.patched) /\ Current(m, c, c.sram, f, l)
Closing(m, k, c, ss, f, l) ==
  /\ c.disk # Empty => c.disk.data[1] = c.name
  /\ m # "sram" => c.sram = NoSram
  /\ m = "sram" => c.dirty = 0
  /\ k = "m3u" => SramMode(m, k, c, f)
  /\ Current(m, c, ss, f, l)

Good ==
  /\ FilesGood(file) /\ SrmGood(mode, kind, srm, file)
  /\ phase \in {"loaded", "running"} =>
       CoreGood(mode, kind, core, file) /\ SrmKept(kind, core, srm)
  /\ phase = "off"     => AllSafe(mode, srm, file, latest)
  /\ phase = "loaded"  => Fresh(mode, core, file, latest)
  /\ phase = "running" => Playing(mode, core, file, latest)
  /\ phase = "closing" => Closing(mode, kind, core, srm, file, latest)

(***************************************************************************)
(* The slot of an image                                                    *)
(***************************************************************************)
LEMMA ListFacts ==
  /\ FullList \in Seq(Images) /\ Len(FullList) \in Nat /\ IsInjective(FullList)
  /\ DOMAIN FullList = 1 .. Len(FullList)
  /\ Playlist \in Seq(Images) /\ Len(Playlist) \in Nat /\ Len(Playlist) <= Len(FullList)
  /\ \A n \in 1 .. Len(Playlist) : FullList[n] = Playlist[n]
<1>1. /\ Playlist \in Seq(Images) /\ Len(Playlist) \in Nat /\ IsInjective(Playlist)
      /\ DOMAIN Playlist = 1 .. Len(Playlist)
  <2>1. Playlist \in Seq(Images) /\ IsInjective(Playlist)
    BY Ground DEF Short
  <2> QED BY <2>1, LenProperties
<1>2. CASE Appendable \ ToSet(Playlist) # {} /\ Len(Playlist) < MAXDISKS
  <2>1. FullList = Append(Playlist, Extra)
    BY <1>2 DEF FullList
  <2>2. Extra \in Images /\ Extra \notin ToSet(Playlist)
    BY <1>2, Ground DEF Extra
  <2>3. /\ FullList \in Seq(Images) /\ Len(FullList) = Len(Playlist) + 1
        /\ \A n \in 1 .. Len(Playlist) : FullList[n] = Playlist[n]
        /\ FullList[Len(Playlist) + 1] = Extra
    BY <1>1, <2>1, <2>2, AppendProperties
  <2>4. DOMAIN FullList = 1 .. Len(FullList)
    BY <2>3, LenProperties
  <2>5. \A n \in 1 .. Len(Playlist) : Playlist[n] # Extra
    BY <1>1, <2>2 DEF ToSet
  <2>6. IsInjective(FullList)
    BY <1>1, <2>3, <2>4, <2>5 DEF IsInjective
  <2> QED BY <1>1, <2>3, <2>4, <2>6
<1>3. CASE ~(Appendable \ ToSet(Playlist) # {} /\ Len(Playlist) < MAXDISKS)
  <2>1. FullList = Playlist
    BY <1>3 DEF FullList
  <2> QED BY <1>1, <2>1
<1> QED BY <1>2, <1>3

LEMMA Listing ==
  ASSUME NEW p \in {Playlist, FullList}, NEW n \in Nat, n < Len(p)
  PROVE  n < Len(FullList) /\ p[n + 1] = FullList[n + 1]
<1>1. CASE p = FullList
  BY <1>1
<1>2. CASE p = Playlist
  <2>1. n + 1 \in 1 .. Len(Playlist)
    BY <1>2, ListFacts
  <2> QED BY <1>2, <2>1, ListFacts
<1> QED BY <1>1, <1>2

\* The one image that can be added makes the full list.
LEMMA Appending ==
  ASSUME NEW p \in {Playlist, FullList}, NEW i \in Appendable, i \notin ToSet(p),
         Len(p) < MAXDISKS, \A a, b \in Appendable \ ToSet(Playlist) : a = b
  PROVE  Append(p, i) = FullList
<1>1. i \notin ToSet(Playlist)
  <2> SUFFICES ASSUME i \in ToSet(Playlist) PROVE FALSE
    OBVIOUS
  <2>1. PICK n \in DOMAIN Playlist : Playlist[n] = i
    BY DEF ToSet
  <2>2. n \in 1 .. Len(Playlist)
    BY <2>1, ListFacts, LenProperties
  <2>3. n \in DOMAIN FullList /\ FullList[n] = i
    BY <2>1, <2>2, ListFacts
  <2>4. i \in ToSet(FullList)
    BY <2>3 DEF ToSet
  <2> QED BY <2>4
<1>2. i \in Appendable \ ToSet(Playlist)
  BY <1>1
<1>3. Extra = i
  <2>1. Extra \in Appendable \ ToSet(Playlist)
    BY <1>2 DEF Extra
  <2> QED BY <1>2, <2>1
<1>4. CASE Len(Playlist) < MAXDISKS
  <2>1. FullList = Append(Playlist, i)
    BY <1>2, <1>3, <1>4 DEF FullList
  <2>2. p # FullList
    <3>1. FullList[Len(Playlist) + 1] = i /\ Len(FullList) = Len(Playlist) + 1
      BY <2>1, ListFacts, AppendProperties, Ground
    <3>2. Len(Playlist) + 1 \in DOMAIN FullList
      BY <3>1, ListFacts
    <3>3. i \in ToSet(FullList)
      BY <3>1, <3>2 DEF ToSet
    <3> QED BY <3>3
  <2> QED BY <2>1, <2>2
<1>5. CASE ~(Len(Playlist) < MAXDISKS)
  <2>1. FullList = Playlist
    BY <1>5 DEF FullList
  <2> QED BY <1>5, <2>1
<1> QED BY <1>4, <1>5

\* The slot of the image in the drive, and the image itself.
SlotIn(k, c) == IF k = "dsk" THEN 1 ELSE SlotOf(c)
NameIn(k, c) ==
  /\ k \in {"m3u", "dsk"}
  /\ k = "dsk" => c.name = Single
  /\ k = "m3u" => c.index \in Nat /\ c.index < Len(FullList) /\ c.name = FullList[c.index + 1]

LEMMA DriveNamed ==
  ASSUME NEW k \in {"m3u", "dsk"}, NEW c \in Cores, NEW f,
         CoreGood("sram", k, c, f), c.disk # Empty
  PROVE  NameIn(k, c)
<1>1. CASE k = "dsk"
  BY <1>1 DEF CoreGood, DriveGood, NameIn
<1>2. CASE k = "m3u"
  <2>1. c.index < Len(c.paths) /\ c.name = c.paths[c.index + 1] /\ c.paths \in {Playlist, FullList}
    BY <1>2 DEF CoreGood, DriveGood, SramMode
  <2>2. c.index \in Nat
    BY DiskFields
  <2> QED BY <1>2, <2>1, <2>2, Listing DEF NameIn
<1> QED BY <1>1, <1>2

\* An image has at most one patched version, in the slot of its index.
LEMMA OneCopy ==
  ASSUME NEW k, NEW c \in Cores, c.sram \in Patches, IsInjective(c.sram.dir), NEW f,
         SramGood(k, c.sram, f), NameIn(k, c), NEW r \in 1 .. MAXDISKS
  PROVE  /\ Copy(c.sram, r, c.name) <=>
              c.sram.slot[r] # Nothing /\ r = SlotIn(k, c)
         /\ c.sram.slot[r] # Nothing /\ k = "m3u" /\ r = SlotIn(k, c) => Named(c)
<1>1. c.sram # NoSram
  BY SramTypes
<1>2. CASE k = "dsk"
  <2>1. c.sram.slot[r] # Nothing => r = 1 /\ c.sram.slot[r][1] = Single
    BY <1>1, <1>2 DEF SramGood, InPlace
  <2> QED BY <1>1, <1>2, <2>1 DEF Copy, SlotIn, NameIn
<1>3. CASE k = "m3u"
  <2> SUFFICES ASSUME c.sram.slot[r] # Nothing
               PROVE  /\ c.sram.slot[r][1] = c.name <=> r = SlotOf(c)
                      /\ r = SlotOf(c) => Named(c)
    BY <1>1, <1>3 DEF Copy, SlotIn
  <2> DEFINE dir == c.sram.dir
             n == dir[r]
  <2>1. r \in DOMAIN dir /\ dir[r] < Len(FullList) /\ c.sram.slot[r][1] = FullList[dir[r] + 1]
    BY <1>1, <1>3 DEF SramGood, InPlace
  <2>2. dir \in Seq(Indices) /\ DOMAIN dir = 1 .. Len(dir)
    BY LenProperties DEF Patches, Short
  <2>3. n \in Nat
    BY <2>1, <2>2, ElementOfSeq, Ground DEF Indices
  <2>4. c.index \in Nat /\ c.index < Len(FullList) /\ c.name = FullList[c.index + 1]
    BY <1>3 DEF NameIn
  <2>5. n + 1 \in DOMAIN FullList /\ c.index + 1 \in DOMAIN FullList
    BY <2>1, <2>3, <2>4, ListFacts
  <2> HIDE DEF n
  <2>6. FullList[n + 1] = c.name <=> n = c.index
    <3>1. IsInjective(FullList)
      BY ListFacts
    <3>2. FullList[n + 1] = FullList[c.index + 1] => n + 1 = c.index + 1
      BY <2>5, <3>1 DEF IsInjective
    <3> QED BY <2>3, <2>4, <3>2
  <2>7. n = c.index => Named(c)
    BY <2>1 DEF Named, n
  <2>8. n = c.index <=> r = SlotOf(c)
    <3>1. ASSUME n = c.index PROVE r = SlotOf(c)
      <4>1. SlotOf(c) \in DOMAIN dir /\ dir[SlotOf(c)] = c.index
        BY <2>7, <3>1, <2>2, Slots
      <4> QED BY <2>1, <3>1, <4>1 DEF IsInjective, n
    <3>2. ASSUME r = SlotOf(c) PROVE n = c.index
      BY <2>1, <2>2, <3>2, Slots DEF n
    <3> QED BY <3>1, <3>2
  <2> QED BY <2>1, <2>6, <2>7, <2>8 DEF n
<1> QED BY <1>2, <1>3 DEF NameIn

\* More files with the same SRAM.
Grows(f, g) == \A i \in Images : f[i] # Nothing => g[i] # Nothing
LEMMA SramGrows ==
  ASSUME NEW k, NEW s \in {NoSram} \cup Patches, NEW f, NEW g, Grows(f, g), SramGood(k, s, f)
  PROVE  SramGood(k, s, g)
<1> SUFFICES ASSUME s # NoSram, NEW r \in 1 .. MAXDISKS, s.slot[r] # Nothing
             PROVE  InPlace(k, s, r) /\ g[s.slot[r][1]] # Nothing
  BY DEF SramGood
<1>1. InPlace(k, s, r) /\ f[s.slot[r][1]] # Nothing
  BY DEF SramGood
<1>2. s.slot[r] \in Contents
  BY DEF Patches
<1>3. s.slot[r][1] \in Images
  BY <1>2 DEF Contents
<1> QED BY <1>1, <1>3 DEF Grows

(***************************************************************************)
(* A flush stores the disk where it will be found                          *)
(***************************************************************************)
LEMMA FlushToSram ==
  ASSUME NEW c, NEW d, NEW f \in Files, NEW l, Whole(c), Whole(d), Slotted(mode, kind, c),
         mode = "sram", CoreGood(mode, kind, c, f), Playing(mode, c, f, l), FilesGood(f),
         c.dirty > 0, f[c.name] # Nothing,
         FlushesTo(c, d), SameButSram(c, d), d.dirty = 0
  PROVE  /\ CoreGood(mode, kind, d, f) /\ Playing(mode, d, f, l)
         /\ kind = "dsk" => d.sram # NoSram /\ d.sram.slot[1] # Nothing
<1> DEFINE at == SlotIn(kind, c)
<1>1. /\ c \in Cores /\ d \in Cores /\ c.disk # Empty /\ kind \in {"m3u", "dsk"}
      /\ IsInjective(c.sram.dir) /\ IsInjective(d.sram.dir)
  BY DEF Whole, Slotted
<1>2. NameIn(kind, c) /\ c.disk.data[1] = c.name /\ c.disk.data \in Contents /\ c.name \in Images
  BY <1>1, DriveNamed, DiskFields DEF CoreGood, DriveGood, Cores
<1>3. c.sram # NoSram /\ c.sram \in Patches /\ (kind = "dsk" => c.ptr = 1)
  <2>1. kind = "dsk" => c.sram # NoSram /\ c.ptr = 1
    BY <1>2 DEF CoreGood, SramMode, NameIn
  <2>2. c.sram # NoSram
    BY <1>1, <2>1 DEF Slotted
  <2> QED BY <1>1, <2>1, <2>2, DiskFields
<1>4. /\ d.paths = c.paths /\ d.index = c.index /\ d.name = c.name /\ d.disk = c.disk
      /\ d.patched = c.patched
  BY DEF SameButSram
<1>5. /\ d.sram \in Patches /\ d.sram # NoSram /\ d.ptr = at /\ at \in 1 .. MAXDISKS
      /\ \A r \in 1 .. MAXDISKS : d.sram.slot[r] =
            IF r = at THEN c.disk.data ELSE c.sram.slot[r]
      /\ d.sram.dir = IF kind = "dsk" \/ Named(c) THEN c.sram.dir
                      ELSE Append(c.sram.dir, c.index)
  <2>1. at = IF c.paths = <<>> THEN c.ptr ELSE SlotOf(c)
    BY <1>1, <1>3 DEF SlotIn, Slotted
  <2>2. c.paths = <<>> <=> kind = "dsk"
    BY <1>1 DEF Slotted
  <2>3. at # 0
    BY <1>3, <2>1, <2>2 DEF FlushesTo
  <2>4. d.ptr = at /\ at \in 0 .. MAXDISKS /\ d.sram \in Patches
    BY <1>3, <2>1 DEF FlushesTo
  <2>5. \A r \in 1 .. MAXDISKS : d.sram.slot[r] =
            IF r = at THEN c.disk.data ELSE c.sram.slot[r]
    BY <1>3, <2>1 DEF FlushesTo
  <2>6. d.sram.dir = IF kind = "dsk" \/ Named(c) THEN c.sram.dir
                      ELSE Append(c.sram.dir, c.index)
    BY <1>3, <2>2 DEF FlushesTo
  <2>7. at \in 1 .. MAXDISKS
    BY <2>3, <2>4, Ground
  <2> QED BY <2>4, <2>5, <2>6, <2>7, SramTypes
<1>6. kind = "m3u" => /\ at \in DOMAIN d.sram.dir /\ d.sram.dir[at] = c.index
                      /\ \A r \in DOMAIN c.sram.dir :
                           r \in DOMAIN d.sram.dir /\ d.sram.dir[r] = c.sram.dir[r]
  <2> SUFFICES ASSUME kind = "m3u"
               PROVE  /\ at \in DOMAIN d.sram.dir /\ d.sram.dir[at] = c.index
                      /\ \A r \in DOMAIN c.sram.dir :
                           r \in DOMAIN d.sram.dir /\ d.sram.dir[r] = c.sram.dir[r]
    OBVIOUS
  <2>1. at = SlotOf(c)
    BY DEF SlotIn
  <2>2. CASE Named(c)
    <3>1. d.sram.dir = c.sram.dir
      BY <1>5, <2>2
    <3> QED BY <1>1, <1>3, <2>1, <2>2, <3>1, Slots
  <2>3. CASE ~Named(c)
    <3>1. c.sram.dir \in Seq(Indices) /\ Len(c.sram.dir) \in Nat
          /\ DOMAIN c.sram.dir = 1 .. Len(c.sram.dir)
      BY <1>3, LenProperties DEF Patches, Short
    <3>2. c.index \in Indices
      <4>1. c.index < Len(c.paths) /\ Len(c.paths) \in 0 .. MAXDISKS /\ c.index \in Nat
        BY <1>1, DiskFields DEF CoreGood, DriveGood
      <4> QED BY <4>1, Ground DEF Indices
    <3>3. d.sram.dir = Append(c.sram.dir, c.index)
      BY <1>5, <2>3
    <3>4. /\ Len(d.sram.dir) = Len(c.sram.dir) + 1 /\ d.sram.dir \in Seq(Indices)
          /\ \A r \in 1 .. Len(c.sram.dir) : d.sram.dir[r] = c.sram.dir[r]
          /\ d.sram.dir[Len(c.sram.dir) + 1] = c.index
      BY <3>1, <3>2, <3>3, AppendProperties
    <3>5. at = Len(c.sram.dir) + 1
      BY <1>1, <1>3, <2>1, <2>3, <3>1, Slots
    <3>6. DOMAIN d.sram.dir = 1 .. Len(c.sram.dir) + 1
      BY <3>4, LenProperties
    <3>7. Len(c.sram.dir) + 1 \in 1 .. Len(c.sram.dir) + 1
          /\ \A r \in 1 .. Len(c.sram.dir) : r \in 1 .. Len(c.sram.dir) + 1
      BY <3>1
    <3>8. at \in DOMAIN d.sram.dir
      BY <3>5, <3>6, <3>7
    <3>9. d.sram.dir[at] = c.index
      BY <3>4, <3>5
    <3>10. \A r \in DOMAIN c.sram.dir : r \in DOMAIN d.sram.dir /\ d.sram.dir[r] = c.sram.dir[r]
      BY <3>1, <3>4, <3>6, <3>7
    <3> QED BY <3>8, <3>9, <3>10
  <2> QED BY <2>2, <2>3
<1> HIDE DEF at
<1>7. NameIn(kind, d)
  BY <1>2, <1>4 DEF NameIn
<1>8. SramGood(kind, d.sram, f)
  <2> SUFFICES ASSUME NEW r \in 1 .. MAXDISKS, d.sram.slot[r] # Nothing
               PROVE  InPlace(kind, d.sram, r) /\ f[d.sram.slot[r][1]] # Nothing
    BY DEF SramGood
  <2>1. CASE r = at
    <3>1. d.sram.slot[r][1] = c.name
      BY <1>2, <1>5, <2>1
    <3>2. CASE kind = "dsk"
      BY <1>2, <2>1, <3>1, <3>2 DEF InPlace, NameIn, SlotIn, at
    <3>3. CASE kind = "m3u"
      BY <1>2, <1>6, <2>1, <3>1, <3>3 DEF InPlace, NameIn
    <3> QED BY <1>1, <3>1, <3>2, <3>3
  <2>2. CASE r # at
    <3>1. d.sram.slot[r] = c.sram.slot[r]
      BY <1>5, <2>2
    <3>2. InPlace(kind, c.sram, r) /\ f[c.sram.slot[r][1]] # Nothing
      BY <1>3, <3>1 DEF CoreGood, SramMode, SramGood
    <3>3. InPlace(kind, d.sram, r)
      BY <1>1, <1>6, <3>1, <3>2 DEF InPlace
    <3> QED BY <3>1, <3>2, <3>3
  <2> QED BY <2>1, <2>2
<1>9. SlotIn(kind, d) = at
  <2>1. CASE kind = "dsk"
    BY <2>1 DEF SlotIn, at
  <2>2. CASE kind = "m3u"
    <3>1. Named(d)
      BY <1>4, <1>6, <2>2 DEF Named
    <3>2. SlotOf(d) \in DOMAIN d.sram.dir /\ d.sram.dir[SlotOf(d)] = d.index
      <4>1. d \in Cores /\ d.sram \in Patches
        BY <1>1, <1>5
      <4> QED BY <3>1, <4>1, Slots
    <3>3. SlotOf(d) = at
      BY <1>1, <1>4, <1>6, <2>2, <3>2 DEF IsInjective
    <3> QED BY <2>2, <3>3 DEF SlotIn
  <2> QED BY <1>1, <2>1, <2>2
<1>10. ASSUME NEW r \in 1 .. MAXDISKS
       PROVE  /\ Copy(c.sram, r, c.name) <=> c.sram.slot[r] # Nothing /\ r = at
              /\ Copy(d.sram, r, c.name) <=> r = at
  <2>1. Copy(c.sram, r, c.name) <=> c.sram.slot[r] # Nothing /\ r = at
    BY <1>1, <1>2, <1>3, OneCopy DEF CoreGood, SramMode, at
  <2>2. Copy(d.sram, r, d.name) <=> d.sram.slot[r] # Nothing /\ r = at
    BY <1>1, <1>5, <1>7, <1>8, <1>9, OneCopy
  <2>3. r = at => d.sram.slot[r] # Nothing
    BY <1>2, <1>5, Ground
  <2> QED BY <1>4, <2>1, <2>2, <2>3
<1>11. c.disk.data = l[c.name] /\ \A i \in Images : c.name = i \/ Safe(c.sram, f, l, i)
  BY <1>1 DEF Playing, Current
<1>12. ASSUME NEW i \in Images PROVE Safe(d.sram, f, l, i)
  <2>1. CASE i = c.name
    <3>1. \A r \in 1 .. MAXDISKS : Copy(d.sram, r, i) => d.sram.slot[r] = l[i]
      BY <1>5, <1>10, <1>11, <2>1
    <3>2. Copy(d.sram, at, i)
      BY <1>5, <1>10, <2>1
    <3> QED BY <1>5, <3>1, <3>2 DEF Safe
  <2>2. CASE i # c.name
    <3>1. Safe(c.sram, f, l, i)
      BY <1>11, <2>2
    <3>2. \A r \in 1 .. MAXDISKS : Copy(d.sram, r, i) => r # at /\ Copy(c.sram, r, i)
      BY <1>2, <1>3, <1>5, <2>2 DEF Copy
    <3>3. \A r \in 1 .. MAXDISKS : Copy(c.sram, r, i) => Copy(d.sram, r, i)
      <4> SUFFICES ASSUME NEW r \in 1 .. MAXDISKS, Copy(c.sram, r, i) PROVE Copy(d.sram, r, i)
        OBVIOUS
      <4>1. r # at
        <5> SUFFICES ASSUME r = at PROVE FALSE
          OBVIOUS
        <5>1. Copy(c.sram, r, c.name)
          BY <1>10 DEF Copy
        <5> QED BY <2>2, <5>1 DEF Copy
      <4> QED BY <1>5, <4>1 DEF Copy
    <3>4. \A r \in 1 .. MAXDISKS : r # at => d.sram.slot[r] = c.sram.slot[r]
      BY <1>5
    <3> QED BY <3>1, <3>2, <3>3, <3>4 DEF Safe
  <2> QED BY <2>1, <2>2
<1>13. Playing(mode, d, f, l)
  BY <1>4, <1>11, <1>12 DEF Playing, Current
<1>14. CoreGood(mode, kind, d, f)
  <2>1. DriveGood(mode, kind, d, f)
    BY <1>4 DEF CoreGood, DriveGood
  <2>2. SramMode(mode, kind, d, f)
    <3>1. kind = "m3u" => d.paths \in {Playlist, FullList}
      BY <1>4 DEF CoreGood, SramMode
    <3>2. kind = "dsk" => f[Single] # Nothing /\ d.ptr = 1
      BY <1>2, <1>5 DEF NameIn, SlotIn, at
    <3> QED BY <1>5, <1>8, <3>1, <3>2 DEF SramMode
  <2> QED BY <2>1, <2>2 DEF CoreGood
<1>15. kind = "dsk" => d.sram # NoSram /\ d.sram.slot[1] # Nothing
  <2> SUFFICES ASSUME kind = "dsk" PROVE d.sram.slot[1] # Nothing
    BY <1>5
  <2>1. at = 1
    BY DEF at, SlotIn
  <2> QED BY <1>2, <1>5, <2>1, Ground
<1> QED BY <1>13, <1>14, <1>15

\* The disk goes to its file, or is not flushed.
LEMMA FlushToFile ==
  ASSUME NEW c, NEW d, NEW f \in Files, NEW g \in Files, NEW l, Whole(c), Slotted(mode, kind, c),
         CoreGood(mode, kind, c, f), Playing(mode, c, f, l), FilesGood(f),
         c.dirty > 0, mode # "never", mode = "sram" => f[c.name] = Nothing,
         \A i \in Images : g[i] = IF i = c.name THEN c.disk.data ELSE f[i],
         SameButSram(c, d), d.sram = c.sram, d.ptr = c.ptr, d.dirty = 0
  PROVE  /\ CoreGood(mode, kind, d, g) /\ Playing(mode, d, g, l)
         /\ FilesGood(g) /\ Grows(f, g)
<1>1. /\ c \in Cores /\ c.disk # Empty /\ kind \in {"m3u", "dsk"}
      /\ c.sram \in {NoSram} \cup Patches
  BY DEF Whole, Slotted, Cores
<1>2. /\ c.disk.data[1] = c.name /\ c.disk.data \in Contents /\ c.name \in Images
      /\ c.disk.data # Nothing
  BY <1>1, DiskFields, Ground DEF CoreGood, DriveGood, Cores
<1>3. /\ d.paths = c.paths /\ d.index = c.index /\ d.name = c.name /\ d.disk = c.disk
      /\ d.patched = c.patched
  BY DEF SameButSram
<1>4. FilesGood(g) /\ Grows(f, g)
  BY <1>2 DEF FilesGood, Grows
<1>5. SramGood(kind, c.sram, g)
  BY <1>1, <1>4, SramGrows DEF CoreGood, SramMode
<1>6. mode = "sram" => kind = "m3u"
  BY <1>1 DEF CoreGood, DriveGood
<1>7. CoreGood(mode, kind, d, g)
  <2>1. DriveGood(mode, kind, d, g)
    BY <1>2, <1>3, <1>6 DEF CoreGood, DriveGood
  <2>2. SramMode(mode, kind, d, g)
    BY <1>3, <1>5, <1>6 DEF CoreGood, SramMode
  <2> QED BY <2>1, <2>2 DEF CoreGood
<1>8. c.disk.data = l[c.name] /\ \A i \in Images : c.name = i \/ Safe(c.sram, f, l, i)
  BY <1>1 DEF Playing, Current
<1>9. \A r \in 1 .. MAXDISKS : ~Copy(c.sram, r, c.name)
  <2> SUFFICES ASSUME NEW r \in 1 .. MAXDISKS, Copy(c.sram, r, c.name) PROVE FALSE
    OBVIOUS
  <2>1. f[c.name] # Nothing
    BY DEF Copy, CoreGood, SramMode, SramGood
  <2>2. mode = "sram"
    BY DEF Copy, CoreGood, SramMode
  <2> QED BY <2>1, <2>2
<1>10. ASSUME NEW i \in Images PROVE Safe(c.sram, g, l, i)
  <2>1. CASE i = c.name
    BY <1>2, <1>8, <1>9, <2>1 DEF Safe, Held
  <2>2. CASE i # c.name
    <3>1. Safe(c.sram, f, l, i) /\ g[i] = f[i]
      BY <1>8, <2>2
    <3> QED BY <3>1 DEF Safe, Held
  <2> QED BY <2>1, <2>2
<1>11. Playing(mode, d, g, l)
  BY <1>3, <1>8, <1>10 DEF Playing, Current
<1> QED BY <1>4, <1>7, <1>11

\* The disk in the drive is stored where it will be found.
LEMMA FlushGood ==
  ASSUME NEW c, NEW f \in Files, NEW l, Whole(c), Slotted(mode, kind, c),
         CoreGood(mode, kind, c, f), Playing(mode, c, f, l), FilesGood(f)
  PROVE  /\ Whole(Flushed(c, f)) /\ Slotted(mode, kind, Flushed(c, f))
         /\ FilesFlushed(c, f) \in Files
         /\ SameButSram(c, Flushed(c, f))
         /\ mode # "never" => Flushed(c, f).dirty = 0
         /\ CoreGood(mode, kind, Flushed(c, f), FilesFlushed(c, f))
         /\ Playing(mode, Flushed(c, f), FilesFlushed(c, f), l)
         /\ FilesGood(FilesFlushed(c, f)) /\ Grows(f, FilesFlushed(c, f))
         /\ \A ss : SrmKept(kind, c, ss) => SrmKept(kind, Flushed(c, f), ss)
<1> DEFINE d == Flushed(c, f)
           g == FilesFlushed(c, f)
<1>1. mode = "sram" /\ c.paths # <<>> => c.sram # NoSram
  BY DEF Slotted
<1>2. /\ Whole(d) /\ SameButSram(c, d) /\ (mode # "never" => d.dirty = 0)
      /\ (d.sram = NoSram <=> c.sram = NoSram)
      /\ Flushes(c, f) /\ ToSram(c, f) => FlushesTo(c, d)
      /\ ~(Flushes(c, f) /\ ToSram(c, f)) => d.sram = c.sram /\ d.ptr = c.ptr
  BY <1>1, FlushedFields
<1>3. /\ g \in Files
      /\ ~Flushes(c, f) \/ ToSram(c, f) => g = f
      /\ Flushes(c, f) /\ ~ToSram(c, f) =>
           \A i \in Images : g[i] = IF i = c.name THEN c.disk.data ELSE f[i]
  BY FilesFlushedType
<1>4. Slotted(mode, kind, d)
  BY <1>2 DEF Slotted, SameButSram
<1>5. Grows(f, f) /\ c \in Cores /\ c.dirty \in Nat
  BY DEF Grows, Whole, Cores
<1>6. ~Flushes(c, f) => d = c
  BY <1>5 DEF Flushed, Flushes
<1> HIDE DEF d, g
<1>7. CASE ~Flushes(c, f)
  BY <1>2, <1>3, <1>4, <1>5, <1>6, <1>7 DEF d, g
<1>8. CASE Flushes(c, f) /\ ToSram(c, f)
  <2>1. c.dirty > 0 /\ mode # "never" /\ mode = "sram" /\ f[c.name] # Nothing /\ d.dirty = 0
    BY <1>2, <1>8 DEF Flushes, ToSram, Exists
  <2>2. FlushesTo(c, d)
    BY <1>2, <1>8
  <2>3. /\ CoreGood(mode, kind, d, f) /\ Playing(mode, d, f, l)
        /\ kind = "dsk" => d.sram # NoSram /\ d.sram.slot[1] # Nothing
    BY <1>2, <2>1, <2>2, FlushToSram
  <2>4. \A ss : SrmKept(kind, d, ss)
    BY <2>3 DEF SrmKept
  <2>5. g = f
    BY <1>3, <1>8
  <2> QED BY <1>2, <1>3, <1>4, <1>5, <2>3, <2>4, <2>5 DEF d, g
<1>9. CASE Flushes(c, f) /\ ~ToSram(c, f)
  <2>1. c.dirty > 0 /\ mode # "never" /\ (mode = "sram" => f[c.name] = Nothing) /\ d.dirty = 0
    BY <1>2, <1>9 DEF Flushes, ToSram, Exists
  <2>2. \A i \in Images : g[i] = IF i = c.name THEN c.disk.data ELSE f[i]
    BY <1>3, <1>9
  <2>3. d.sram = c.sram /\ d.ptr = c.ptr
    BY <1>2, <1>9
  <2>4. /\ CoreGood(mode, kind, d, g) /\ Playing(mode, d, g, l)
        /\ FilesGood(g) /\ Grows(f, g)
    BY <1>2, <1>3, <2>1, <2>2, <2>3, FlushToFile
  <2>5. \A ss : SrmKept(kind, c, ss) => SrmKept(kind, d, ss)
    BY <2>3 DEF SrmKept
  <2> QED BY <1>2, <1>3, <1>4, <2>4, <2>5 DEF d, g
<1> QED BY <1>7, <1>8, <1>9

(***************************************************************************)
(* A disk that is inserted is the one that was last left                   *)
(***************************************************************************)
InSlot(k, c) == SlotIn(k, c) \in 1 .. MAXDISKS /\ c.sram.slot[SlotIn(k, c)] # Nothing

LEMMA LookUp ==
  ASSUME NEW k, NEW c \in Cores, c.sram \in Patches, IsInjective(c.sram.dir), NEW f, NEW l,
         SramGood(k, c.sram, f), NameIn(k, c), Safe(c.sram, f, l, c.name)
  PROVE  /\ InSlot(k, c) => /\ c.sram.slot[SlotIn(k, c)][1] = c.name
                            /\ c.sram.slot[SlotIn(k, c)] = l[c.name]
                            /\ k = "m3u" => Named(c)
         /\ ~InSlot(k, c) => l[c.name] = Held(f, c.name)
<1>1. \A r \in 1 .. MAXDISKS :
        /\ Copy(c.sram, r, c.name) <=> c.sram.slot[r] # Nothing /\ r = SlotIn(k, c)
        /\ c.sram.slot[r] # Nothing /\ k = "m3u" /\ r = SlotIn(k, c) => Named(c)
  BY OneCopy
<1>2. CASE InSlot(k, c)
  <2>1. Copy(c.sram, SlotIn(k, c), c.name)
    BY <1>1, <1>2 DEF InSlot
  <2> QED BY <1>1, <1>2, <2>1 DEF InSlot, Safe, Copy
<1>3. CASE ~InSlot(k, c)
  <2>1. \A r \in 1 .. MAXDISKS : ~Copy(c.sram, r, c.name)
    BY <1>1, <1>3 DEF InSlot
  <2> QED BY <1>3, <2>1 DEF Safe
<1> QED BY <1>2, <1>3

\* No patched version of an image that has no file.
LEMMA NoFile ==
  ASSUME NEW k, NEW s, NEW f, NEW l, NEW i, SramGood(k, s, f), Safe(s, f, l, i), f[i] = Nothing
  PROVE  l[i] = <<i, 0>>
<1>1. \A r \in 1 .. MAXDISKS : ~Copy(s, r, i)
  BY DEF Copy, SramGood
<1> QED BY <1>1 DEF Safe, Held

LEMMA InsertGood ==
  ASSUME NEW c, Whole(c), Slotted(mode, kind, c), kind = "m3u", NEW f \in Files, NEW l,
         NEW n \in 0 .. Len(c.paths), CoreGood(mode, kind, c, f), FilesGood(f),
         mode = "sram" => c.patched, AllSafe(mode, c.sram, f, l)
  PROVE  /\ CoreGood(mode, kind, ImageSet(c, n, f), f)
         /\ Playing(mode, ImageSet(c, n, f), f, l)
<1> DEFINE d == ImageSet(c, n, f)
<1>1. Whole(d) /\ SameButImage(c, d) /\ Inserted(c, n, f, d)
  BY ImageSetFields
<1> HIDE DEF d
<1>2. /\ c \in Cores /\ d \in Cores /\ d.paths = c.paths /\ d.sram = c.sram
      /\ d.patched = c.patched /\ d.index = n /\ IsInjective(d.sram.dir) /\ d.name \in Images
  BY <1>1 DEF Whole, SameButImage, Inserted, Cores
<1>3. SramMode(mode, kind, d, f)
  BY <1>2 DEF CoreGood, SramMode
<1>4. CASE d.disk = Empty
  <2>1. CoreGood(mode, kind, d, f)
    BY <1>3, <1>4 DEF CoreGood, DriveGood
  <2>2. Playing(mode, d, f, l)
    BY <1>2, <1>4 DEF Playing, Current, AllSafe
  <2> QED BY <2>1, <2>2 DEF d
<1>5. CASE d.disk # Empty
  <2>1. /\ n < Len(c.paths) /\ d.name = c.paths[n + 1] /\ d.disk.in = d.name
        /\ f[d.name] = Nothing => phantom_disk /\ d.disk.data = <<d.name, 0>>
        /\ f[d.name] # Nothing =>
             /\ d.dirty = 0
             /\ d.disk.data =
                  IF mode = "sram" /\ c.sram # NoSram /\ Named(d) /\ c.sram.slot[SlotOf(d)] # Nothing
                  THEN c.sram.slot[SlotOf(d)] ELSE f[d.name]
    BY <1>1, <1>5 DEF Inserted
  <2>2. n \in Nat /\ (f[d.name] # Nothing => f[d.name][1] = d.name)
    BY <1>2 DEF FilesGood
  <2>3. ASSUME mode = "sram" PROVE NameIn(kind, d)
    <3>1. d.paths \in {Playlist, FullList}
      BY <1>3, <2>3 DEF SramMode
    <3>2. n < Len(FullList) /\ d.name = FullList[n + 1]
      BY <1>2, <2>1, <2>2, <3>1, Listing
    <3> QED BY <1>2, <2>2, <3>2 DEF NameIn
  <2>4. ASSUME mode # "never" PROVE Safe(c.sram, f, l, d.name)
    BY <1>2, <2>4 DEF AllSafe
  <2>5. d.disk.data[1] = d.name /\ (mode # "never" => d.disk.data = l[d.name])
    <3>1. CASE f[d.name] = Nothing
      <4>1. SramGood(kind, c.sram, f)
        BY DEF CoreGood, SramMode
      <4> QED BY <2>1, <2>4, <3>1, <4>1, NoFile
    <3>2. CASE f[d.name] # Nothing /\ mode = "sram"
      <4>1. c.sram # NoSram /\ d.sram \in Patches
        BY <1>2, <3>2, DiskFields DEF Slotted
      <4>2. SlotIn(kind, d) = SlotOf(d)
        BY DEF SlotIn
      <4>3. /\ InSlot(kind, d) => /\ d.sram.slot[SlotOf(d)][1] = d.name
                                  /\ d.sram.slot[SlotOf(d)] = l[d.name] /\ Named(d)
            /\ ~InSlot(kind, d) => l[d.name] = Held(f, d.name)
        <5>1. SramGood(kind, d.sram, f) /\ Safe(d.sram, f, l, d.name) /\ NameIn(kind, d)
          BY <1>2, <1>3, <2>3, <2>4, <3>2 DEF SramMode
        <5>2. d \in Cores /\ IsInjective(d.sram.dir) /\ d.sram \in Patches
          BY <1>2, <4>1
        <5> QED BY <4>2, <5>1, <5>2, LookUp
      <4>4. CASE InSlot(kind, d)
        BY <1>2, <2>1, <3>2, <4>1, <4>2, <4>3, <4>4 DEF InSlot
      <4>5. CASE ~InSlot(kind, d)
        <5>1. ~(Named(d) /\ d.sram.slot[SlotOf(d)] # Nothing)
          <6>1. Named(d) => SlotOf(d) \in 1 .. MAXDISKS
            BY <1>2, <4>1, Slots, Ground
          <6> QED BY <4>2, <4>5, <6>1 DEF InSlot
        <5> QED BY <1>2, <2>1, <2>2, <3>2, <4>3, <4>5, <5>1 DEF Held
      <4> QED BY <4>4, <4>5
    <3>3. CASE f[d.name] # Nothing /\ mode # "sram"
      <4>1. d.disk.data = f[d.name]
        BY <2>1, <3>3
      <4>2. \A r \in 1 .. MAXDISKS : ~Copy(c.sram, r, d.name)
        BY <3>3 DEF CoreGood, SramMode, Copy
      <4> QED BY <2>2, <2>4, <3>3, <4>1, <4>2 DEF Safe, Held
    <3> QED BY <3>1, <3>2, <3>3
  <2>6. d.dirty = 0 => f[d.name] # Nothing
    <3> SUFFICES ASSUME d.dirty = 0, f[d.name] = Nothing PROVE FALSE
      OBVIOUS
    <3> QED BY <1>1, <1>5 DEF Inserted
  <2>7. CoreGood(mode, kind, d, f)
    BY <1>2, <1>3, <2>1, <2>5, <2>6 DEF CoreGood, DriveGood
  <2>8. Playing(mode, d, f, l)
    BY <1>2, <2>5 DEF Playing, Current, AllSafe
  <2> QED BY <2>7, <2>8 DEF d
<1> QED BY <1>4, <1>5

\* The first frame patches the disk that StartMSX() loaded.
LEMMA FirstPatchGood ==
  ASSUME NEW c, Whole(c), Slotted(mode, kind, c), NEW f \in Files, NEW l,
         CoreGood(mode, kind, c, f), FilesGood(f), Fresh(mode, c, f, l)
  PROVE  CoreGood(mode, kind, FirstPatch(c), f) /\ Playing(mode, FirstPatch(c), f, l)
<1> DEFINE d == FirstPatch(c)
<1>1. /\ Whole(d) /\ d.dirty = c.dirty /\ d.paths = c.paths /\ d.index = c.index
      /\ d.name = c.name /\ d.sram = c.sram
      /\ ~(mode = "sram" /\ ~c.patched) => d = c
      /\ mode = "sram" /\ ~c.patched =>
           /\ d.patched /\ d.ptr = PatchAt(c)
           /\ d.disk = Empty <=> c.disk = Empty
           /\ c.disk # Empty =>
                /\ d.disk.in = c.disk.in
                /\ d.disk.data =
                     IF PatchAt(c) # 0 /\ c.sram.slot[PatchAt(c)] # Nothing
                     THEN c.sram.slot[PatchAt(c)] ELSE c.disk.data
  BY FirstPatchFields
<1> HIDE DEF d
<1>2. /\ c \in Cores /\ c.name \in Images /\ kind \in {"m3u", "dsk"}
      /\ IsInjective(c.sram.dir) /\ ~c.patched /\ AllSafe(mode, c.sram, f, l)
      /\ (c.disk # Empty => c.disk.data = Held(f, c.name))
  BY DEF Whole, Slotted, Fresh, Cores
<1>3. CASE mode # "sram"
  <2>1. d = c
    BY <1>1, <1>3
  <2>2. ASSUME mode # "never", c.disk # Empty PROVE l[c.name] = Held(f, c.name)
    <3>1. Safe(c.sram, f, l, c.name)
      BY <1>2, <2>2 DEF AllSafe
    <3>2. \A r \in 1 .. MAXDISKS : ~Copy(c.sram, r, c.name)
      BY <1>3 DEF CoreGood, SramMode, Copy
    <3> QED BY <3>1, <3>2 DEF Safe
  <2>3. Playing(mode, d, f, l)
    BY <1>2, <1>3, <2>1, <2>2 DEF Playing, Current, AllSafe
  <2> QED BY <2>1, <2>3 DEF d
<1>4. CASE mode = "sram"
  <2>1. d.patched /\ d.ptr = PatchAt(c) /\ (d.disk = Empty <=> c.disk = Empty)
    BY <1>1, <1>2, <1>4
  <2>2. SramMode(mode, kind, d, f)
    <3>1. kind = "dsk" /\ c.sram # NoSram => d.ptr = c.ptr
      BY <2>1 DEF PatchAt, Slotted
    <3> QED BY <1>1, <3>1 DEF CoreGood, SramMode
  <2>3. CASE c.disk = Empty
    <3>1. CoreGood(mode, kind, d, f)
      BY <2>1, <2>2, <2>3 DEF CoreGood, DriveGood
    <3>2. Playing(mode, d, f, l)
      BY <1>1, <1>2, <2>1, <2>3 DEF Playing, Current, AllSafe
    <3> QED BY <3>1, <3>2 DEF d
  <2>4. CASE c.disk # Empty
    <3>1. NameIn(kind, c) /\ Safe(c.sram, f, l, c.name) /\ SramGood(kind, c.sram, f)
      BY <1>2, <1>4, <2>4, DriveNamed DEF CoreGood, SramMode, AllSafe
    <3>2. c.sram # NoSram /\ c.sram \in Patches
      <4>1. kind = "dsk" => c.sram # NoSram
        BY <1>4, <2>4 DEF CoreGood, DriveGood, SramMode
      <4> QED BY <1>2, <1>4, <4>1, DiskFields DEF Slotted
    <3>3. /\ InSlot(kind, c) => /\ c.sram.slot[SlotIn(kind, c)][1] = c.name
                                /\ c.sram.slot[SlotIn(kind, c)] = l[c.name]
                                /\ kind = "m3u" => Named(c)
          /\ ~InSlot(kind, c) => l[c.name] = Held(f, c.name)
      BY <1>2, <3>1, <3>2, LookUp
    <3>4. PatchAt(c) = IF kind = "dsk" \/ Named(c) THEN SlotIn(kind, c) ELSE 0
      <4>1. CASE kind = "dsk"
        BY <1>4, <3>2, <4>1 DEF PatchAt, SlotIn, CoreGood, SramMode, Slotted
      <4>2. CASE kind = "m3u"
        BY <3>2, <4>2 DEF PatchAt, SlotIn, Slotted
      <4> QED BY <1>2, <4>1, <4>2
    <3>5. kind = "dsk" \/ Named(c) => SlotIn(kind, c) \in 1 .. MAXDISKS
      <4>1. CASE kind = "dsk"
        BY <4>1, Ground DEF SlotIn
      <4>2. CASE kind = "m3u"
        BY <1>2, <3>2, <4>2, Slots, Ground DEF SlotIn
      <4> QED BY <1>2, <4>1, <4>2
    <3>6. PatchAt(c) # 0 /\ c.sram.slot[PatchAt(c)] # Nothing <=> InSlot(kind, c)
      BY <1>2, <3>3, <3>4, <3>5 DEF InSlot
    <3>7. InSlot(kind, c) => PatchAt(c) = SlotIn(kind, c)
      BY <1>2, <3>3, <3>4
    <3>8. d.disk.in = c.disk.in
          /\ d.disk.data = IF InSlot(kind, c) THEN c.sram.slot[SlotIn(kind, c)] ELSE c.disk.data
      BY <1>1, <1>2, <1>4, <2>4, <3>6, <3>7
    <3>9. d.disk.data = l[c.name] /\ d.disk.data[1] = c.name
      BY <1>2, <2>4, <3>3, <3>8 DEF CoreGood, DriveGood
    <3>10. CoreGood(mode, kind, d, f)
      BY <1>1, <2>2, <2>4, <3>8, <3>9 DEF CoreGood, DriveGood
    <3>11. Playing(mode, d, f, l)
      BY <1>1, <1>2, <2>1, <3>9 DEF Playing, Current, AllSafe
    <3> QED BY <3>10, <3>11 DEF d
  <2> QED BY <2>3, <2>4
<1> QED BY <1>3, <1>4

\* The program writes to the disk, which is nowhere else from then on.
LEMMA WriteGood ==
  ASSUME NEW c, Whole(c), c.disk # Empty, NEW f, NEW l \in [Images -> Contents],
         writes \in 0 .. MaxWrites, writes < MaxWrites,
         CoreGood(mode, kind, c, f), Playing(mode, c, f, l)
  PROVE  /\ Whole(Written(c)) /\ Written(c).dirty = 1
         /\ Written(c).paths = c.paths /\ Written(c).sram = c.sram
         /\ CoreGood(mode, kind, Written(c), f)
         /\ Playing(mode, Written(c), f, [l EXCEPT ![c.disk.in] = Written(c).disk.data])
         /\ [l EXCEPT ![c.disk.in] = Written(c).disk.data] \in [Images -> Contents]
<1> DEFINE d == Written(c)
           new == [l EXCEPT ![c.disk.in] = d.disk.data]
<1>1. /\ c.disk.data[1] = c.name /\ c.name \in Images /\ c.disk.in = c.name
  BY DEF Whole, Cores, CoreGood, DriveGood
<1>2. /\ Whole(d) /\ d.dirty = 1 /\ d.paths = c.paths /\ d.index = c.index /\ d.name = c.name
      /\ d.patched = c.patched /\ d.sram = c.sram /\ d.ptr = c.ptr
      /\ d.disk # Empty /\ d.disk.in = c.disk.in
      /\ d.disk.data = <<c.disk.data[1], writes + 1>> /\ d.disk.data \in Contents
  BY <1>1, WrittenFields
<1> HIDE DEF d
<1>3. /\ new \in [Images -> Contents] /\ new[c.name] = d.disk.data
      /\ \A i \in Images : i # c.name => new[i] = l[i]
  BY <1>1, <1>2
<1> HIDE DEF new
<1>4. d.disk.data[1] = c.name
  BY <1>1, <1>2
<1>5. CoreGood(mode, kind, d, f)
  <2>1. SramMode(mode, kind, d, f)
    BY <1>2 DEF CoreGood, SramMode
  <2>2. DriveGood(mode, kind, d, f)
    BY <1>1, <1>2, <1>4 DEF CoreGood, DriveGood
  <2> QED BY <2>1, <2>2 DEF CoreGood
<1>6. ASSUME mode # "never", NEW i \in Images, i # c.name PROVE Safe(c.sram, f, new, i)
  <2>1. Safe(c.sram, f, l, i)
    BY <1>6 DEF Playing, Current
  <2> QED BY <1>3, <1>6, <2>1 DEF Safe
<1>7. Playing(mode, d, f, new)
  BY <1>2, <1>3, <1>6 DEF Playing, Current
<1> QED BY <1>2, <1>3, <1>5, <1>7 DEF d, new

LEMMA TickGood ==
  ASSUME NEW c, Whole(c), c.dirty > 0, NEW f, NEW l,
         CoreGood(mode, kind, c, f), Playing(mode, c, f, l)
  PROVE  CoreGood(mode, kind, Ticked(c), f) /\ Playing(mode, Ticked(c), f, l)
<1> DEFINE d == Ticked(c)
<1>1. /\ Whole(d) /\ SameButSram(c, d) /\ d.sram = c.sram /\ d.ptr = c.ptr
      /\ d.dirty = c.dirty + 1 /\ c.dirty \in Nat
  BY TickedFields DEF Whole, Cores
<1> HIDE DEF d
<1>2. d.dirty > 0 /\ ~(d.dirty = 0)
  BY <1>1
<1>3. /\ d.paths = c.paths /\ d.index = c.index /\ d.name = c.name /\ d.disk = c.disk
      /\ d.patched = c.patched
  BY <1>1 DEF SameButSram
<1>4. SramMode(mode, kind, d, f)
  BY <1>1, <1>3 DEF CoreGood, SramMode
<1>5. DriveGood(mode, kind, d, f)
  BY <1>2, <1>3 DEF CoreGood, DriveGood
<1>6. Playing(mode, d, f, l)
  BY <1>1, <1>2, <1>3 DEF Playing, Current
<1> QED BY <1>4, <1>5, <1>6 DEF CoreGood, d

LEMMA EndFrameGood ==
  ASSUME NEW c, Whole(c), c.dirty < fps, Slotted(mode, kind, c), file \in Files, NEW l, NEW ss,
         CoreGood(mode, kind, c, file), Playing(mode, c, file, l), FilesGood(file),
         SrmKept(kind, c, ss), EndFrame(c)
  PROVE  /\ CoreGood(mode, kind, core', file') /\ Playing(mode, core', file', l)
         /\ FilesGood(file') /\ Grows(file, file') /\ SrmKept(kind, core', ss)
<1>1. core' = Debounced(c, file) /\ file' = FilesDebounced(c, file) /\ Grows(file, file)
  BY DEF EndFrame, Grows
<1>2. CASE core' = c /\ file' = file
  BY <1>1, <1>2
<1>3. CASE Debounces(c) /\ c.dirty + 1 < fps /\ core' = Ticked(c) /\ file' = file
  <2>1. c.dirty > 0
    BY <1>3 DEF Debounces
  <2>2. CoreGood(mode, kind, Ticked(c), file) /\ Playing(mode, Ticked(c), file, l)
        /\ Ticked(c).sram = c.sram
    BY <2>1, TickGood, TickedFields
  <2>3. SrmKept(kind, Ticked(c), ss)
    BY <2>2 DEF SrmKept
  <2> QED BY <1>1, <1>3, <2>2, <2>3
<1>4. CASE /\ Debounces(c) /\ mode # "never" /\ core' = Flushed(Ticked(c), file)
           /\ file' = FilesFlushed(Ticked(c), file)
  <2> DEFINE d == Ticked(c)
  <2>1. c.dirty > 0
    BY <1>4 DEF Debounces
  <2>2. /\ CoreGood(mode, kind, d, file) /\ Playing(mode, d, file, l)
        /\ d.sram = c.sram /\ Whole(d) /\ SameButSram(c, d)
    BY <2>1, TickGood, TickedFields
  <2> HIDE DEF d
  <2>3. SrmKept(kind, d, ss) /\ Slotted(mode, kind, d)
    BY <2>2 DEF SrmKept, Slotted, SameButSram
  <2>4. /\ CoreGood(mode, kind, Flushed(d, file), FilesFlushed(d, file))
        /\ Playing(mode, Flushed(d, file), FilesFlushed(d, file), l)
        /\ FilesGood(FilesFlushed(d, file)) /\ Grows(file, FilesFlushed(d, file))
        /\ SrmKept(kind, Flushed(d, file), ss)
    BY <2>2, <2>3, FlushGood
  <2> QED BY <1>4, <2>4 DEF d
<1> QED BY <1>1, <1>2, <1>3, <1>4, DebouncedCases

(***************************************************************************)
(* Every action keeps what is stored                                       *)
(***************************************************************************)
LEMMA SrmGrows ==
  ASSUME NEW m, NEW k, NEW ss \in {NoSram} \cup Patches, NEW f, NEW g, Grows(f, g),
         SrmGood(m, k, ss, f)
  PROVE  SrmGood(m, k, ss, g)
BY SramGrows DEF SrmGood

\* A .dsk game with the SRAM has its image's file, or nothing in the drive.
LEMMA LoadGood ==
  ASSUME Supported, Typed, Good, retro_load_game
  PROVE  Good'
<1>1. /\ phase = "off" /\ phase' = "loaded" /\ core' = IF kind = "m3u" THEN LoadM3u ELSE LoadDsk
      /\ UNCHANGED <<mode, kind, file, srm, writes, latest>>
  BY DEF retro_load_game
<1>2. /\ file \in Files /\ srm \in {NoSram} \cup Patches /\ IsInjective(srm.dir)
      /\ mode \in Modes /\ kind \in {"m3u", "dsk"}
  BY OptionAssumption DEF Typed, TypedState
<1>3. FilesGood(file) /\ SrmGood(mode, kind, srm, file) /\ AllSafe(mode, srm, file, latest)
  BY <1>1 DEF Good
<1> DEFINE s == IF mode = "sram" THEN Loads(srm) ELSE NoSram
<1>4. SramGood(kind, s, file) /\ AllSafe(mode, s, file, latest)
  <2>1. CASE mode # "sram"
    <3>1. s = NoSram /\ srm = NoSram
      BY <1>3, <2>1 DEF SrmGood
    <3> QED BY <1>3, <3>1 DEF SrmGood
  <2>2. CASE mode = "sram" /\ srm = NoSram
    <3>1. s = BlankSram
      BY <2>2 DEF Loads
    <3>2. \A r \in 1 .. MAXDISKS : BlankSram.slot[r] = Nothing
      BY DEF BlankSram
    <3>3. SramGood(kind, BlankSram, file)
      BY <3>2 DEF SramGood
    <3>4. AllSafe(mode, BlankSram, file, latest)
      BY <1>3, <2>2, <3>2 DEF AllSafe, Safe, Copy
    <3> QED BY <3>1, <3>3, <3>4
  <2>3. CASE mode = "sram" /\ srm # NoSram
    <3>1. s = srm
      BY <2>3 DEF Loads
    <3> QED BY <1>3, <3>1 DEF SrmGood
  <2> QED BY <2>1, <2>2, <2>3
<1>5. s # NoSram => s \in Patches
  BY <1>2, LoadsType
<1>6. CASE kind = "m3u"
  <2> DEFINE c == LoadM3u
  <2>1. /\ c.paths = Playlist /\ c.index = 0 /\ c.dirty = 0 /\ c.patched = FALSE
        /\ c.name = Playlist[1] /\ c.sram = s /\ Whole(c)
        /\ c.disk # Empty =>
             /\ c.disk.in = c.name /\ file[c.name] # Nothing /\ c.disk.data = file[c.name]
    BY <1>2, LoadM3uFields
  <2> HIDE DEF c, s
  <2>2. 0 < Len(Playlist) /\ c.name = Playlist[0 + 1] /\ c.name \in Images
    <3>1. Playlist \in Seq(Images) /\ Playlist # <<>>
      BY Ground DEF Short
    <3> QED BY <2>1, <3>1, EmptySeq DEF Whole, Cores
  <2>3. file[c.name] # Nothing => file[c.name][1] = c.name
    BY <1>3, <2>2 DEF FilesGood
  <2>4. DriveGood(mode, kind, c, file)
    BY <1>6, <2>1, <2>2, <2>3 DEF DriveGood
  <2>5. SramMode(mode, kind, c, file)
    BY <1>4, <1>6, <2>1 DEF SramMode, s
  <2>6. Fresh(mode, c, file, latest)
    BY <1>4, <2>1 DEF Fresh, Held
  <2>7. SrmKept(kind, c, srm) /\ core' = c
    BY <1>1, <1>6 DEF SrmKept, c
  <2> HIDE DEF SrmKept
  <2> QED BY <1>1, <1>3, <2>4, <2>5, <2>6, <2>7 DEF Good, CoreGood
<1>7. CASE kind = "dsk"
  <2> DEFINE c == LoadDsk
  <2>1. /\ c.paths = <<>> /\ c.name = Single /\ c.dirty \in {0, 1} /\ c.patched = FALSE
        /\ mode = "sram" /\ file[Single] # Nothing => c.sram = Loads(srm) /\ c.ptr = 1
        /\ ~(mode = "sram" /\ file[Single] # Nothing) => c.sram = NoSram
        /\ c.disk # Empty => c.disk.in = Single
        /\ file[Single] # Nothing =>
             c.disk # Empty /\ c.dirty = 0 /\ c.disk.data = file[Single]
        /\ file[Single] = Nothing /\ c.disk # Empty =>
             phantom_disk /\ c.disk.data = <<Single, 0>>
        /\ Whole(c)
    BY <1>2, LoadDskFields
  <2>2. Single \in Images /\ (file[Single] # Nothing => file[Single][1] = Single)
    BY <1>3, Ground DEF FilesGood
  <2>3. mode = "sram" => (c.disk # Empty => file[Single] # Nothing)
    <3>1. mode = "sram" /\ phantom_disk => file[Single] # Nothing
      BY <1>2, <1>3, <2>2 DEF Supported, FilesGood
    <3> QED BY <2>1, <3>1
  <2>4. c.disk # Empty /\ c.dirty = 0 => file[Single] # Nothing
    <3> SUFFICES ASSUME c.disk # Empty, c.dirty = 0, file[Single] = Nothing PROVE FALSE
      OBVIOUS
    <3>1. /\ LoadDsk = NewDisk(CoreOff) \/ LoadDsk = CoreOff
      BY DEF LoadDsk, Exists
    <3> QED BY <3>1, OffFields, NewDiskFields
  <2>5. mode = "sram" /\ file[Single] # Nothing => c.sram = s /\ c.sram # NoSram
    BY <1>2, <2>1, LoadsType
  <2>6. mode = "sram" /\ file[Single] = Nothing => srm = NoSram
    <3> SUFFICES ASSUME mode = "sram", file[Single] = Nothing, srm # NoSram PROVE FALSE
      OBVIOUS
    <3>1. srm.slot[1] # Nothing /\ 1 \in 1 .. MAXDISKS
      BY <1>3, <1>7, Ground DEF SrmGood
    <3>2. InPlace(kind, srm, 1) /\ file[srm.slot[1][1]] # Nothing
      BY <1>3, <3>1 DEF SrmGood, SramGood
    <3> QED BY <1>7, <3>2 DEF InPlace
  <2>7. SramGood(kind, c.sram, file) /\ AllSafe(mode, c.sram, file, latest)
    <3>1. CASE mode = "sram" /\ file[Single] # Nothing
      BY <1>4, <2>5, <3>1
    <3>2. CASE ~(mode = "sram" /\ file[Single] # Nothing)
      <4>1. c.sram = NoSram /\ srm = NoSram
        BY <1>3, <2>1, <2>6, <3>2 DEF SrmGood
      <4> QED BY <1>3, <4>1 DEF SrmGood
    <3> QED BY <3>1, <3>2
  <2> HIDE DEF c, s
  <2>8. DriveGood(mode, kind, c, file)
    <3>1. c.disk # Empty => c.disk.data[1] = Single
      BY <2>1, <2>2
    <3> QED BY <1>7, <2>1, <2>3, <2>4, <3>1 DEF DriveGood
  <2>9. SramMode(mode, kind, c, file)
    BY <1>7, <2>1, <2>5, <2>7 DEF SramMode
  <2>10. Fresh(mode, c, file, latest)
    BY <2>1, <2>7 DEF Fresh, Held
  <2>11. SrmKept(kind, c, srm)
    <3> SUFFICES ASSUME srm # NoSram PROVE c.sram # NoSram /\ c.sram.slot[1] # Nothing
      BY DEF SrmKept
    <3>1. mode = "sram"
      BY <1>3 DEF SrmGood
    <3>2. c.sram = srm
      BY <2>1, <2>6, <3>1 DEF Loads
    <3> QED BY <1>3, <1>7, <3>2 DEF SrmGood
  <2>12. core' = c
    BY <1>1, <1>7 DEF c
  <2> HIDE DEF SrmKept
  <2> QED BY <1>1, <1>3, <2>8, <2>9, <2>10, <2>11, <2>12 DEF Good, CoreGood
<1> QED BY <1>2, <1>6, <1>7

LEMMA RunGood ==
  ASSUME Typed, Good, retro_run
  PROVE  Good'
<1> DEFINE c == FirstPatch(core)
<1>1. /\ Whole(core) /\ core.dirty < fps /\ Slotted(mode, kind, core) /\ file \in Files
      /\ writes \in 0 .. MaxWrites /\ latest \in [Images -> Contents]
      /\ srm \in {NoSram} \cup Patches /\ phase \in {"loaded", "running"}
  BY DEF Typed, TypedState, retro_run
<1>2. /\ CoreGood(mode, kind, core, file) /\ SrmKept(kind, core, srm)
      /\ FilesGood(file) /\ SrmGood(mode, kind, srm, file)
  BY <1>1 DEF Good
<1>3. /\ Whole(c) /\ c.dirty = core.dirty /\ c.paths = core.paths /\ c.sram = core.sram
      /\ ~(mode = "sram" /\ ~core.patched) => c = core
  BY <1>1, FirstPatchFields
<1>4. CoreGood(mode, kind, c, file) /\ Playing(mode, c, file, latest)
  <2>1. CASE phase = "loaded"
    BY <1>1, <1>2, <2>1, FirstPatchGood DEF Good
  <2>2. CASE phase = "running"
    <3>1. Playing(mode, core, file, latest)
      BY <2>2 DEF Good
    <3>2. c = core
      BY <1>3, <3>1 DEF Playing
    <3> QED BY <1>2, <3>1, <3>2
  <2> QED BY <1>1, <2>1, <2>2
<1>5. Slotted(mode, kind, c) /\ SrmKept(kind, c, srm)
  BY <1>1, <1>2, <1>3 DEF Slotted, SrmKept
<1>6. /\ mode' = mode /\ kind' = kind /\ srm' = srm /\ phase' = "running"
      /\ \/ EndFrame(c) /\ writes' = writes /\ latest' = latest
         \/ /\ c.disk # Empty /\ writes < MaxWrites /\ EndFrame(Written(c))
            /\ latest' = [latest EXCEPT ![c.disk.in] = Written(c).disk.data]
  BY DEF retro_run
<1> HIDE DEF c
<1>7. ASSUME /\ CoreGood(mode, kind, core', file') /\ Playing(mode, core', file', latest')
             /\ FilesGood(file') /\ Grows(file, file') /\ SrmKept(kind, core', srm)
      PROVE  Good'
  <2>1. SrmGood(mode, kind, srm, file')
    BY <1>1, <1>2, <1>7, SrmGrows
  <2> QED BY <1>6, <1>7, <2>1 DEF Good
<1>8. CASE EndFrame(c) /\ latest' = latest
  <2>1. /\ CoreGood(mode, kind, core', file') /\ Playing(mode, core', file', latest)
        /\ FilesGood(file') /\ Grows(file, file') /\ SrmKept(kind, core', srm)
    BY <1>1, <1>2, <1>3, <1>4, <1>5, <1>8, EndFrameGood
  <2> QED BY <1>7, <1>8, <2>1
<1>9. CASE /\ c.disk # Empty /\ writes < MaxWrites /\ EndFrame(Written(c))
           /\ latest' = [latest EXCEPT ![c.disk.in] = Written(c).disk.data]
  <2> DEFINE w == Written(c)
             new == [latest EXCEPT ![c.disk.in] = w.disk.data]
  <2>1. /\ Whole(w) /\ w.dirty = 1 /\ w.paths = c.paths /\ w.sram = c.sram
        /\ CoreGood(mode, kind, w, file) /\ Playing(mode, w, file, new)
    BY <1>1, <1>3, <1>4, <1>9, WriteGood
  <2>2. latest' = new /\ EndFrame(w)
    BY <1>9
  <2> HIDE DEF w, new
  <2>3. Slotted(mode, kind, w) /\ SrmKept(kind, w, srm) /\ w.dirty < fps
    BY <1>5, <2>1, Ground DEF Slotted, SrmKept
  <2>4. /\ CoreGood(mode, kind, core', file') /\ Playing(mode, core', file', new)
        /\ FilesGood(file') /\ Grows(file, file') /\ SrmKept(kind, core', srm)
    BY <1>1, <1>2, <2>1, <2>2, <2>3, EndFrameGood
  <2> QED BY <1>7, <2>2, <2>4
<1> QED BY <1>6, <1>8, <1>9

\* While the game runs.
LEMMA RunningNow ==
  ASSUME Typed, Good, phase = "running"
  PROVE  /\ Whole(core) /\ Slotted(mode, kind, core) /\ file \in Files /\ core \in Cores
         /\ srm \in {NoSram} \cup Patches /\ core.dirty \in Nat
         /\ CoreGood(mode, kind, core, file) /\ Playing(mode, core, file, latest)
         /\ SrmKept(kind, core, srm) /\ FilesGood(file) /\ SrmGood(mode, kind, srm, file)
BY TypedNow DEF Good

LEMMA StillRunning ==
  ASSUME UNCHANGED <<mode, kind, phase, srm, latest>>, phase = "running",
         CoreGood(mode, kind, core', file'), Playing(mode, core', file', latest),
         SrmKept(kind, core', srm), FilesGood(file'), SrmGood(mode, kind, srm, file')
  PROVE  Good'
BY DEF Good

\* The flush of the disk in the drive, while the game runs.
LEMMA FlushNow ==
  ASSUME Typed, Good, phase = "running"
  PROVE  LET d == Flushed(core, file)
             g == FilesFlushed(core, file) IN
         /\ Whole(d) /\ Slotted(mode, kind, d) /\ g \in Files /\ SameButSram(core, d)
         /\ mode # "never" => d.dirty = 0
         /\ CoreGood(mode, kind, d, g) /\ Playing(mode, d, g, latest)
         /\ SrmKept(kind, d, srm) /\ FilesGood(g) /\ SrmGood(mode, kind, srm, g)
         /\ AllSafe(mode, d.sram, g, latest)
<1> DEFINE d == Flushed(core, file)
           g == FilesFlushed(core, file)
<1>1. /\ Whole(d) /\ Slotted(mode, kind, d) /\ g \in Files /\ SameButSram(core, d)
      /\ mode # "never" => d.dirty = 0
      /\ CoreGood(mode, kind, d, g) /\ Playing(mode, d, g, latest)
      /\ FilesGood(g) /\ Grows(file, g)
      /\ \A ss : SrmKept(kind, core, ss) => SrmKept(kind, d, ss)
  BY RunningNow, FlushGood
<1> HIDE DEF d, g
<1>2. SrmGood(mode, kind, srm, g) /\ SrmKept(kind, d, srm)
  BY <1>1, RunningNow, SrmGrows
<1>3. AllSafe(mode, d.sram, g, latest)
  <2>1. mode # "never" => ~(d.dirty > 0)
    BY <1>1
  <2> QED BY <1>1, <2>1 DEF AllSafe, Playing, Current
<1> QED BY <1>1, <1>2, <1>3 DEF d, g

LEMMA ResetGood ==
  ASSUME Typed, Good, retro_reset
  PROVE  Good'
<1>1. core' = Flushed(core, file) /\ file' = FilesFlushed(core, file)
      /\ phase = "running" /\ UNCHANGED <<mode, kind, phase, srm, writes, latest>>
  BY DEF retro_reset, Kept
<1> QED BY <1>1, FlushNow, StillRunning

LEMMA EjectGood ==
  ASSUME Typed, Good, NEW ejected \in BOOLEAN, set_eject_state(ejected)
  PROVE  Good'
<1>1. phase = "running" /\ kind = "m3u" /\ UNCHANGED <<mode, kind, phase, srm, writes, latest>>
  BY DEF set_eject_state, Kept, Swappable
<1>2. CASE ejected
  <2> DEFINE F == Flushed(core, file)
             e == Ejected(F)
             g == FilesFlushed(core, file)
  <2>1. /\ Whole(F) /\ CoreGood(mode, kind, F, g) /\ Playing(mode, F, g, latest)
        /\ FilesGood(g) /\ SrmGood(mode, kind, srm, g) /\ AllSafe(mode, F.sram, g, latest)
    BY <1>1, FlushNow
  <2>2. core' = [e EXCEPT !.inserted = FALSE, !.ptr = 0] /\ file' = g
    BY <1>2 DEF set_eject_state
  <2> HIDE DEF F, g
  <2>3. e \in Cores /\ SameButDisk(F, e) /\ e.disk = Empty
    BY <2>1, EjectedFields DEF Whole
  <2> HIDE DEF e
  <2>4. /\ core'.paths = F.paths /\ core'.sram = F.sram /\ core'.disk = Empty
        /\ core'.patched = F.patched
    BY <2>2, <2>3 DEF Cores, SameButDisk
  <2>5. SramMode(mode, kind, core', g)
    BY <1>1, <2>1, <2>4 DEF CoreGood, SramMode
  <2>6. DriveGood(mode, kind, core', g)
    BY <2>4 DEF DriveGood
  <2>7. Playing(mode, core', g, latest)
    BY <2>1, <2>4 DEF Playing, Current, AllSafe
  <2>8. SrmKept(kind, core', srm)
    BY <1>1 DEF SrmKept
  <2> QED BY <1>1, <2>1, <2>2, <2>5, <2>6, <2>7, <2>8, StillRunning DEF CoreGood
<1>3. CASE ~ejected
  <2>1. core' = [core EXCEPT !.inserted = TRUE] /\ file' = file
    BY <1>3 DEF set_eject_state
  <2>2. /\ core'.paths = core.paths /\ core'.sram = core.sram /\ core'.patched = core.patched
        /\ core'.disk = core.disk /\ core'.dirty = core.dirty /\ core'.ptr = core.ptr
        /\ core'.index = core.index /\ core'.name = core.name
    BY <1>1, <2>1, RunningNow DEF Cores
  <2>3. CoreGood(mode, kind, core', file)
    <3>1. DriveGood(mode, kind, core', file)
      BY <1>1, <2>2, RunningNow DEF CoreGood, DriveGood
    <3>2. SramMode(mode, kind, core', file)
      BY <1>1, <2>2, RunningNow DEF CoreGood, SramMode
    <3> QED BY <3>1, <3>2 DEF CoreGood
  <2>4. Playing(mode, core', file, latest)
    BY <1>1, <2>2, RunningNow DEF Playing, Current
  <2>5. SrmKept(kind, core', srm)
    BY <1>1 DEF SrmKept
  <2> QED BY <1>1, <2>1, <2>3, <2>4, <2>5, RunningNow, StillRunning
<1> QED BY <1>2, <1>3

LEMMA SetIndexGood ==
  ASSUME Supported, Typed, Good, NEW n \in 0 .. Len(core.paths), set_image_index(n)
  PROVE  Good'
<1>1. /\ phase = "running" /\ kind = "m3u" /\ core' = ImageSet(core, n, file) /\ file' = file
      /\ UNCHANGED <<mode, kind, phase, srm, writes, latest>>
      /\ core.disk = Empty
  BY DEF set_image_index, Kept, Swappable, Supported
<1>2. ~(core.dirty > 0)
  BY <1>1, RunningNow DEF Whole
<1>3. AllSafe(mode, core.sram, file, latest) /\ (mode = "sram" => core.patched)
  BY <1>1, <1>2, RunningNow DEF AllSafe, Playing, Current
<1>4. CoreGood(mode, kind, core', file) /\ Playing(mode, core', file, latest)
  BY <1>1, <1>3, RunningNow, InsertGood
<1>5. SrmKept(kind, core', srm)
  BY <1>1 DEF SrmKept
<1> QED BY <1>1, <1>4, <1>5, RunningNow, StillRunning

LEMMA KeySwapGood ==
  ASSUME Typed, Good, NEW n \in 0 .. Len(core.paths), KeySwap(n)
  PROVE  Good'
<1> DEFINE F == Flushed(core, file)
           g == FilesFlushed(core, file)
<1>1. /\ phase = "running" /\ kind = "m3u" /\ core' = ImageSet(F, n, g) /\ file' = g
      /\ UNCHANGED <<mode, kind, phase, srm, writes, latest>>
  BY DEF KeySwap, Kept, Swappable
<1>2. /\ Whole(F) /\ Slotted(mode, kind, F) /\ g \in Files /\ F.paths = core.paths
      /\ CoreGood(mode, kind, F, g) /\ (mode = "sram" => F.patched)
      /\ FilesGood(g) /\ SrmGood(mode, kind, srm, g)
      /\ AllSafe(mode, F.sram, g, latest)
  BY <1>1, FlushNow DEF SameButSram, Playing
<1> HIDE DEF F, g
<1>3. n \in 0 .. Len(F.paths)
  BY <1>2
<1>4. CoreGood(mode, kind, core', g) /\ Playing(mode, core', g, latest)
  BY <1>1, <1>2, <1>3, InsertGood
<1>5. SrmKept(kind, core', srm)
  BY <1>1 DEF SrmKept
<1> QED BY <1>1, <1>2, <1>4, <1>5, StillRunning

\* The list of images changes, and the image in the drive stays where it is in it.
LEMMA ListGood ==
  ASSUME Typed, Good, Swappable, NEW p, core' = [core EXCEPT !.paths = p], file' = file,
         mode = "sram" =>
           /\ p \in {Playlist, FullList} /\ Len(core.paths) <= Len(p) /\ Len(p) \in Nat
           /\ \A n \in 1 .. Len(core.paths) : p[n] = core.paths[n],
         UNCHANGED <<mode, kind, phase, srm, writes, latest>>
  PROVE  Good'
<1>1. phase = "running" /\ kind = "m3u"
  BY DEF Swappable
<1>2. /\ core'.paths = p /\ core'.sram = core.sram /\ core'.patched = core.patched
      /\ core'.disk = core.disk /\ core'.dirty = core.dirty /\ core'.ptr = core.ptr
      /\ core'.index = core.index /\ core'.name = core.name
  BY <1>1, RunningNow DEF Cores
<1>3. DriveGood(mode, kind, core', file)
  <2>1. ASSUME mode = "sram", core.disk # Empty
        PROVE  core.index < Len(p) /\ core.name = p[core.index + 1]
    <3>1. core.index < Len(core.paths) /\ core.name = core.paths[core.index + 1]
      BY <1>1, <2>1, RunningNow DEF CoreGood, DriveGood
    <3>2. core.index \in Nat /\ Len(core.paths) \in Nat
      BY <1>1, RunningNow, DiskFields, Ground
    <3>3. core.index + 1 \in 1 .. Len(core.paths)
      BY <3>1, <3>2
    <3> QED BY <2>1, <3>1, <3>2, <3>3
  <2> QED BY <1>1, <1>2, <2>1, RunningNow DEF CoreGood, DriveGood
<1>4. SramMode(mode, kind, core', file)
  BY <1>1, <1>2, RunningNow DEF CoreGood, SramMode
<1>5. Playing(mode, core', file, latest)
  BY <1>1, <1>2, RunningNow DEF Playing, Current
<1>6. SrmKept(kind, core', srm)
  BY <1>1 DEF SrmKept
<1> QED BY <1>1, <1>3, <1>4, <1>5, <1>6, RunningNow, StillRunning DEF CoreGood

LEMMA AppendGood ==
  ASSUME Supported, Typed, Good, NEW i \in Appendable, AppendImage(i)
  PROVE  Good'
<1> DEFINE p == Append(core.paths, i)
<1>1. /\ Swappable /\ Len(core.paths) < MAXDISKS /\ i \notin ToSet(core.paths)
      /\ phase = "running" /\ kind = "m3u" /\ core' = [core EXCEPT !.paths = p] /\ file' = file
      /\ UNCHANGED <<mode, kind, phase, srm, writes, latest>>
  BY DEF AppendImage, Kept, Swappable
<1>2. core.paths \in Seq(Images) /\ Len(core.paths) \in Nat /\ i \in Images
  BY <1>1, RunningNow, DiskFields, Ground
<1>3. Len(p) = Len(core.paths) + 1 /\ \A n \in 1 .. Len(core.paths) : p[n] = core.paths[n]
  BY <1>2, AppendProperties
<1>4. mode = "sram" => p = FullList
  <2> SUFFICES ASSUME mode = "sram" PROVE p = FullList
    OBVIOUS
  <2>1. core.paths \in {Playlist, FullList}
    BY <1>1, RunningNow DEF CoreGood, SramMode
  <2>2. "sram" \in Modes
    BY DEF Typed, TypedState
  <2>3. \A a, b \in Appendable \ ToSet(Playlist) : a = b
    BY <2>2 DEF Supported
  <2> QED BY <1>1, <2>1, <2>3, Appending
<1> HIDE DEF p
<1>5. Len(core.paths) <= Len(p) /\ Len(p) \in Nat
  BY <1>2, <1>3
<1> QED BY <1>1, <1>3, <1>4, <1>5, ListGood

LEMMA ReplaceGood ==
  ASSUME Typed, Good, NEW n \in 0 .. Len(core.paths) - 1, NEW i \in Appendable,
         ReplaceImage(n, i)
  PROVE  Good'
<1> DEFINE p == [core.paths EXCEPT ![n + 1] = i]
<1>1. /\ Swappable /\ mode # "sram" /\ core' = [core EXCEPT !.paths = p] /\ file' = file
      /\ UNCHANGED <<mode, kind, phase, srm, writes, latest>>
  BY DEF ReplaceImage, Kept
<1> HIDE DEF p
<1> QED BY <1>1, ListGood

\* The game's SRAM is saved as it is: the slots that are not in the directory
\* are empty.
LEMMA SavesAll ==
  ASSUME NEW c \in Cores, c.sram \in Patches, kind \in {"m3u", "dsk"}, NEW f,
         SramGood(kind, c.sram, f)
  PROVE  Saved(c) = c.sram
<1>1. /\ Saved(c) \in Patches /\ Saved(c).dir = c.sram.dir
      /\ \A r \in 1 .. MAXDISKS : Saved(c).slot[r] =
            IF kind = "dsk" \/ r <= Len(c.sram.dir) THEN c.sram.slot[r] ELSE Nothing
  BY SavedType
<1>2. ASSUME NEW r \in 1 .. MAXDISKS, kind = "m3u", c.sram.slot[r] # Nothing
      PROVE  r <= Len(c.sram.dir)
  <2>1. r \in DOMAIN c.sram.dir
    BY <1>2, SramTypes DEF SramGood, InPlace
  <2> QED BY <2>1, LenProperties DEF Patches, Short
<1> DEFINE s == Saved(c)
<1> HIDE DEF s
<1>3. \A r \in 1 .. MAXDISKS : s.slot[r] = c.sram.slot[r]
  BY <1>1, <1>2 DEF s
<1>4. s.slot = c.sram.slot
  <2>1. s.slot \in [1 .. MAXDISKS -> Contents \cup {Nothing}]
        /\ c.sram.slot \in [1 .. MAXDISKS -> Contents \cup {Nothing}]
    BY <1>1 DEF Patches, s
  <2>2. /\ s.slot = [r \in 1 .. MAXDISKS |-> s.slot[r]]
        /\ c.sram.slot = [r \in 1 .. MAXDISKS |-> c.sram.slot[r]]
    BY <2>1
  <2>3. [r \in 1 .. MAXDISKS |-> s.slot[r]] = [r \in 1 .. MAXDISKS |-> c.sram.slot[r]]
    BY <1>3
  <2> QED BY <2>2, <2>3
<1>5. s \in Patches /\ s.dir = c.sram.dir
  BY <1>1 DEF s
<1> QED BY <1>4, <1>5 DEF Patches, s

LEMMA SaveGood ==
  ASSUME Supported, Typed, Good, SaveFiles
  PROVE  Good'
<1> DEFINE c == Flushed(core, file)
           g == FilesFlushed(core, file)
<1>1. /\ phase = "running"
      /\ phase' \in {"closing"} \cup (IF kind \in SavesWhile THEN {"running"} ELSE {})
      /\ UNCHANGED <<mode, kind, writes, latest>>
  BY DEF SaveFiles
<1>2. CASE mode # "sram"
  <2>1. UNCHANGED <<core, srm, file>>
    BY <1>2 DEF SaveFiles
  <2>2. CASE phase' = "running"
    BY <1>1, <2>1, <2>2, RunningNow, StillRunning
  <2>3. CASE phase' = "closing"
    <3>1. core.sram = NoSram /\ srm = NoSram
      BY <1>1, <1>2, RunningNow DEF CoreGood, SramMode, SrmGood
    <3>2. Current(mode, core, srm, file, latest)
      BY <1>1, <3>1, RunningNow DEF Playing
    <3>3. Closing(mode, kind, core, srm, file, latest)
      BY <1>1, <1>2, <3>1, <3>2, RunningNow DEF Closing, CoreGood, DriveGood
    <3>4. FilesGood(file) /\ SrmGood(mode, kind, srm, file)
      BY <1>1, RunningNow
    <3> QED BY <1>1, <2>1, <2>3, <3>3, <3>4 DEF Good
  <2> QED BY <1>1, <2>2, <2>3
<1>3. CASE mode = "sram"
  <2>1. /\ Whole(c) /\ Slotted(mode, kind, c) /\ g \in Files
        /\ c.dirty = 0 /\ CoreGood(mode, kind, c, g) /\ Playing(mode, c, g, latest)
        /\ SrmKept(kind, c, srm) /\ FilesGood(g) /\ SrmGood(mode, kind, srm, g)
        /\ AllSafe(mode, c.sram, g, latest)
    BY <1>1, <1>3, FlushNow
  <2>2. /\ core' = IF kind = "dsk" /\ c.sram # NoSram /\ c.sram.slot[1] = Nothing
                   THEN Cleaned(c) ELSE c
        /\ srm' = IF core'.sram = NoSram THEN srm ELSE Saved(c)
        /\ file' = g
    BY <1>3 DEF SaveFiles
  <2> HIDE DEF c, g
  <2>3. c \in Cores /\ kind \in {"m3u", "dsk"} /\ SramGood(kind, c.sram, g)
    BY <2>1 DEF Whole, Slotted, CoreGood, SramMode
  <2>4. c.sram # NoSram => Saved(c) = c.sram
    BY <2>3, DiskFields, SavesAll
  <2>5. kind = "dsk" /\ c.sram # NoSram /\ c.sram.slot[1] = Nothing =>
          srm = NoSram /\ AllSafe(mode, NoSram, g, latest)
    <3> SUFFICES ASSUME kind = "dsk", c.sram # NoSram, c.sram.slot[1] = Nothing
                 PROVE  srm = NoSram /\ AllSafe(mode, NoSram, g, latest)
      OBVIOUS
    <3>1. srm = NoSram
      BY <2>1 DEF SrmKept
    <3>2. \A r \in 1 .. MAXDISKS : c.sram.slot[r] = Nothing
      BY <2>3 DEF SramGood, InPlace
    <3>3. \A i \in Images, r \in 1 .. MAXDISKS : ~Copy(c.sram, r, i) /\ ~Copy(NoSram, r, i)
      BY <3>2 DEF Copy
    <3> QED BY <2>1, <3>1, <3>3 DEF AllSafe, Safe
  <2>6. c.sram = NoSram => srm = NoSram
    <3> SUFFICES ASSUME c.sram = NoSram PROVE srm = NoSram
      OBVIOUS
    <3>1. kind = "dsk"
      BY <1>3, <2>1, <2>3 DEF Slotted
    <3> QED BY <2>1, <3>1 DEF SrmKept
  \* what the SRAM file holds afterwards is what the core had
  <2>7. /\ SrmGood(mode, kind, srm', g) /\ AllSafe(mode, srm', g, latest)
        /\ core'.sram # NoSram => core' = c /\ srm' = c.sram
    <3>1. CASE kind = "dsk" /\ c.sram # NoSram /\ c.sram.slot[1] = Nothing
      <4>1. core' = Cleaned(c) /\ core'.sram = NoSram
        BY <2>1, <2>2, <3>1, CleanedFields
      <4>2. srm' = srm /\ srm = NoSram
        BY <2>2, <2>5, <3>1, <4>1
      <4> QED BY <2>1, <2>5, <3>1, <4>1, <4>2
    <3>2. CASE c.sram # NoSram /\ ~(kind = "dsk" /\ c.sram.slot[1] = Nothing)
      <4>1. core' = c /\ srm' = c.sram
        BY <2>2, <2>4, <3>2
      <4>2. SrmGood(mode, kind, c.sram, g)
        BY <1>3, <2>3, <3>2 DEF SrmGood
      <4> QED BY <2>1, <4>1, <4>2
    <3>3. CASE c.sram = NoSram
      <4>1. core' = c /\ srm' = NoSram
        BY <2>2, <2>6, <3>3
      <4> QED BY <2>1, <2>6, <3>3, <4>1
    <3> QED BY <3>1, <3>2, <3>3
  <2>8. /\ core'.dirty = 0 /\ core'.disk = c.disk /\ core'.name = c.name
        /\ kind = "m3u" => core' = c
    BY <2>1, <2>2, CleanedFields
  <2>9. CASE phase' = "closing"
    <3>1. Current(mode, core', srm', g, latest)
      BY <1>3, <2>1, <2>7, <2>8 DEF Current, Playing, AllSafe
    <3>2. Closing(mode, kind, core', srm', g, latest)
      BY <1>3, <2>1, <2>8, <3>1 DEF Closing, CoreGood, DriveGood
    <3> QED BY <1>1, <2>1, <2>2, <2>7, <2>9, <3>2 DEF Good
  <2>10. CASE phase' = "running"
    <3>1. kind = "m3u"
      <4>1. kind \in SavesWhile /\ mode \in Modes
        BY <1>1, <2>10 DEF Typed, TypedState
      <4> QED BY <1>3, <2>3, <4>1 DEF Supported
    <3>2. core' = c
      BY <2>8, <3>1
    <3>3. SrmKept(kind, core', srm')
      BY <3>1 DEF SrmKept
    <3> QED BY <1>1, <2>1, <2>2, <2>7, <2>10, <3>2, <3>3 DEF Good
  <2> QED BY <1>1, <2>9, <2>10
<1> QED BY <1>2, <1>3

LEMMA UnloadGood ==
  ASSUME Typed, Good, retro_unload_game
  PROVE  Good'
<1> DEFINE g == FilesFlushed(core, file)
<1>1. /\ phase = "closing" /\ phase' = "off" /\ file' = g
      /\ core' = CoreOff /\ UNCHANGED <<mode, kind, srm, writes, latest>>
  BY DEF retro_unload_game
<1>2. /\ Whole(core) /\ file \in Files /\ srm \in {NoSram} \cup Patches /\ core.dirty \in Nat
      /\ core \in Cores
  BY <1>1, TypedNow
<1>3. /\ Closing(mode, kind, core, srm, file, latest)
      /\ FilesGood(file) /\ SrmGood(mode, kind, srm, file)
  BY <1>1 DEF Good
<1>4. CASE ~Flushes(core, file)
  <2>1. g = file
    BY <1>2, <1>4, FilesFlushedType
  <2>2. AllSafe(mode, srm, file, latest)
    BY <1>2, <1>3, <1>4 DEF AllSafe, Closing, Current, Flushes
  <2> QED BY <1>1, <1>3, <2>1, <2>2 DEF Good
<1>5. CASE Flushes(core, file)
  <2>1. core.dirty > 0 /\ mode # "never" /\ mode # "sram" /\ core.disk # Empty
    BY <1>2, <1>3, <1>5 DEF Flushes, Closing, Whole
  <2>2. \A i \in Images : g[i] = IF i = core.name THEN core.disk.data ELSE file[i]
    BY <1>2, <1>5, <2>1, FilesFlushedType DEF ToSram
  <2>3. /\ core.disk.data[1] = core.name /\ core.disk.data = latest[core.name]
        /\ core.disk.data # Nothing /\ srm = NoSram
    BY <1>2, <1>3, <2>1, DiskFields, Ground DEF Closing, Current, SrmGood
  <2>4. FilesGood(g) /\ Grows(file, g)
    BY <1>3, <2>2, <2>3 DEF FilesGood, Grows
  <2>5. SrmGood(mode, kind, srm, g)
    BY <1>2, <1>3, <2>4, SrmGrows
  <2>6. AllSafe(mode, srm, g, latest)
    <3> SUFFICES ASSUME NEW i \in Images PROVE Safe(srm, g, latest, i)
      BY DEF AllSafe
    <3>1. \A r \in 1 .. MAXDISKS : ~Copy(srm, r, i)
      BY <2>3 DEF Copy
    <3>2. latest[i] = Held(g, i)
      <4>1. CASE i = core.name
        BY <2>2, <2>3, <4>1 DEF Held
      <4>2. CASE i # core.name
        <5>1. Safe(srm, file, latest, i)
          BY <1>3, <2>1, <4>2 DEF Closing, Current
        <5> QED BY <2>2, <3>1, <4>2, <5>1 DEF Safe, Held
      <4> QED BY <4>1, <4>2
    <3> QED BY <3>1, <3>2 DEF Safe
  <2> HIDE DEF g
  <2> QED BY <1>1, <2>4, <2>5, <2>6 DEF Good
<1> QED BY <1>4, <1>5

LEMMA InitGood == ASSUME Init PROVE Good
<1>1. \A i \in Images : /\ file[i] = IF i \in Missing THEN Nothing ELSE <<i, 0>>
                        /\ latest[i] = <<i, 0>>
  BY DEF Init
<1>2. \A i \in Images : <<i, 0>> # Nothing
  BY Ground
<1>3. FilesGood(file)
  <2> SUFFICES ASSUME NEW i \in Images
               PROVE  (i \notin Missing => file[i] # Nothing) /\ (file[i] # Nothing => file[i][1] = i)
    BY DEF FilesGood
  <2>1. CASE i \in Missing
    BY <1>1, <2>1
  <2>2. CASE i \notin Missing
    <3>1. file[i] = <<i, 0>>
      BY <1>1, <2>2
    <3> QED BY <1>2, <2>2, <3>1
  <2> QED BY <2>1, <2>2
<1>4. srm = NoSram /\ phase = "off"
  BY DEF Init
<1>5. SrmGood(mode, kind, srm, file)
  BY <1>4 DEF SrmGood, SramGood
<1>6. AllSafe(mode, srm, file, latest)
  <2> SUFFICES ASSUME NEW i \in Images PROVE Safe(srm, file, latest, i)
    BY DEF AllSafe
  <2>1. \A r \in 1 .. MAXDISKS : ~Copy(srm, r, i)
    BY <1>4 DEF Copy
  <2>2. latest[i] = Held(file, i)
    BY <1>1, <1>2 DEF Held
  <2> QED BY <2>1, <2>2 DEF Safe
<1> QED BY <1>3, <1>4, <1>5, <1>6 DEF Good

LEMMA NextGood == ASSUME Supported, Typed, Good, [Next]_vars PROVE Good'
<1>1. CASE retro_load_game
  BY <1>1, LoadGood
<1>2. CASE retro_run
  BY <1>2, RunGood
<1>3. CASE retro_reset
  BY <1>3, ResetGood
<1>4. CASE \E ejected \in BOOLEAN : set_eject_state(ejected)
  BY <1>4, EjectGood
<1>5. CASE \E n \in 0 .. Len(core.paths) : set_image_index(n) \/ KeySwap(n)
  BY <1>5, SetIndexGood, KeySwapGood
<1>6. CASE \E i \in Appendable : AppendImage(i)
  BY <1>6, AppendGood
<1>7. CASE \E n \in 0 .. Len(core.paths) - 1, i \in Appendable : ReplaceImage(n, i)
  BY <1>7, ReplaceGood
<1>8. CASE SaveFiles
  BY <1>8, SaveGood
<1>9. CASE retro_unload_game
  BY <1>9, UnloadGood
<1>10. CASE UNCHANGED vars
  BY <1>10 DEF vars, Good
<1> QED BY <1>1, <1>2, <1>3, <1>4, <1>5, <1>6, <1>7, <1>8, <1>9, <1>10 DEF Next

LEMMA GoodAlways == ASSUME Supported PROVE Spec => [](Typed /\ Good)
<1>1. Init => Typed /\ Good
  BY InitTyped, InitGood
<1>2. (Typed /\ Good) /\ [Next]_vars => (Typed /\ Good)'
  BY NextTyped, NextGood
<1> QED BY <1>1, <1>2, PTL DEF Spec

\* A program finds on a disk what was last written to it, whichever disks were
\* in the drive since, and however often the game was closed: the changes are
\* in the file, in the SRAM's slot of the image, or still in the drive.
THEOREM NothingIsLost == ASSUME Supported PROVE Spec => []NothingLost
<1>1. Typed /\ Good => NothingLost
  <2> SUFFICES ASSUME Typed, Good, mode # "never", phase = "running", core.disk # Empty
               PROVE  core.disk.data = latest[core.disk.in]
    BY DEF NothingLost
  <2> QED BY RunningNow DEF CoreGood, DriveGood, Playing, Current
<1> QED BY <1>1, GoodAlways, PTL

LEMMA GoodInPlace == ASSUME Typed, Good PROVE StoredInPlace
<1>1. CleanIsStored
  <2> SUFFICES ASSUME mode # "never", phase = "running", core.disk # Empty, core.dirty = 0
               PROVE  core.disk.data = Stored(core)
    BY DEF CleanIsStored
  <2>1. /\ core.disk.in = core.name /\ core.disk.data = latest[core.name]
        /\ file[core.name] # Nothing /\ core.name \in Images
    BY RunningNow DEF CoreGood, DriveGood, Playing, Current, Cores
  <2>2. Safe(core.sram, file, latest, core.name)
    <3>1. ~(core.dirty > 0)
      OBVIOUS
    <3> QED BY <2>1, <3>1, RunningNow DEF Playing, Current
  <2>3. CASE mode # "sram"
    <3>1. \A r \in 1 .. MAXDISKS : ~Copy(core.sram, r, core.name)
      BY <2>3, RunningNow DEF CoreGood, SramMode, Copy
    <3> QED BY <2>1, <2>2, <2>3, <3>1 DEF Safe, Held, Stored, InSram
  <2>4. CASE mode = "sram"
    <3>1. kind \in {"m3u", "dsk"} /\ NameIn(kind, core) /\ SramGood(kind, core.sram, file)
      BY <2>4, RunningNow, DriveNamed DEF Slotted, CoreGood, SramMode
    <3>2. core.sram # NoSram /\ core.sram \in Patches /\ IsInjective(core.sram.dir)
      <4>1. kind = "dsk" => core.sram # NoSram
        BY <2>1, <2>4, <3>1, RunningNow DEF CoreGood, SramMode, NameIn
      <4> QED BY <2>4, <3>1, <4>1, RunningNow, DiskFields DEF Slotted, Whole
    <3>3. /\ InSlot(kind, core) => core.sram.slot[SlotIn(kind, core)] = latest[core.name]
          /\ ~InSlot(kind, core) => latest[core.name] = Held(file, core.name)
      BY <2>2, <3>1, <3>2, RunningNow, LookUp
    <3>4. Slot(core) = SlotIn(kind, core) /\ SlotIn(kind, core) \in Nat
          /\ SlotIn(kind, core) >= 1
      BY <3>2, RunningNow, Slots DEF Slot, SlotIn
    <3>5. InSram(core) <=> InSlot(kind, core)
      BY <2>4, <3>2, <3>4, Ground DEF InSram, InSlot
    <3> QED BY <2>1, <3>3, <3>4, <3>5 DEF Stored, Held
  <2> QED BY <2>3, <2>4
<1>2. DirectoryMatches
  <2> SUFFICES ASSUME core.sram # NoSram, kind = "m3u", phase # "loaded"
               PROVE  /\ IsInjective(core.sram.dir)
                      /\ \A r \in 1 .. MAXDISKS :
                           core.sram.slot[r] # Nothing =>
                             /\ r \in DOMAIN core.sram.dir
                             /\ core.sram.dir[r] < Len(core.paths) =>
                                  core.sram.slot[r][1] = core.paths[core.sram.dir[r] + 1]
    BY DEF DirectoryMatches
  <2>1. phase # "off"
    BY OffFields DEF Typed
  <2>2. IsInjective(core.sram.dir) /\ core \in Cores /\ core.sram \in Patches
    BY <2>1, TypedNow, DiskFields DEF Whole
  <2>3. SramMode(mode, kind, core, file)
    BY <2>1 DEF Good, Closing, CoreGood, Typed, TypedState
  <2>4. core.paths \in {Playlist, FullList} /\ SramGood(kind, core.sram, file)
    BY <2>3 DEF SramMode
  <2>5. ASSUME NEW r \in 1 .. MAXDISKS, core.sram.slot[r] # Nothing
        PROVE  /\ r \in DOMAIN core.sram.dir
               /\ core.sram.dir[r] < Len(core.paths) =>
                    core.sram.slot[r][1] = core.paths[core.sram.dir[r] + 1]
    <3>1. r \in DOMAIN core.sram.dir /\ core.sram.slot[r][1] = FullList[core.sram.dir[r] + 1]
      BY <2>4, <2>5 DEF SramGood, InPlace
    <3>2. core.sram.dir[r] \in Nat
      <4>1. core.sram.dir \in Seq(Indices)
        BY <2>2 DEF Patches, Short
      <4>2. core.sram.dir[r] \in Indices
        BY <3>1, <4>1, LenProperties, ElementOfSeq
      <4> QED BY <4>2, Ground DEF Indices
    <3> QED BY <2>4, <3>1, <3>2, Listing
  <2> QED BY <2>2, <2>5
<1>3. FlushHasTarget
  <2> SUFFICES ASSUME mode = "sram", core.dirty > 0, file[core.name] # Nothing
               PROVE  core.sram # NoSram /\ (kind = "dsk" => core.ptr = 1)
    BY DEF FlushHasTarget, Exists
  <2>1. phase # "off"
    BY OffFields DEF Typed
  <2>2. core.disk # Empty /\ core.dirty \in Nat /\ Slotted(mode, kind, core)
    BY <2>1, TypedNow DEF Whole
  <2>3. phase = "running"
    <3>1. phase # "loaded"
      BY <2>2 DEF Good, Fresh
    <3>2. phase # "closing"
      BY <2>2 DEF Good, Closing
    <3> QED BY <2>1, <3>1, <3>2 DEF Typed, TypedState
  <2>4. kind = "dsk" => core.sram # NoSram /\ core.ptr = 1
    BY <2>2, <2>3, RunningNow DEF CoreGood, DriveGood, SramMode
  <2> QED BY <2>2, <2>4 DEF Slotted
<1> QED BY <1>1, <1>2, <1>3 DEF StoredInPlace

\* What a disk that need not be flushed holds is where it is looked for when it
\* is inserted again; the directory of the SRAM names each patched image once,
\* at its slot; and a change that goes to the SRAM has a slot there.
THEOREM EverythingInPlace == ASSUME Supported PROVE Spec => []StoredInPlace
<1>1. Typed /\ Good => StoredInPlace
  BY GoodInPlace
<1> QED BY <1>1, GoodAlways, PTL

(***************************************************************************)
(* Entries of the file allocation table: for every table, entry and value. *)
(***************************************************************************)
Byte  == 0 .. 255
Entry == 0 .. 4095
Table == [0 .. At(DSK_FAT_SIZE) + 2 -> Byte]

LEMMA AtType ==
  ASSUME NEW j \in 0 .. DSK_FAT_SIZE
  PROVE  /\ At(j) \in Int
         /\ {At(j), At(j) + 1, At(j) + 2} \subseteq 0 .. At(DSK_FAT_SIZE) + 2
BY FatAssumption DEF At

\* Entries of different pairs have different bytes.
LEMMA AtApart ==
  ASSUME NEW j \in Nat, NEW k \in Nat, j \div 2 # k \div 2
  PROVE  {At(j), At(j) + 1, At(j) + 2} \cap {At(k), At(k) + 1, At(k) + 2} = {}
<1>1. j \div 2 \in Int /\ k \div 2 \in Int
  OBVIOUS
<1>2. At(j) + 2 < At(k) \/ At(k) + 2 < At(j)
  BY <1>1 DEF At
<1> QED
  BY <1>1, <1>2 DEF At

\* Division by the powers of two that the code shifts by.
LEMMA Nibbles ==
  ASSUME NEW b \in Byte
  PROVE  b \div 16 \in 0 .. 15
BY DEF Byte
LEMMA Shifted ==
  ASSUME NEW v \in Entry
  PROVE  v % 256 \in Byte /\ v \div 16 \in Byte /\ v \div 256 \in 0 .. 15
<1>1. v \in Int /\ 0 <= v /\ v <= 4095
  BY DEF Entry
<1>2. v % 256 \in Int /\ 0 <= v % 256 /\ v % 256 < 256
  BY <1>1
<1>3. /\ v \div 16 \in Int /\ v \div 256 \in Int
      /\ v = 16 * (v \div 16) + (v % 16) /\ v % 16 \in 0 .. 15
      /\ v = 256 * (v \div 256) + (v % 256)
  BY <1>1
<1>4. 0 <= v \div 16 /\ v \div 16 <= 255
  BY <1>1, <1>3
<1>5. 0 <= v \div 256 /\ v \div 256 <= 15
  BY <1>1, <1>2, <1>3
<1>6. \A n \in Int : 0 <= n /\ n < 256 => n \in Byte
  BY DEF Byte
<1>7. \A n \in Int : 0 <= n /\ n <= 15 => n \in 0 .. 15
  OBVIOUS
<1>8. v % 256 \in Byte
  BY <1>2, <1>6
<1>9. v \div 16 \in Byte
  BY <1>3, <1>4, <1>6
<1>10. v \div 256 \in 0 .. 15
  BY <1>3, <1>5, <1>7
<1> QED
  BY <1>8, <1>9, <1>10

LEMMA Bytes ==
  ASSUME NEW b \in Byte, NEW v \in Entry
  PROVE  /\ v % 256 \in Byte /\ v \div 16 \in Byte
         /\ (b % 16) + 16 * (v % 16) \in Byte
         /\ ((b % 16) + 16 * (v % 16)) \div 16 = v % 16
         /\ ((b % 16) + 16 * (v % 16)) % 16 = b % 16
         /\ 16 * (b \div 16) + v \div 256 \in Byte
         /\ (16 * (b \div 16) + v \div 256) \div 16 = b \div 16
         /\ (16 * (b \div 16) + v \div 256) % 16 = v \div 256
<1>1. v % 256 \in Byte /\ v \div 16 \in Byte
  BY Shifted
<1>2. v % 16 \in 0 .. 15 /\ b % 16 \in 0 .. 15
  BY DEF Byte, Entry
<1>3. v \div 256 \in 0 .. 15 /\ b \div 16 \in 0 .. 15
  BY Shifted, Nibbles
<1>4. ASSUME NEW low \in 0 .. 15, NEW high \in 0 .. 15
      PROVE  /\ low + 16 * high \in Byte /\ 16 * high + low \in Byte
             /\ (low + 16 * high) \div 16 = high /\ (16 * high + low) \div 16 = high
             /\ (low + 16 * high) % 16 = low /\ (16 * high + low) % 16 = low
  BY <1>4 DEF Byte
<1>5. /\ (b % 16) + 16 * (v % 16) \in Byte
      /\ ((b % 16) + 16 * (v % 16)) \div 16 = v % 16
      /\ ((b % 16) + 16 * (v % 16)) % 16 = b % 16
  BY <1>2, <1>4
<1>6. /\ 16 * (b \div 16) + v \div 256 \in Byte
      /\ (16 * (b \div 16) + v \div 256) \div 16 = b \div 16
      /\ (16 * (b \div 16) + v \div 256) % 16 = v \div 256
  BY <1>3, <1>4
<1> QED
  BY <1>1, <1>5, <1>6

\* What DSKWrite() and DSKDelete() put in an entry of the table is bytes,
\* of the three bytes that it shares with its neighbour,
THEOREM ChainedType ==
  ASSUME NEW fat \in Table, NEW j \in 0 .. DSK_FAT_SIZE, NEW v \in Entry
  PROVE  Chained(fat, j, v) \in Table
BY AtType, Bytes, SMTT(30) DEF Chained, Table

\* and is what is read of it, while all other entries, also the one that shares
\* a byte with it, keep their values.
THEOREM ChainedEntry ==
  ASSUME NEW fat \in Table, NEW j \in 0 .. DSK_FAT_SIZE, NEW v \in Entry,
         NEW k \in 0 .. DSK_FAT_SIZE
  PROVE  FatEntry(Chained(fat, j, v), k) = IF k = j THEN v ELSE FatEntry(fat, k)
<1> DEFINE b == fat[At(j) + 1]
           odd == [fat EXCEPT ![At(j) + 1] = (b % 16) + 16 * (v % 16), ![At(j) + 2] = v \div 16]
           even == [fat EXCEPT ![At(j) + 1] = 16 * (b \div 16) + v \div 256, ![At(j)] = v % 256]
<1>1. /\ At(j) \in Int
      /\ {At(j), At(j) + 1, At(j) + 2} \subseteq DOMAIN fat
      /\ b \in Byte
  BY AtType DEF Table
<1>2. CASE k = j
  <2>1. CASE j % 2 = 1
    <3>1. odd[At(j) + 1] = (b % 16) + 16 * (v % 16) /\ odd[At(j) + 2] = v \div 16
      BY <1>1 DEF Table
    <3>2. (v % 16) + 16 * (v \div 16) = v
      BY DEF Entry
    <3> QED
      BY <1>2, <2>1, <3>1, <3>2, <1>1, Bytes DEF FatEntry, Chained
  <2>2. CASE j % 2 # 1
    <3>1. even[At(j) + 1] = 16 * (b \div 16) + v \div 256 /\ even[At(j)] = v % 256
      BY <1>1 DEF Table
    <3>2. (v % 256) + 256 * (v \div 256) = v
      BY DEF Entry
    <3> QED
      BY <1>2, <2>2, <3>1, <3>2, <1>1, Bytes DEF FatEntry, Chained
  <2> QED
    BY <2>1, <2>2
<1>3. CASE k # j /\ k \div 2 = j \div 2
  <2>1. At(k) = At(j)
    BY <1>3 DEF At
  <2>2. CASE j % 2 = 1
    <3>1. k % 2 # 1
      BY <1>3, <2>2
    <3>2. odd[At(j)] = fat[At(j)] /\ odd[At(j) + 1] = (b % 16) + 16 * (v % 16)
      BY <1>1 DEF Table
    <3> QED
      BY <1>3, <2>1, <2>2, <3>1, <3>2, <1>1, Bytes DEF FatEntry, Chained
  <2>3. CASE j % 2 # 1
    <3>1. k % 2 = 1
      BY <1>3, <2>3
    <3>2. even[At(j) + 2] = fat[At(j) + 2] /\ even[At(j) + 1] = 16 * (b \div 16) + v \div 256
      BY <1>1 DEF Table
    <3> QED
      BY <1>3, <2>1, <2>3, <3>1, <3>2, <1>1, Bytes DEF FatEntry, Chained
  <2> QED
    BY <2>2, <2>3
<1>4. CASE k \div 2 # j \div 2
  <2>1. {At(j), At(j) + 1, At(j) + 2} \cap {At(k), At(k) + 1, At(k) + 2} = {}
    BY <1>4, AtApart
  <2>2. /\ At(k) \in Int
        /\ {At(k), At(k) + 1, At(k) + 2} \subseteq DOMAIN fat
    BY AtType DEF Table
  <2>3. /\ Chained(fat, j, v)[At(k)] = fat[At(k)]
        /\ Chained(fat, j, v)[At(k) + 1] = fat[At(k) + 1]
        /\ Chained(fat, j, v)[At(k) + 2] = fat[At(k) + 2]
    BY <1>1, <2>1, <2>2 DEF Chained
  <2> QED
    BY <1>4, <2>3 DEF FatEntry
<1> QED
  BY <1>2, <1>3, <1>4

\* Both copies of the table stay equal but for the first three bytes, which
\* only DSKCreate() writes: DSKWrite() and DSKDelete() copy every byte that
\* they change.
THEOREM ChainCopies ==
  ASSUME NEW d, DOMAIN d = {"fat", "fat2", "dir", "data"},
         d.fat \in Table, d.fat2 \in Table,
         \A b \in DOMAIN d.fat : b > 2 => d.fat2[b] = d.fat[b],
         NEW j \in 0 .. DSK_FAT_SIZE, NEW v \in Entry
  PROVE  LET e == Chain(d, j, v) IN
         \A b \in DOMAIN e.fat : b > 2 => e.fat2[b] = e.fat[b]
<1> DEFINE new == Chained(d.fat, j, v)
           from == IF j % 2 = 1 THEN 1 ELSE 0
           copied == At(j) + from .. At(j) + from + 1
<1>1. DOMAIN new = DOMAIN d.fat /\ DOMAIN d.fat2 = DOMAIN d.fat
  BY ChainedType DEF Table
<1>2. \A b \in DOMAIN new : b \notin copied => new[b] = d.fat[b]
  BY AtType DEF Chained, Table
<1>3. /\ Chain(d, j, v).fat = new
      /\ Chain(d, j, v).fat2 = [b \in DOMAIN d.fat2 |-> IF b \in copied THEN new[b] ELSE d.fat2[b]]
  BY DEF Chain
<1> QED
  BY <1>1, <1>2, <1>3

(***************************************************************************)
(* Loops that are functions of the number of turns.                        *)
(***************************************************************************)
LEMMA LeastElement ==
  ASSUME NEW T, T \subseteq Nat, T # {}
  PROVE  \E x \in T : \A y \in T : ~(y < x)
<1> DEFINE R == {p \in Nat \X Nat : p[1] < p[2]}
<1>1. IsWellFoundedOn(R, Nat)
  BY NatLessThanWellFounded DEF OpToRel
<1>2. \A x, y \in T : y < x => <<y, x>> \in R
  OBVIOUS
<1> HIDE DEF R
<1>3. PICK x \in T : \A y \in T : ~(<<y, x>> \in R)
  BY <1>1, WFMin
<1> QED BY <1>2, <1>3

LEMMA SetInduction ==
  ASSUME NEW S, 0 \in S, \A k \in Nat : k \in S => k + 1 \in S
  PROVE  Nat \subseteq S
<1> SUFFICES ASSUME Nat \ S # {} PROVE FALSE
  OBVIOUS
<1>1. PICK x \in Nat \ S : \A y \in Nat \ S : ~(y < x)
  BY LeastElement
<1>2. x # 0 /\ x \in Nat /\ x - 1 \in Nat /\ x - 1 < x /\ (x - 1) + 1 = x
  OBVIOUS
<1>3. x - 1 \in S
  BY <1>1, <1>2
<1> QED BY <1>2, <1>3

\* Up to a bound.
LEMMA BoundedInduction ==
  ASSUME NEW n \in Nat, NEW S, 0 \in S, \A k \in 1 .. n : k - 1 \in S => k \in S
  PROVE  \A k \in 0 .. n : k \in S
<1> DEFINE T == {k \in Nat : k <= n => k \in S}
<1>1. 0 \in T
  OBVIOUS
<1>2. ASSUME NEW k \in Nat, k \in T PROVE k + 1 \in T
  <2>1. CASE k + 1 <= n
    <3>1. k \in S /\ k + 1 \in 1 .. n /\ (k + 1) - 1 = k
      BY <1>2, <2>1
    <3> QED BY <3>1
  <2> QED BY <2>1
<1> HIDE DEF T
<1>3. Nat \subseteq T
  BY <1>1, <1>2, SetInduction
<1> QED BY <1>3 DEF T

\* What becomes of a first value by turns of a loop.
Walked(V, first, turn, n) ==
  {f \in [0 .. n -> V] : f = [k \in 0 .. n |-> IF k = 0 THEN first ELSE turn[f[k - 1]]]}
LEMMA Walks ==
  ASSUME NEW V, NEW first \in V, NEW turn \in [V -> V], NEW n \in Nat
  PROVE  Walked(V, first, turn, n) # {}
<1> DEFINE Is(f, m) == f[0] = first /\ \A k \in 1 .. m : f[k] = turn[f[k - 1]]
           S == {m \in Nat : \E f \in [0 .. m -> V] : Is(f, m)}
<1>1. 0 \in S
  <2>1. [k \in 0 .. 0 |-> first] \in [0 .. 0 -> V] /\ Is([k \in 0 .. 0 |-> first], 0)
    OBVIOUS
  <2> QED BY <2>1
<1>2. ASSUME NEW m \in Nat, m \in S PROVE m + 1 \in S
  <2>1. PICK f \in [0 .. m -> V] : Is(f, m)
    BY <1>2
  <2> DEFINE g == [k \in 0 .. m + 1 |-> IF k = m + 1 THEN turn[f[m]] ELSE f[k]]
  <2>2. g \in [0 .. m + 1 -> V]
    <3>1. turn[f[m]] \in V
      OBVIOUS
    <3>2. \A k \in 0 .. m + 1 : k = m + 1 \/ k \in 0 .. m
      OBVIOUS
    <3> QED BY <3>1, <3>2
  <2>3. \A k \in 0 .. m : g[k] = f[k]
    OBVIOUS
  <2>4. g[m + 1] = turn[g[m]]
    <3>1. g[m + 1] = turn[f[m]]
      OBVIOUS
    <3>2. g[m] = f[m]
      BY <2>3
    <3> HIDE DEF g
    <3> QED BY <3>1, <3>2
  <2> HIDE DEF g
  <2>5. g[0] = first
    BY <2>1, <2>3
  <2>6. ASSUME NEW k \in 1 .. m + 1 PROVE g[k] = turn[g[k - 1]]
    <3>1. CASE k = m + 1
      <4>1. k - 1 = m
        BY <3>1
      <4> QED BY <2>4, <3>1, <4>1
    <3>2. CASE k # m + 1
      <4>1. k \in 1 .. m /\ k \in 0 .. m /\ k - 1 \in 0 .. m
        BY <3>2
      <4> QED BY <2>1, <2>3, <4>1
    <3> QED BY <3>1, <3>2
  <2> QED BY <2>2, <2>5, <2>6
<1> HIDE DEF S
<1>3. n \in S
  BY <1>1, <1>2, SetInduction
<1>4. PICK f \in [0 .. n -> V] : Is(f, n)
  BY <1>3 DEF S
<1>5. \A k \in 0 .. n : f[k] = IF k = 0 THEN first ELSE turn[f[k - 1]]
  BY <1>4
<1>6. f = [k \in 0 .. n |-> IF k = 0 THEN first ELSE turn[f[k - 1]]]
  BY <1>5
<1> QED BY <1>6 DEF Walked

(***************************************************************************)
(* Types of disks, with bytes of a set U.                                  *)
(***************************************************************************)
Names == {Unused} \cup {Name83(h) : h \in Seq(DOMAIN toupper)}
                  \cup {Erased(Name83(h)) : h \in Seq(DOMAIN toupper)}
Links == Clusters \cup {0, EndOfChain}
IDs   == 1 .. DSK_DIR_SIZE
Dirs  == [IDs -> [name : Names, first : Clusters \cup {0}, size : Nat]]
DskRecords(U) == [fat : Table, fat2 : Table, dir : Dirs, data : [Clusters -> Seq(U)]]
Disks(U) ==
  {d \in DskRecords(U) : TablesAgree(d) /\ \A j \in Clusters : FatEntry(d.fat, j) \in Links}

LEMMA ClusterFacts ==
  /\ \A j \in Clusters : /\ j \in Nat /\ j >= 2 /\ j < DSK_FAT_SIZE /\ j \in 0 .. DSK_FAT_SIZE
                         /\ Linked(j) /\ j # 0 /\ j # EndOfChain
                         /\ (j < 4081 \/ j > 4087)
  /\ ~Linked(0) /\ ~Linked(EndOfChain) /\ EndOfChain # 0 /\ EndOfChain \in Nat
  /\ Turns \in Nat /\ DSK_FAT_SIZE \in Nat /\ DSK_CLUSTER_SIZE \in Nat /\ DSK_CLUSTER_SIZE >= 1
BY FatAssumption DEF Clusters, Linked, EndOfChain, Turns

LEMMA LinksType == Links \subseteq Entry /\ \A j \in Links : j < 4081 \/ j > 4087
<1>1. DSK_FAT_SIZE \in Nat /\ DSK_FAT_SIZE <= 4080
  BY FatAssumption
<1>2. \A j \in Clusters : j \in Entry /\ j < 4081
  BY <1>1 DEF Clusters, Entry
<1>3. 0 \in Entry /\ EndOfChain \in Entry /\ 0 < 4081 /\ EndOfChain > 4087
  BY DEF Entry, EndOfChain
<1> QED BY <1>2, <1>3 DEF Links

LEMMA DiskFacts ==
  ASSUME NEW U, NEW d \in Disks(U)
  PROVE  /\ d.fat \in Table /\ d.fat2 \in Table /\ d.dir \in Dirs
         /\ d.data \in [Clusters -> Seq(U)] /\ TablesAgree(d)
         /\ \A j \in Clusters : FatEntry(d.fat, j) \in Links
         /\ DOMAIN d = {"fat", "fat2", "dir", "data"}
         /\ DOMAIN d.dir = IDs /\ DOMAIN d.data = Clusters
BY DEF Disks, DskRecords, Dirs

\* An entry of the table is changed, and nothing else of the disk.
LEMMA ChainEffect ==
  ASSUME NEW U, NEW d \in Disks(U), NEW j \in Clusters, NEW v \in Links
  PROVE  LET e == Chain(d, j, v) IN
         /\ e \in Disks(U) /\ e.dir = d.dir /\ e.data = d.data
         /\ \A k \in Clusters : FatEntry(e.fat, k) = IF k = j THEN v ELSE FatEntry(d.fat, k)
<1> DEFINE e == Chain(d, j, v)
           new == Chained(d.fat, j, v)
<1>0. d.fat \in Table /\ j \in 0 .. DSK_FAT_SIZE /\ v \in Entry
  BY DiskFacts, ClusterFacts, LinksType
<1>1. new \in Table
  BY <1>0, ChainedType
<1>2. \A k \in Clusters : FatEntry(new, k) = IF k = j THEN v ELSE FatEntry(d.fat, k)
  <2> TAKE k \in Clusters
  <2>1. k \in 0 .. DSK_FAT_SIZE
    BY ClusterFacts
  <2> QED BY <1>0, <2>1, ChainedEntry
<1>3. e.fat = new /\ e.dir = d.dir /\ e.data = d.data
  BY DiskFacts DEF Chain
<1>4. TablesAgree(e)
  <2>1. \A b \in DOMAIN d.fat : b > 2 => d.fat2[b] = d.fat[b]
    BY DiskFacts DEF TablesAgree
  <2>2. d.fat2 \in Table /\ DOMAIN d = {"fat", "fat2", "dir", "data"}
    BY DiskFacts
  <2> HIDE DEF e
  <2>3. \A b \in DOMAIN Chain(d, j, v).fat : b > 2 => Chain(d, j, v).fat2[b] = Chain(d, j, v).fat[b]
    BY <1>0, <2>1, <2>2, ChainCopies
  <2> QED BY <2>3 DEF TablesAgree, e
<1>5. e.fat2 \in Table
  <2> DEFINE from == IF j % 2 = 1 THEN 1 ELSE 0
             copied == At(j) + from .. At(j) + from + 1
  <2>1. e.fat2 = [b \in DOMAIN d.fat2 |-> IF b \in copied THEN new[b] ELSE d.fat2[b]]
    BY DiskFacts DEF Chain
  <2>2. d.fat2 \in Table
    BY DiskFacts
  <2> HIDE DEF e, new, copied
  <2> QED BY <2>1, <2>2, <1>1 DEF Table
<1>6. e \in DskRecords(U)
  <2>1. e = [d EXCEPT !.fat = e.fat, !.fat2 = e.fat2]
    <3>1. DOMAIN d = {"fat", "fat2", "dir", "data"}
      BY DiskFacts
    <3> QED BY <3>1 DEF Chain
  <2>2. d \in DskRecords(U)
    BY DEF Disks
  <2>3. \A f, g \in Table : [d EXCEPT !.fat = f, !.fat2 = g] \in DskRecords(U)
    BY <2>2 DEF DskRecords
  <2> HIDE DEF e
  <2> QED BY <1>1, <1>3, <1>5, <2>1, <2>3
<1>7. \A k \in Clusters : FatEntry(e.fat, k) \in Links
  <2> HIDE DEF e, new
  <2> QED BY <1>2, <1>3, DiskFacts
<1> QED BY <1>2, <1>3, <1>4, <1>6, <1>7 DEF Disks

\* The first free cluster from a number on, or 0.
LEMMA FreeEffect ==
  ASSUME NEW U, NEW d \in Disks(U), NEW start \in Nat
  PROVE  LET r == FindFreeCluster(d, start) IN
         \/ r = 0 /\ \A j \in Clusters : j >= start => FatEntry(d.fat, j) # 0
         \/ /\ r \in Clusters /\ r >= start /\ FatEntry(d.fat, r) = 0
            /\ \A j \in Clusters : j >= start /\ j < r => FatEntry(d.fat, j) # 0
<1> DEFINE free == {j \in Clusters : j >= start /\ FatEntry(d.fat, j) = 0}
<1>1. FindFreeCluster(d, start) = IF free = {} THEN 0 ELSE Min(free)
  BY DEF FindFreeCluster, Clusters
<1>2. free \subseteq Nat
  BY ClusterFacts
<1>3. free # {} => Min(free) \in free /\ \A j \in free : ~(j < Min(free))
  <2> HAVE free # {}
  <2> HIDE DEF free
  <2>1. PICK x \in free : \A y \in free : ~(y < x)
    BY <1>2, LeastElement
  <2>2. \A y \in free : x <= y
    BY <1>2, <2>1
  <2>3. Min(free) \in free /\ \A y \in free : Min(free) <= y
    BY <2>2 DEF Min
  <2>4. \A j \in free : j \in Nat
    BY <1>2
  <2>5. Min(free) \in Nat
    BY <2>3, <2>4
  <2> DEFINE m == Min(free)
  <2> HIDE DEF m
  <2>6. m \in Nat /\ m \in free /\ \A y \in free : m <= y
    BY <2>3, <2>5 DEF m
  <2>7. \A j \in free : ~(j < m)
    BY <2>4, <2>6
  <2> QED BY <2>6, <2>7 DEF m
<1>4. CASE free = {}
  BY <1>1, <1>4
<1>5. CASE free # {}
  BY <1>1, <1>3, <1>5
<1> QED BY <1>4, <1>5

LEMMA PaddedType ==
  ASSUME NEW s, NEW n \in Nat
  PROVE  \E S : Padded(s, n) \in Seq(S) /\ Len(Padded(s, n)) = n
<1> DEFINE p == Padded(s, n)
           S == {p[k] : k \in 1 .. n}
<1>1. p \in [1 .. n -> S]
  BY DEF Padded
<1> HIDE DEF p, S
<1>2. p \in Seq(S) /\ Len(p) = n
  BY <1>1
<1> QED BY <1>2 DEF p

LEMMA NameFacts ==
  ASSUME NEW h \in Seq(DOMAIN toupper)
  PROVE  LET n == Name83(h) IN
         n \in Names /\ n # Unused /\ 1 \in DOMAIN n /\ n = [k \in DOMAIN n |-> n[k]]
<1> DEFINE dots == {k \in DOMAIN h : h[k] = "."}
           dot == IF dots = {} THEN Len(h) + 1 ELSE Min(dots)
           a == Padded(SubSeq(h, 1, dot - 1), NameLen)
           b == Padded(SubSeq(h, dot + 1, Len(h)), ExtLen)
<1>1. Name83(h) = a \o b
  BY DEF Name83
<1>2. NameLen \in Nat /\ NameLen >= 1 /\ ExtLen \in Nat
  BY FatAssumption
<1>3. PICK S : a \in Seq(S) /\ Len(a) = NameLen
  BY <1>2, PaddedType
<1>4. PICK T : b \in Seq(T) /\ Len(b) = ExtLen
  BY <1>2, PaddedType
<1> HIDE DEF a, b
<1>5. a \in Seq(S \cup T) /\ b \in Seq(S \cup T)
  BY <1>3, <1>4, SeqMonotonic
<1>6. Len(a \o b) = NameLen + ExtLen
  BY <1>3, <1>4, <1>5, ConcatProperties
<1>7. Len(a \o b) \in Nat /\ Len(a \o b) >= 1
  BY <1>2, <1>6
<1> DEFINE n == a \o b
<1>8. n \in Seq(S \cup T)
  BY <1>5, ConcatProperties
<1>9. Len(n) \in Nat /\ Len(n) >= 1
  BY <1>7
<1> HIDE DEF n
<1>10. 1 \in DOMAIN n /\ n = [k \in DOMAIN n |-> n[k]]
  BY <1>8, <1>9, LenProperties
<1>11. DOMAIN <<>> = {}
  OBVIOUS
<1>12. Name83(h) = n
  BY <1>1 DEF n
<1> QED BY <1>10, <1>11, <1>12 DEF Names, Unused

\* The name of a deleted file.
LEMMA ErasedFacts ==
  ASSUME NEW n \in Names, n # Unused
  PROVE  Erased(n) \in Names /\ Erased(n) # Unused /\ Erased(n)[1] = Deleted
<1>1. ASSUME NEW h \in Seq(DOMAIN toupper), NEW m, m = Name83(h)
      PROVE  /\ Erased(m) \in Names /\ Erased(m) # Unused /\ Erased(m)[1] = Deleted
             /\ Erased(Erased(m)) = Erased(m)
  <2>1. m \in Names /\ 1 \in DOMAIN m /\ m = [k \in DOMAIN m |-> m[k]]
    BY <1>1, NameFacts
  <2>2. Erased(m)[1] = Deleted /\ DOMAIN Erased(m) = DOMAIN m
    BY <2>1 DEF Erased
  <2>3. Erased(Erased(m)) = Erased(m)
    BY <2>1 DEF Erased
  <2>4. DOMAIN <<>> = {}
    OBVIOUS
  <2>5. Erased(m) # Unused
    BY <2>1, <2>2, <2>4 DEF Unused
  <2> QED BY <1>1, <2>2, <2>3, <2>5 DEF Names
<1>2. CASE \E h \in Seq(DOMAIN toupper) : n = Name83(h)
  BY <1>1, <1>2
<1>3. CASE \E h \in Seq(DOMAIN toupper) : n = Erased(Name83(h))
  <2>1. PICK h \in Seq(DOMAIN toupper) : n = Erased(Name83(h))
    BY <1>3
  <2> DEFINE m == Name83(h)
  <2>2. m = Name83(h) /\ n = Erased(m)
    BY <2>1
  <2> HIDE DEF m
  <2> QED BY <1>1, <2>2
<1> QED BY <1>2, <1>3 DEF Names

(***************************************************************************)
(* Chains of clusters, with what is in the entry of the last one.          *)
(***************************************************************************)
Then(c, last, a) == IF a <= Len(c) THEN c[a] ELSE last
Path(d, c, last) ==
  /\ c \in Seq(Clusters)
  /\ \A a, b \in DOMAIN c : c[a] = c[b] => a = b
  /\ \A a \in DOMAIN c : FatEntry(d.fat, c[a]) = Then(c, last, a + 1)
On(c, k) == \E a \in DOMAIN c : c[a] = k

LEMMA ThenType ==
  ASSUME NEW c \in Seq(Clusters), NEW last \in {0, EndOfChain}, NEW a \in Nat, a >= 1
  PROVE  /\ Then(c, last, a) \in Links
         /\ a <= Len(c) => a \in DOMAIN c /\ Then(c, last, a) = c[a] /\ c[a] \in Clusters
         /\ a > Len(c) => Then(c, last, a) = last /\ ~Linked(Then(c, last, a))
<1>1. Len(c) \in Nat /\ c \in [1 .. Len(c) -> Clusters] /\ DOMAIN c = 1 .. Len(c)
  BY LenProperties
<1>2. a <= Len(c) => a \in DOMAIN c /\ Then(c, last, a) = c[a] /\ c[a] \in Clusters
  BY <1>1 DEF Then
<1>3. a > Len(c) => Then(c, last, a) = last
  BY <1>1 DEF Then
<1>4. a <= Len(c) \/ a > Len(c)
  BY <1>1
<1> QED BY <1>2, <1>3, <1>4, ClusterFacts DEF Links

(***************************************************************************)
(* DSKDelete(): frees the clusters of a file.                              *)
(***************************************************************************)
DeleteTurn(w) ==
  LET next == FatEntry(w.dsk.fat, w.j) IN
  IF ~Linked(w.j) THEN w
  ELSE [dsk |-> IF next < 4081 \/ next > 4087 THEN Chain(w.dsk, w.j, 0) ELSE w.dsk,
        j |-> next]
Deletes(U) == [dsk : Disks(U), j : Links]

LEMMA LinkedCluster ==
  ASSUME NEW j \in Links, Linked(j) PROVE j \in Clusters
BY ClusterFacts DEF Links

LEMMA DeleteTurnEffect ==
  ASSUME NEW U, NEW w \in Deletes(U)
  PROVE  /\ DeleteTurn(w) \in Deletes(U)
         /\ ~Linked(w.j) => DeleteTurn(w) = w
         /\ Linked(w.j) =>
              /\ w.j \in Clusters
              /\ DeleteTurn(w).j = FatEntry(w.dsk.fat, w.j)
              /\ DeleteTurn(w).dsk = Chain(w.dsk, w.j, 0)
<1>1. w.dsk \in Disks(U) /\ w.j \in Links
  BY DEF Deletes
<1>2. CASE ~Linked(w.j)
  BY <1>2 DEF DeleteTurn
<1>3. CASE Linked(w.j)
  <2>1. w.j \in Clusters
    BY <1>1, <1>3, LinkedCluster
  <2>2. FatEntry(w.dsk.fat, w.j) \in Links
    BY <1>1, <2>1, DiskFacts
  <2>3. DeleteTurn(w) = [dsk |-> Chain(w.dsk, w.j, 0), j |-> FatEntry(w.dsk.fat, w.j)]
    BY <1>3, <2>2, LinksType DEF DeleteTurn
  <2>4. Chain(w.dsk, w.j, 0) \in Disks(U)
    <3>1. 0 \in Links
      BY DEF Links
    <3> QED BY <1>1, <2>1, <3>1, ChainEffect
  <2> QED BY <1>3, <2>1, <2>2, <2>3, <2>4 DEF Deletes
<1> QED BY <1>2, <1>3

LEMMA DeleteWalk ==
  ASSUME NEW U, NEW d \in Disks(U), NEW id \in IDs
  PROVE  \E walk \in [0 .. Turns -> Deletes(U)] :
           /\ walk[0] = [dsk |-> d, j |-> d.dir[id].first]
           /\ \A n \in 1 .. Turns : walk[n] = DeleteTurn(walk[n - 1])
           /\ HasFile(d, id) => DSKDelete(d, id) = [walk[Turns].dsk EXCEPT !.dir[id].name = Erased(d.dir[id].name)]
<1> DEFINE V == Deletes(U)
           first == [dsk |-> d, j |-> d.dir[id].first]
           turn == [w \in V |-> DeleteTurn(w)]
           Body(walk, n) == IF n = 0 THEN first ELSE DeleteTurn(walk[n - 1])
           W == CHOOSE walk : walk = [n \in 0 .. Turns |-> Body(walk, n)]
<1>1. first \in V
  <2>1. d.dir[id].first \in Clusters \cup {0}
    BY DiskFacts DEF Dirs
  <2> QED BY <2>1 DEF Deletes, Links
<1>2. turn \in [V -> V]
  BY DeleteTurnEffect
<1>3. Turns \in Nat
  BY ClusterFacts
<1>4. PICK f \in [0 .. Turns -> V] : f = [k \in 0 .. Turns |-> IF k = 0 THEN first ELSE turn[f[k - 1]]]
  <2> HIDE DEF first, turn, V
  <2>1. Walked(V, first, turn, Turns) # {}
    BY <1>1, <1>2, <1>3, Walks
  <2> QED BY <2>1 DEF Walked
<1>5. f = [n \in 0 .. Turns |-> Body(f, n)]
  <2>1. \A n \in 0 .. Turns : (IF n = 0 THEN first ELSE turn[f[n - 1]]) = Body(f, n)
    <3> TAKE n \in 0 .. Turns
    <3>1. CASE n = 0
      BY <3>1
    <3>2. CASE n # 0
      <4>1. f[n - 1] \in V
        BY <3>2, <1>3
      <4> HIDE DEF V, first
      <4> QED BY <3>2, <4>1
    <3> QED BY <3>1, <3>2
  <2> HIDE DEF Body, first, turn, V
  <2> QED BY <1>4, <2>1
<1>6. W = [n \in 0 .. Turns |-> Body(W, n)]
  <2> HIDE DEF Body
  <2> QED BY <1>5
<1>7. W \in [0 .. Turns -> V]
  <2> HIDE DEF V, first, W
  <2> DEFINE S == {n \in 0 .. Turns : W[n] \in V}
  <2>1. 0 \in S
    BY <1>1, <1>3, <1>6
  <2>2. ASSUME NEW n \in 1 .. Turns, n - 1 \in S PROVE n \in S
    <3>1. W[n] = DeleteTurn(W[n - 1]) /\ W[n - 1] \in V
      BY <1>6, <2>2
    <3>2. DeleteTurn(W[n - 1]) \in V
      BY <3>1, DeleteTurnEffect DEF V
    <3> QED BY <3>1, <3>2, <2>2
  <2> HIDE DEF S
  <2>3. \A n \in 0 .. Turns : n \in S
    BY <1>3, <2>1, <2>2, BoundedInduction
  <2>4. \A n \in 0 .. Turns : W[n] \in V
    BY <2>3 DEF S
  <2> QED BY <1>6, <2>4
<1>8. HasFile(d, id) => DSKDelete(d, id) = [W[Turns].dsk EXCEPT !.dir[id].name = Erased(d.dir[id].name)]
  <2>1. DSKDelete(d, id) = IF HasFile(d, id) THEN [W[Turns].dsk EXCEPT !.dir[id].name = Erased(d.dir[id].name)] ELSE d
    BY DEF DSKDelete, Ended, DeleteTurn
  <2> HIDE DEF W
  <2> QED BY <2>1
<1> HIDE DEF W
<1>9. W[0] = first /\ \A n \in 1 .. Turns : W[n] = DeleteTurn(W[n - 1])
  BY <1>3, <1>6
<1> QED BY <1>7, <1>8, <1>9

LEMMA Renamed ==
  ASSUME NEW U, NEW d \in Disks(U), NEW id \in IDs, NEW entry \in [name : Names, first : Clusters \cup {0}, size : Nat]
  PROVE  LET e == [d EXCEPT !.dir[id] = entry] IN
         /\ e \in Disks(U) /\ e.fat = d.fat /\ e.data = d.data
         /\ e.dir = [d.dir EXCEPT ![id] = entry]
<1> DEFINE e == [d EXCEPT !.dir[id] = entry]
<1>1. e.fat = d.fat /\ e.fat2 = d.fat2 /\ e.data = d.data /\ e.dir = [d.dir EXCEPT ![id] = entry]
  BY DiskFacts
<1>2. e.dir \in Dirs
  BY <1>1, DiskFacts DEF Dirs
<1>3. e \in DskRecords(U)
  BY <1>1, <1>2 DEF Disks, DskRecords
<1>4. TablesAgree(e) /\ \A j \in Clusters : FatEntry(e.fat, j) \in Links
  <2>1. TablesAgree(d) /\ \A j \in Clusters : FatEntry(d.fat, j) \in Links
    BY DiskFacts
  <2> HIDE DEF e
  <2> QED BY <1>1, <2>1 DEF TablesAgree
<1> QED BY <1>1, <1>3, <1>4 DEF Disks

\* The fields of an entry of the directory.
LEMMA FieldChanged ==
  ASSUME NEW U, NEW d \in Disks(U), NEW id \in IDs
  PROVE  /\ \A v \in Names : LET new == [d.dir[id] EXCEPT !.name = v] IN
              /\ new \in [name : Names, first : Clusters \cup {0}, size : Nat]
              /\ [d EXCEPT !.dir[id].name = v] = [d EXCEPT !.dir[id] = new]
         /\ \A v \in Clusters \cup {0} : LET new == [d.dir[id] EXCEPT !.first = v] IN
              /\ new \in [name : Names, first : Clusters \cup {0}, size : Nat]
              /\ [d EXCEPT !.dir[id].first = v] = [d EXCEPT !.dir[id] = new]
         /\ \A v \in Nat : LET new == [d.dir[id] EXCEPT !.size = v] IN
              /\ new \in [name : Names, first : Clusters \cup {0}, size : Nat]
              /\ [d EXCEPT !.dir[id].size = v] = [d EXCEPT !.dir[id] = new]
<1>1. d.dir[id] \in [name : Names, first : Clusters \cup {0}, size : Nat]
  BY DiskFacts DEF Dirs
<1>2. DOMAIN d = {"fat", "fat2", "dir", "data"} /\ DOMAIN d.dir = IDs
  BY DiskFacts
<1> QED BY <1>1, <1>2

LEMMA DeleteEffect ==
  ASSUME NEW U, NEW d \in Disks(U), NEW id \in IDs, HasFile(d, id),
         NEW c, NEW last \in {0, EndOfChain}, Path(d, c, last), Len(c) <= Turns,
         d.dir[id].first = Then(c, last, 1)
  PROVE  LET e == DSKDelete(d, id) IN
         /\ e \in Disks(U)
         /\ e.data = d.data
         /\ e.dir = [d.dir EXCEPT ![id] = [d.dir[id] EXCEPT !.name = Erased(d.dir[id].name)]]
         /\ \A k \in Clusters : FatEntry(e.fat, k) = IF On(c, k) THEN 0 ELSE FatEntry(d.fat, k)
<1>1. PICK walk \in [0 .. Turns -> Deletes(U)] :
           /\ walk[0] = [dsk |-> d, j |-> d.dir[id].first]
           /\ \A n \in 1 .. Turns : walk[n] = DeleteTurn(walk[n - 1])
           /\ HasFile(d, id) => DSKDelete(d, id) = [walk[Turns].dsk EXCEPT !.dir[id].name = Erased(d.dir[id].name)]
  BY DeleteWalk
<1>2. c \in Seq(Clusters) /\ Len(c) \in Nat /\ DOMAIN c = 1 .. Len(c) /\ Turns \in Nat
  BY LenProperties, ClusterFacts DEF Path
<1> DEFINE Done(n, k) == \E a \in DOMAIN c : a <= n /\ c[a] = k
           Inv(n, w) == /\ w.dsk.dir = d.dir /\ w.dsk.data = d.data
                        /\ w.j = Then(c, last, n + 1)
                        /\ \A k \in Clusters : FatEntry(w.dsk.fat, k) = IF Done(n, k) THEN 0 ELSE FatEntry(d.fat, k)
           S == {n \in 0 .. Turns : Inv(n, walk[n])}
<1>3. 0 \in S
  <2>1. walk[0].dsk = d /\ walk[0].j = Then(c, last, 1)
    BY <1>1
  <2>2. \A k \in Clusters : ~Done(0, k)
    BY <1>2
  <2>3. 0 + 1 = 1 /\ 0 \in 0 .. Turns
    BY <1>2
  <2> HIDE DEF Done
  <2> QED BY <2>1, <2>2, <2>3
<1>4. ASSUME NEW n \in 1 .. Turns, n - 1 \in S PROVE n \in S
  <2> DEFINE w == walk[n - 1]
             x == walk[n]
  <2>0. n \in Nat /\ n >= 1 /\ (n - 1) + 1 = n /\ n \in 0 .. Turns /\ n - 1 \in 0 .. Turns
    BY <1>2
  <2>1. w \in Deletes(U) /\ x = DeleteTurn(w)
    BY <1>1, <2>0
  <2>2. Inv(n - 1, w)
    BY <1>4
  <2>3. w.j = Then(c, last, n) /\ w.dsk \in Disks(U)
    BY <2>0, <2>1, <2>2 DEF Deletes
  <2> HIDE DEF w, x
  <2>4. CASE n <= Len(c)
    <3>1. n \in DOMAIN c /\ w.j = c[n] /\ c[n] \in Clusters
      BY <1>2, <2>0, <2>3, <2>4, ThenType
    <3>2. ~Done(n - 1, c[n])
      <4>1. \A a, b \in DOMAIN c : c[a] = c[b] => a = b
        BY DEF Path
      <4>2. \A a \in DOMAIN c : c[a] = c[n] => a = n
        BY <3>1, <4>1
      <4>3. ~(n <= n - 1)
        BY <2>0
      <4> QED BY <4>2, <4>3
    <3>3. FatEntry(w.dsk.fat, c[n]) = Then(c, last, n + 1)
      <4>1. FatEntry(w.dsk.fat, c[n]) = FatEntry(d.fat, c[n])
        <5> HIDE DEF Done
        <5> QED BY <2>2, <3>1, <3>2
      <4>2. FatEntry(d.fat, c[n]) = Then(c, last, n + 1)
        BY <3>1 DEF Path
      <4> QED BY <4>1, <4>2
    <3>4. Linked(w.j)
      BY <3>1, ClusterFacts
    <3>5. x.j = FatEntry(w.dsk.fat, w.j) /\ x.dsk = Chain(w.dsk, w.j, 0)
      BY <2>1, <3>4, DeleteTurnEffect
    <3>6. 0 \in Links
      BY DEF Links
    <3>7. /\ x.dsk.dir = w.dsk.dir /\ x.dsk.data = w.dsk.data
          /\ \A k \in Clusters : FatEntry(x.dsk.fat, k) = IF k = c[n] THEN 0 ELSE FatEntry(w.dsk.fat, k)
      BY <2>3, <3>1, <3>5, <3>6, ChainEffect
    <3>8. \A k \in Clusters : Done(n, k) <=> Done(n - 1, k) \/ k = c[n]
      <4>1. \A a \in DOMAIN c : a <= n <=> a <= n - 1 \/ a = n
        BY <1>2, <2>0
      <4> QED BY <3>1, <4>1
    <3>9. \A k \in Clusters : FatEntry(x.dsk.fat, k) = IF Done(n, k) THEN 0 ELSE FatEntry(d.fat, k)
      <4> HIDE DEF Done
      <4> QED BY <2>2, <3>7, <3>8
    <3>10. x.j = Then(c, last, n + 1)
      BY <3>1, <3>3, <3>5
    <3>11. Inv(n, x)
      <4> HIDE DEF Done
      <4> QED BY <2>2, <3>7, <3>9, <3>10
    <3> QED BY <2>0, <3>11 DEF x
  <2>5. CASE n > Len(c)
    <3>1. ~Linked(w.j) /\ w.j = last
      BY <1>2, <2>0, <2>3, <2>5, ThenType
    <3>2. x = w
      BY <2>1, <3>1, DeleteTurnEffect
    <3>3. \A k \in Clusters : Done(n, k) <=> Done(n - 1, k)
      <4>1. \A a \in DOMAIN c : a <= n /\ a <= n - 1
        BY <1>2, <2>0, <2>5
      <4> QED BY <4>1
    <3>4. Then(c, last, n + 1) = last
      BY <1>2, <2>0, <2>5 DEF Then
    <3>5. Inv(n, x)
      <4> HIDE DEF Done
      <4> QED BY <2>2, <3>1, <3>2, <3>3, <3>4
    <3> QED BY <2>0, <3>5 DEF x
  <2> QED BY <1>2, <2>0, <2>4, <2>5
<1> HIDE DEF S
<1>5. \A n \in 0 .. Turns : n \in S
  BY <1>2, <1>3, <1>4, BoundedInduction
<1> DEFINE w == walk[Turns]
<1>6. Inv(Turns, w) /\ w \in Deletes(U)
  <2>1. Turns \in 0 .. Turns
    BY <1>2
  <2> QED BY <1>1, <1>5, <2>1 DEF S
<1>7. DSKDelete(d, id) = [w.dsk EXCEPT !.dir[id].name = Erased(d.dir[id].name)]
  BY <1>1
<1> HIDE DEF w
<1>8. w.dsk \in Disks(U) /\ w.dsk.dir = d.dir /\ Erased(w.dsk.dir[id].name) \in Names
  <2>1. d.dir[id].name \in Names /\ d.dir[id].name # Unused
    BY DiskFacts DEF Dirs, HasFile
  <2>2. Erased(d.dir[id].name) \in Names
    BY <2>1, ErasedFacts
  <2> QED BY <1>6, <2>2 DEF Deletes
<1> DEFINE new == [w.dsk.dir[id] EXCEPT !.name = Erased(w.dsk.dir[id].name)]
<1>9. /\ new \in [name : Names, first : Clusters \cup {0}, size : Nat]
      /\ DSKDelete(d, id) = [w.dsk EXCEPT !.dir[id] = new]
  BY <1>7, <1>8, FieldChanged
<1>10. /\ DSKDelete(d, id) \in Disks(U)
       /\ DSKDelete(d, id).fat = w.dsk.fat /\ DSKDelete(d, id).data = w.dsk.data
       /\ DSKDelete(d, id).dir = [w.dsk.dir EXCEPT ![id] = new]
  <2> HIDE DEF new
  <2> QED BY <1>8, <1>9, Renamed
<1>11. w.dsk.dir = d.dir /\ w.dsk.data = d.data
  BY <1>6
<1>12. \A k \in Clusters : Done(Turns, k) <=> On(c, k)
  <2>1. \A a \in DOMAIN c : a <= Turns
    BY <1>2
  <2> QED BY <2>1 DEF On
<1>13. \A k \in Clusters : FatEntry(DSKDelete(d, id).fat, k) = IF On(c, k) THEN 0 ELSE FatEntry(d.fat, k)
  <2>1. \A k \in Clusters : FatEntry(w.dsk.fat, k) = IF Done(Turns, k) THEN 0 ELSE FatEntry(d.fat, k)
    BY <1>6
  <2> HIDE DEF Done
  <2> QED BY <1>10, <1>12, <2>1
<1> QED BY <1>10, <1>11, <1>13

(***************************************************************************)
(* The bytes of a file, one cluster after the other.                       *)
(***************************************************************************)
Upto(bytes, a)  == IF a * DSK_CLUSTER_SIZE <= Len(bytes) THEN a * DSK_CLUSTER_SIZE ELSE Len(bytes)
Piece(bytes, a) == SubSeq(bytes, Upto(bytes, a - 1) + 1, Upto(bytes, a))
InClusters(d, c, bytes) == \A a \in DOMAIN c : d.data[c[a]] = Piece(bytes, a)
Fits(c, bytes) ==
  /\ Len(c) >= 1 /\ Len(bytes) <= Len(c) * DSK_CLUSTER_SIZE
  /\ (Len(c) - 1) * DSK_CLUSTER_SIZE < Len(bytes)

LEMMA MinOfTwo ==
  ASSUME NEW a \in Int, NEW b \in Int
  PROVE  Min({a, b}) = IF a <= b THEN a ELSE b
<1>1. \E x \in {a, b} : \A y \in {a, b} : x <= y
  OBVIOUS
<1>2. Min({a, b}) \in {a, b} /\ \A y \in {a, b} : Min({a, b}) <= y
  BY <1>1 DEF Min
<1> DEFINE m == Min({a, b})
<1> HIDE DEF m
<1>3. m \in {a, b} /\ m <= a /\ m <= b
  BY <1>2 DEF m
<1>4. m = IF a <= b THEN a ELSE b
  BY <1>3
<1> QED BY <1>4 DEF m

LEMMA Times ==
  ASSUME NEW s \in Nat, NEW a \in Nat, NEW b \in Nat, a <= b
  PROVE  /\ a * s \in Nat /\ b * s \in Nat /\ a * s <= b * s
         /\ (a + 1) * s = a * s + s
<1>1. PICK k \in Nat : b = a + k
  <2>1. b - a \in Nat /\ b = a + (b - a)
    OBVIOUS
  <2> QED BY <2>1
<1>2. (a + k) * s = a * s + k * s /\ k * s \in Nat /\ a * s \in Nat
  OBVIOUS
<1>3. (a + 1) * s = a * s + s
  OBVIOUS
<1> QED BY <1>1, <1>2, <1>3

LEMMA UptoSteps ==
  ASSUME NEW U, NEW bytes \in Seq(U), NEW a \in Nat, a >= 1
  PROVE  LET p == Upto(bytes, a - 1)
             q == Upto(bytes, a) IN
         /\ p \in 0 .. Len(bytes) /\ q \in p .. Len(bytes)
         /\ Min({Len(bytes) - p, DSK_CLUSTER_SIZE}) = q - p
         /\ Min({p + DSK_CLUSTER_SIZE, Len(bytes)}) = q
         /\ p < Len(bytes) => p = (a - 1) * DSK_CLUSTER_SIZE /\ p < q
<1> DEFINE s == DSK_CLUSTER_SIZE
           x == (a - 1) * s
           y == a * s
           n == Len(bytes)
<1>1. s \in Nat /\ s >= 1 /\ n \in Nat /\ a - 1 \in Nat
  BY ClusterFacts, LenProperties
<1>2. x \in Nat /\ y = x + s
  <2>1. a - 1 <= a - 1 /\ (a - 1) + 1 = a
    OBVIOUS
  <2> QED BY <1>1, <2>1, Times
<1> DEFINE p == Upto(bytes, a - 1)
           q == Upto(bytes, a)
<1>3. p = IF x <= n THEN x ELSE n
  BY DEF Upto
<1>4. q = IF y <= n THEN y ELSE n
  BY DEF Upto
<1> HIDE DEF x, y, n, s, p, q
<1>5. p \in 0 .. n /\ q \in p .. n
  BY <1>1, <1>2, <1>3, <1>4
<1>6. (IF n - p <= s THEN n - p ELSE s) = q - p /\ (IF p + s <= n THEN p + s ELSE n) = q
  BY <1>1, <1>2, <1>3, <1>4
<1>7. Min({n - p, s}) = q - p
  <2>1. n - p \in Int /\ s \in Int
    BY <1>1, <1>5
  <2> QED BY <1>6, <2>1, MinOfTwo
<1>8. Min({p + s, n}) = q
  <2>1. n \in Int /\ p + s \in Int
    BY <1>1, <1>5
  <2> QED BY <1>6, <2>1, MinOfTwo
<1>9. p < n => p = x /\ p < q
  BY <1>1, <1>2, <1>3, <1>4
<1> QED BY <1>5, <1>7, <1>8, <1>9 DEF p, q, n, s, x

LEMMA FittingSizes ==
  ASSUME NEW U, NEW bytes \in Seq(U), NEW c \in Seq(Clusters), Fits(c, bytes)
  PROVE  /\ \A n \in Nat : n < Len(c) => Upto(bytes, n) < Len(bytes)
         /\ Upto(bytes, Len(c)) = Len(bytes)
         /\ Upto(bytes, 0) = 0
<1>1. Len(c) \in Nat /\ Len(bytes) \in Nat /\ DSK_CLUSTER_SIZE \in Nat /\ 0 * DSK_CLUSTER_SIZE = 0
  BY LenProperties, ClusterFacts
<1>2. ASSUME NEW n \in Nat, n < Len(c) PROVE Upto(bytes, n) < Len(bytes)
  <2>1. Len(c) - 1 \in Nat /\ n <= Len(c) - 1
    BY <1>1, <1>2
  <2>2. n * DSK_CLUSTER_SIZE <= (Len(c) - 1) * DSK_CLUSTER_SIZE /\ n * DSK_CLUSTER_SIZE \in Nat
        /\ (Len(c) - 1) * DSK_CLUSTER_SIZE \in Nat
    BY <1>1, <2>1, Times
  <2>3. (Len(c) - 1) * DSK_CLUSTER_SIZE < Len(bytes)
    BY DEF Fits
  <2>4. n * DSK_CLUSTER_SIZE < Len(bytes)
    BY <1>1, <2>2, <2>3
  <2> QED BY <1>1, <2>2, <2>4 DEF Upto
<1>3. Upto(bytes, Len(c)) = Len(bytes)
  <2>1. Len(bytes) <= Len(c) * DSK_CLUSTER_SIZE /\ Len(c) * DSK_CLUSTER_SIZE \in Nat
    BY <1>1, Times DEF Fits
  <2> QED BY <1>1, <2>1 DEF Upto
<1>4. Upto(bytes, 0) = 0
  BY <1>1 DEF Upto
<1> QED BY <1>2, <1>3, <1>4

LEMMA PieceFacts ==
  ASSUME NEW U, NEW bytes \in Seq(U), NEW a \in Nat, a >= 1
  PROVE  LET p == Upto(bytes, a - 1)
             q == Upto(bytes, a) IN
         /\ Piece(bytes, a) \in Seq(U) /\ Len(Piece(bytes, a)) = q - p
         /\ SubSeq(Piece(bytes, a), 1, q - p) = Piece(bytes, a)
         /\ SubSeq(bytes, 1, p) \in Seq(U) /\ Len(SubSeq(bytes, 1, p)) = p
         /\ SubSeq(bytes, 1, p) \o Piece(bytes, a) = SubSeq(bytes, 1, q)
<1> DEFINE p == Upto(bytes, a - 1)
           q == Upto(bytes, a)
<1>1. Len(bytes) \in Nat /\ bytes \in [1 .. Len(bytes) -> U]
  BY LenProperties
<1>2. p \in 0 .. Len(bytes) /\ q \in p .. Len(bytes)
  BY UptoSteps
<1> HIDE DEF p, q
<1>3. Piece(bytes, a) = SubSeq(bytes, p + 1, q)
  BY DEF Piece, p, q
<1>4. SubSeq(bytes, p + 1, q) \in Seq(U) /\ Len(SubSeq(bytes, p + 1, q)) = q - p
  <2>1. p + 1 \in Int /\ q \in Int /\ \A i \in p + 1 .. q : bytes[i] \in U
    BY <1>1, <1>2
  <2>2. /\ SubSeq(bytes, p + 1, q) \in Seq(U)
        /\ Len(SubSeq(bytes, p + 1, q)) = IF p + 1 <= q THEN q - (p + 1) + 1 ELSE 0
    BY <2>1, SubSeqProperties
  <2>3. (IF p + 1 <= q THEN q - (p + 1) + 1 ELSE 0) = q - p
    BY <1>1, <1>2
  <2> QED BY <2>2, <2>3
<1>5. SubSeq(bytes, 1, p) \in Seq(U) /\ Len(SubSeq(bytes, 1, p)) = p
  <2>1. p \in Int /\ \A i \in 1 .. p : bytes[i] \in U
    BY <1>1, <1>2
  <2>2. /\ SubSeq(bytes, 1, p) \in Seq(U)
        /\ Len(SubSeq(bytes, 1, p)) = IF 1 <= p THEN p - 1 + 1 ELSE 0
    BY <2>1, SubSeqProperties
  <2>3. (IF 1 <= p THEN p - 1 + 1 ELSE 0) = p
    BY <1>1, <1>2
  <2> QED BY <2>2, <2>3
<1>6. SubSeq(bytes, 1, p) \o SubSeq(bytes, p + 1, q) = SubSeq(bytes, 1, q)
  <2>1. 1 \in 1 .. Len(bytes) + 1 /\ p \in 1 - 1 .. Len(bytes) /\ q \in p .. Len(bytes)
    BY <1>1, <1>2
  <2> QED BY <2>1, ConcatAdjacentSubSeq
<1>7. SubSeq(Piece(bytes, a), 1, q - p) = Piece(bytes, a)
  BY <1>3, <1>4, SubSeqFull
<1> QED BY <1>3, <1>4, <1>5, <1>6, <1>7 DEF p, q

(***************************************************************************)
(* DSKRead(): what is in the clusters of a file.                           *)
(***************************************************************************)
ReadTurn(d, size, w) ==
  LET left == size - Len(w.read) IN
  IF left <= 0 \/ ~Linked(w.j) THEN w
  ELSE [read |-> w.read \o SubSeq(d.data[w.j], 1, Min({left, DSK_CLUSTER_SIZE})),
        j |-> FatEntry(d.fat, w.j)]
Reads(U) == [read : Seq(U), j : Links]

\* What has been read after n turns.
ReadSoFar(c, bytes, n, w) ==
  IF n < Len(c) THEN w.read = SubSeq(bytes, 1, Upto(bytes, n)) /\ w.j = c[n + 1]
                ELSE w.read = bytes
File(d, id, c, bytes) ==
  /\ Path(d, c, EndOfChain) /\ InClusters(d, c, bytes) /\ Fits(c, bytes) /\ Len(c) < Turns
  /\ d.dir[id].first = c[1] /\ d.dir[id].size = Len(bytes)

LEMMA FileFacts ==
  ASSUME NEW U, NEW d \in Disks(U), NEW id \in IDs, NEW bytes \in Seq(U), NEW c,
         File(d, id, c, bytes)
  PROVE  /\ c \in Seq(Clusters) /\ Len(c) \in Nat /\ Len(c) >= 1 /\ DOMAIN c = 1 .. Len(c)
         /\ \A a \in 1 .. Len(c) : c[a] \in Clusters /\ d.data[c[a]] = Piece(bytes, a)
         /\ \A a \in 1 .. Len(c) - 1 : FatEntry(d.fat, c[a]) = c[a + 1]
         /\ FatEntry(d.fat, c[Len(c)]) = EndOfChain
         /\ d.dir[id].first = c[1] /\ d.dir[id].size = Len(bytes)
         /\ Len(c) < Turns /\ Len(bytes) \in Nat /\ Fits(c, bytes)
<1>1. c \in Seq(Clusters) /\ Len(c) \in Nat /\ Len(c) >= 1 /\ DOMAIN c = 1 .. Len(c)
  BY LenProperties DEF File, Path, Fits
<1>2. \A a \in 1 .. Len(c) : c[a] \in Clusters /\ d.data[c[a]] = Piece(bytes, a)
  BY <1>1, LenProperties DEF File, InClusters
<1>3. \A a \in DOMAIN c : FatEntry(d.fat, c[a]) = Then(c, EndOfChain, a + 1)
  BY DEF File, Path
<1>4. \A a \in 1 .. Len(c) - 1 : FatEntry(d.fat, c[a]) = c[a + 1]
  <2> TAKE a \in 1 .. Len(c) - 1
  <2>1. a \in DOMAIN c /\ a + 1 <= Len(c)
    BY <1>1
  <2> QED BY <1>3, <2>1 DEF Then
<1>5. FatEntry(d.fat, c[Len(c)]) = EndOfChain
  <2>1. Len(c) \in DOMAIN c /\ ~(Len(c) + 1 <= Len(c))
    BY <1>1
  <2> QED BY <1>3, <2>1 DEF Then
<1>6. Len(bytes) \in Nat
  BY LenProperties
<1> QED BY <1>1, <1>2, <1>4, <1>5, <1>6 DEF File

LEMMA ReadStep ==
  ASSUME NEW U, NEW d \in Disks(U), NEW id \in IDs, NEW bytes \in Seq(U), NEW c,
         File(d, id, c, bytes),
         NEW n \in Nat, n >= 1, NEW w \in Reads(U), ReadSoFar(c, bytes, n - 1, w)
  PROVE  LET x == ReadTurn(d, d.dir[id].size, w) IN
         x \in Reads(U) /\ ReadSoFar(c, bytes, n, x) /\ (n > Len(c) => x = w)
<1> DEFINE x == ReadTurn(d, d.dir[id].size, w)
           p == Upto(bytes, n - 1)
           q == Upto(bytes, n)
<1>1. /\ c \in Seq(Clusters) /\ Len(c) \in Nat /\ Len(c) >= 1
      /\ d.dir[id].size = Len(bytes) /\ Len(bytes) \in Nat
  BY FileFacts
<1>2. CASE n <= Len(c)
  <2>1. w.read = SubSeq(bytes, 1, p) /\ w.j = c[n]
    <3>1. n - 1 < Len(c) /\ (n - 1) + 1 = n
      BY <1>1, <1>2
    <3> QED BY <3>1 DEF ReadSoFar
  <2>2. c[n] \in Clusters /\ d.data[c[n]] = Piece(bytes, n)
    <3>1. n \in 1 .. Len(c)
      BY <1>1, <1>2
    <3> QED BY <3>1, FileFacts
  <2>3. p < Len(bytes) /\ p \in Nat /\ q \in Nat /\ Min({Len(bytes) - p, DSK_CLUSTER_SIZE}) = q - p
    <3>1. n - 1 \in Nat /\ n - 1 < Len(c)
      BY <1>1, <1>2
    <3>2. p < Len(bytes)
      BY <1>1, <3>1, FittingSizes, FileFacts
    <3>3. p \in 0 .. Len(bytes) /\ q \in p .. Len(bytes) /\ Min({Len(bytes) - p, DSK_CLUSTER_SIZE}) = q - p
      BY UptoSteps
    <3> HIDE DEF p, q
    <3> QED BY <1>1, <3>2, <3>3
  <2>4. /\ Piece(bytes, n) \in Seq(U)
        /\ SubSeq(Piece(bytes, n), 1, q - p) = Piece(bytes, n)
        /\ Len(SubSeq(bytes, 1, p)) = p
        /\ SubSeq(bytes, 1, p) \o Piece(bytes, n) = SubSeq(bytes, 1, q)
    BY PieceFacts
  <2>5. SubSeq(bytes, 1, q) \in Seq(U) /\ (q = Len(bytes) => SubSeq(bytes, 1, q) = bytes)
    <3>1. SubSeq(bytes, 1, p) \in Seq(U)
      BY PieceFacts
    <3>2. SubSeq(bytes, 1, q) \in Seq(U)
      <4> HIDE DEF p, q
      <4> QED BY <2>4, <3>1, ConcatProperties
    <3>3. SubSeq(bytes, 1, Len(bytes)) = bytes
      BY SubSeqFull
    <3> HIDE DEF p, q
    <3> QED BY <3>2, <3>3
  <2>6. x = [read |-> SubSeq(bytes, 1, q), j |-> FatEntry(d.fat, c[n])]
    <3>1. d.dir[id].size - Len(w.read) = Len(bytes) - p
      BY <1>1, <2>1, <2>4
    <3>2. ~(Len(bytes) - p <= 0) /\ Linked(w.j)
      <4>1. Linked(w.j)
        BY <2>1, <2>2, ClusterFacts
      <4>2. ~(Len(bytes) - p <= 0)
        <5> HIDE DEF p
        <5> QED BY <1>1, <2>3
      <4> QED BY <4>1, <4>2
    <3>3. x = [read |-> w.read \o SubSeq(d.data[w.j], 1, Min({Len(bytes) - p, DSK_CLUSTER_SIZE})),
               j |-> FatEntry(d.fat, w.j)]
      <4> HIDE DEF p
      <4> QED BY <3>1, <3>2 DEF ReadTurn
    <3>4. w.read \o SubSeq(d.data[w.j], 1, Min({Len(bytes) - p, DSK_CLUSTER_SIZE})) = SubSeq(bytes, 1, q)
      <4> HIDE DEF p, q
      <4> QED BY <2>1, <2>2, <2>3, <2>4
    <3> HIDE DEF x, p, q
    <3> QED BY <2>1, <3>3, <3>4
  <2>7. FatEntry(d.fat, c[n]) \in Links
    BY <2>2, DiskFacts
  <2>8. x \in Reads(U)
    <3> HIDE DEF q, x
    <3> QED BY <2>5, <2>6, <2>7 DEF Reads
  <2>9. ReadSoFar(c, bytes, n, x)
    <3>1. CASE n < Len(c)
      <4>1. n \in 1 .. Len(c) - 1
        BY <1>1, <3>1
      <4>2. FatEntry(d.fat, c[n]) = c[n + 1]
        BY <4>1, FileFacts
      <4> HIDE DEF x
      <4> QED BY <2>6, <3>1, <4>2 DEF ReadSoFar
    <3>2. CASE ~(n < Len(c))
      <4>1. n = Len(c)
        BY <1>1, <1>2, <3>2
      <4>2. q = Len(bytes)
        BY <1>1, <4>1, FittingSizes, FileFacts
      <4>3. x.read = SubSeq(bytes, 1, q)
        <5> HIDE DEF x, q
        <5> QED BY <2>6
      <4>4. x.read = bytes
        BY <2>5, <4>2, <4>3
      <4> HIDE DEF x
      <4> QED BY <3>2, <4>4 DEF ReadSoFar
    <3> QED BY <3>1, <3>2
  <2>10. ~(n > Len(c))
    BY <1>1, <1>2
  <2> QED BY <2>8, <2>9, <2>10
<1>3. CASE n > Len(c)
  <2>1. ~(n - 1 < Len(c)) /\ ~(n < Len(c))
    BY <1>1, <1>3
  <2>2. w.read = bytes
    BY <2>1 DEF ReadSoFar
  <2>3. d.dir[id].size - Len(w.read) <= 0
    BY <1>1, <2>2
  <2>4. x = w
    BY <2>3 DEF ReadTurn
  <2>5. ReadSoFar(c, bytes, n, x)
    BY <2>1, <2>2, <2>4 DEF ReadSoFar
  <2>6. x \in Reads(U)
    BY <2>4
  <2> HIDE DEF x
  <2> QED BY <2>4, <2>5, <2>6 DEF x
<1>4. n <= Len(c) \/ n > Len(c)
  BY <1>1
<1> QED BY <1>2, <1>3, <1>4

\* A file is read back.
LEMMA ReadEffect ==
  ASSUME NEW U, NEW d \in Disks(U), NEW id \in IDs, NEW bytes \in Seq(U), NEW c,
         File(d, id, c, bytes)
  PROVE  DSKRead(d, id) = bytes
<1> DEFINE size == d.dir[id].size
           V == {w \in Reads(U) : \E n \in 0 .. Turns : ReadSoFar(c, bytes, n, w)}
           first == [read |-> <<>>, j |-> d.dir[id].first]
           turn == [w \in V |-> ReadTurn(d, size, w)]
           Body(walk, n) == IF n = 0 THEN first ELSE ReadTurn(d, size, walk[n - 1])
           W == CHOOSE walk : walk = [n \in 0 .. Turns |-> Body(walk, n)]
<1>0. Turns \in Nat
  BY ClusterFacts
<1>1. /\ c \in Seq(Clusters) /\ Len(c) \in Nat /\ Len(c) >= 1 /\ Len(c) < Turns
      /\ d.dir[id].first = c[1] /\ c[1] \in Clusters /\ Turns \in Nat
  <2>1. Len(c) \in Nat /\ Len(c) >= 1 => 1 \in 1 .. Len(c)
    OBVIOUS
  <2> QED BY <2>1, FileFacts, ClusterFacts
<1>2. first \in Reads(U) /\ ReadSoFar(c, bytes, 0, first)
  <2>1. first \in Reads(U)
    <3>1. <<>> \in Seq(U)
      BY EmptySeq
    <3> QED BY <1>1, <3>1 DEF Reads, Links
  <2>2. Upto(bytes, 0) = 0
    BY <1>1, FittingSizes, FileFacts
  <2>3. SubSeq(bytes, 1, 0) = <<>>
    BY SubSeqEmpty
  <2>4. 0 < Len(c) /\ c[0 + 1] = c[1]
    BY <1>1
  <2> QED BY <1>1, <2>1, <2>2, <2>3, <2>4 DEF ReadSoFar
<1>3. first \in V
  <2>1. 0 \in 0 .. Turns
    BY <1>1
  <2> HIDE DEF first
  <2> QED BY <1>2, <2>1
<1>4. turn \in [V -> V]
  <2>1. ASSUME NEW w \in V PROVE ReadTurn(d, size, w) \in V
    <3>1. PICK n \in 0 .. Turns : ReadSoFar(c, bytes, n, w)
      OBVIOUS
    <3>2. n + 1 \in Nat /\ n + 1 >= 1 /\ (n + 1) - 1 = n /\ w \in Reads(U)
      OBVIOUS
    <3>3. /\ ReadTurn(d, size, w) \in Reads(U) /\ ReadSoFar(c, bytes, n + 1, ReadTurn(d, size, w))
          /\ (n + 1 > Len(c) => ReadTurn(d, size, w) = w)
      BY <3>1, <3>2, ReadStep
    <3>4. CASE n = Turns
      <4>1. n + 1 > Len(c)
        BY <1>1, <3>4
      <4>2. ReadTurn(d, size, w) = w
        BY <3>3, <4>1
      <4> QED BY <4>2
    <3>5. CASE n # Turns
      <4>1. n + 1 \in 0 .. Turns
        BY <1>1, <3>5
      <4> QED BY <3>3, <4>1
    <3> QED BY <3>4, <3>5
  <2> HIDE DEF V
  <2> QED BY <2>1
<1>5. PICK f \in [0 .. Turns -> V] : f = [k \in 0 .. Turns |-> IF k = 0 THEN first ELSE turn[f[k - 1]]]
  <2> HIDE DEF first, turn, V
  <2>1. Walked(V, first, turn, Turns) # {}
    BY <1>0, <1>3, <1>4, Walks
  <2> QED BY <2>1 DEF Walked
<1>6. f = [n \in 0 .. Turns |-> Body(f, n)]
  <2>1. \A n \in 0 .. Turns : (IF n = 0 THEN first ELSE turn[f[n - 1]]) = Body(f, n)
    <3> TAKE n \in 0 .. Turns
    <3>1. CASE n = 0
      BY <3>1
    <3>2. CASE n # 0
      <4> HIDE DEF V, first
      <4>1. f[n - 1] \in V
        BY <3>2, <1>0
      <4> QED BY <3>2, <4>1
    <3> QED BY <3>1, <3>2
  <2> HIDE DEF Body, first, turn, V
  <2> QED BY <1>5, <2>1
<1>7. W = [n \in 0 .. Turns |-> Body(W, n)]
  <2> HIDE DEF Body
  <2> QED BY <1>6
<1>8. DSKRead(d, id) = W[Turns].read
  BY DEF DSKRead, Ended, ReadTurn
<1> HIDE DEF W
<1>9. W[0] = first /\ \A n \in 1 .. Turns : W[n] = ReadTurn(d, size, W[n - 1])
  <2>1. \A n \in 0 .. Turns : W[n] = Body(W, n)
    <3> HIDE DEF Body
    <3> QED BY <1>7
  <2>2. Body(W, 0) = first /\ \A n \in 1 .. Turns : Body(W, n) = ReadTurn(d, size, W[n - 1])
    <3> HIDE DEF first, size
    <3> QED OBVIOUS
  <2>3. 0 \in 0 .. Turns /\ \A n \in 1 .. Turns : n \in 0 .. Turns
    BY <1>0
  <2> HIDE DEF first, Body, size, V
  <2> QED BY ONLY <2>1, <2>2, <2>3
<1> DEFINE S == {n \in Nat : W[n] \in Reads(U) /\ ReadSoFar(c, bytes, n, W[n])}
<1>10. 0 \in S
  BY <1>2, <1>9
<1>11. ASSUME NEW n \in 1 .. Turns, n - 1 \in S PROVE n \in S
  <2>1. n \in Nat /\ n >= 1 /\ W[n - 1] \in Reads(U) /\ ReadSoFar(c, bytes, n - 1, W[n - 1])
    BY <1>11
  <2>2. W[n] \in Reads(U) /\ ReadSoFar(c, bytes, n, W[n])
    BY <1>9, <2>1, ReadStep
  <2> QED BY <2>1, <2>2
<1> HIDE DEF S
<1>12. \A n \in 0 .. Turns : n \in S
  BY <1>1, <1>10, <1>11, BoundedInduction
<1>13. ReadSoFar(c, bytes, Turns, W[Turns]) /\ ~(Turns < Len(c))
  <2>1. Turns \in 0 .. Turns /\ ~(Turns < Len(c))
    BY <1>1
  <2> QED BY <1>12, <2>1 DEF S
<1> QED BY <1>8, <1>13 DEF ReadSoFar

(***************************************************************************)
(* The clusters of a file, one after the other.                            *)
(***************************************************************************)
ChainTurn(d, id, s) ==
  LET j == IF s = <<>> THEN d.dir[id].first ELSE FatEntry(d.fat, s[Len(s)]) IN
  IF Linked(j) THEN Append(s, j) ELSE s

LEMMA ChainTurnType ==
  ASSUME NEW U, NEW d \in Disks(U), NEW id \in IDs, NEW s \in Seq(Clusters)
  PROVE  ChainTurn(d, id, s) \in Seq(Clusters)
<1> DEFINE j == IF s = <<>> THEN d.dir[id].first ELSE FatEntry(d.fat, s[Len(s)])
<1>1. j \in Links
  <2>1. d.dir[id].first \in Links
    BY DiskFacts DEF Dirs, Links
  <2>2. s # <<>> => s[Len(s)] \in Clusters
    BY LenProperties
  <2> QED BY <2>1, <2>2, DiskFacts
<1> HIDE DEF j
<1>2. Linked(j) => Append(s, j) \in Seq(Clusters)
  <2>1. Linked(j) => j \in Clusters
    BY <1>1, LinkedCluster
  <2> QED BY <2>1, AppendProperties
<1>3. ChainTurn(d, id, s) = IF Linked(j) THEN Append(s, j) ELSE s
  BY DEF ChainTurn, j
<1> QED BY <1>2, <1>3

LEMMA ChainsEffect ==
  ASSUME NEW U, NEW d \in Disks(U), NEW id \in IDs, NEW bytes \in Seq(U), NEW c,
         File(d, id, c, bytes)
  PROVE  Chains(d, id) = c
<1> DEFINE V == Seq(Clusters)
           first == <<>>
           turn == [s \in V |-> ChainTurn(d, id, s)]
           Body(walk, n) == IF n = 0 THEN first ELSE ChainTurn(d, id, walk[n - 1])
           W == CHOOSE walk : walk = [n \in 0 .. Turns |-> Body(walk, n)]
<1>0. Turns \in Nat
  BY ClusterFacts
<1>1. c \in V /\ Len(c) \in Nat /\ Len(c) >= 1 /\ Len(c) < Turns /\ d.dir[id].first = c[1]
  BY FileFacts
<1>2. first \in V
  BY EmptySeq
<1>3. turn \in [V -> V]
  <2> HIDE DEF V
  <2>1. \A s \in V : ChainTurn(d, id, s) \in V
    BY ChainTurnType DEF V
  <2> QED BY <2>1
<1>4. PICK f \in [0 .. Turns -> V] : f = [k \in 0 .. Turns |-> IF k = 0 THEN first ELSE turn[f[k - 1]]]
  <2> HIDE DEF first, turn, V
  <2>1. Walked(V, first, turn, Turns) # {}
    BY <1>0, <1>2, <1>3, Walks
  <2> QED BY <2>1 DEF Walked
<1>5. f = [n \in 0 .. Turns |-> Body(f, n)]
  <2>1. \A n \in 0 .. Turns : (IF n = 0 THEN first ELSE turn[f[n - 1]]) = Body(f, n)
    <3> TAKE n \in 0 .. Turns
    <3>1. CASE n = 0
      BY <3>1
    <3>2. CASE n # 0
      <4> HIDE DEF V, first
      <4>1. f[n - 1] \in V
        BY <3>2, <1>0
      <4> QED BY <3>2, <4>1
    <3> QED BY <3>1, <3>2
  <2> HIDE DEF Body, first, turn, V
  <2> QED BY <1>4, <2>1
<1>6. W = [n \in 0 .. Turns |-> Body(W, n)]
  <2> HIDE DEF Body
  <2> QED BY <1>5
<1>7. Chains(d, id) = W[Turns]
  BY DEF Chains, ChainTurn
<1> HIDE DEF W
<1>8. W[0] = first /\ \A n \in 1 .. Turns : W[n] = ChainTurn(d, id, W[n - 1])
  <2> HIDE DEF first
  <2> QED BY <1>0, <1>6
<1> DEFINE m(n) == IF n <= Len(c) THEN n ELSE Len(c)
           Inv(n, s) == s \in V /\ Len(s) = m(n) /\ \A a \in 1 .. m(n) : s[a] = c[a]
           S == {n \in Nat : Inv(n, W[n])}
<1>9. 0 \in S
  <2>1. m(0) = 0
    BY <1>1
  <2>2. W[0] \in V /\ Len(W[0]) = 0
    BY <1>2, <1>8
  <2> HIDE DEF V, m
  <2> QED BY <2>1, <2>2
<1>10. ASSUME NEW n \in 1 .. Turns, n - 1 \in S PROVE n \in S
  <2> DEFINE s == W[n - 1]
             j == IF s = <<>> THEN d.dir[id].first ELSE FatEntry(d.fat, s[Len(s)])
  <2>1. n \in Nat /\ n >= 1 /\ Inv(n - 1, s) /\ W[n] = ChainTurn(d, id, s)
    BY <1>8, <1>10
  <2>2. W[n] = IF Linked(j) THEN Append(s, j) ELSE s
    BY <2>1 DEF ChainTurn
  <2> HIDE DEF s
  <2>3. Inv(n, W[n])
    <3>1. CASE n <= Len(c)
      <4>1. m(n - 1) = n - 1 /\ m(n) = n
        BY <1>1, <2>1, <3>1
      <4>2. s \in V /\ Len(s) = n - 1 /\ \A a \in 1 .. n - 1 : s[a] = c[a]
        BY <2>1, <4>1
      <4>3. j = c[n] /\ c[n] \in Clusters
        <5>1. c[n] \in Clusters
          BY <1>1, <2>1, <3>1, FileFacts
        <5>2. CASE n = 1
          <6>1. s = <<>>
            BY <4>2, <5>2, EmptySeq
          <6> QED BY <1>1, <5>1, <5>2, <6>1
        <5>3. CASE n # 1
          <6>1. s # <<>> /\ s[Len(s)] = c[n - 1] /\ n - 1 \in 1 .. Len(c) - 1 /\ (n - 1) + 1 = n
            BY <1>1, <2>1, <3>1, <4>2, <5>3
          <6>2. FatEntry(d.fat, c[n - 1]) = c[n]
            BY <6>1, FileFacts
          <6> QED BY <5>1, <6>1, <6>2
        <5> QED BY <5>2, <5>3
      <4> HIDE DEF j
      <4>4. W[n] = Append(s, c[n])
        BY <2>2, <4>3, ClusterFacts
      <4>5. /\ Append(s, c[n]) \in V /\ Len(Append(s, c[n])) = n
            /\ \A a \in 1 .. n - 1 : Append(s, c[n])[a] = s[a]
            /\ Append(s, c[n])[n] = c[n]
        BY <2>1, <4>2, <4>3, AppendProperties
      <4>6. \A a \in 1 .. n : a = n \/ a \in 1 .. n - 1
        BY <2>1
      <4>7. \A a \in 1 .. n : Append(s, c[n])[a] = c[a]
        BY <4>2, <4>5, <4>6
      <4> QED BY <4>1, <4>4, <4>5, <4>7
    <3>2. CASE n > Len(c)
      <4>1. m(n - 1) = Len(c) /\ m(n) = Len(c)
        BY <1>1, <2>1, <3>2
      <4>2. s \in V /\ Len(s) = Len(c) /\ \A a \in 1 .. Len(c) : s[a] = c[a]
        BY <2>1, <4>1
      <4>3. s # <<>> /\ s[Len(s)] = c[Len(c)]
        BY <1>1, <4>2
      <4>4. j = EndOfChain
        BY <4>3, FileFacts
      <4> HIDE DEF j
      <4>5. W[n] = s
        BY <2>2, <4>4, ClusterFacts
      <4> QED BY <4>1, <4>2, <4>5
    <3> QED BY <1>1, <2>1, <3>1, <3>2
  <2> QED BY <2>1, <2>3
<1> HIDE DEF S
<1>11. \A n \in 0 .. Turns : n \in S
  BY <1>0, <1>9, <1>10, BoundedInduction
<1>12. Inv(Turns, W[Turns]) /\ m(Turns) = Len(c)
  <2>1. Turns \in 0 .. Turns /\ m(Turns) = Len(c)
    BY <1>0, <1>1
  <2> QED BY <1>11, <2>1 DEF S
<1>13. W[Turns] = c
  <2>1. W[Turns] \in V /\ Len(W[Turns]) = Len(c) /\ \A a \in 1 .. Len(W[Turns]) : W[Turns][a] = c[a]
    BY <1>12
  <2> QED BY <1>1, <2>1, SeqEqual
<1> QED BY <1>7, <1>13

(***************************************************************************)
(* DSKWrite(): a file goes to the free clusters in their order.            *)
(***************************************************************************)
WriteTurn(buf, w) ==
  LET upto == Min({w.written + DSK_CLUSTER_SIZE, Len(buf)})
      free == IF upto < Len(buf) THEN FindFreeCluster(w.dsk, w.j + 1) ELSE 0
      next == IF free = 0 THEN EndOfChain ELSE free IN
  IF w.j = EndOfChain \/ w.written >= Len(buf) THEN w
  ELSE [dsk |-> Chain([w.dsk EXCEPT
                  !.data[w.j] = SubSeq(buf, w.written + 1, upto)], w.j, next),
        j |-> next,
        written |-> upto]
Writes(U) == [dsk : Disks(U), j : Clusters \cup {EndOfChain}, written : Nat]

LEMMA DataChanged ==
  ASSUME NEW U, NEW d \in Disks(U), NEW j \in Clusters, NEW s \in Seq(U)
  PROVE  LET e == [d EXCEPT !.data[j] = s] IN
         /\ e \in Disks(U) /\ e.fat = d.fat /\ e.dir = d.dir
         /\ e.data = [d.data EXCEPT ![j] = s]
<1> DEFINE e == [d EXCEPT !.data[j] = s]
<1>1. e.fat = d.fat /\ e.fat2 = d.fat2 /\ e.dir = d.dir /\ e.data = [d.data EXCEPT ![j] = s]
  BY DiskFacts
<1>2. e.data \in [Clusters -> Seq(U)]
  <2>1. d.data \in [Clusters -> Seq(U)]
    BY DiskFacts
  <2> HIDE DEF e
  <2> QED BY <1>1, <2>1
<1>3. e \in DskRecords(U)
  <2>1. e = [d EXCEPT !.data = e.data]
    BY DiskFacts
  <2>2. d \in DskRecords(U)
    BY DEF Disks
  <2>3. \A x \in [Clusters -> Seq(U)] : [d EXCEPT !.data = x] \in DskRecords(U)
    BY <2>2 DEF DskRecords
  <2> HIDE DEF e
  <2> QED BY <1>2, <2>1, <2>3
<1>4. TablesAgree(e) /\ \A k \in Clusters : FatEntry(e.fat, k) \in Links
  <2>1. TablesAgree(d) /\ \A k \in Clusters : FatEntry(d.fat, k) \in Links
    BY DiskFacts
  <2> HIDE DEF e
  <2> QED BY <1>1, <2>1 DEF TablesAgree
<1> QED BY <1>1, <1>3, <1>4 DEF Disks

\* One cluster is written and linked to the next one.
OneWritten(buf, w, x) ==
  LET upto == Min({w.written + DSK_CLUSTER_SIZE, Len(buf)})
      free == FindFreeCluster(w.dsk, w.j + 1) IN
  /\ x.written = upto
  /\ x.j = IF upto < Len(buf) /\ free # 0 THEN free ELSE EndOfChain
  /\ x.dsk.dir = w.dsk.dir
  /\ x.dsk.data = [w.dsk.data EXCEPT ![w.j] = SubSeq(buf, w.written + 1, upto)]
  /\ \A k \in Clusters :
       FatEntry(x.dsk.fat, k) = IF k = w.j THEN x.j ELSE FatEntry(w.dsk.fat, k)

LEMMA WriteTurnEffect ==
  ASSUME NEW U, NEW w \in Writes(U), NEW buf \in Seq(U)
  PROVE  /\ WriteTurn(buf, w) \in Writes(U)
         /\ w.j = EndOfChain \/ w.written >= Len(buf) => WriteTurn(buf, w) = w
         /\ w.j # EndOfChain /\ ~(w.written >= Len(buf)) => OneWritten(buf, w, WriteTurn(buf, w))
<1> DEFINE x == WriteTurn(buf, w)
           upto == Min({w.written + DSK_CLUSTER_SIZE, Len(buf)})
           free == FindFreeCluster(w.dsk, w.j + 1)
           next == IF upto < Len(buf) /\ free # 0 THEN free ELSE EndOfChain
           s == SubSeq(buf, w.written + 1, upto)
           filled == [w.dsk EXCEPT !.data[w.j] = s]
<1>1. w.dsk \in Disks(U) /\ w.j \in Clusters \cup {EndOfChain} /\ w.written \in Nat
  BY DEF Writes
<1>2. CASE w.j = EndOfChain \/ w.written >= Len(buf)
  BY <1>2 DEF WriteTurn
<1>3. CASE ~(w.j = EndOfChain \/ w.written >= Len(buf))
  <2>1. w.j \in Clusters /\ w.j + 1 \in Nat
    BY <1>1, <1>3, ClusterFacts
  <2>2. upto \in Nat /\ upto <= Len(buf)
    <3>1. Len(buf) \in Nat /\ w.written + DSK_CLUSTER_SIZE \in Nat
      BY <1>1, LenProperties, ClusterFacts
    <3>2. upto = IF w.written + DSK_CLUSTER_SIZE <= Len(buf) THEN w.written + DSK_CLUSTER_SIZE ELSE Len(buf)
      BY <3>1, MinOfTwo
    <3> HIDE DEF upto
    <3> QED BY <3>1, <3>2
  <2>3. s \in Seq(U)
    <3>1. buf \in [1 .. Len(buf) -> U] /\ Len(buf) \in Nat
      BY LenProperties
    <3> HIDE DEF upto
    <3>2. w.written + 1 \in Int /\ upto \in Int /\ \A i \in w.written + 1 .. upto : buf[i] \in U
      BY <1>1, <2>2, <3>1
    <3> QED BY <3>2, SubSeqProperties
  <2>4. free \in Clusters \cup {0}
    BY <1>1, <2>1, FreeEffect
  <2>5. next \in Links /\ next \in Clusters \cup {EndOfChain}
    <3> HIDE DEF free, upto
    <3> QED BY <2>4 DEF Links
  <2>6. x = [dsk |-> Chain(filled, w.j, next), j |-> next, written |-> upto]
    <3>1. next = LET f == IF upto < Len(buf) THEN free ELSE 0 IN IF f = 0 THEN EndOfChain ELSE f
      <4> HIDE DEF free, upto
      <4> QED OBVIOUS
    <3> QED BY <1>3, <3>1 DEF WriteTurn
  <2> HIDE DEF next, upto, s, free, x
  <2>7. /\ filled \in Disks(U) /\ filled.fat = w.dsk.fat /\ filled.dir = w.dsk.dir
        /\ filled.data = [w.dsk.data EXCEPT ![w.j] = s]
    BY <1>1, <2>1, <2>3, DataChanged
  <2> HIDE DEF filled
  <2> DEFINE e == Chain(filled, w.j, next)
  <2>8. /\ e \in Disks(U) /\ e.dir = filled.dir /\ e.data = filled.data
        /\ \A k \in Clusters : FatEntry(e.fat, k) = IF k = w.j THEN next ELSE FatEntry(filled.fat, k)
    BY <2>1, <2>5, <2>7, ChainEffect
  <2> HIDE DEF e
  <2>9. x.dsk = e /\ x.j = next /\ x.written = upto
    BY <2>6 DEF e
  <2>10. x \in Writes(U)
    BY <2>2, <2>5, <2>6, <2>8 DEF Writes, e
  <2>11. x.dsk.dir = w.dsk.dir /\ x.dsk.data = [w.dsk.data EXCEPT ![w.j] = s]
    BY <2>7, <2>8, <2>9
  <2>12. \A k \in Clusters : FatEntry(x.dsk.fat, k) = IF k = w.j THEN x.j ELSE FatEntry(w.dsk.fat, k)
    BY <2>7, <2>8, <2>9
  <2>13. OneWritten(buf, w, x)
    BY <2>9, <2>11, <2>12 DEF next, upto, s, free, OneWritten
  <2> QED BY <1>3, <2>10, <2>13 DEF x
<1> QED BY <1>2, <1>3

\* What has been written after n turns: clusters c of the disk d0.
Following(d0, start, w, c) ==
  /\ w.dsk.dir = d0.dir
  /\ Path(w.dsk, c, w.j) /\ Then(c, w.j, 1) = start
  /\ \A a, b \in DOMAIN c : a < b => c[a] < c[b]
  /\ \A a \in DOMAIN c : c[a] >= a + 1 /\ FatEntry(d0.fat, c[a]) = 0
  /\ \A k \in Clusters :
       ~On(c, k) => FatEntry(w.dsk.fat, k) = FatEntry(d0.fat, k) /\ w.dsk.data[k] = d0.data[k]
Full(d0, c) == \A k \in Clusters : FatEntry(d0.fat, k) = 0 => On(c, k)
Goes(d0, buf, n, w, c) ==
  /\ Len(c) = n /\ w.written = Upto(buf, n) /\ w.written < Len(buf)
  /\ FatEntry(d0.fat, w.j) = 0 /\ w.j >= n + 2
  /\ \A a \in DOMAIN c : c[a] < w.j
  /\ \A k \in Clusters : FatEntry(d0.fat, k) = 0 /\ k < w.j => On(c, k)
Stops(d0, buf, n, w, c) ==
  /\ Len(c) >= 1 /\ Len(c) <= n
  /\ w.written = Upto(buf, Len(c)) /\ Upto(buf, Len(c) - 1) < Len(buf)
  /\ w.written < Len(buf) => Full(d0, c)
WrittenSoFar(d0, start, buf, n, w, c) ==
  /\ c \in Seq(Clusters)
  /\ Following(d0, start, w, c) /\ InClusters(w.dsk, c, buf)
  /\ IF w.j = EndOfChain THEN Stops(d0, buf, n, w, c) ELSE Goes(d0, buf, n, w, c)

LEMMA WriteStops ==
  ASSUME NEW U, NEW d0 \in Disks(U), NEW start, NEW buf \in Seq(U),
         NEW n \in Nat, n >= 1, NEW w \in Writes(U), NEW c,
         WrittenSoFar(d0, start, buf, n - 1, w, c), w.j = EndOfChain
  PROVE  WrittenSoFar(d0, start, buf, n, WriteTurn(buf, w), c)
<1>1. WriteTurn(buf, w) = w
  BY WriteTurnEffect
<1>2. Stops(d0, buf, n - 1, w, c) /\ c \in Seq(Clusters)
  BY DEF WrittenSoFar
<1>3. Stops(d0, buf, n, w, c)
  <2>1. Len(c) \in Nat
    BY <1>2, LenProperties
  <2>2. Len(c) <= n
    BY <1>2, <2>1 DEF Stops
  <2> QED BY <1>2, <2>2 DEF Stops
<1> QED BY <1>1, <1>3 DEF WrittenSoFar

LEMMA WriteGoes ==
  ASSUME NEW U, NEW d0 \in Disks(U), NEW start, NEW buf \in Seq(U),
         NEW n \in Nat, n >= 1, NEW w \in Writes(U), NEW c,
         WrittenSoFar(d0, start, buf, n - 1, w, c), w.j # EndOfChain
  PROVE  WrittenSoFar(d0, start, buf, n, WriteTurn(buf, w), Append(c, w.j))
<1> DEFINE x == WriteTurn(buf, w)
           c1 == Append(c, w.j)
           upto == Min({w.written + DSK_CLUSTER_SIZE, Len(buf)})
           free == FindFreeCluster(w.dsk, w.j + 1)
<1>1. /\ c \in Seq(Clusters) /\ Following(d0, start, w, c) /\ InClusters(w.dsk, c, buf)
      /\ Goes(d0, buf, n - 1, w, c)
  BY DEF WrittenSoFar
<1>2. /\ Len(c) = n - 1 /\ w.written = Upto(buf, n - 1) /\ w.written < Len(buf)
      /\ DOMAIN c = 1 .. n - 1 /\ \A a \in 1 .. n - 1 : c[a] \in Clusters
      /\ w.dsk \in Disks(U) /\ w.j \in Clusters /\ w.j \in Nat /\ w.j + 1 \in Nat
      /\ w.written \in Nat /\ Len(buf) \in Nat
  <2>1. Len(c) = n - 1 /\ w.written = Upto(buf, n - 1) /\ w.written < Len(buf)
    BY <1>1 DEF Goes
  <2>2. DOMAIN c = 1 .. Len(c) /\ \A a \in 1 .. Len(c) : c[a] \in Clusters
    BY <1>1, LenProperties
  <2>3. w.dsk \in Disks(U) /\ w.j \in Clusters /\ w.written \in Nat
    BY DEF Writes
  <2>4. w.j \in Nat /\ w.j + 1 \in Nat
    BY <2>3, ClusterFacts
  <2> QED BY <2>1, <2>2, <2>3, <2>4, LenProperties
<1>3. ~(w.written >= Len(buf))
  BY <1>2
<1>4. /\ x \in Writes(U)
      /\ x.written = upto
      /\ x.j = IF upto < Len(buf) /\ free # 0 THEN free ELSE EndOfChain
      /\ x.dsk.dir = w.dsk.dir
      /\ x.dsk.data = [w.dsk.data EXCEPT ![w.j] = SubSeq(buf, w.written + 1, upto)]
      /\ \A k \in Clusters :
           FatEntry(x.dsk.fat, k) = IF k = w.j THEN x.j ELSE FatEntry(w.dsk.fat, k)
  <2>1. x \in Writes(U) /\ OneWritten(buf, w, x)
    BY <1>3, WriteTurnEffect
  <2> HIDE DEF x
  <2> QED BY <2>1 DEF OneWritten
<1>5. upto = Upto(buf, n) /\ SubSeq(buf, w.written + 1, upto) = Piece(buf, n)
  <2>1. upto = Upto(buf, n)
    BY <1>2, UptoSteps
  <2> QED BY <1>2, <2>1 DEF Piece
<1>6. /\ c1 \in Seq(Clusters) /\ Len(c1) = n /\ DOMAIN c1 = 1 .. n
      /\ \A a \in 1 .. n - 1 : c1[a] = c[a]
      /\ c1[n] = w.j
      /\ \A a \in 1 .. n : a = n \/ a \in 1 .. n - 1
  <2>1. /\ c1 \in Seq(Clusters) /\ Len(c1) = Len(c) + 1
        /\ \A a \in 1 .. Len(c) : c1[a] = c[a]
        /\ c1[Len(c) + 1] = w.j
    BY <1>1, <1>2, AppendProperties
  <2>2. DOMAIN c1 = 1 .. Len(c1)
    BY <2>1, LenProperties
  <2>3. Len(c) + 1 = n /\ \A a \in 1 .. n : a = n \/ a \in 1 .. n - 1
    BY <1>2
  <2> HIDE DEF c1
  <2> QED BY <1>2, <2>1, <2>2, <2>3
<1> HIDE DEF x, c1
<1>7. \A k \in Clusters : On(c1, k) <=> On(c, k) \/ k = w.j
  <2>1. n \in 1 .. n
    OBVIOUS
  <2> QED BY <1>2, <1>6, <2>1 DEF On
<1>8. \A a \in 1 .. n - 1 : c[a] < w.j /\ c[a] # w.j /\ c[a] \in Nat
  <2>1. \A a \in 1 .. n - 1 : c[a] < w.j
    BY <1>1, <1>2 DEF Goes
  <2>2. \A a \in 1 .. n - 1 : c[a] \in Nat
    BY <1>2, ClusterFacts
  <2> QED BY <1>2, <2>1, <2>2
<1>9. ASSUME NEW k \in Clusters, k > w.j PROVE ~On(c, k)
  <2>1. k \in Nat
    BY ClusterFacts
  <2> QED BY <1>2, <1>8, <1>9, <2>1 DEF On
<1>10. Path(x.dsk, c1, x.j)
  <2>1. \A a, b \in DOMAIN c1 : c1[a] = c1[b] => a = b
    <3>1. \A a, b \in 1 .. n - 1 : c[a] = c[b] => a = b
      BY <1>1, <1>2 DEF Following, Path
    <3> QED BY <1>6, <1>8, <3>1
  <2>2. ASSUME NEW a \in 1 .. n PROVE FatEntry(x.dsk.fat, c1[a]) = Then(c1, x.j, a + 1)
    <3>1. CASE a = n
      <4>1. ~(n + 1 <= Len(c1))
        BY <1>6
      <4>2. Then(c1, x.j, a + 1) = x.j
        BY <3>1, <4>1 DEF Then
      <4> QED BY <1>2, <1>4, <1>6, <3>1, <4>2
    <3>2. CASE a \in 1 .. n - 1
      <4>1. FatEntry(w.dsk.fat, c[a]) = Then(c, w.j, a + 1)
        BY <1>1, <1>2, <3>2 DEF Following, Path
      <4>2. FatEntry(x.dsk.fat, c1[a]) = FatEntry(w.dsk.fat, c[a])
        BY <1>2, <1>4, <1>6, <1>8, <3>2
      <4>3. a + 1 <= Len(c1) /\ a + 1 \in 1 .. n
        BY <1>6, <3>2
      <4>4. Then(c1, x.j, a + 1) = c1[a + 1]
        BY <4>3 DEF Then
      <4>5. Then(c, w.j, a + 1) = c1[a + 1]
        <5>1. CASE a + 1 = n
          <6>1. ~(a + 1 <= Len(c))
            BY <1>2, <5>1
          <6> QED BY <1>6, <5>1, <6>1 DEF Then
        <5>2. CASE a + 1 # n
          <6>1. a + 1 <= Len(c) /\ a + 1 \in 1 .. n - 1
            BY <1>2, <3>2, <5>2
          <6> QED BY <1>6, <6>1 DEF Then
        <5> QED BY <5>1, <5>2
      <4> QED BY <4>1, <4>2, <4>4, <4>5
    <3> QED BY <1>6, <3>1, <3>2
  <2> QED BY <1>6, <2>1, <2>2 DEF Path
<1>11. Then(c1, x.j, 1) = start
  <2>1. Then(c, w.j, 1) = start
    BY <1>1 DEF Following
  <2>2. Then(c1, x.j, 1) = c1[1]
    BY <1>6 DEF Then
  <2>3. CASE n = 1
    <3>1. ~(1 <= Len(c))
      BY <1>2, <2>3
    <3> QED BY <1>6, <2>1, <2>2, <2>3, <3>1 DEF Then
  <2>4. CASE n # 1
    <3>1. 1 <= Len(c) /\ 1 \in 1 .. n - 1
      BY <1>2, <2>4
    <3> QED BY <1>6, <2>1, <2>2, <3>1 DEF Then
  <2> QED BY <2>3, <2>4
<1>12. \A a, b \in DOMAIN c1 : a < b => c1[a] < c1[b]
  <2>1. \A a, b \in 1 .. n - 1 : a < b => c[a] < c[b]
    BY <1>1, <1>2 DEF Following
  <2>2. \A b \in 1 .. n : ~(n < b)
    OBVIOUS
  <2> QED BY <1>6, <1>8, <2>1, <2>2
<1>13. \A a \in DOMAIN c1 : c1[a] >= a + 1 /\ FatEntry(d0.fat, c1[a]) = 0
  <2>1. \A a \in 1 .. n - 1 : c[a] >= a + 1 /\ FatEntry(d0.fat, c[a]) = 0
    BY <1>1, <1>2 DEF Following
  <2>2. w.j >= n + 1 /\ FatEntry(d0.fat, w.j) = 0
    <3>1. w.j >= (n - 1) + 2 /\ FatEntry(d0.fat, w.j) = 0
      BY <1>1 DEF Goes
    <3> QED BY <1>2, <3>1
  <2> QED BY <1>6, <2>1, <2>2
<1>14. \A k \in Clusters :
         ~On(c1, k) => FatEntry(x.dsk.fat, k) = FatEntry(d0.fat, k) /\ x.dsk.data[k] = d0.data[k]
  <2> TAKE k \in Clusters
  <2> HAVE ~On(c1, k)
  <2>1. ~On(c, k) /\ k # w.j
    BY <1>7
  <2>2. FatEntry(w.dsk.fat, k) = FatEntry(d0.fat, k) /\ w.dsk.data[k] = d0.data[k]
    BY <1>1, <2>1 DEF Following
  <2>3. x.dsk.data[k] = w.dsk.data[k]
    <3>1. DOMAIN w.dsk.data = Clusters
      BY <1>2, DiskFacts
    <3> QED BY <1>4, <2>1, <3>1
  <2> QED BY <1>4, <2>1, <2>2, <2>3
<1>15. Following(d0, start, x, c1)
  <2>1. x.dsk.dir = d0.dir
    BY <1>1, <1>4 DEF Following
  <2> QED BY <1>10, <1>11, <1>12, <1>13, <1>14, <2>1 DEF Following
<1>16. InClusters(x.dsk, c1, buf)
  <2>1. \A a \in 1 .. n - 1 : w.dsk.data[c[a]] = Piece(buf, a)
    BY <1>1, <1>2 DEF InClusters
  <2>2. DOMAIN w.dsk.data = Clusters
    BY <1>2, DiskFacts
  <2>3. \A a \in 1 .. n - 1 : x.dsk.data[c1[a]] = Piece(buf, a)
    <3> TAKE a \in 1 .. n - 1
    <3>1. c1[a] = c[a] /\ c[a] # w.j
      BY <1>6, <1>8
    <3>2. c[a] \in Clusters
      BY <1>2
    <3>3. x.dsk.data[c[a]] = w.dsk.data[c[a]]
      BY <1>4, <2>2, <3>1, <3>2
    <3> QED BY <2>1, <3>1, <3>3
  <2>4. x.dsk.data[c1[n]] = Piece(buf, n)
    BY <1>2, <1>4, <1>5, <1>6, <2>2
  <2> QED BY <1>6, <2>3, <2>4 DEF InClusters
<1>17. \/ free = 0 /\ \A j \in Clusters : j >= w.j + 1 => FatEntry(w.dsk.fat, j) # 0
       \/ /\ free \in Clusters /\ free >= w.j + 1 /\ FatEntry(w.dsk.fat, free) = 0
          /\ \A j \in Clusters : j >= w.j + 1 /\ j < free => FatEntry(w.dsk.fat, j) # 0
  BY <1>2, FreeEffect
<1> HIDE DEF free, upto
<1>18. \A k \in Clusters : FatEntry(d0.fat, k) = 0 /\ k < w.j => On(c, k)
  BY <1>1 DEF Goes
<1>19. \A k \in Clusters : k > w.j => FatEntry(w.dsk.fat, k) = FatEntry(d0.fat, k)
  BY <1>1, <1>9 DEF Following
<1>20. Len(c1) - 1 = n - 1 /\ Upto(buf, Len(c1)) = upto /\ Upto(buf, Len(c1) - 1) < Len(buf)
  BY <1>2, <1>5, <1>6
<1>21. CASE ~(upto < Len(buf) /\ free # 0)
  <2>1. x.j = EndOfChain
    BY <1>4, <1>21
  <2>2. upto < Len(buf) => Full(d0, c1)
    <3> HAVE upto < Len(buf)
    <3>1. free = 0
      BY <1>21
    <3>2. \A j \in Clusters : j >= w.j + 1 => FatEntry(w.dsk.fat, j) # 0
      BY <1>17, <3>1, ClusterFacts
    <3>3. ASSUME NEW k \in Clusters, FatEntry(d0.fat, k) = 0 PROVE On(c1, k)
      <4>1. k \in Nat
        BY ClusterFacts
      <4>2. CASE k < w.j
        BY <1>7, <1>18, <3>3, <4>2
      <4>3. CASE k = w.j
        BY <1>7, <4>3
      <4>4. CASE k > w.j
        <5>1. k >= w.j + 1
          BY <1>2, <4>1, <4>4
        <5> QED BY <1>19, <3>2, <3>3, <4>4, <5>1
      <4> QED BY <1>2, <4>1, <4>2, <4>3, <4>4
    <3> QED BY <3>3 DEF Full
  <2>3. Stops(d0, buf, n, x, c1)
    BY <1>4, <1>6, <1>20, <2>2 DEF Stops
  <2> QED BY <1>6, <1>15, <1>16, <2>1, <2>3 DEF WrittenSoFar, x, c1
<1>22. CASE upto < Len(buf) /\ free # 0
  <2>1. x.j = free /\ free # EndOfChain /\ free \in Nat
    BY <1>4, <1>17, <1>22, ClusterFacts
  <2>2. /\ free \in Clusters /\ free >= w.j + 1 /\ FatEntry(w.dsk.fat, free) = 0
        /\ \A j \in Clusters : j >= w.j + 1 /\ j < free => FatEntry(w.dsk.fat, j) # 0
    BY <1>17, <1>22
  <2>3. free > w.j
    BY <1>2, <2>1, <2>2
  <2>4. FatEntry(d0.fat, free) = 0
    BY <1>19, <2>2, <2>3
  <2>5. free >= n + 2
    <3>1. w.j >= (n - 1) + 2
      BY <1>1 DEF Goes
    <3> QED BY <1>2, <2>1, <2>3, <3>1
  <2>6. \A a \in DOMAIN c1 : c1[a] < free
    BY <1>2, <1>6, <1>8, <2>1, <2>3
  <2>7. ASSUME NEW k \in Clusters, FatEntry(d0.fat, k) = 0, k < free PROVE On(c1, k)
    <3>1. k \in Nat
      BY ClusterFacts
    <3>2. CASE k < w.j
      BY <1>7, <1>18, <2>7, <3>2
    <3>3. CASE k = w.j
      BY <1>7, <3>3
    <3>4. CASE k > w.j
      <4>1. k >= w.j + 1
        BY <1>2, <3>1, <3>4
      <4> QED BY <1>19, <2>2, <2>7, <3>4, <4>1
    <3> QED BY <1>2, <3>1, <3>2, <3>3, <3>4
  <2>8. Goes(d0, buf, n, x, c1)
    BY <1>4, <1>5, <1>6, <1>22, <2>1, <2>4, <2>5, <2>6, <2>7 DEF Goes
  <2> QED BY <1>6, <1>15, <1>16, <2>1, <2>8 DEF WrittenSoFar, x, c1
<1> QED BY <1>21, <1>22

LEMMA WriteStart ==
  ASSUME NEW U, NEW d0 \in Disks(U), NEW buf \in Seq(U), buf # <<>>,
         NEW start, start = FindFreeCluster(d0, 2), start # 0
  PROVE  LET w == [dsk |-> d0, j |-> start, written |-> 0] IN
         w \in Writes(U) /\ WrittenSoFar(d0, start, buf, 0, w, <<>>)
<1> DEFINE w == [dsk |-> d0, j |-> start, written |-> 0]
           c == <<>>
<1>1. /\ start \in Clusters /\ start >= 2 /\ FatEntry(d0.fat, start) = 0
      /\ \A j \in Clusters : j >= 2 /\ j < start => FatEntry(d0.fat, j) # 0
  BY FreeEffect
<1>2. w \in Writes(U)
  BY <1>1 DEF Writes
<1>3. Len(buf) \in Nat /\ Len(buf) > 0 /\ Upto(buf, 0) = 0
  <2>1. Len(buf) \in Nat /\ Len(buf) # 0
    BY EmptySeq, LenProperties
  <2>2. 0 * DSK_CLUSTER_SIZE = 0
    BY ClusterFacts
  <2> QED BY <2>1, <2>2 DEF Upto
<1>4. c \in Seq(Clusters) /\ Len(c) = 0 /\ DOMAIN c = {}
  BY EmptySeq
<1> HIDE DEF c
<1>5. Then(c, start, 1) = start
  BY <1>4 DEF Then
<1>6. Following(d0, start, w, c)
  BY <1>4, <1>5 DEF Following, Path
<1>7. InClusters(w.dsk, c, buf)
  BY <1>4 DEF InClusters
<1>8. Goes(d0, buf, 0, w, c)
  <2>1. start >= 0 + 2
    BY <1>1
  <2>2. \A k \in Clusters : FatEntry(d0.fat, k) = 0 /\ k < start => On(c, k)
    BY <1>1, ClusterFacts
  <2> QED BY <1>1, <1>3, <1>4, <2>1, <2>2 DEF Goes
<1>9. w.j # EndOfChain
  BY <1>1, ClusterFacts
<1>10. WrittenSoFar(d0, start, buf, 0, w, c)
  BY <1>4, <1>6, <1>7, <1>8, <1>9 DEF WrittenSoFar
<1> QED BY <1>2, <1>10 DEF c

LEMMA WriteEffect ==
  ASSUME NEW U, NEW d0 \in Disks(U), NEW buf \in Seq(U), buf # <<>>,
         NEW start, start = FindFreeCluster(d0, 2), start # 0
  PROVE  LET w == Writing(d0, start, buf) IN
         /\ w \in Writes(U) /\ w.j = EndOfChain
         /\ \E c : WrittenSoFar(d0, start, buf, Turns, w, c)
<1> DEFINE V == Writes(U)
           first == [dsk |-> d0, j |-> start, written |-> 0]
           turn == [w \in V |-> WriteTurn(buf, w)]
           Body(walk, n) == IF n = 0 THEN first ELSE WriteTurn(buf, walk[n - 1])
           W == CHOOSE walk : walk = [n \in 0 .. Turns |-> Body(walk, n)]
<1>0. Turns \in Nat
  BY ClusterFacts
<1>1. first \in V /\ WrittenSoFar(d0, start, buf, 0, first, <<>>)
  BY WriteStart
<1>2. turn \in [V -> V]
  <2> HIDE DEF V
  <2>1. \A w \in V : WriteTurn(buf, w) \in V
    BY WriteTurnEffect DEF V
  <2> QED BY <2>1
<1>3. PICK f \in [0 .. Turns -> V] : f = [k \in 0 .. Turns |-> IF k = 0 THEN first ELSE turn[f[k - 1]]]
  <2> HIDE DEF first, turn, V
  <2>1. Walked(V, first, turn, Turns) # {}
    BY <1>0, <1>1, <1>2, Walks
  <2> QED BY <2>1 DEF Walked
<1>4. f = [n \in 0 .. Turns |-> Body(f, n)]
  <2>1. \A n \in 0 .. Turns : (IF n = 0 THEN first ELSE turn[f[n - 1]]) = Body(f, n)
    <3> TAKE n \in 0 .. Turns
    <3>1. CASE n = 0
      BY <3>1
    <3>2. CASE n # 0
      <4> HIDE DEF V, first
      <4>1. f[n - 1] \in V
        BY <3>2, <1>0
      <4> QED BY <3>2, <4>1
    <3> QED BY <3>1, <3>2
  <2> HIDE DEF Body, first, turn, V
  <2> QED BY <1>3, <2>1
<1>5. W = [n \in 0 .. Turns |-> Body(W, n)]
  <2> HIDE DEF Body
  <2> QED BY <1>4
<1>6. Writing(d0, start, buf) = W[Turns]
  BY DEF Writing, Ended, WriteTurn
<1> HIDE DEF W
<1>7. W[0] = first /\ \A n \in 1 .. Turns : W[n] = WriteTurn(buf, W[n - 1])
  <2> HIDE DEF first
  <2> QED BY <1>0, <1>5
<1> DEFINE S == {n \in Nat : W[n] \in Writes(U) /\ \E c : WrittenSoFar(d0, start, buf, n, W[n], c)}
<1>8. 0 \in S
  <2> HIDE DEF first
  <2> QED BY <1>1, <1>7
<1>9. ASSUME NEW n \in 1 .. Turns, n - 1 \in S PROVE n \in S
  <2> DEFINE w == W[n - 1]
  <2>1. n \in Nat /\ n >= 1 /\ w \in Writes(U) /\ W[n] = WriteTurn(buf, w)
    BY <1>7, <1>9
  <2>2. PICK c : WrittenSoFar(d0, start, buf, n - 1, w, c)
    BY <1>9
  <2> HIDE DEF w
  <2>3. WriteTurn(buf, w) \in Writes(U)
    BY <2>1, WriteTurnEffect
  <2>4. \E b : WrittenSoFar(d0, start, buf, n, WriteTurn(buf, w), b)
    <3>1. CASE w.j = EndOfChain
      BY <2>1, <2>2, <3>1, WriteStops
    <3>2. CASE w.j # EndOfChain
      BY <2>1, <2>2, <3>2, WriteGoes
    <3> QED BY <3>1, <3>2
  <2> QED BY <2>1, <2>3, <2>4
<1> HIDE DEF S
<1>10. \A n \in 0 .. Turns : n \in S
  BY <1>0, <1>8, <1>9, BoundedInduction
<1>11. Turns \in S
  BY <1>0, <1>10
<1> DEFINE w == W[Turns]
<1>12. w \in Writes(U) /\ \E c : WrittenSoFar(d0, start, buf, Turns, w, c)
  BY <1>11 DEF S
<1> HIDE DEF w
<1>13. w.j = EndOfChain
  <2> SUFFICES ASSUME w.j # EndOfChain PROVE FALSE
    OBVIOUS
  <2>1. PICK c : WrittenSoFar(d0, start, buf, Turns, w, c)
    BY <1>12
  <2>2. w.j >= Turns + 2
    BY <2>1 DEF WrittenSoFar, Goes
  <2>3. w.j \in Clusters
    BY <1>12 DEF Writes
  <2>4. w.j \in Nat /\ w.j < Turns
    BY <2>3, ClusterFacts DEF Turns
  <2> QED BY <1>0, <2>2, <2>4
<1> QED BY <1>6, <1>12, <1>13 DEF w

\* A chain has as many clusters as entries.
LEMMA ChainSize ==
  ASSUME NEW c \in Seq(Clusters), \A a, b \in DOMAIN c : c[a] = c[b] => a = b
  PROVE  LET R == {k \in Clusters : On(c, k)} IN IsFiniteSet(R) /\ Cardinality(R) = Len(c)
<1> DEFINE R == {k \in Clusters : On(c, k)}
<1>1. Len(c) \in Nat /\ DOMAIN c = 1 .. Len(c) /\ c \in [1 .. Len(c) -> Clusters]
  BY LenProperties
<1>2. IsFiniteSet(1 .. Len(c)) /\ Cardinality(1 .. Len(c)) = Len(c)
  <2>1. /\ IsFiniteSet(1 .. Len(c))
        /\ Cardinality(1 .. Len(c)) = IF 1 > Len(c) THEN 0 ELSE Len(c) - 1 + 1
    BY <1>1, FS_Interval
  <2>2. (IF 1 > Len(c) THEN 0 ELSE Len(c) - 1 + 1) = Len(c)
    BY <1>1
  <2> QED BY <2>1, <2>2
<1>3. c \in [1 .. Len(c) -> R]
  <2>1. \A a \in 1 .. Len(c) : c[a] \in R
    BY <1>1 DEF On
  <2> HIDE DEF R
  <2> QED BY <1>1, <2>1
<1>4. c \in Bijection(1 .. Len(c), R)
  <2>1. c \in Injection(1 .. Len(c), R)
    <3> HIDE DEF R
    <3> QED BY <1>1, <1>3 DEF Injection, IsInjective
  <2>2. c \in Surjection(1 .. Len(c), R)
    <3>1. \A k \in R : \E a \in 1 .. Len(c) : c[a] = k
      BY <1>1 DEF On
    <3> HIDE DEF R
    <3> QED BY <1>3, <3>1 DEF Surjection
  <2> QED BY <2>1, <2>2 DEF Bijection
<1>5. ExistsBijection(1 .. Len(c), R)
  BY <1>4 DEF ExistsBijection
<1> HIDE DEF R
<1>6. IsFiniteSet(R) /\ Cardinality(R) = Len(c)
  BY <1>2, <1>5, FS_Bijection
<1> QED BY <1>6 DEF R

LEMMA FreeSize ==
  ASSUME NEW d
  PROVE  IsFiniteSet(FreeClusters(d)) /\ Cardinality(FreeClusters(d)) \in Nat
<1>1. IsFiniteSet(Clusters)
  <2>1. 2 \in Int /\ DSK_FAT_SIZE - 1 \in Int
    BY ClusterFacts
  <2> QED BY <2>1, FS_Interval DEF Clusters
<1>2. FreeClusters(d) \in SUBSET Clusters
  BY DEF FreeClusters
<1>3. IsFiniteSet(FreeClusters(d))
  BY <1>1, <1>2, FS_Subset
<1> QED BY <1>3, FS_CardinalityType

(***************************************************************************)
(* A file of the directory: it is added, or leaves the clusters as they    *)
(* were.                                                                   *)
(***************************************************************************)
HostFiles(U) == [name : Seq(DOMAIN toupper), bytes : Seq(U)]
DirEntry     == [name : Names, first : Clusters \cup {0}, size : Nat]
SameEntries(d, e) == \A k \in Clusters : FatEntry(e.fat, k) = FatEntry(d.fat, k)

LEMMA LeastIsMin ==
  ASSUME NEW T, T \subseteq Nat, T # {}
  PROVE  Min(T) \in T
<1>1. PICK x \in T : \A y \in T : ~(y < x)
  BY LeastElement
<1>2. \A y \in T : x <= y
  BY <1>1
<1> QED BY <1>2 DEF Min

LEMMA NewIDFacts ==
  ASSUME NEW U, NEW d \in Disks(U), NEW name
  PROVE  LET id == NewID(d, name) IN
         /\ id # 0 => id \in IDs /\ ~HasFile(d, id) /\ \A k \in FileIDs(d) : d.dir[k].name # name
         /\ id = 0 => FileIDs(d) = IDs \/ \E k \in FileIDs(d) : d.dir[k].name = name
<1> DEFINE free == {id \in DOMAIN d.dir : ~HasFile(d, id)}
           id == NewID(d, name)
<1>1. DOMAIN d.dir = IDs
  BY DiskFacts
<1>2. id = IF free = {} \/ \E k \in FileIDs(d) : d.dir[k].name = name THEN 0 ELSE Min(free)
  <2>1. DOMAIN d.dir \ free = FileIDs(d)
    BY DEF FileIDs
  <2> HIDE DEF free
  <2> QED BY <2>1 DEF NewID, free
<1>3. free \subseteq IDs /\ IDs \subseteq Nat /\ 0 \notin IDs
  BY <1>1, FatAssumption DEF IDs
<1>4. free = {} => FileIDs(d) = IDs
  BY <1>1 DEF FileIDs
<1>5. free # {} => Min(free) \in free
  <2> HIDE DEF free
  <2> QED BY <1>3, LeastIsMin
<1>6. id # 0 => id \in IDs /\ ~HasFile(d, id) /\ \A k \in FileIDs(d) : d.dir[k].name # name
  <2> HAVE id # 0
  <2>1. free # {} /\ (\A k \in FileIDs(d) : d.dir[k].name # name) /\ id = Min(free)
    <3> HIDE DEF id, free
    <3> QED BY <1>2
  <2>2. id \in free
    <3> HIDE DEF id, free
    <3> QED BY <1>5, <2>1
  <2> HIDE DEF id
  <2> QED BY <1>3, <2>1, <2>2
<1>7. id = 0 => FileIDs(d) = IDs \/ \E k \in FileIDs(d) : d.dir[k].name = name
  <2> HAVE id = 0
  <2>1. free = {} \/ \E k \in FileIDs(d) : d.dir[k].name = name
    <3> SUFFICES ASSUME free # {}, ~\E k \in FileIDs(d) : d.dir[k].name = name PROVE FALSE
      OBVIOUS
    <3>1. id = Min(free)
      <4> HIDE DEF id, free
      <4> QED BY <1>2
    <3>2. id \in IDs
      <4> HIDE DEF id, free
      <4> QED BY <1>3, <1>5, <3>1
    <3> QED BY <1>3, <3>2
  <2> QED BY <1>4, <2>1
<1> QED BY <1>6, <1>7

\* A file without clusters of its own is deleted: its first one is free.
LEMMA EmptyDelete ==
  ASSUME NEW U, NEW d \in Disks(U), NEW id \in IDs, HasFile(d, id),
         d.dir[id].first = 0 \/ FatEntry(d.fat, d.dir[id].first) = 0
  PROVE  LET e == DSKDelete(d, id) IN
         /\ e \in Disks(U) /\ e.data = d.data /\ SameEntries(d, e)
         /\ e.dir = [d.dir EXCEPT ![id] = [d.dir[id] EXCEPT !.name = Erased(d.dir[id].name)]]
<1> DEFINE first == d.dir[id].first
           c == IF first = 0 THEN <<>> ELSE <<first>>
<1>1. first \in Clusters \cup {0} /\ (first # 0 => FatEntry(d.fat, first) = 0)
  BY DiskFacts DEF Dirs
<1>2. Path(d, c, 0) /\ first = Then(c, 0, 1) /\ Len(c) <= 1
  <2>1. CASE first = 0
    <3>1. c = <<>> /\ Len(<<>>) = 0 /\ DOMAIN <<>> = {} /\ <<>> \in Seq(Clusters)
      BY <2>1, EmptySeq
    <3> HIDE DEF first, c
    <3> QED BY <2>1, <3>1 DEF Path, Then
  <2>2. CASE first # 0
    <3>1. c = <<first>> /\ first \in Clusters
      BY <1>1, <2>2
    <3> HIDE DEF first, c
    <3>2. Len(c) = 1 /\ DOMAIN c = {1} /\ c[1] = first /\ c \in Seq(Clusters)
      BY <3>1
    <3>3. Then(c, 0, 1) = first /\ Then(c, 0, 1 + 1) = 0
      BY <3>2 DEF Then
    <3> QED BY <1>1, <2>2, <3>2, <3>3 DEF Path
  <2> QED BY <2>1, <2>2
<1> HIDE DEF c
<1>3. Len(c) <= Turns
  <2>1. Turns \in Nat /\ Turns >= 1 /\ Len(c) \in Nat
    BY <1>2, FatAssumption, LenProperties DEF Turns, Path
  <2> QED BY <1>2, <2>1
<1> DEFINE e == DSKDelete(d, id)
<1>4. 0 \in {0, EndOfChain}
  OBVIOUS
<1>5. /\ e \in Disks(U) /\ e.data = d.data
      /\ e.dir = [d.dir EXCEPT ![id] = [d.dir[id] EXCEPT !.name = Erased(d.dir[id].name)]]
      /\ \A k \in Clusters : FatEntry(e.fat, k) = IF On(c, k) THEN 0 ELSE FatEntry(d.fat, k)
  BY <1>2, <1>3, <1>4, DeleteEffect
<1>6. \A k \in Clusters : On(c, k) => FatEntry(d.fat, k) = 0
  <2>1. \A a \in DOMAIN c : FatEntry(d.fat, c[a]) = 0
    <3>1. \A a \in DOMAIN c : a = 1 /\ 1 <= Len(c)
      BY <1>2, LenProperties DEF Path
    <3>2. \A a \in DOMAIN c : FatEntry(d.fat, c[a]) = Then(c, 0, a + 1)
      BY <1>2 DEF Path
    <3>3. ~(1 + 1 <= Len(c))
      <4>1. Len(c) \in Nat
        BY <1>2, LenProperties DEF Path
      <4> QED BY <1>2, <4>1
    <3> QED BY <3>1, <3>2, <3>3 DEF Then
  <2> QED BY <2>1 DEF On
<1>7. SameEntries(d, e)
  <2> HIDE DEF e
  <2> QED BY <1>5, <1>6 DEF SameEntries
<1> HIDE DEF e
<1>8. /\ e \in Disks(U) /\ e.data = d.data /\ SameEntries(d, e)
      /\ e.dir = [d.dir EXCEPT ![id] = [d.dir[id] EXCEPT !.name = Erased(d.dir[id].name)]]
  BY <1>5, <1>7
<1> QED BY <1>8 DEF e

\* What is left of such a file: the disk it was, but for its name.
OnlyErased(U, d, id) ==
  LET e == DSKDelete(d, id) IN
  /\ e \in Disks(U) /\ e.data = d.data /\ SameEntries(d, e)
  /\ e.dir = [d.dir EXCEPT ![id] = [d.dir[id] EXCEPT !.name = Erased(d.dir[id].name)]]
\* DSKDelete() of an empty file erases its name and nothing else.
LEMMA EmptyErased ==
  ASSUME NEW U, NEW d \in Disks(U), NEW id \in IDs, HasFile(d, id),
         d.dir[id].first = 0 \/ FatEntry(d.fat, d.dir[id].first) = 0
  PROVE  OnlyErased(U, d, id)
BY EmptyDelete DEF OnlyErased

\* DSKWrite() empties a file, and keeps its name.
LEMMA Emptied ==
  ASSUME NEW U, NEW d \in Disks(U), NEW id \in IDs, HasFile(d, id),
         d.dir[id].first = 0 \/ FatEntry(d.fat, d.dir[id].first) = 0
  PROVE  LET e == [DSKDelete(d, id) EXCEPT !.dir[id].name = d.dir[id].name] IN
         e \in Disks(U) /\ e.data = d.data /\ e.dir = d.dir /\ SameEntries(d, e)
<1> DEFINE x == DSKDelete(d, id)
           e == [x EXCEPT !.dir[id].name = d.dir[id].name]
           new == [x.dir[id] EXCEPT !.name = d.dir[id].name]
<1>1. /\ x \in Disks(U) /\ x.data = d.data /\ SameEntries(d, x)
      /\ x.dir = [d.dir EXCEPT ![id] = [d.dir[id] EXCEPT !.name = Erased(d.dir[id].name)]]
  BY EmptyDelete
<1>2. d.dir \in Dirs /\ d.dir[id] \in DirEntry
  BY DiskFacts DEF Dirs, DirEntry
<1> HIDE DEF x
<1>3. new \in DirEntry /\ e = [x EXCEPT !.dir[id] = new]
  <2>1. d.dir[id].name \in Names
    BY <1>2 DEF DirEntry
  <2> QED BY <1>1, <2>1, FieldChanged DEF DirEntry
<1>4. new = d.dir[id]
  <2>1. x.dir[id] = [d.dir[id] EXCEPT !.name = Erased(d.dir[id].name)]
    BY <1>1, <1>2 DEF Dirs
  <2> QED BY <1>2, <2>1 DEF DirEntry
<1> HIDE DEF new, e
<1>5. e \in Disks(U) /\ e.fat = x.fat /\ e.data = x.data /\ e.dir = [x.dir EXCEPT ![id] = new]
  BY <1>1, <1>3, Renamed DEF DirEntry
<1>6. e.dir = d.dir
  BY <1>1, <1>2, <1>4, <1>5 DEF Dirs
<1>7. e \in Disks(U) /\ e.data = d.data /\ e.dir = d.dir /\ SameEntries(d, e)
  BY <1>1, <1>5, <1>6 DEF SameEntries
<1> QED BY <1>7 DEF e, x

\* A file got clusters c, from those that were free.
Filled(U, d, id, buf, r, c) ==
  /\ r.dsk \in Disks(U) /\ c \in Seq(Clusters)
  /\ r.dsk.dir = [d.dir EXCEPT ![id] = [name |-> d.dir[id].name, first |-> c[1], size |-> r.written]]
  /\ Path(r.dsk, c, EndOfChain) /\ InClusters(r.dsk, c, buf)
  /\ Len(c) >= 1 /\ Len(c) < Turns
  /\ r.written = Upto(buf, Len(c)) /\ Upto(buf, Len(c) - 1) < Len(buf)
  /\ \A a \in DOMAIN c : FatEntry(d.fat, c[a]) = 0
  /\ \A k \in Clusters :
       ~On(c, k) => FatEntry(r.dsk.fat, k) = FatEntry(d.fat, k) /\ r.dsk.data[k] = d.data[k]
  /\ r.written < Len(buf) => Full(d, c)
\* A file got none, as none was free.
NoRoom(U, d, id, r) ==
  /\ r.written = 0 /\ FreeClusters(d) = {}
  /\ r.dsk \in Disks(U) /\ r.dsk.data = d.data /\ SameEntries(d, r.dsk)
  /\ r.dsk.dir = [d.dir EXCEPT ![id] = [d.dir[id] EXCEPT !.name = Erased(d.dir[id].name)]]

LEMMA WrittenFile ==
  ASSUME NEW U, NEW d \in Disks(U), NEW id \in IDs, HasFile(d, id),
         d.dir[id].first = 0 \/ FatEntry(d.fat, d.dir[id].first) = 0,
         NEW buf \in Seq(U), buf # <<>>
  PROVE  LET r == DSKWrite(d, id, buf) IN
         NoRoom(U, d, id, r) \/ \E c : Filled(U, d, id, buf, r, c)
<1> DEFINE r == DSKWrite(d, id, buf)
           empty == [DSKDelete(d, id) EXCEPT !.dir[id].name = d.dir[id].name]
           start == FindFreeCluster(empty, 2)
           d0 == [empty EXCEPT !.dir[id].first = start]
           w == Writing(d0, start, buf)
<1>1. empty \in Disks(U) /\ empty.data = d.data /\ empty.dir = d.dir /\ SameEntries(d, empty)
  BY Emptied
<1>2. r = IF start = 0 THEN [dsk |-> DSKDelete(empty, id), written |-> 0]
          ELSE [dsk |-> [w.dsk EXCEPT !.dir[id].size = w.written], written |-> w.written]
  BY DEF DSKWrite
<1>3. d.dir \in Dirs /\ d.dir[id] \in DirEntry
  BY DiskFacts DEF Dirs, DirEntry
<1> HIDE DEF empty
<1>4. \/ start = 0 /\ \A j \in Clusters : j >= 2 => FatEntry(empty.fat, j) # 0
      \/ start \in Clusters /\ FatEntry(empty.fat, start) = 0
  BY <1>1, FreeEffect
<1>5. CASE start = 0
  <2>1. FreeClusters(d) = {}
    <3>1. \A j \in Clusters : FatEntry(empty.fat, j) # 0
      BY <1>4, <1>5, ClusterFacts
    <3> QED BY <1>1, <3>1 DEF FreeClusters, SameEntries
  <2>2. HasFile(empty, id)
    BY <1>1 DEF HasFile
  <2>5. empty.dir[id].first = 0 \/ FatEntry(empty.fat, empty.dir[id].first) = 0
    <3>1. d.dir[id].first \in Clusters \cup {0}
      BY <1>3 DEF DirEntry
    <3> QED BY <1>1, <3>1 DEF SameEntries
  <2> DEFINE e == DSKDelete(empty, id)
  <2>3. /\ e \in Disks(U) /\ e.data = empty.data /\ SameEntries(empty, e)
        /\ e.dir = [empty.dir EXCEPT ![id] = [empty.dir[id] EXCEPT !.name = Erased(empty.dir[id].name)]]
    <3>1. OnlyErased(U, empty, id)
      BY <1>1, <2>2, <2>5, EmptyErased
    <3> QED BY <3>1 DEF OnlyErased
  <2>4. r.dsk = e /\ r.written = 0
    BY <1>2, <1>5
  <2> HIDE DEF e, r
  <2>6. NoRoom(U, d, id, r)
    BY <1>1, <2>1, <2>3, <2>4 DEF NoRoom, SameEntries
  <2> QED BY <2>6 DEF r
<1>6. CASE start # 0
  <2>1. start \in Clusters /\ FatEntry(empty.fat, start) = 0
    BY <1>4, <1>6
  <2> DEFINE new == [empty.dir[id] EXCEPT !.first = start]
  <2>2. new \in DirEntry /\ d0 = [empty EXCEPT !.dir[id] = new]
    <3>1. start \in Clusters \cup {0}
      BY <2>1
    <3> HIDE DEF start
    <3> QED BY <1>1, <3>1, FieldChanged DEF DirEntry
  <2>3. d0 \in Disks(U) /\ d0.fat = empty.fat /\ d0.data = empty.data /\ d0.dir = [empty.dir EXCEPT ![id] = new]
    <3> HIDE DEF new, d0
    <3> QED BY <1>1, <2>2, Renamed DEF DirEntry
  <2>4. start = FindFreeCluster(d0, 2)
    <3> HIDE DEF d0
    <3> QED BY <2>3 DEF FindFreeCluster
  <2> HIDE DEF d0
  <2>5. /\ w \in Writes(U) /\ w.j = EndOfChain
        /\ \E c : WrittenSoFar(d0, start, buf, Turns, w, c)
    <3> HIDE DEF start
    <3> QED BY <1>6, <2>3, <2>4, WriteEffect
  <2> HIDE DEF w
  <2>6. PICK c : WrittenSoFar(d0, start, buf, Turns, w, c)
    BY <2>5
  <2>7. c \in Seq(Clusters) /\ Following(d0, start, w, c) /\ InClusters(w.dsk, c, buf) /\ Stops(d0, buf, Turns, w, c)
    BY <2>5, <2>6 DEF WrittenSoFar
  <2>8. w.dsk \in Disks(U) /\ w.written \in Nat
    BY <2>5 DEF Writes
  <2> DEFINE last == [w.dsk.dir[id] EXCEPT !.size = w.written]
             e == [w.dsk EXCEPT !.dir[id].size = w.written]
  <2>9. last \in DirEntry /\ e = [w.dsk EXCEPT !.dir[id] = last]
    BY <2>8, FieldChanged DEF DirEntry
  <2>10. e \in Disks(U) /\ e.fat = w.dsk.fat /\ e.data = w.dsk.data /\ e.dir = [w.dsk.dir EXCEPT ![id] = last]
    <3> HIDE DEF last, e
    <3> QED BY <2>8, <2>9, Renamed DEF DirEntry
  <2>11. r.dsk = e /\ r.written = w.written
    <3> HIDE DEF e, start
    <3> QED BY <1>2, <1>6 DEF e
  <2>12. /\ Len(c) \in Nat /\ Len(c) >= 1 /\ DOMAIN c = 1 .. Len(c)
         /\ c[1] = start
    <3>1. Len(c) \in Nat /\ Len(c) >= 1 /\ DOMAIN c = 1 .. Len(c)
      BY <2>7, LenProperties DEF Stops
    <3>2. Then(c, w.j, 1) = start
      BY <2>7 DEF Following
    <3> QED BY <3>1, <3>2 DEF Then
  <2>13. Len(c) < Turns
    <3>1. Len(c) \in DOMAIN c
      BY <2>12
    <3>2. c[Len(c)] >= Len(c) + 1
      BY <2>7, <3>1 DEF Following
    <3>3. c[Len(c)] \in Clusters
      BY <2>7, <2>12, <3>1, LenProperties
    <3>4. c[Len(c)] \in Nat /\ c[Len(c)] < Turns /\ Turns \in Nat
      BY <3>3, ClusterFacts DEF Turns
    <3> QED BY <2>12, <3>2, <3>4
  <2>14. e.dir = [d.dir EXCEPT ![id] = [name |-> d.dir[id].name, first |-> c[1], size |-> w.written]]
    <3>1. w.dsk.dir = d0.dir
      BY <2>7 DEF Following
    <3>2. w.dsk.dir = [d.dir EXCEPT ![id] = new]
      BY <1>1, <2>3, <3>1
    <3>3. w.dsk.dir[id] = [d.dir[id] EXCEPT !.first = start]
      BY <1>1, <1>3, <3>2 DEF Dirs
    <3>4. last = [name |-> d.dir[id].name, first |-> start, size |-> w.written]
      <4> DEFINE x == d.dir[id]
                 y == w.dsk.dir[id]
      <4>1. x = [name |-> x.name, first |-> x.first, size |-> x.size]
        BY <1>3 DEF DirEntry
      <4>2. y = [x EXCEPT !.first = start]
        BY <3>3
      <4> HIDE DEF x, y, start
      <4>3. y = [name |-> x.name, first |-> start, size |-> x.size]
        BY <4>1, <4>2
      <4>4. [y EXCEPT !.size = w.written] = [name |-> x.name, first |-> start, size |-> w.written]
        BY <4>3
      <4> QED BY <4>4 DEF x, y
    <3> HIDE DEF last, new, start, e
    <3> QED BY <1>3, <2>10, <2>12, <3>2, <3>4 DEF Dirs
  <2>15. Path(e, c, EndOfChain)
    <3>1. Path(w.dsk, c, w.j)
      BY <2>7 DEF Following
    <3> HIDE DEF e
    <3> QED BY <2>5, <2>10, <3>1 DEF Path
  <2>16. InClusters(e, c, buf)
    <3> HIDE DEF e
    <3> QED BY <2>7, <2>10 DEF InClusters
  <2>17. \A k \in Clusters : FatEntry(d0.fat, k) = FatEntry(d.fat, k) /\ d0.data[k] = d.data[k]
    BY <1>1, <2>3 DEF SameEntries
  <2>18. \A a \in DOMAIN c : FatEntry(d.fat, c[a]) = 0
    <3>1. \A a \in DOMAIN c : FatEntry(d0.fat, c[a]) = 0
      BY <2>7 DEF Following
    <3>2. \A a \in DOMAIN c : c[a] \in Clusters
      BY <2>7, LenProperties
    <3> QED BY <2>17, <3>1, <3>2
  <2>19. \A k \in Clusters :
           ~On(c, k) => FatEntry(e.fat, k) = FatEntry(d.fat, k) /\ e.data[k] = d.data[k]
    <3>1. \A k \in Clusters :
            ~On(c, k) => FatEntry(w.dsk.fat, k) = FatEntry(d0.fat, k) /\ w.dsk.data[k] = d0.data[k]
      BY <2>7 DEF Following
    <3> HIDE DEF e
    <3> QED BY <2>10, <2>17, <3>1
  <2>20. w.written < Len(buf) => Full(d, c)
    <3>1. w.written < Len(buf) => Full(d0, c)
      BY <2>7 DEF Stops
    <3> QED BY <2>17, <3>1 DEF Full
  <2>21. w.written = Upto(buf, Len(c)) /\ Upto(buf, Len(c) - 1) < Len(buf)
    BY <2>7 DEF Stops
  <2> HIDE DEF e, r, last, new, start
  <2>22. Filled(U, d, id, buf, r, c)
    BY <2>7, <2>10, <2>11, <2>12, <2>13, <2>14, <2>15, <2>16, <2>18, <2>19, <2>20, <2>21 DEF Filled
  <2> QED BY <2>22 DEF r
<1> QED BY <1>5, <1>6

\* What a turn of the loop over a directory leaves alone.
Spared(d, e, id) ==
  /\ \A k \in IDs : k # id => e.dir[k] = d.dir[k]
  /\ \A k \in Clusters :
       FatEntry(d.fat, k) # 0 => FatEntry(e.fat, k) = FatEntry(d.fat, k) /\ e.data[k] = d.data[k]
Skipped(d, f) ==
  \/ f.bytes = <<>>
  \/ \E k \in FileIDs(d) : d.dir[k].name = Name83(f.name)
  \/ FileIDs(d) = IDs
Added(U, d, f, e, id, c) ==
  /\ e \in Disks(U) /\ id \in IDs /\ ~HasFile(d, id) /\ HasFile(e, id) /\ Spared(d, e, id)
  /\ e.dir[id].name = Name83(f.name) /\ \A k \in FileIDs(d) : d.dir[k].name # Name83(f.name)
  /\ File(e, id, c, f.bytes)
  /\ \A a \in DOMAIN c : FatEntry(d.fat, c[a]) = 0
  /\ \A k \in Clusters : ~On(c, k) => FatEntry(e.fat, k) = FatEntry(d.fat, k)
Refused(U, d, f, e, id) ==
  /\ e \in Disks(U) /\ id \in IDs /\ ~HasFile(d, id) /\ ~HasFile(e, id) /\ Spared(d, e, id)
  /\ SameEntries(d, e)
  /\ \/ Name83(f.name)[1] = Deleted
     \/ Len(f.bytes) > DSK_CLUSTER_SIZE * Cardinality(FreeClusters(d))

\* A file that was cut is deleted again.
LEMMA CutFile ==
  ASSUME NEW U, NEW d \in Disks(U), NEW id \in IDs, HasFile(d, id),
         NEW buf \in Seq(U), NEW r, NEW c, Filled(U, d, id, buf, r, c), r.written < Len(buf)
  PROVE  LET e == DSKDelete(r.dsk, id) IN
         /\ e \in Disks(U) /\ ~HasFile(e, id) /\ Spared(d, e, id) /\ SameEntries(d, e)
         /\ Len(buf) > DSK_CLUSTER_SIZE * Cardinality(FreeClusters(d))
<1> DEFINE e == DSKDelete(r.dsk, id)
           x == r.dsk
           new == [name |-> d.dir[id].name, first |-> c[1], size |-> r.written]
<1>1. /\ x \in Disks(U) /\ c \in Seq(Clusters) /\ x.dir = [d.dir EXCEPT ![id] = new]
      /\ Path(x, c, EndOfChain) /\ Len(c) >= 1 /\ Len(c) < Turns
      /\ r.written = Upto(buf, Len(c)) /\ Full(d, c)
      /\ \A a \in DOMAIN c : FatEntry(d.fat, c[a]) = 0
      /\ \A k \in Clusters :
           ~On(c, k) => FatEntry(x.fat, k) = FatEntry(d.fat, k) /\ x.data[k] = d.data[k]
  BY DEF Filled
<1>2. Len(c) \in Nat /\ DOMAIN c = 1 .. Len(c) /\ Len(buf) \in Nat /\ DSK_CLUSTER_SIZE \in Nat /\ Turns \in Nat
  <2>1. c \in Seq(Clusters)
    BY <1>1
  <2>2. Len(c) \in Nat /\ DOMAIN c = 1 .. Len(c) /\ Len(buf) \in Nat
    BY <2>1, LenProperties
  <2> QED BY <2>2, ClusterFacts
<1>3. d.dir \in Dirs /\ x.dir[id] = new /\ \A k \in IDs : k # id => x.dir[k] = d.dir[k]
  <2>1. d.dir \in Dirs
    BY DiskFacts
  <2> HIDE DEF new
  <2> QED BY <1>1, <2>1 DEF Dirs
<1>4. HasFile(x, id)
  BY <1>3 DEF HasFile
<1>5. x.dir[id].first = Then(c, EndOfChain, 1)
  BY <1>1, <1>2, <1>3 DEF Then
<1> HIDE DEF x, new
<1>6. /\ DSKDelete(x, id) \in Disks(U) /\ DSKDelete(x, id).data = x.data
      /\ DSKDelete(x, id).dir = [x.dir EXCEPT ![id] = [x.dir[id] EXCEPT !.name = Erased(x.dir[id].name)]]
      /\ \A k \in Clusters : FatEntry(DSKDelete(x, id).fat, k) = IF On(c, k) THEN 0 ELSE FatEntry(x.fat, k)
  <2>1. EndOfChain \in {0, EndOfChain} /\ Len(c) <= Turns
    BY <1>1, <1>2
  <2>2. x \in Disks(U) /\ Path(x, c, EndOfChain)
    BY <1>1
  <2> QED BY <1>4, <1>5, <2>1, <2>2, DeleteEffect
<1>7. /\ e \in Disks(U) /\ e.data = x.data
      /\ e.dir = [x.dir EXCEPT ![id] = [x.dir[id] EXCEPT !.name = Erased(x.dir[id].name)]]
      /\ \A k \in Clusters : FatEntry(e.fat, k) = IF On(c, k) THEN 0 ELSE FatEntry(x.fat, k)
  BY <1>6 DEF x
<1> HIDE DEF e
<1>8. \A k \in Clusters : On(c, k) => FatEntry(d.fat, k) = 0
  BY <1>1 DEF On
<1>9. SameEntries(d, e)
  BY <1>1, <1>7, <1>8 DEF SameEntries
<1>10. ~HasFile(e, id) /\ \A k \in IDs : k # id => e.dir[k] = d.dir[k]
  <2>1. x.dir \in Dirs
    BY <1>1, DiskFacts
  <2>2. e.dir[id].name = Erased(x.dir[id].name) /\ x.dir[id].name \in Names /\ x.dir[id].name # Unused
    BY <1>4, <1>7, <2>1 DEF Dirs, HasFile
  <2>3. \A k \in IDs : k # id => e.dir[k] = d.dir[k]
    BY <1>3, <1>7, <2>1 DEF Dirs
  <2> QED BY <2>2, <2>3, ErasedFacts DEF HasFile
<1>11. Spared(d, e, id)
  <2>1. \A k \in Clusters : FatEntry(d.fat, k) # 0 => FatEntry(e.fat, k) = FatEntry(d.fat, k) /\ e.data[k] = d.data[k]
    BY <1>1, <1>7, <1>8, <1>9 DEF SameEntries
  <2> QED BY <1>10, <2>1 DEF Spared
<1>12. Len(buf) > DSK_CLUSTER_SIZE * Cardinality(FreeClusters(d))
  <2>1. FreeClusters(d) = {k \in Clusters : On(c, k)}
    BY <1>1, <1>8 DEF Full, FreeClusters
  <2>2. Cardinality(FreeClusters(d)) = Len(c)
    <3>1. \A a, b \in DOMAIN c : c[a] = c[b] => a = b
      BY <1>1 DEF Path
    <3>2. Cardinality({k \in Clusters : On(c, k)}) = Len(c)
      BY <1>1, <3>1, ChainSize
    <3> QED BY <2>1, <3>2
  <2>3. Len(c) * DSK_CLUSTER_SIZE \in Nat /\ Len(c) * DSK_CLUSTER_SIZE = DSK_CLUSTER_SIZE * Len(c)
    BY <1>2, Times
  <2>4. Len(c) * DSK_CLUSTER_SIZE < Len(buf)
    BY <1>1, <1>2, <2>3 DEF Upto
  <2> QED BY <1>2, <2>2, <2>3, <2>4
<1> QED BY <1>7, <1>9, <1>10, <1>11, <1>12 DEF e, x

\* A file that was written to its end.
LEMMA WholeFile ==
  ASSUME NEW U, NEW d \in Disks(U), NEW id \in IDs, HasFile(d, id),
         NEW buf \in Seq(U), NEW r, NEW c, Filled(U, d, id, buf, r, c), r.written = Len(buf)
  PROVE  /\ File(r.dsk, id, c, buf) /\ Spared(d, r.dsk, id)
         /\ r.dsk.dir[id].name = d.dir[id].name
<1> DEFINE x == r.dsk
           new == [name |-> d.dir[id].name, first |-> c[1], size |-> r.written]
<1>1. /\ x \in Disks(U) /\ c \in Seq(Clusters) /\ x.dir = [d.dir EXCEPT ![id] = new]
      /\ Path(x, c, EndOfChain) /\ InClusters(x, c, buf) /\ Len(c) >= 1 /\ Len(c) < Turns
      /\ r.written = Upto(buf, Len(c)) /\ Upto(buf, Len(c) - 1) < Len(buf)
      /\ \A a \in DOMAIN c : FatEntry(d.fat, c[a]) = 0
      /\ \A k \in Clusters :
           ~On(c, k) => FatEntry(x.fat, k) = FatEntry(d.fat, k) /\ x.data[k] = d.data[k]
  BY DEF Filled
<1>2. Len(c) \in Nat /\ DOMAIN c = 1 .. Len(c) /\ Len(buf) \in Nat /\ DSK_CLUSTER_SIZE \in Nat /\ Turns \in Nat
  <2>1. c \in Seq(Clusters)
    BY <1>1
  <2>2. Len(c) \in Nat /\ DOMAIN c = 1 .. Len(c) /\ Len(buf) \in Nat
    BY <2>1, LenProperties
  <2> QED BY <2>2, ClusterFacts
<1>3. d.dir \in Dirs /\ x.dir[id] = new /\ \A k \in IDs : k # id => x.dir[k] = d.dir[k]
  <2>1. d.dir \in Dirs
    BY DiskFacts
  <2> HIDE DEF new
  <2> QED BY <1>1, <2>1 DEF Dirs
<1>4. Fits(c, buf)
  <2>1. Len(c) - 1 \in Nat /\ Len(c) - 1 <= Len(c)
    BY <1>1, <1>2
  <2>2. (Len(c) - 1) * DSK_CLUSTER_SIZE \in Nat /\ Len(c) * DSK_CLUSTER_SIZE \in Nat
    BY <1>2, <2>1, Times
  <2>3. (Len(c) - 1) * DSK_CLUSTER_SIZE < Len(buf)
    BY <1>1, <1>2, <2>2 DEF Upto
  <2>4. Len(buf) <= Len(c) * DSK_CLUSTER_SIZE
    BY <1>1, <1>2, <2>2 DEF Upto
  <2> QED BY <1>1, <2>3, <2>4 DEF Fits
<1>5. x.dir[id].first = c[1] /\ x.dir[id].size = Len(buf) /\ x.dir[id].name = d.dir[id].name
  BY <1>3
<1>6. \A k \in Clusters : On(c, k) => FatEntry(d.fat, k) = 0
  BY <1>1 DEF On
<1> HIDE DEF x, new
<1>7. Spared(d, x, id)
  BY <1>1, <1>3, <1>6 DEF Spared
<1>8. File(x, id, c, buf)
  BY <1>1, <1>4, <1>5 DEF File
<1> QED BY <1>5, <1>7, <1>8 DEF x

\* A new file has the first free cluster, which stays free for now.
LEMMA NewFile ==
  ASSUME NEW U, NEW d \in Disks(U), NEW name \in Names, name # Unused,
         NewID(d, name) # 0
  PROVE  LET id == NewID(d, name)
             e == DSKFile(d, name) IN
         /\ id \in IDs /\ ~HasFile(d, id) /\ \A k \in FileIDs(d) : d.dir[k].name # name
         /\ e \in Disks(U) /\ e.fat = d.fat /\ e.data = d.data
         /\ e.dir[id].name = name /\ (HasFile(e, id) <=> name[1] # Deleted)
         /\ \A k \in IDs : k # id => e.dir[k] = d.dir[k]
         /\ e.dir[id].first = 0 \/ FatEntry(e.fat, e.dir[id].first) = 0
<1> DEFINE id == NewID(d, name)
           first == FindFreeCluster(d, 2)
           new == [name |-> name, first |-> first, size |-> 0]
           e == DSKFile(d, name)
<1>1. id \in IDs /\ ~HasFile(d, id) /\ \A k \in FileIDs(d) : d.dir[k].name # name
  BY NewIDFacts
<1>2. e = [d EXCEPT !.dir[id] = new]
  BY DEF DSKFile
<1>3. first = 0 \/ (first \in Clusters /\ FatEntry(d.fat, first) = 0)
  BY FreeEffect
<1> HIDE DEF id, first, e
<1>4. new \in [name : Names, first : Clusters \cup {0}, size : Nat]
  BY <1>3
<1>5. new.name = name /\ new.first = first
  OBVIOUS
<1> HIDE DEF new
<1>6. [d EXCEPT !.dir[id] = new] \in Disks(U) /\ [d EXCEPT !.dir[id] = new].fat = d.fat
      /\ [d EXCEPT !.dir[id] = new].data = d.data
      /\ [d EXCEPT !.dir[id] = new].dir = [d.dir EXCEPT ![id] = new]
  BY <1>1, <1>4, Renamed
<1>7. e \in Disks(U) /\ e.fat = d.fat /\ e.data = d.data /\ e.dir = [d.dir EXCEPT ![id] = new]
  BY <1>2, <1>6
<1>8. d.dir \in Dirs
  BY DiskFacts
<1>9. e.dir[id] = new /\ \A k \in IDs : k # id => e.dir[k] = d.dir[k]
  BY <1>1, <1>7, <1>8 DEF Dirs
<1>10. HasFile(e, id) <=> name[1] # Deleted
  BY <1>5, <1>9 DEF HasFile
<1> QED BY <1>1, <1>3, <1>5, <1>7, <1>9, <1>10 DEF id, e

LEMMA AddedFile ==
  ASSUME NEW U, NEW d \in Disks(U), NEW f \in HostFiles(U)
  PROVE  LET e == WithFile(d, f) IN
         \/ (e = d /\ Skipped(d, f))
         \/ (\E id, c : Added(U, d, f, e, id, c))
         \/ (\E id : Refused(U, d, f, e, id))
<1> DEFINE name == Name83(f.name)
           id == NewID(d, name)
           d1 == DSKFile(d, name)
           w == DSKWrite(d1, id, f.bytes)
           e == WithFile(d, f)
<1>1. f.bytes \in Seq(U) /\ f.name \in Seq(DOMAIN toupper)
  BY DEF HostFiles
<1>2. name \in Names /\ name # Unused
  BY <1>1, NameFacts
<1>3. e = IF f.bytes = <<>> \/ id = 0 THEN d
          ELSE IF w.written = Len(f.bytes) THEN w.dsk ELSE DSKDelete(w.dsk, id)
  BY DEF WithFile
<1>4. CASE f.bytes = <<>> \/ id = 0
  <2>1. e = d
    <3> HIDE DEF e, id
    <3> QED BY <1>3, <1>4
  <2>2. id = 0 => FileIDs(d) = IDs \/ \E k \in FileIDs(d) : d.dir[k].name = name
    BY NewIDFacts
  <2>3. Skipped(d, f)
    <3> HIDE DEF id
    <3> QED BY <1>4, <2>2 DEF Skipped
  <2> QED BY <2>1, <2>3
<1>5. CASE f.bytes # <<>> /\ id # 0
  <2>1. /\ id \in IDs /\ ~HasFile(d, id) /\ \A k \in FileIDs(d) : d.dir[k].name # name
        /\ d1 \in Disks(U) /\ d1.fat = d.fat /\ d1.data = d.data
        /\ d1.dir[id].name = name /\ (HasFile(d1, id) <=> name[1] # Deleted)
        /\ \A k \in IDs : k # id => d1.dir[k] = d.dir[k]
        /\ d1.dir[id].first = 0 \/ FatEntry(d1.fat, d1.dir[id].first) = 0
    <3> HIDE DEF name
    <3> QED BY <1>2, <1>5, NewFile
  <2> HIDE DEF d1, id, name
  <2>2. HasFile(d1, id) => NoRoom(U, d1, id, w) \/ \E c : Filled(U, d1, id, f.bytes, w, c)
    BY <1>1, <1>5, <2>1, WrittenFile
  <2>3. e = IF w.written = Len(f.bytes) THEN w.dsk ELSE DSKDelete(w.dsk, id)
    <3> HIDE DEF e, w
    <3> QED BY <1>3, <1>5
  <2>4. Len(f.bytes) \in Nat /\ Len(f.bytes) # 0
    BY <1>1, <1>5, LenProperties, EmptySeq
  <2> HIDE DEF w, e
  <2>5. ASSUME NEW x, Spared(d1, x, id) PROVE Spared(d, x, id)
    BY <2>1, <2>5 DEF Spared
  <2>6. ASSUME NEW x, SameEntries(d1, x) PROVE SameEntries(d, x)
    BY <2>1, <2>6 DEF SameEntries
  <2>7. FreeClusters(d1) = FreeClusters(d)
    BY <2>1 DEF FreeClusters
  <2>10. CASE ~HasFile(d1, id)
    <3>1. w = [dsk |-> d1, written |-> 0]
      BY <2>10 DEF DSKWrite, w
    <3>2. e = d1
      <4>1. e = DSKDelete(d1, id)
        BY <2>3, <2>4, <3>1
      <4>2. DSKDelete(d1, id) = d1
        BY ONLY <2>10 DEF DSKDelete
      <4> QED BY <4>1, <4>2
    <3>3. Spared(d1, d1, id) /\ SameEntries(d1, d1)
      BY DEF Spared, SameEntries
    <3>4. Refused(U, d, f, e, id)
      BY <2>1, <2>5, <2>6, <2>10, <3>2, <3>3 DEF Refused, name
    <3> QED BY <3>4 DEF e
  <2>8. CASE HasFile(d1, id) /\ NoRoom(U, d1, id, w)
    <3>1. /\ w.written = 0 /\ FreeClusters(d1) = {}
          /\ w.dsk \in Disks(U) /\ w.dsk.data = d1.data /\ SameEntries(d1, w.dsk)
          /\ w.dsk.dir = [d1.dir EXCEPT ![id] = [d1.dir[id] EXCEPT !.name = Erased(d1.dir[id].name)]]
      BY <2>8 DEF NoRoom
    <3>2. d1.dir \in Dirs
      BY <2>1, DiskFacts
    <3>3. /\ w.dsk.dir[id].name = Erased(d1.dir[id].name) /\ d1.dir[id].name \in Names
          /\ \A k \in IDs : k # id => w.dsk.dir[k] = d1.dir[k]
      BY <2>1, <3>1, <3>2 DEF Dirs
    <3>4. ~HasFile(w.dsk, id)
      BY <2>8, <3>3, ErasedFacts DEF HasFile
    <3>5. e = w.dsk
      <4>1. e = DSKDelete(w.dsk, id)
        BY <2>3, <2>4, <3>1
      <4>2. DSKDelete(w.dsk, id) = w.dsk
        BY <3>4 DEF DSKDelete
      <4> QED BY <4>1, <4>2
    <3>6. Spared(d1, e, id)
      BY <3>1, <3>3, <3>5 DEF Spared, SameEntries
    <3>7. SameEntries(d1, e)
      BY <3>1, <3>5
    <3>8. Len(f.bytes) > DSK_CLUSTER_SIZE * Cardinality(FreeClusters(d))
      <4>1. Cardinality(FreeClusters(d)) = 0
        BY <2>7, <3>1, FS_EmptySet
      <4>2. DSK_CLUSTER_SIZE * 0 = 0
        BY ClusterFacts
      <4> QED BY <2>4, <4>1, <4>2
    <3>9. Refused(U, d, f, e, id)
      BY <2>1, <2>5, <2>6, <3>1, <3>4, <3>5, <3>6, <3>7, <3>8 DEF Refused
    <3> QED BY <3>9 DEF e
  <2>9. CASE HasFile(d1, id) /\ \E c : Filled(U, d1, id, f.bytes, w, c)
    <3>1. PICK c : Filled(U, d1, id, f.bytes, w, c)
      BY <2>9
    <3>2. /\ w.written = Upto(f.bytes, Len(c)) /\ c \in Seq(Clusters) /\ w.dsk \in Disks(U)
          /\ \A a \in DOMAIN c : FatEntry(d1.fat, c[a]) = 0
          /\ \A k \in Clusters : ~On(c, k) => FatEntry(w.dsk.fat, k) = FatEntry(d1.fat, k)
      BY <3>1 DEF Filled
    <3>3. w.written = Len(f.bytes) \/ w.written < Len(f.bytes)
      <4>1. Len(c) \in Nat /\ DSK_CLUSTER_SIZE \in Nat
        BY <3>2, LenProperties, ClusterFacts
      <4>2. Len(c) * DSK_CLUSTER_SIZE \in Nat
        BY <4>1, Times
      <4> QED BY <2>4, <3>2, <4>2 DEF Upto
    <3>4. CASE w.written = Len(f.bytes)
      <4>1. e = w.dsk
        BY <2>3, <3>4
      <4>2. File(e, id, c, f.bytes) /\ Spared(d1, e, id) /\ e.dir[id].name = d1.dir[id].name
        <5>1. d1 \in Disks(U) /\ id \in IDs /\ HasFile(d1, id) /\ f.bytes \in Seq(U)
          BY <1>1, <2>1, <2>9
        <5>2. File(w.dsk, id, c, f.bytes) /\ Spared(d1, w.dsk, id) /\ w.dsk.dir[id].name = d1.dir[id].name
          BY ONLY <5>1, <3>1, <3>4, WholeFile
        <5> QED BY <4>1, <5>2
      <4>3. HasFile(e, id)
        BY <2>9, <4>2 DEF HasFile
      <4>4. Spared(d, e, id)
        BY <2>5, <4>2
      <4>5. Added(U, d, f, e, id, c)
        BY <2>1, <3>2, <4>1, <4>2, <4>3, <4>4 DEF Added, name
      <4> QED BY <4>5 DEF e
    <3>5. CASE w.written < Len(f.bytes)
      <4>1. e = DSKDelete(w.dsk, id)
        BY <2>3, <2>4, <3>2, <3>5
      <4>2. /\ e \in Disks(U) /\ ~HasFile(e, id) /\ Spared(d1, e, id) /\ SameEntries(d1, e)
            /\ Len(f.bytes) > DSK_CLUSTER_SIZE * Cardinality(FreeClusters(d1))
        BY <1>1, <2>1, <2>9, <3>1, <3>5, <4>1, CutFile
      <4>3. Refused(U, d, f, e, id)
        BY <2>1, <2>5, <2>6, <2>7, <4>2 DEF Refused
      <4> QED BY <4>3 DEF e
    <3> QED BY <3>3, <3>4, <3>5
  <2> QED BY <2>2, <2>8, <2>9, <2>10
<1> QED BY <1>4, <1>5

\* A file is where it was, in clusters that are not free.
LEMMA FileKept ==
  ASSUME NEW U, NEW d \in Disks(U), NEW e, NEW id \in IDs, NEW bytes \in Seq(U), NEW c,
         File(d, id, c, bytes), e.dir[id] = d.dir[id],
         \A k \in Clusters :
           FatEntry(d.fat, k) # 0 => FatEntry(e.fat, k) = FatEntry(d.fat, k) /\ e.data[k] = d.data[k]
  PROVE  File(e, id, c, bytes) /\ \A a \in DOMAIN c : c[a] \in Clusters /\ FatEntry(d.fat, c[a]) # 0
<1>1. /\ c \in Seq(Clusters) /\ Len(c) \in Nat /\ DOMAIN c = 1 .. Len(c)
      /\ \A a \in 1 .. Len(c) : c[a] \in Clusters
  BY FileFacts
<1>2. \A a \in DOMAIN c : FatEntry(d.fat, c[a]) = Then(c, EndOfChain, a + 1)
  BY DEF File, Path
<1>3. \A a \in DOMAIN c : Then(c, EndOfChain, a + 1) # 0
  <2> TAKE a \in DOMAIN c
  <2>1. CASE a + 1 <= Len(c)
    <3>1. a + 1 \in 1 .. Len(c)
      BY <1>1, <2>1
    <3>2. c[a + 1] \in Clusters
      BY <1>1, <3>1
    <3> QED BY <2>1, <3>2, ClusterFacts DEF Then
  <2>2. CASE ~(a + 1 <= Len(c))
    BY <2>2, ClusterFacts DEF Then
  <2> QED BY <2>1, <2>2
<1>4. \A a \in DOMAIN c : c[a] \in Clusters /\ FatEntry(d.fat, c[a]) # 0
  BY <1>1, <1>2, <1>3
<1>5. Path(e, c, EndOfChain)
  BY <1>4 DEF File, Path
<1>6. InClusters(e, c, bytes)
  BY <1>4 DEF File, InClusters
<1> QED BY <1>4, <1>5, <1>6 DEF File

(***************************************************************************)
(* Disks that hold the files read so far, with the chain ch[id] of each.   *)
(***************************************************************************)
Backed(files, d, id, c) ==
  \E f \in files : Name83(f.name) = d.dir[id].name /\ File(d, id, c, f.bytes)
Accounted(d, f) ==
  \/ f.bytes = <<>> \/ Name83(f.name)[1] = Deleted
  \/ \E id \in FileIDs(d) : d.dir[id].name = Name83(f.name)
  \/ FileIDs(d) = DOMAIN d.dir
  \/ Len(f.bytes) > DSK_CLUSTER_SIZE * Cardinality(FreeClusters(d))
Apart(ch) ==
  \A i, k \in IDs : \A a \in DOMAIN ch[i] : \A b \in DOMAIN ch[k] : ch[i][a] = ch[k][b] => i = k
Holding(U, files, d, ch) ==
  /\ d \in Disks(U) /\ ch \in [IDs -> Seq(Clusters)]
  /\ \A id \in FileIDs(d) : Backed(files, d, id, ch[id])
  /\ \A id \in IDs : ~HasFile(d, id) => ch[id] = <<>>
  /\ Apart(ch)
  /\ \A j \in Clusters : FatEntry(d.fat, j) # 0 => \E id \in IDs : On(ch[id], j)
  /\ NamesDiffer(d)
  /\ \A f \in files : Accounted(d, f)

LEMMA IDFacts ==
  ASSUME NEW U, NEW d \in Disks(U)
  PROVE  FileIDs(d) \subseteq IDs /\ \A id \in IDs : HasFile(d, id) <=> id \in FileIDs(d)
BY DiskFacts DEF FileIDs

LEMMA HoldingFresh ==
  ASSUME NEW U
  PROVE  Holding(U, {}, DSKCreate, [id \in IDs |-> <<>>])
<1> DEFINE d == DSKCreate
           ch == [id \in IDs |-> <<>>]
           all == 0 .. At(DSK_FAT_SIZE) + 2
           entry == [name |-> Unused, first |-> 0, size |-> 0]
<1>1. d.fat \in Table /\ \A b \in all : b > 2 => d.fat[b] = 0
  <2>1. d.fat = [b \in all |-> CASE b = 0 -> 249 [] b \in {1, 2} -> 255 [] OTHER -> 0]
    BY DEF DSKCreate
  <2>2. \A b \in all : d.fat[b] \in Byte
    BY <2>1 DEF Byte
  <2> HIDE DEF d
  <2> QED BY <2>1, <2>2 DEF Table
<1>2. d.fat2 = [b \in all |-> 0]
  BY DEF DSKCreate
<1>3. d.dir = [id \in IDs |-> entry]
  BY DEF DSKCreate, IDs
<1>4. d.data = [j \in Clusters |-> <<>>]
  BY DEF DSKCreate, Clusters
<1>5. \A j \in Clusters : FatEntry(d.fat, j) = 0
  <2> TAKE j \in Clusters
  <2>1. At(j) \in Int /\ {At(j), At(j) + 1, At(j) + 2} \subseteq all
    BY ClusterFacts, AtType
  <2>2. At(j) > 2
    <3>1. j \in Nat /\ j >= 2
      BY ClusterFacts
    <3> QED BY <3>1 DEF At
  <2>3. d.fat[At(j)] = 0 /\ d.fat[At(j) + 1] = 0 /\ d.fat[At(j) + 2] = 0
    <3> HIDE DEF d, all
    <3> QED BY <1>1, <2>1, <2>2
  <2> HIDE DEF d, all
  <2> QED BY <2>3 DEF FatEntry
<1>6. d \in DskRecords(U)
  <2>1. d = [fat |-> d.fat, fat2 |-> d.fat2, dir |-> d.dir, data |-> d.data]
    BY DEF DSKCreate
  <2>2. d.fat2 \in Table
    <3> HIDE DEF d
    <3> QED BY <1>2 DEF Table, Byte
  <2>3. d.dir \in Dirs
    <3> HIDE DEF d
    <3> QED BY <1>3 DEF Dirs, Names
  <2>4. d.data \in [Clusters -> Seq(U)]
    <3> HIDE DEF d
    <3> QED BY <1>4, EmptySeq
  <2> HIDE DEF d
  <2> QED BY <1>1, <2>1, <2>2, <2>3, <2>4 DEF DskRecords
<1> HIDE DEF d
<1>7. TablesAgree(d)
  BY <1>1, <1>2 DEF TablesAgree, Table
<1>8. d \in Disks(U)
  BY <1>5, <1>6, <1>7 DEF Disks, Links
<1>9. \A id \in IDs : ~HasFile(d, id)
  BY <1>3 DEF HasFile
<1>10. FileIDs(d) = {}
  BY <1>8, <1>9, IDFacts
<1>11. NamesDiffer(d)
  BY <1>10 DEF NamesDiffer
<1>12. ch \in [IDs -> Seq(Clusters)] /\ Apart(ch)
  <2>1. DOMAIN <<>> = {}
    OBVIOUS
  <2> QED BY <2>1, EmptySeq DEF Apart
<1>13. \A id \in IDs : ch[id] = <<>>
  OBVIOUS
<1> HIDE DEF ch
<1>14. Holding(U, {}, d, ch)
  BY <1>5, <1>8, <1>9, <1>10, <1>11, <1>12, <1>13 DEF Holding
<1> QED BY <1>14 DEF d, ch

\* What was accounted for stays so: files are added and clusters are used up.
LEMMA AccountedStays ==
  ASSUME NEW U, NEW d \in Disks(U), NEW e \in Disks(U), NEW f \in HostFiles(U), Accounted(d, f),
         FileIDs(d) \subseteq FileIDs(e), \A k \in FileIDs(d) : e.dir[k] = d.dir[k],
         FreeClusters(e) \subseteq FreeClusters(d)
  PROVE  Accounted(e, f)
<1>1. CASE f.bytes = <<>> \/ Name83(f.name)[1] = Deleted
  BY <1>1 DEF Accounted
<1>2. CASE \E id \in FileIDs(d) : d.dir[id].name = Name83(f.name)
  BY <1>2 DEF Accounted
<1>3. CASE FileIDs(d) = DOMAIN d.dir
  <2>1. DOMAIN d.dir = IDs /\ DOMAIN e.dir = IDs /\ FileIDs(e) \subseteq IDs
    BY DiskFacts, IDFacts
  <2>2. FileIDs(e) = DOMAIN e.dir
    BY <1>3, <2>1
  <2> QED BY <2>2 DEF Accounted
<1>4. CASE Len(f.bytes) > DSK_CLUSTER_SIZE * Cardinality(FreeClusters(d))
  <2> DEFINE m == Cardinality(FreeClusters(e))
             n == Cardinality(FreeClusters(d))
  <2>1. m \in Nat /\ n \in Nat /\ m <= n
    BY FreeSize, FS_Subset
  <2> HIDE DEF m, n
  <2>2. DSK_CLUSTER_SIZE \in Nat
    BY ClusterFacts
  <2>3. m * DSK_CLUSTER_SIZE <= n * DSK_CLUSTER_SIZE /\ m * DSK_CLUSTER_SIZE \in Nat /\ n * DSK_CLUSTER_SIZE \in Nat
    BY <2>1, <2>2, Times
  <2>4. m * DSK_CLUSTER_SIZE = DSK_CLUSTER_SIZE * m /\ n * DSK_CLUSTER_SIZE = DSK_CLUSTER_SIZE * n
    BY <2>1, <2>2
  <2>5. f.bytes \in Seq(U)
    BY DEF HostFiles
  <2>6. Len(f.bytes) \in Nat
    BY <2>5, LenProperties
  <2>7. Len(f.bytes) > DSK_CLUSTER_SIZE * n
    BY <1>4 DEF n
  <2>8. Len(f.bytes) > DSK_CLUSTER_SIZE * m
    BY <2>3, <2>4, <2>6, <2>7
  <2> QED BY <2>8 DEF Accounted, m
<1> QED BY <1>1, <1>2, <1>3, <1>4 DEF Accounted

\* The files of a disk are still there after a turn for another one.
StillThere(files, d, e, id, ch) ==
  /\ \A k \in FileIDs(d) :
       /\ k \in IDs /\ k # id /\ k \in FileIDs(e) /\ e.dir[k] = d.dir[k]
       /\ Backed(files, e, k, ch[k])
       /\ \A a \in DOMAIN ch[k] : FatEntry(d.fat, ch[k][a]) # 0
  /\ \A k \in FileIDs(e) : k = id \/ k \in FileIDs(d)
LEMMA HoldingFiles ==
  ASSUME NEW U, NEW files, files \subseteq HostFiles(U), NEW f \in HostFiles(U),
         NEW d, NEW ch, Holding(U, files, d, ch),
         NEW e \in Disks(U), NEW id \in IDs, ~HasFile(d, id), Spared(d, e, id)
  PROVE  StillThere(files \cup {f}, d, e, id, ch)
<1>1. d \in Disks(U) /\ \A k \in FileIDs(d) : Backed(files, d, k, ch[k])
  BY DEF Holding
<1>2. FileIDs(d) \subseteq IDs /\ FileIDs(e) \subseteq IDs
  BY <1>1, IDFacts
<1>3. id \notin FileIDs(d)
  BY DEF FileIDs
<1>4. \A k \in IDs : k # id => e.dir[k] = d.dir[k] /\ (HasFile(e, k) <=> HasFile(d, k))
  BY DEF Spared, HasFile
<1>5. ASSUME NEW k \in FileIDs(d)
      PROVE  /\ k \in IDs /\ k # id /\ k \in FileIDs(e) /\ e.dir[k] = d.dir[k]
             /\ Backed(files \cup {f}, e, k, ch[k])
             /\ \A a \in DOMAIN ch[k] : FatEntry(d.fat, ch[k][a]) # 0
  <2>1. k \in IDs /\ k # id /\ k \in FileIDs(e) /\ e.dir[k] = d.dir[k]
    <3>1. k \in IDs /\ k # id
      BY <1>2, <1>3
    <3>2. HasFile(d, k)
      BY DEF FileIDs
    <3>3. e.dir[k] = d.dir[k] /\ HasFile(e, k)
      BY <1>4, <3>1, <3>2
    <3> QED BY <3>1, <3>3, IDFacts
  <2>2. PICK g \in files : Name83(g.name) = d.dir[k].name /\ File(d, k, ch[k], g.bytes)
    BY <1>1 DEF Backed
  <2>3. g.bytes \in Seq(U)
    BY DEF HostFiles
  <2>4. \A j \in Clusters :
          FatEntry(d.fat, j) # 0 => FatEntry(e.fat, j) = FatEntry(d.fat, j) /\ e.data[j] = d.data[j]
    BY DEF Spared
  <2>5. File(e, k, ch[k], g.bytes) /\ \A a \in DOMAIN ch[k] : FatEntry(d.fat, ch[k][a]) # 0
    BY <1>1, <2>1, <2>2, <2>3, <2>4, FileKept
  <2>6. Backed(files \cup {f}, e, k, ch[k])
    BY <2>1, <2>2, <2>5 DEF Backed
  <2> QED BY <2>1, <2>5, <2>6
<1>6. ASSUME NEW k \in FileIDs(e), k # id PROVE k \in FileIDs(d)
  BY <1>1, <1>2, <1>4, <1>6, IDFacts
<1> QED BY <1>5, <1>6 DEF StillThere

LEMMA HoldingSkipped ==
  ASSUME NEW U, NEW files, files \subseteq HostFiles(U), NEW f \in HostFiles(U),
         NEW d, NEW ch, Holding(U, files, d, ch), Skipped(d, f)
  PROVE  Holding(U, files \cup {f}, d, ch)
<1>1. d \in Disks(U) /\ \A g \in files : Accounted(d, g)
  BY DEF Holding
<1>2. DOMAIN d.dir = IDs
  BY <1>1, DiskFacts
<1>3. Accounted(d, f)
  BY <1>2 DEF Accounted, Skipped
<1>4. \A id \in FileIDs(d) : Backed(files \cup {f}, d, id, ch[id])
  BY DEF Holding, Backed
<1>5. \A g \in files \cup {f} : Accounted(d, g)
  BY <1>1, <1>3
<1> QED BY <1>4, <1>5 DEF Holding

LEMMA HoldingRefused ==
  ASSUME NEW U, NEW files, files \subseteq HostFiles(U), NEW f \in HostFiles(U),
         NEW d, NEW ch, Holding(U, files, d, ch), NEW e, NEW id, Refused(U, d, f, e, id)
  PROVE  Holding(U, files \cup {f}, e, ch)
<1>1. /\ e \in Disks(U) /\ id \in IDs /\ ~HasFile(d, id) /\ ~HasFile(e, id) /\ Spared(d, e, id)
      /\ \A k \in Clusters : FatEntry(e.fat, k) = FatEntry(d.fat, k)
      /\ \/ Name83(f.name)[1] = Deleted
         \/ Len(f.bytes) > DSK_CLUSTER_SIZE * Cardinality(FreeClusters(d))
  BY DEF Refused, SameEntries
<1>2. /\ d \in Disks(U) /\ ch \in [IDs -> Seq(Clusters)] /\ Apart(ch) /\ NamesDiffer(d)
      /\ \A k \in IDs : ~HasFile(d, k) => ch[k] = <<>>
      /\ \A j \in Clusters : FatEntry(d.fat, j) # 0 => \E k \in IDs : On(ch[k], j)
      /\ \A g \in files : Accounted(d, g)
  BY DEF Holding
<1>3. /\ \A k \in FileIDs(d) :
              k \in FileIDs(e) /\ e.dir[k] = d.dir[k] /\ Backed(files \cup {f}, e, k, ch[k])
      /\ \A k \in FileIDs(e) : k = id \/ k \in FileIDs(d)
  <2>1. StillThere(files \cup {f}, d, e, id, ch)
    BY <1>1, HoldingFiles
  <2> QED BY <2>1 DEF StillThere
<1>4. FileIDs(e) = FileIDs(d)
  <2>1. id \notin FileIDs(e)
    BY <1>1 DEF FileIDs
  <2> QED BY <1>3, <2>1
<1>5. \A k \in FileIDs(e) : Backed(files \cup {f}, e, k, ch[k])
  BY <1>3, <1>4
<1>6. \A k \in IDs : ~HasFile(e, k) => ch[k] = <<>>
  BY <1>1, <1>2, <1>4, IDFacts
<1>7. \A j \in Clusters : FatEntry(e.fat, j) # 0 => \E k \in IDs : On(ch[k], j)
  BY <1>1, <1>2
<1>8. NamesDiffer(e)
  BY <1>2, <1>3, <1>4 DEF NamesDiffer
<1>9. FreeClusters(e) = FreeClusters(d)
  BY <1>1 DEF FreeClusters
<1>10. \A g \in files \cup {f} : Accounted(e, g)
  <2>1. Accounted(e, f)
    BY <1>1, <1>9 DEF Accounted
  <2>2. ASSUME NEW g \in files PROVE Accounted(e, g)
    <3>1. g \in HostFiles(U) /\ Accounted(d, g)
      BY <1>2
    <3> QED BY <1>1, <1>2, <1>3, <1>4, <1>9, <3>1, AccountedStays
  <2> QED BY <2>1, <2>2
<1> QED BY <1>1, <1>2, <1>5, <1>6, <1>7, <1>8, <1>10 DEF Holding

LEMMA HoldingAdded ==
  ASSUME NEW U, NEW files, files \subseteq HostFiles(U), NEW f \in HostFiles(U),
         NEW d, NEW ch, Holding(U, files, d, ch), NEW e, NEW id, NEW c, Added(U, d, f, e, id, c)
  PROVE  Holding(U, files \cup {f}, e, [ch EXCEPT ![id] = c])
<1> DEFINE new == [ch EXCEPT ![id] = c]
<1>1. /\ e \in Disks(U) /\ id \in IDs /\ ~HasFile(d, id) /\ HasFile(e, id) /\ Spared(d, e, id)
      /\ e.dir[id].name = Name83(f.name) /\ \A k \in FileIDs(d) : d.dir[k].name # Name83(f.name)
      /\ File(e, id, c, f.bytes)
      /\ \A a \in DOMAIN c : FatEntry(d.fat, c[a]) = 0
      /\ \A k \in Clusters : ~On(c, k) => FatEntry(e.fat, k) = FatEntry(d.fat, k)
  BY DEF Added
<1>2. /\ d \in Disks(U) /\ ch \in [IDs -> Seq(Clusters)] /\ Apart(ch) /\ NamesDiffer(d)
      /\ \A k \in IDs : ~HasFile(d, k) => ch[k] = <<>>
      /\ \A j \in Clusters : FatEntry(d.fat, j) # 0 => \E k \in IDs : On(ch[k], j)
      /\ \A g \in files : Accounted(d, g)
  BY DEF Holding
<1>3. /\ \A k \in FileIDs(d) :
              /\ k \in IDs /\ k # id /\ k \in FileIDs(e) /\ e.dir[k] = d.dir[k]
              /\ Backed(files \cup {f}, e, k, ch[k])
              /\ \A a \in DOMAIN ch[k] : FatEntry(d.fat, ch[k][a]) # 0
      /\ \A k \in FileIDs(e) : k = id \/ k \in FileIDs(d)
  <2>1. StillThere(files \cup {f}, d, e, id, ch)
    BY <1>1, HoldingFiles
  <2> QED BY <2>1 DEF StillThere
<1>4. id \in FileIDs(e) /\ FileIDs(d) \subseteq FileIDs(e) /\ FileIDs(e) \subseteq IDs
  BY <1>1, <1>3, IDFacts
<1>5. new \in [IDs -> Seq(Clusters)] /\ new[id] = c /\ \A k \in IDs : k # id => new[k] = ch[k]
  <2>1. c \in Seq(Clusters)
    BY <1>1 DEF File, Path
  <2> QED BY <1>1, <1>2, <2>1
<1> HIDE DEF new
<1>6. \A k \in FileIDs(e) : Backed(files \cup {f}, e, k, new[k])
  <2>1. Backed(files \cup {f}, e, id, c)
    BY <1>1 DEF Backed
  <2> QED BY <1>3, <1>5, <2>1
<1>7. \A k \in IDs : ~HasFile(e, k) => new[k] = <<>>
  <2>1. \A k \in IDs : ~HasFile(e, k) => k # id /\ ~HasFile(d, k)
    BY <1>1, <1>2, <1>4, IDFacts
  <2> QED BY <1>2, <1>5, <2>1
<1>8. Apart(new)
  <2>1. \A k \in IDs : \A a \in DOMAIN ch[k] : FatEntry(d.fat, ch[k][a]) # 0
    <3> TAKE k \in IDs
    <3>1. CASE HasFile(d, k)
      BY <1>2, <1>3, <3>1, IDFacts
    <3>2. CASE ~HasFile(d, k)
      <4>1. ch[k] = <<>> /\ DOMAIN <<>> = {}
        BY <1>2, <3>2
      <4> QED BY <4>1
    <3> QED BY <3>1, <3>2
  <2>2. ASSUME NEW i \in IDs, NEW k \in IDs, NEW a \in DOMAIN new[i], NEW b \in DOMAIN new[k],
               new[i][a] = new[k][b], i # k
        PROVE  FALSE
    <3>1. CASE i = id
      <4>1. a \in DOMAIN c /\ b \in DOMAIN ch[k] /\ c[a] = ch[k][b]
        BY <1>5, <2>2, <3>1
      <4> QED BY <1>1, <2>1, <4>1
    <3>2. CASE k = id
      <4>1. b \in DOMAIN c /\ a \in DOMAIN ch[i] /\ c[b] = ch[i][a]
        BY <1>5, <2>2, <3>2
      <4> QED BY <1>1, <2>1, <4>1
    <3>3. CASE i # id /\ k # id
      <4>1. a \in DOMAIN ch[i] /\ b \in DOMAIN ch[k] /\ ch[i][a] = ch[k][b]
        BY <1>5, <2>2, <3>3
      <4> QED BY <1>2, <2>2, <4>1 DEF Apart
    <3> QED BY <3>1, <3>2, <3>3
  <2> QED BY <2>2 DEF Apart
<1>9. \A j \in Clusters : FatEntry(e.fat, j) # 0 => \E k \in IDs : On(new[k], j)
  <2> SUFFICES ASSUME NEW j \in Clusters, FatEntry(e.fat, j) # 0 PROVE \E k \in IDs : On(new[k], j)
    OBVIOUS
  <2>1. CASE On(c, j)
    BY <1>1, <1>5, <2>1
  <2>2. CASE ~On(c, j)
    <3>1. FatEntry(d.fat, j) # 0
      BY <1>1, <2>2
    <3>2. PICK k \in IDs : On(ch[k], j)
      BY <1>2, <3>1
    <3>3. k # id
      <4>1. ch[id] = <<>> /\ DOMAIN <<>> = {}
        BY <1>1, <1>2
      <4> QED BY <3>2, <4>1 DEF On
    <3> QED BY <1>5, <3>2, <3>3
  <2> QED BY <2>1, <2>2
<1>10. NamesDiffer(e)
  <2>1. ASSUME NEW i \in FileIDs(e), NEW k \in FileIDs(e), i # k PROVE e.dir[i].name # e.dir[k].name
    <3>1. CASE i = id
      <4>1. k \in FileIDs(d) /\ k \in IDs /\ e.dir[k] = d.dir[k]
        BY <1>3, <2>1, <3>1
      <4> QED BY <1>1, <3>1, <4>1
    <3>2. CASE k = id
      <4>1. i \in FileIDs(d) /\ i \in IDs /\ e.dir[i] = d.dir[i]
        BY <1>3, <2>1, <3>2
      <4> QED BY <1>1, <3>2, <4>1
    <3>3. CASE i # id /\ k # id
      <4>1. i \in FileIDs(d) /\ k \in FileIDs(d) /\ e.dir[i] = d.dir[i] /\ e.dir[k] = d.dir[k]
        BY <1>3, <3>3
      <4> QED BY <1>2, <2>1, <4>1 DEF NamesDiffer
    <3> QED BY <3>1, <3>2, <3>3
  <2> QED BY <2>1 DEF NamesDiffer
<1>11. FreeClusters(e) \subseteq FreeClusters(d)
  <2>1. \A j \in Clusters : FatEntry(d.fat, j) # 0 => FatEntry(e.fat, j) # 0
    BY <1>1 DEF Spared
  <2> QED BY <2>1 DEF FreeClusters
<1>12. \A g \in files \cup {f} : Accounted(e, g)
  <2>1. Accounted(e, f)
    BY <1>1, <1>4 DEF Accounted
  <2>2. ASSUME NEW g \in files PROVE Accounted(e, g)
    <3>1. g \in HostFiles(U) /\ Accounted(d, g)
      BY <1>2
    <3> QED BY <1>1, <1>2, <1>3, <1>4, <1>11, <3>1, AccountedStays
  <2> QED BY <2>1, <2>2
<1>13. Holding(U, files \cup {f}, e, new)
  BY <1>1, <1>5, <1>6, <1>7, <1>8, <1>9, <1>10, <1>12 DEF Holding
<1> QED BY <1>13 DEF new

LEMMA HoldingAfter ==
  ASSUME NEW U, NEW files, files \subseteq HostFiles(U), NEW f \in HostFiles(U),
         NEW d, NEW ch, Holding(U, files, d, ch)
  PROVE  \E new : Holding(U, files \cup {f}, WithFile(d, f), new)
<1> DEFINE e == WithFile(d, f)
<1>1. d \in Disks(U)
  BY DEF Holding
<1>2. \/ (e = d /\ Skipped(d, f))
      \/ (\E id, c : Added(U, d, f, e, id, c))
      \/ (\E id : Refused(U, d, f, e, id))
  BY <1>1, AddedFile
<1> HIDE DEF e
<1>3. CASE e = d /\ Skipped(d, f)
  <2>1. Holding(U, files \cup {f}, d, ch)
    BY <1>3, HoldingSkipped
  <2> QED BY <1>3, <2>1 DEF e
<1>4. CASE \E id, c : Added(U, d, f, e, id, c)
  <2>1. PICK id, c : Added(U, d, f, e, id, c)
    BY <1>4
  <2>2. Holding(U, files \cup {f}, e, [ch EXCEPT ![id] = c])
    BY <2>1, HoldingAdded
  <2> QED BY <2>2 DEF e
<1>5. CASE \E id : Refused(U, d, f, e, id)
  <2>1. PICK id : Refused(U, d, f, e, id)
    BY <1>5
  <2>2. Holding(U, files \cup {f}, e, ch)
    BY <2>1, HoldingRefused
  <2> QED BY <2>2 DEF e
<1> QED BY <1>2, <1>3, <1>4, <1>5

\* A cluster that is not free is in one file, once.
LEMMA HoldingOnce ==
  ASSUME NEW U, NEW files, files \subseteq HostFiles(U), NEW d, NEW ch, Holding(U, files, d, ch),
         NEW j \in Clusters \ FreeClusters(d)
  PROVE  Cardinality({x \in FileIDs(d) \X (1 .. DSK_FAT_SIZE) :
           x[2] \in DOMAIN Chains(d, x[1]) /\ Chains(d, x[1])[x[2]] = j}) = 1
<1> DEFINE X == {x \in FileIDs(d) \X (1 .. DSK_FAT_SIZE) :
                   x[2] \in DOMAIN Chains(d, x[1]) /\ Chains(d, x[1])[x[2]] = j}
<1>1. /\ d \in Disks(U) /\ ch \in [IDs -> Seq(Clusters)] /\ Apart(ch)
      /\ \A k \in FileIDs(d) : Backed(files, d, k, ch[k])
      /\ \A k \in IDs : ~HasFile(d, k) => ch[k] = <<>>
      /\ \A k \in Clusters : FatEntry(d.fat, k) # 0 => \E id \in IDs : On(ch[id], k)
  BY DEF Holding
<1>2. j \in Clusters /\ FatEntry(d.fat, j) # 0
  BY DEF FreeClusters
<1>3. ASSUME NEW k \in FileIDs(d)
      PROVE  /\ k \in IDs /\ Chains(d, k) = ch[k] /\ DOMAIN ch[k] \subseteq 1 .. DSK_FAT_SIZE
             /\ \A a, b \in DOMAIN ch[k] : ch[k][a] = ch[k][b] => a = b
  <2>1. k \in IDs
    BY <1>1, IDFacts
  <2>2. PICK f \in files : File(d, k, ch[k], f.bytes)
    BY <1>1 DEF Backed
  <2>3. f.bytes \in Seq(U)
    BY DEF HostFiles
  <2>4. Chains(d, k) = ch[k]
    BY <1>1, <2>1, <2>2, <2>3, ChainsEffect
  <2>5. DOMAIN ch[k] = 1 .. Len(ch[k]) /\ Len(ch[k]) \in Nat /\ Len(ch[k]) < DSK_FAT_SIZE
    BY <1>1, <2>1, <2>2, <2>3, FileFacts DEF Turns
  <2>6. DSK_FAT_SIZE \in Nat
    BY ClusterFacts
  <2>7. \A a, b \in DOMAIN ch[k] : ch[k][a] = ch[k][b] => a = b
    BY <2>2 DEF File, Path
  <2>8. DOMAIN ch[k] \subseteq 1 .. DSK_FAT_SIZE
    BY <2>5, <2>6
  <2> QED BY <2>1, <2>4, <2>7, <2>8
<1>4. PICK id \in IDs : On(ch[id], j)
  BY <1>1, <1>2
<1>5. PICK a \in DOMAIN ch[id] : ch[id][a] = j
  BY <1>4 DEF On
<1>6. id \in FileIDs(d)
  <2>1. ch[id] # <<>>
    <3>1. DOMAIN <<>> = {}
      OBVIOUS
    <3> QED BY <1>5, <3>1
  <2> QED BY <1>1, <2>1, IDFacts
<1>7. <<id, a>> \in X
  BY <1>3, <1>5, <1>6
<1>8. ASSUME NEW x \in X PROVE x = <<id, a>>
  <2>1. x[1] \in FileIDs(d) /\ x = <<x[1], x[2]>> /\ x[2] \in DOMAIN Chains(d, x[1]) /\ Chains(d, x[1])[x[2]] = j
    OBVIOUS
  <2>2. x[1] \in IDs /\ x[2] \in DOMAIN ch[x[1]] /\ ch[x[1]][x[2]] = j
    BY <1>3, <2>1
  <2>3. x[1] = id
    BY <1>1, <1>5, <2>2 DEF Apart
  <2>4. x[2] = a
    <3>1. x[2] \in DOMAIN ch[id] /\ ch[id][x[2]] = ch[id][a]
      BY <1>5, <2>2, <2>3
    <3> QED BY <1>3, <1>6, <3>1
  <2> QED BY <2>1, <2>3, <2>4
<1> HIDE DEF X
<1>9. X = {<<id, a>>}
  BY <1>7, <1>8
<1>10. Cardinality(X) = 1
  BY <1>9, FS_Singleton
<1> QED BY <1>10 DEF X

LEMMA HoldingPromise ==
  ASSUME NEW U, read \subseteq HostFiles(U), NEW ch, Holding(U, read, made, ch)
  PROVE  /\ NamesDiffer(made) /\ ReadBack(made) /\ NoneMissing(made)
         /\ InOneFile(made) /\ TablesAgree(made)
<1>1. /\ made \in Disks(U) /\ NamesDiffer(made)
      /\ \A k \in FileIDs(made) : Backed(read, made, k, ch[k])
      /\ \A f \in read : Accounted(made, f)
  BY DEF Holding
<1>2. ReadBack(made)
  <2>1. ASSUME NEW k \in FileIDs(made)
        PROVE  \E f \in read : Name83(f.name) = made.dir[k].name /\ DSKRead(made, k) = f.bytes
    <3>1. PICK f \in read : Name83(f.name) = made.dir[k].name /\ File(made, k, ch[k], f.bytes)
      BY <1>1 DEF Backed
    <3>2. k \in IDs /\ f.bytes \in Seq(U)
      BY <1>1, IDFacts DEF HostFiles
    <3>3. DSKRead(made, k) = f.bytes
      BY <1>1, <3>1, <3>2, ReadEffect
    <3> QED BY <3>1, <3>3
  <2> QED BY <2>1 DEF ReadBack
<1>3. NoneMissing(made)
  BY <1>1 DEF NoneMissing, Accounted
<1>4. InOneFile(made)
  BY HoldingOnce DEF InOneFile
<1>5. TablesAgree(made)
  BY <1>1, DiskFacts
<1> QED BY <1>1, <1>2, <1>3, <1>4, <1>5

\* However DSKLoad() is given the files of a directory, on a disk of any size
\* and with clusters of any size, every one that has been read is on the disk
\* under its name, byte for byte, unless it is empty, its name starts with 0xE5,
\* another one has its name, or there is no entry or no room for it; no cluster
\* is in two files or lost, and the two tables agree.
THEOREM DirectoriesLoad ==
  ASSUME NEW U, NEW files, files \subseteq HostFiles(U)
  PROVE  DSKLoad(files) => []FilesOnDisk
<1> DEFINE Loaded == made # NoDsk => read \subseteq files /\ \E ch : Holding(U, read, made, ch)
           Step == StartDSK \/ EndDSK \/ \E f \in files : AddFile(f)
<1>1. made = NoDsk /\ read = {} => Loaded
  OBVIOUS
<1>2. Loaded /\ [Step]_<<made, read>> => Loaded'
  <2> SUFFICES ASSUME Loaded, [Step]_<<made, read>> PROVE Loaded'
    OBVIOUS
  <2>1. CASE StartDSK
    <3>1. made' = DSKCreate /\ read' = {}
      BY <2>1 DEF StartDSK
    <3>2. Holding(U, read', made', [id \in IDs |-> <<>>])
      BY <3>1, HoldingFresh
    <3> QED BY <3>1, <3>2
  <2>2. CASE EndDSK
    BY <2>2 DEF EndDSK
  <2>3. ASSUME NEW f \in files, AddFile(f) PROVE Loaded'
    <3>1. made # NoDsk /\ made' = WithFile(made, f) /\ read' = read \cup {f}
      BY <2>3 DEF AddFile
    <3>2. read \subseteq files /\ read \subseteq HostFiles(U) /\ f \in HostFiles(U)
      BY <3>1
    <3>3. PICK ch : Holding(U, read, made, ch)
      BY <3>1
    <3>4. \E new : Holding(U, read', made', new)
      BY <3>1, <3>2, <3>3, HoldingAfter
    <3> QED BY <3>1, <3>2, <3>4
  <2>4. CASE UNCHANGED <<made, read>>
    <3>1. made' = made /\ read' = read
      BY <2>4
    <3> QED BY <3>1
  <2> QED BY <2>1, <2>2, <2>3, <2>4
<1>3. Loaded => FilesOnDisk
  <2> SUFFICES ASSUME Loaded, made # NoDsk
               PROVE  /\ NamesDiffer(made) /\ ReadBack(made) /\ NoneMissing(made)
                      /\ InOneFile(made) /\ TablesAgree(made)
    BY DEF FilesOnDisk
  <2>1. PICK ch : Holding(U, read, made, ch)
    OBVIOUS
  <2>2. read \subseteq HostFiles(U)
    OBVIOUS
  <2> QED BY <2>1, <2>2, HoldingPromise
<1> HIDE DEF Loaded
<1> QED BY <1>1, <1>2, <1>3, PTL DEF DSKLoad, Step
=============================================================================
