----------------------------- MODULE DiskImages -----------------------------
(***************************************************************************)
(* Disk images in FDIDisk.c: files of several formats become one internal  *)
(* format, .FDI, and are saved as raw images or into the frontend's SRAM;  *)
(* directories become FAT12 disks.  One image is in drive A, under one     *)
(* name; the program reads and writes sectors, libretro.c flushes what has *)
(* changed, and the game is closed and played again.                       *)
(*                                                                         *)
(* Contents are sequences of units of 128 bytes, the smallest sector.  A   *)
(* boot sector, a table of DSKCreate() and its directory are one unit      *)
(* each, and the rest of their sectors is zeros.                           *)
(***************************************************************************)
EXTENDS Fat12

CONSTANTS
  Formats,      \* [Sides, Tracks, Sectors, SecSize] of the standard formats
  FewTracks,    \* a raw image of unknown geometry has these tracks or twice
  SectorCounts, \* as many, 40 or 80, and so many sectors in a track, 8 .. 16
  Boots,        \* of boot sectors, by unit: [jump, media, Heads, Sectors,
                \* SecSize, Total], jump: it starts with 0xE9 or 0xEB
  NewBoot,      \* what DSKCreate() writes
  Info,         \* of the choices of DSKFMT: [Sectors, Heads, PerTrack, PerFAT,
                \* Dirs, boot, fat]: Dirs sectors of directory, and the first
                \* units of the boot sector and of a table
  Zero, Filled, \* units of 0x00 and of 0xFF
  Games,        \* what is played, [ext, mode, phantom, host]: host the file or
                \* the directory, mode "file" or "sram"
  Places,       \* [side, track, sector] that programs write by the controller,
  Linears,      \* and sectors that they write by PHYDIO
  Fresh         \* units that they write

VARIABLES
  game,   \* fixed
  file,   \* what has the image's name now
  disk,   \* FDD[0]
  sram    \* where sram_disk_ptr points, <<>> while nothing was saved there
vars == <<game, file, disk, sram, made, read>>

SecSizes == <<1, 2, 4, 8, 32>>      \* 128, 256, 512, 1024, 4096 bytes
SizeCode(n) == CHOOSE k \in 0 .. 4 : SecSizes[k + 1] = n
Volume(g) == g.Sides * g.Tracks * g.Sectors * g.SecSize
NoFile == [kind |-> "none"]

(***************************************************************************)
(* A disk.  Its directory lists the sectors of each track with their IDs   *)
(* and their places; track t of side s is entry t * Sides + s of it.       *)
(***************************************************************************)
NoDisk == [Format |-> "none", Sides |-> 0, Tracks |-> 0, Sectors |-> 0,
           SecSize |-> 0, Dirty |-> FALSE, dir |-> <<>>, image |-> <<>>]

Track_FromOne(j, g) ==
  [off |-> j * g.Sectors * g.SecSize,
   secs |-> [i \in 1 .. g.Sectors |->
     [C |-> j \div g.Sides, H |-> j % g.Sides, R |-> i, N |-> SizeCode(g.SecSize),
      del |-> FALSE, pos |-> i * g.SecSize]]]
Track(j, g) ==
  [off |-> j * g.Sectors * g.SecSize,
   secs |-> [i \in 1 .. g.Sectors |->
     [C |-> j \div g.Sides, H |-> j % g.Sides, R |-> i, N |-> SizeCode(g.SecSize),
      del |-> FALSE, pos |-> (i - 1) * g.SecSize]]]

\* NewFDI(), with the contents that are read into it at once: a file that is
\* too short leaves zeros behind.
NewFDI(g, format, body) ==
  [Format |-> format, Sides |-> g.Sides, Tracks |-> g.Tracks,
   Sectors |-> g.Sectors, SecSize |-> g.SecSize, Dirty |-> FALSE,
   dir |-> [j \in 1 .. g.Sides * g.Tracks |-> Track(j - 1, g)],
   image |-> [i \in 1 .. Volume(g) |-> IF i <= Len(body) THEN body[i] ELSE Zero]]
FormatFDI(format, body) == NewFDI(Formats[format], format, body)

(***************************************************************************)
(* LoadFDI().                                                              *)
(***************************************************************************)
\* The geometry by the boot sector; the number of heads can be wrong there.
BootGeometry_Heads(b, size) ==
  LET tracks == IF b.Heads = 0 \/ b.Sectors = 0 THEN 0
                ELSE (b.Total \div b.Heads) \div b.Sectors IN
  [Sides |-> b.Heads, Tracks |-> tracks, Sectors |-> b.Sectors, SecSize |-> b.SecSize]
BootGeometry(b, size) ==
  LET tracks == IF b.Heads = 0 \/ b.Sectors = 0 THEN 0
                ELSE (b.Total \div b.Heads) \div b.Sectors
      side == tracks * b.Sectors * b.SecSize IN
  [Sides |-> IF side = 0 THEN 0 ELSE size \div side,
   Tracks |-> tracks, Sectors |-> b.Sectors, SecSize |-> b.SecSize]

LoadMSXDSK(f) ==
  IF /\ f.kind = "raw" /\ f.body[1] \in DOMAIN Boots
     /\ Boots[f.body[1]].jump /\ Boots[f.body[1]].media >= 248
     /\ Boots[f.body[1]].SecSize \in ToSet(SecSizes)
  THEN NewFDI(BootGeometry(Boots[f.body[1]], Len(f.body)), "MSXDSK", f.body)
  ELSE NoDisk

\* A raw image by its size: the standard formats in this order, then all
\* geometries, in the order of the loops.
Standard == <<"MSXDSK", "ADMDSK", "SAMDSK", "TRD", "DDP">>
Searched == {[Sides |-> s, Tracks |-> t, Sectors |-> n, SecSize |-> l] :
               s \in 1 .. 2, t \in {FewTracks, 2 * FewTracks},
               n \in SectorCounts, l \in {2, 4}}
Before(a, b) ==
  \/ a.Sides < b.Sides
  \/ a.Sides = b.Sides /\ a.Tracks < b.Tracks
  \/ a.Sides = b.Sides /\ a.Tracks = b.Tracks /\ a.Sectors < b.Sectors
  \/ a.Sides = b.Sides /\ a.Tracks = b.Tracks /\ a.Sectors = b.Sectors
       /\ a.SecSize <= b.SecSize
LoadDSK(f) ==
  LET known == {k \in DOMAIN Standard : Volume(Formats[Standard[k]]) = Len(f.body)}
      fits == {g \in Searched : Volume(g) = Len(f.body)} IN
  IF f.kind # "raw" THEN NoDisk
  ELSE IF known # {} THEN FormatFDI(Standard[Min(known)], f.body)
  ELSE IF fits # {} THEN NewFDI(CHOOSE g \in fits : \A h \in fits : Before(g, h),
                                "DSK", f.body)
  ELSE NoDisk

\* Sectors and SecSize are 0 where tracks or sectors differ.
LoadFDIFormat(f) ==
  LET counts == {Len(f.dir[j].secs) : j \in DOMAIN f.dir}
      codes == UNION {{s.N : s \in ToSet(f.dir[j].secs)} : j \in DOMAIN f.dir}
      uniform == Cardinality(counts) = 1 /\ Cardinality(codes) = 1 IN
  IF f.kind # "FDI" THEN NoDisk
  ELSE [Format |-> "FDI", Sides |-> f.Sides, Tracks |-> f.Tracks,
        Sectors |-> IF uniform THEN Max(counts) ELSE 0,
        SecSize |-> IF uniform THEN SecSizes[Min({Max(codes), 4}) + 1] ELSE 0,
        Dirty |-> FALSE, dir |-> f.dir, image |-> f.body]

LoadSAD(f) ==
  IF /\ f.kind = "SAD" /\ 0 \notin {f.Sides, f.Tracks, f.Sectors, f.SecSize}
     /\ f.SecSize \in ToSet(SecSizes)
  THEN NewFDI(f, "SAD", f.body)
  ELSE NoDisk

\* An image of the Amstrad CPC lists its tracks [code, secs], each sector of
\* SecSizes[code] in the order of secs; f.size is that of its longest track
\* with the two units of its header.
PowerOf2(n) == Min({p \in {1, 2, 4, 8, 16, 32} : p >= n})
LoadCPCDSK(f) ==
  LET most == Formats["CPCDSK"].Sectors
      longest == PowerOf2((f.size - 2 + most - 1) \div most)
      size(j) == SecSizes[f.tracks[j].code + 1]
      off[j \in 0 .. Len(f.tracks)] ==
        IF j = 0 THEN 0 ELSE off[j - 1] + Len(f.tracks[j].secs) * size(j) IN
  IF f.kind # "CPC" \/ f.Sides = 0 \/ f.Tracks = 0 \/ longest \notin ToSet(SecSizes)
  THEN NoDisk
  ELSE [Format |-> "CPCDSK", Sides |-> f.Sides, Tracks |-> f.Tracks,
        Sectors |-> 0, SecSize |-> 0, Dirty |-> FALSE,
        dir |-> [j \in 1 .. f.Sides * f.Tracks |->
          [off |-> off[j - 1],
           secs |-> [i \in DOMAIN f.tracks[j].secs |->
             LET s == f.tracks[j].secs[i] IN
             [C |-> s.C, H |-> s.H, R |-> s.R, N |-> s.N, del |-> s.del,
              pos |-> (i - 1) * size(j)]]]],
        image |-> [i \in 1 .. f.Sides * f.Tracks * most * longest |->
          IF i <= Len(f.body) THEN f.body[i] ELSE Zero]]

\* LoadFDI() with a format, and without one: first by the extension, which
\* says nothing of raw images, then by what the file starts with.
Load(f, format) ==
  CASE format = "FDI"    -> LoadFDIFormat(f)
    [] format = "SAD"    -> LoadSAD(f)
    [] format = "CPCDSK" -> LoadCPCDSK(f)
    [] format = "MSXDSK" -> LoadMSXDSK(f)
    [] format = "DSK"    -> LoadDSK(f)
    [] format = "TRD"    -> FormatFDI("TRD", f.body)
    [] format = "DDP"    -> IF Len(f.body) = Volume(Formats["DDP"])
                            THEN FormatFDI("DDP", f.body) ELSE NoDisk
ByMagic == <<"FDI", "SAD", "CPCDSK", "MSXDSK", "DSK">>
Attempts(ext) ==
  CASE ext = "fdi" -> <<"FDI">> [] ext = "sad" -> <<"SAD">>
    [] ext = "trd" -> <<"TRD">> [] ext = "ddp" -> <<"DDP">> [] OTHER -> <<>>
LoadFDI(f, ext) ==
  LET tries == Attempts(ext) \o ByMagic
      good == {k \in DOMAIN tries : Load(f, tries[k]) # NoDisk} IN
  IF f.kind \in {"none", "dir"} \/ good = {} THEN NoDisk ELSE Load(f, tries[Min(good)])

\* What users play: images of a known geometry, as LoadFDI() takes others for
\* loaded without any data; no .IMG, which is read side by side but flushed
\* track by track; and with "To/From SRAM" raw images and no more, as
\* patch_disk() takes the size of the file for that of its sectors.
ASSUME GameAssumption ==
  \A g \in Games :
    /\ g.host.kind \notin {"none", "dir"} => LoadFDI(g.host, g.ext) # NoDisk
    /\ g.mode = "sram" =>
         /\ g.host.kind = "raw"
         /\ Len(LoadFDI(g.host, g.ext).image) = Len(g.host.body)

(***************************************************************************)
(* SeekFDI(): the first sector of a track with the given ID.  It leaves    *)
(* the sectors of that track and the size of that sector in the disk.      *)
(***************************************************************************)
TrackAt(d, side, track) == d.dir[track * d.Sides + (side % d.Sides) + 1]
Matches(d, side, track, sideID, trackID, sector) ==
  LET secs == TrackAt(d, side, track).secs IN
  {k \in DOMAIN secs : /\ secs[k].C = trackID /\ secs[k].H = sideID
                       /\ secs[k].R = sector /\ ~secs[k].del}
HasSector(d, side, track, sideID, trackID, sector) ==
  d # NoDisk /\ track < d.Tracks /\ Matches(d, side, track, sideID, trackID, sector) # {}
\* Its place in the image, and its size.
Sector(d, side, track, sideID, trackID, sector) ==
  LET t == TrackAt(d, side, track)
      s == t.secs[Min(Matches(d, side, track, sideID, trackID, sector))] IN
  [at |-> t.off + s.pos, size |-> SecSizes[Min({s.N, 4}) + 1], count |-> Len(t.secs)]

Sought(d, s) == [d EXCEPT !.Sectors = s.count, !.SecSize = s.size]
Content(d, s) == SubSeq(d.image, s.at + 1, s.at + s.size)
Written(d, s, data) ==
  [d EXCEPT !.Dirty = TRUE,
            !.image = [i \in DOMAIN @ |-> IF i \in s.at + 1 .. s.at + s.size
                                          THEN data[i - s.at] ELSE @[i]]]

\* LinearFDI(): sectors in the order of tracks, and of sides in a track.
LinearAt(d, n) ==
  [side |-> (n \div d.Sectors) % d.Sides,
   track |-> (n \div d.Sectors) \div d.Sides,
   sector |-> (n % d.Sectors) + 1]
HasLinear(d, n) ==
  /\ d # NoDisk /\ d.Sectors # 0 /\ d.Sides # 0
  /\ LET p == LinearAt(d, n) IN
     HasSector(d, p.side, p.track, p.side, p.track, p.sector)
Linear(d, n) ==
  LET p == LinearAt(d, n) IN Sector(d, p.side, p.track, p.side, p.track, p.sector)

(***************************************************************************)
(* SaveFDI().  Uniform disks are written in the order of tracks, sides,    *)
(* sectors; a file that cannot be written whole is removed.                *)
(***************************************************************************)
Addresses(d) == (0 .. d.Tracks - 1) \X (0 .. d.Sides - 1) \X (1 .. d.Sectors)
CanSave(d) ==
  /\ d.Sectors # 0 /\ d.SecSize # 0
  /\ \A a \in Addresses(d) : HasSector(d, a[2], a[1], a[2], a[1], a[3])
Saved(d, a) ==
  LET s == Sector(d, a[2], a[1], a[2], a[1], a[3]) IN
  [s EXCEPT !.size = Min({s.size, d.SecSize})]

\* FMT_MSXDSK: sectors are cut or padded to the size that was sought last.
FileSaved(d) ==
  LET at(i) == (i - 1) \div d.SecSize
      s(i) == Saved(d, <<(at(i) \div d.Sectors) \div d.Sides,
                         (at(i) \div d.Sectors) % d.Sides, (at(i) % d.Sectors) + 1>>)
      u(i) == (i - 1) % d.SecSize IN
  IF CanSave(d)
  THEN [kind |-> "raw",
        body |-> [i \in 1 .. Volume(d) |->
                    IF u(i) < s(i).size THEN d.image[s(i).at + u(i) + 1] ELSE Zero]]
  ELSE NoFile

\* FMT_MEMORY, of a raw image: sectors keep the places that they have in it.
SramSaved(d) ==
  LET saved == UNION {LET s == Saved(d, a) IN s.at + 1 .. s.at + s.size :
                        a \in Addresses(d)} IN
  [i \in 1 .. Volume(d) |-> IF i \in saved THEN d.image[i] ELSE Zero]

\* patch_disk() copies as many units as the file has.
Patched(d) ==
  IF game.mode = "sram" /\ sram # <<>> /\ d # NoDisk
  THEN [d EXCEPT !.image = [i \in DOMAIN @ |-> IF i <= Len(file.body)
                                               THEN sram[i] ELSE @[i]]]
  ELSE d

(***************************************************************************)
(* Init: the game's image as the user has it.                              *)
(***************************************************************************)
Init ==
  /\ game \in Games
  /\ file = game.host
  /\ disk = NoDisk /\ sram = <<>>
  /\ made = NoDsk /\ read = {}

(***************************************************************************)
(* ChangeDisk(): an image, a directory, which is read one file at a time   *)
(* in any order, or a new disk.                                            *)
(***************************************************************************)
Empty == disk = NoDisk /\ made = NoDsk

\* retro_run() patches the disk in its first frame, before programs run.
InsertImage ==
  /\ Empty
  /\ disk' = Patched(LoadFDI(file, game.ext))
  /\ disk' # NoDisk
  /\ UNCHANGED <<game, file, sram, made, read>>

OpenDirectory ==
  /\ Empty
  /\ file.kind = "dir"
  /\ StartDSK
  /\ UNCHANGED <<game, file, disk, sram>>

ReadFile(f) ==
  /\ AddFile(f)
  /\ UNCHANGED <<game, file, disk, sram>>

\* The sectors of a FAT12 disk: boot sector, tables, directory, clusters.
SectorOf(u) == [k \in 1 .. Formats["MSXDSK"].SecSize |-> IF k = 1 THEN u ELSE Zero]
ClusterOf(bytes) ==
  [k \in 1 .. DSK_CLUSTER_SIZE |-> IF k <= Len(bytes) THEN bytes[k] ELSE Zero]
Laid(d) ==
  SectorOf(NewBoot) \o SectorOf(<<"FAT", d.fat>>) \o SectorOf(<<"FAT", d.fat2>>)
    \o SectorOf(<<"DIR", d.dir>>)
    \o FlattenSeq([j \in 1 .. DSK_FAT_SIZE - 2 |-> ClusterOf(d.data[j + 1])])
NewDisk(d) == [FormatFDI("MSXDSK", Laid(d)) EXCEPT !.Dirty = TRUE]

InsertDirectory ==
  /\ made # NoDsk /\ read = file.files
  /\ disk' = NewDisk(made)
  /\ EndDSK
  /\ UNCHANGED <<game, file, sram>>

InsertNew ==
  /\ Empty
  /\ game.phantom /\ file = NoFile
  /\ disk' = NewDisk(DSKCreate)
  /\ UNCHANGED <<game, file, sram, made, read>>

(***************************************************************************)
(* What programs do: by the controller, by PHYDIO and by DSKFMT.           *)
(***************************************************************************)
SectorFull(u) == [k \in 1 .. 32 |-> u]
Seek(p) == Sector(disk, p.side, p.track, p.side, p.track, p.sector)
CanSeek(p) == HasSector(disk, p.side, p.track, p.side, p.track, p.sector)

ReadSector(p) ==
  /\ CanSeek(p)
  /\ disk' = Sought(disk, Seek(p))
  /\ UNCHANGED <<game, file, sram, made, read>>
WriteSector(p, u) ==
  /\ CanSeek(p)
  /\ disk' = Written(Sought(disk, Seek(p)), Seek(p), SectorFull(u))
  /\ UNCHANGED <<game, file, sram, made, read>>

DiskWrite(d, n, data) ==
  IF HasLinear(d, n) THEN Written(Sought(d, Linear(d, n)), Linear(d, n), data) ELSE d
\* One sector, of those that the media descriptor allows.
PHYDIO(n, u) ==
  /\ disk # NoDisk
  /\ disk' = DiskWrite(disk, n, SectorFull(u))
  /\ UNCHANGED <<game, file, sram, made, read>>

\* DSKFMT writes every sector of the format; those of data are filled.
FormatSector(c, n) ==
  LET i == Info[c] IN
  CASE n = 0 -> SectorOf(i.boot) \o SectorFull(Zero)
    [] n \in {1, 1 + i.PerFAT} -> SectorOf(i.fat) \o SectorFull(Zero)
    [] n \in 2 .. 2 * i.PerFAT + i.Dirs -> SectorFull(Zero)
    [] OTHER -> SectorFull(Filled)
Formatted(d, c) ==
  FoldLeft(LAMBDA e, n : DiskWrite(e, n - 1, FormatSector(c, n - 1)),
           d, [n \in 1 .. Info[c].Sectors |-> n])

\* Disks that the format fits: programs ask for no other.
DSKFMT(c) ==
  /\ disk # NoDisk
  /\ disk.Sectors = Info[c].PerTrack /\ disk.SecSize = Formats["MSXDSK"].SecSize
  /\ disk.Tracks = Formats["MSXDSK"].Tracks /\ disk.Sides >= Info[c].Heads
  /\ disk' = Formatted(disk, c)
  /\ UNCHANGED <<game, file, sram, made, read>>

(***************************************************************************)
(* flush_disk().  A file with the name of a directory cannot be made.      *)
(***************************************************************************)
\* Saving seeks every sector, the last one last.
Flushed(d) ==
  LET last == <<d.Tracks - 1, d.Sides - 1, d.Sectors>> IN
  [(IF CanSave(d) /\ file.kind # "dir" THEN Sought(d, Saved(d, last)) ELSE d)
     EXCEPT !.Dirty = FALSE]
Flush ==
  /\ disk.Dirty
  /\ disk' = Flushed(disk)
  /\ IF game.mode = "sram" /\ file # NoFile
     THEN /\ sram' = SramSaved(disk)
          /\ UNCHANGED file
     ELSE /\ file' = IF file.kind = "dir" THEN file ELSE FileSaved(disk)
          /\ UNCHANGED sram
  /\ UNCHANGED <<game, made, read>>

\* retro_unload_game() has flushed the disk.
Eject ==
  /\ disk # NoDisk /\ ~disk.Dirty
  /\ disk' = NoDisk
  /\ UNCHANGED <<game, file, sram, made, read>>

Next ==
  \/ InsertImage \/ OpenDirectory \/ InsertDirectory \/ InsertNew
  \/ made # NoDsk /\ \E f \in file.files : ReadFile(f)
  \/ \E p \in Places : ReadSector(p)
  \/ \E p \in Places, u \in Fresh : WriteSector(p, u)
  \/ \E n \in Linears, u \in Fresh : PHYDIO(n, u)
  \/ \E c \in DOMAIN Info : DSKFMT(c)
  \/ Flush \/ Eject

Spec == Init /\ [][Next]_vars

(***************************************************************************)
(* Properties                                                              *)
(***************************************************************************)
\* Every variable has its type; the sectors of the disk are inside its image,
\* and the SRAM has room for what is stored there.
TypeOK ==
  /\ game \in Games
  /\ file.kind \in {"none", "dir", "raw", "FDI", "CPC", "SAD"}
  /\ disk.Dirty \in BOOLEAN /\ Len(disk.dir) = disk.Sides * disk.Tracks
  /\ \A t \in ToSet(disk.dir) : \A s \in ToSet(t.secs) :
       t.off + s.pos + SecSizes[s.N + 1] <= Len(disk.image)
  /\ sram # <<>> => Len(sram) = Len(file.body)
  /\ made # NoDsk => \A b \in DOMAIN made.fat : {made.fat[b], made.fat2[b]} \subseteq 0 .. 255
  /\ read # {} => made # NoDsk
  /\ made # NoDsk => file.kind = "dir" /\ read \subseteq file.files

\* The content of every sector, by its address.
Listed(d) ==
  UNION {{<<(j - 1) \div d.Sides, (j - 1) % d.Sides, s.R>> : s \in ToSet(d.dir[j].secs)} :
           j \in DOMAIN d.dir}
Shown(d) ==
  [x \in {x \in Listed(d) : HasSector(d, x[2], x[1], x[2], x[1], x[3])} |->
     Content(d, Sector(d, x[2], x[1], x[2], x[1], x[3]))]

\* The boot sector tells tracks and sectors, or else the size does.
Recognizable(d) ==
  LET u == Content(d, Sector(d, 0, 0, 0, 0, 1))[1] IN
  IF u \in DOMAIN Boots /\ Boots[u].jump
  THEN /\ Boots[u].Sectors = d.Sectors /\ Boots[u].SecSize = d.SecSize
       /\ (Boots[u].Total \div Boots[u].Heads) \div Boots[u].Sectors = d.Tracks
  ELSE LET g == LoadDSK([kind |-> "raw", body |-> d.image]) IN
       <<g.Sides, g.Tracks, g.Sectors, g.SecSize>> =
         <<d.Sides, d.Tracks, d.Sectors, d.SecSize>>

\* What is saved of a disk is what is found on it when it is inserted again:
\* every sector by the side, the track and the number that it had.
ReloadsSame ==
  disk # NoDisk /\ ~disk.Dirty /\ file.kind # "dir" /\ Recognizable(disk) =>
    Shown(Patched(LoadFDI(file, game.ext))) = Shown(disk)

\* What MSX-DOS reads as sector n of a disk is the n-th of its raw image.
LinearInFile ==
  disk # NoDisk /\ ~disk.Dirty /\ game.mode = "file" /\ file.kind = "raw" =>
    \A n \in 0 .. disk.Sides * disk.Tracks * disk.Sectors - 1 :
      HasLinear(disk, n) /\ (n + 1) * disk.SecSize <= Len(file.body) =>
        Content(disk, Linear(disk, n)) =
          SubSeq(file.body, n * disk.SecSize + 1, (n + 1) * disk.SecSize)

\* A disk without changes is on the host as the program knows it, whatever
\* format the image had, wherever its changes are kept, and however it was
\* formatted meanwhile.
CleanReloads == ReloadsSame /\ LinearInFile
============================================================================
