---------------------------- MODULE MCDiskImages ----------------------------
(***************************************************************************)
(* Values of the constants of DiskImages for TLC.  Geometries are scaled   *)
(* down so that the formats keep the order of their sizes, and those that  *)
(* have the same size in the program have it here: 80 tracks are 2, and 8, *)
(* 9, 10 and 16 sectors are 3, 4, 5 and 6.                                 *)
(***************************************************************************)
EXTENDS DiskImages

CONSTANTS
  boot720, boot640, boot360, boot320,    \* boot sectors of MSX disks
  format1, format2,                      \* those of DSKFMT
  table1, table2,                        \* and their tables
  typed,                                 \* what programs write
  u1, u2, u3, u4, u5                     \* what images hold

Geometry(sides, tracks, sectors, size) ==
  [Sides |-> sides, Tracks |-> tracks, Sectors |-> sectors, SecSize |-> size]
MCFormats ==
  [SAMDSK |-> Geometry(2, 2, 5, 4), MSXDSK |-> Geometry(2, 2, 4, 4),
   CPCDSK |-> Geometry(2, 2, 4, 4),
   TRD |-> Geometry(2, 2, 6, 2), DDP |-> Geometry(1, 1, 5, 4),
   ADMDSK |-> Geometry(1, 1, 3, 4)]

BootOf(media, heads, sectors, total) ==
  [jump |-> TRUE, media |-> media, Heads |-> heads, Sectors |-> sectors,
   SecSize |-> 4, Total |-> total]
MCBoots ==
  (boot720 :> BootOf(249, 2, 4, 16)) @@ (boot640 :> BootOf(251, 2, 3, 12)) @@
  (boot360 :> BootOf(253, 2, 4, 8)) @@ (boot320 :> BootOf(250, 1, 3, 6)) @@
  (format1 :> BootOf(249, 2, 4, 16)) @@ (format2 :> BootOf(248, 1, 4, 8)) @@
  (NewBoot :> [BootOf(249, 2, 4, 16) EXCEPT !.jump = FALSE])
Choice(heads, sectors, boot, table) ==
  [Sectors |-> sectors, Heads |-> heads, PerTrack |-> 4, PerFAT |-> 1, Dirs |-> 1,
   boot |-> boot, fat |-> table]
MCInfo == <<Choice(2, 16, format1, table1), Choice(1, 8, format2, table2)>>

\* Contents: the boot sector, and units that differ from their neighbours.
Letters == <<u1, u2, u3, u4, u5>>
Body(boot, n) == [i \in 1 .. n |-> IF i = 1 THEN boot ELSE Letters[(i % 5) + 1]]
Raw(boot, n)  == [kind |-> "raw", body |-> Body(boot, n)]

\* An image in .FDI format, with the sectors of a track in reverse order and
\* the tracks of side 1 behind those of side 0.
FDI(sides, tracks, sectors, n) ==
  [kind |-> "FDI", Sides |-> sides, Tracks |-> tracks,
   body |-> Body(u1, sides * tracks * sectors * SecSizes[n + 1]),
   dir |-> [j \in 1 .. sides * tracks |->
     LET side == (j - 1) % sides
         track == (j - 1) \div sides IN
     [off |-> (side * tracks + track) * sectors * SecSizes[n + 1],
      secs |-> [i \in 1 .. sectors |->
        [C |-> track, H |-> side, R |-> sectors + 1 - i, N |-> n, del |-> FALSE,
         pos |-> (i - 1) * SecSizes[n + 1]]]]]]

\* An image of the Amstrad CPC with interleaved sectors.
CPC(tracks) ==
  [kind |-> "CPC", Sides |-> 1, Tracks |-> tracks, size |-> 18,
   body |-> Body(u1, tracks * 16),
   tracks |-> [j \in 1 .. tracks |->
     [code |-> 2,
      secs |-> [i \in 1 .. 4 |->
        [C |-> j - 1, H |-> 0, R |-> <<1, 3, 2, 4>>[i], N |-> 2, del |-> FALSE]]]]]
SAD(sides, tracks, sectors) ==
  [kind |-> "SAD", Sides |-> sides, Tracks |-> tracks, Sectors |-> sectors,
   SecSize |-> 4, body |-> Body(u1, sides * tracks * sectors * 4)]

\* Files of a directory, two of which have the same name on the disk, and one
\* that of a deleted file.
File(name, n) == [name |-> name, bytes |-> [i \in 1 .. n |-> Letters[(i % 5) + 1]]]
Host ==
  [kind |-> "dir",
   files |-> {File(<<"a", ".", "x">>, 9), File(<<"b", "b">>, 20),
              File(<<"c", "c", "c", ".", "y", "z">>, 8),
              File(<<"c", "C", ".", "Y", ".">>, 1), File(<<".", "p">>, 40),
              File(<<"q", ".">>, 0), File(<<"r">>, 32), File(<<Deleted, "a">>, 8)}]
Capitals ==
  [l \in {"a", "b", "c", "p", "q", "r", "x", "y", "z", "C", "Y", ".", Deleted} |->
     CASE l = "a" -> "A" [] l = "b" -> "B" [] l = "c" -> "C" [] l = "p" -> "P"
       [] l = "q" -> "Q" [] l = "r" -> "R" [] l = "x" -> "X" [] l = "y" -> "Y"
       [] l = "z" -> "Z" [] OTHER -> l]

Game(ext, mode, host) == [ext |-> ext, mode |-> mode, phantom |-> host = NoFile, host |-> host]
MCGames ==
  {Game("dsk", mode, host) :
     mode \in {"file", "sram"},
     host \in {Raw(boot720, 64), Raw(u1, 32), Raw(boot640, 48)}}
  \cup {Game("dsk", "file", host) :
          host \in {NoFile, Host, FDI(2, 2, 4, 2), CPC(2), Raw(boot720, 60),
                    Raw(boot720, 70), Raw(boot360, 32), Raw(boot320, 24),
                    Raw(u1, 24), Raw(u1, 12)}}
  \cup {Game("fdi", "file", FDI(1, 2, 4, 2)), Game("sad", "file", SAD(2, 2, 3)),
        Game("trd", "file", Raw(u1, 48)), Game("ddp", "sram", Raw(u1, 20)),
        Game("dsk", "sram", Raw(u1, 80))}

MCPlaces ==
  {[side |-> 0, track |-> 0, sector |-> 2], [side |-> 1, track |-> 1, sector |-> 4]}
============================================================================
