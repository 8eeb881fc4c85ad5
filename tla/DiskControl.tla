------------------------------ MODULE DiskControl ------------------------------
(***************************************************************************)
(* The disk images of a game and where their changes are kept: libretro.c  *)
(* loads images into drive A, swaps them through the frontend's disk       *)
(* control interface and through Ctrl+1..9, and, depending on the option   *)
(* "Save disk changes", writes what the program changed into the image's   *)
(* file or into the SRAM buffer that the frontend keeps for the game.      *)
(* Games are played, closed and played again.                              *)
(*                                                                         *)
(* The contents of a disk are <<image, version>>: the image they stem from *)
(* and a number that is new with every write; version 0 is what the image  *)
(* held, or a blank disk, before any write.                                *)
(***************************************************************************)
EXTENDS Integers, Sequences, SequencesExt, FiniteSets

CONSTANTS
  Images,      \* paths of disk images
  Playlist,    \* the images an .m3u file lists
  Single,      \* the image of a game that is one .dsk file
  Appendable,  \* images the frontend may add to the list
  Missing,     \* images whose file does not exist at first
  MAXDISKS,    \* length of disk_paths[]
  Kinds,       \* games: "m3u", "dsk"
  Modes,       \* "Save disk changes": "never", "immediate", "close", "sram"
  phantom_disk,
  fps,         \* frames after which a change is flushed, 50 or 60
  Reselects,   \* the frontend sets an image again before it inserts the first
  SavesWhile,  \* games whose SRAM the frontend also saves while they run
  MaxWrites    \* bound on the writes of the programs

ASSUME ImageAssumption ==
  /\ Playlist \in Seq(Images) /\ Playlist # <<>> /\ IsInjective(Playlist)
  /\ MAXDISKS \in Nat /\ Len(Playlist) <= MAXDISKS
  /\ "nothing" \notin Images /\ Single \in Images
  /\ Appendable \subseteq Images /\ Missing \subseteq Images
ASSUME OptionAssumption ==
  /\ Kinds \subseteq {"m3u", "dsk"} /\ SavesWhile \subseteq Kinds
  /\ Modes \subseteq {"never", "immediate", "close", "sram"}
  /\ {phantom_disk, Reselects} \subseteq BOOLEAN
  /\ fps \in Nat /\ fps >= 2
  /\ MaxWrites \in Nat

VARIABLES
  mode,    \* disk_flush, fixed
  kind,    \* what is played, fixed
  phase,   \* "off", "loaded", "running", "closing"
  core,    \* what the core knows of disks
  file,    \* contents of each image's file, Nothing if it does not exist
  srm,     \* the game's SRAM file
  writes,  \* number of writes so far
  latest   \* what a program last left on each image
vars == <<mode, kind, phase, core, file, srm, writes, latest>>

Nothing  == <<"nothing", 0>>
Contents == Images \X (0 .. MaxWrites)
Empty    == [in |-> "none", data |-> Nothing]

\* The buffer sram_content: slot r holds a patched image, and dir[r] is the
\* index of that image in an .m3u game, whose header byte is always set.  A
\* .dsk game has one slot, whose header byte is also the buffer's.
NoSram    == [dir |-> <<-1>>, slot |-> <<>>]
BlankSram == [dir |-> <<>>, slot |-> [r \in 1 .. MAXDISKS |-> Nothing]]

\* paths: disk_paths[]; name: DSKName_buffer; FDD[0].Data: disk; ptr: the
\* slot sram_disk_ptr points into, 0 for NULL; patched: sram_save_phase.
CoreOff ==
  [paths |-> <<>>, index |-> 0, inserted |-> FALSE, name |-> Single,
   disk |-> Empty, dirty |-> 0, sram |-> NoSram, ptr |-> 0, patched |-> FALSE]

Init ==
  /\ mode \in Modes /\ kind \in Kinds
  /\ phase = "off"
  /\ core = CoreOff
  /\ file = [i \in Images |-> IF i \in Missing THEN Nothing ELSE <<i, 0>>]
  /\ srm = NoSram
  /\ writes = 0
  /\ latest = [i \in Images |-> <<i, 0>>]

(***************************************************************************)
(* flush_disk(): the core and the files after it.                          *)
(***************************************************************************)
Exists(i, files) == files[i] # Nothing

\* Where the patched image with the current index is, or is to go.
SlotOf_First(c) == 1
SlotOf(c) ==
  IF \E r \in DOMAIN c.sram.dir : c.sram.dir[r] = c.index
  THEN CHOOSE r \in DOMAIN c.sram.dir : c.sram.dir[r] = c.index
  ELSE Len(c.sram.dir) + 1

Listed(c) ==
  IF c.paths = <<>> THEN c
  ELSE [c EXCEPT
          !.ptr = SlotOf(c),
          !.sram.dir = IF SlotOf(c) > Len(@) THEN Append(@, c.index) ELSE @]

\* A NULL sram_disk_ptr is written through: FlushHasTarget rules it out.
StoredInSram(c) ==
  IF c.ptr = 0 THEN c ELSE [c EXCEPT !.sram.slot[c.ptr] = c.disk.data]

ToSram(c, files) == mode = "sram" /\ Exists(c.name, files)
Flushed(c, files) ==
  IF c.dirty = 0 \/ mode = "never" THEN c
  ELSE [(IF ToSram(c, files) THEN StoredInSram(Listed(c)) ELSE c) EXCEPT !.dirty = 0]

\* An image that has no file gets one, even where changes go to the SRAM.
FilesFlushed_Sram(c, files) ==
  IF c.dirty = 0 \/ mode = "never" THEN files
  ELSE [files EXCEPT ![c.name] = c.disk.data]
FilesFlushed(c, files) ==
  IF c.dirty = 0 \/ mode = "never" \/ ToSram(c, files) THEN files
  ELSE [files EXCEPT ![c.name] = c.disk.data]

(***************************************************************************)
(* Disks in and out of the drive.                                          *)
(***************************************************************************)
\* ChangeDisk(0, 0), (0, name) and (0, "").  A name that is not the name of a
\* file leaves the drive empty.
Ejected(c)  == [c EXCEPT !.disk = Empty, !.dirty = 0]
Changed(c, files) ==
  IF Exists(c.name, files)
  THEN [c EXCEPT !.disk = [in |-> c.name, data |-> files[c.name]], !.dirty = 0]
  ELSE Ejected(c)
NewDisk(c)  ==
  [c EXCEPT !.disk = [in |-> c.name, data |-> <<c.name, 0>>], !.dirty = 1]

\* patch_disk(): the SRAM's version of the image replaces the file's.
Pointed(c) ==
  IF c.sram = NoSram \/ c.paths = <<>> THEN c
  ELSE [c EXCEPT !.ptr = IF SlotOf(c) > Len(c.sram.dir) THEN 0 ELSE SlotOf(c)]
Patched(c) ==
  LET p == Pointed(c) IN
  IF p.ptr > 0 /\ p.sram.slot[p.ptr] # Nothing /\ p.disk # Empty
  THEN [p EXCEPT !.disk.data = p.sram.slot[p.ptr]]
  ELSE p

\* set_image_index(n).
ImageSet(c, n, files) ==
  LET at == [c EXCEPT !.index = n] IN
  IF n >= Len(c.paths) THEN [Ejected(at) EXCEPT !.ptr = 0]
  ELSE LET loaded == Changed([at EXCEPT !.name = c.paths[n + 1]], files) IN
       IF loaded.disk # Empty
       THEN (IF mode = "sram" THEN Patched(loaded) ELSE loaded)
       ELSE IF phantom_disk THEN NewDisk(loaded) ELSE loaded

(***************************************************************************)
(* A game is loaded, and the frontend reads its SRAM.                      *)
(***************************************************************************)
LoadM3u ==
  LET c == [CoreOff EXCEPT !.paths = Playlist]
      set == ImageSet(c, 0, file) IN
  \* StartMSX() loads the disk again
  [Changed(set, file) EXCEPT
     !.inserted = TRUE,
     !.sram = IF mode = "sram" THEN (IF srm = NoSram THEN BlankSram ELSE srm)
                               ELSE NoSram]

LoadDsk ==
  LET c == IF Exists(Single, file) THEN Changed(CoreOff, file)
           ELSE IF phantom_disk THEN NewDisk(CoreOff) ELSE CoreOff IN
  IF mode = "sram" /\ Exists(Single, file)
  THEN [c EXCEPT !.sram = IF srm = NoSram THEN BlankSram ELSE srm, !.ptr = 1]
  ELSE c

retro_load_game ==
  /\ phase = "off"
  /\ core' = IF kind = "m3u" THEN LoadM3u ELSE LoadDsk
  /\ phase' = "loaded"
  /\ UNCHANGED <<mode, kind, file, srm, writes, latest>>

(***************************************************************************)
(* retro_run(): one frame, in which the program may write to the disk.     *)
(***************************************************************************)
FirstPatch(c) ==
  IF mode = "sram" /\ ~c.patched THEN [Patched(c) EXCEPT !.patched = TRUE] ELSE c

Written(c) == [c EXCEPT !.disk.data = <<c.disk.data[1], writes + 1>>, !.dirty = 1]

Debounces_Never(c) == FALSE
Debounces(c) == mode \in {"immediate", "sram"} /\ c.dirty > 0
Debounced_Late(c, files) ==
  IF ~Debounces(c) THEN c
  ELSE IF c.dirty >= fps THEN Flushed(c, files) ELSE [c EXCEPT !.dirty = @ + 1]
Debounced(c, files) ==
  IF ~Debounces(c) THEN c
  ELSE LET d == [c EXCEPT !.dirty = @ + 1] IN
       IF d.dirty >= fps THEN Flushed(d, files) ELSE d
FilesDebounced(c, files) ==
  IF Debounces(c) /\ c.dirty + 1 >= fps THEN FilesFlushed(c, files) ELSE files

EndFrame(c) ==
  /\ core' = Debounced(c, file)
  /\ file' = FilesDebounced(c, file)

retro_run ==
  LET c == FirstPatch(core) IN
  /\ phase \in {"loaded", "running"}
  /\ phase' = "running"
  /\ \/ /\ EndFrame(c)
        /\ UNCHANGED <<writes, latest>>
     \/ /\ c.disk # Empty /\ writes < MaxWrites
        /\ EndFrame(Written(c))
        /\ writes' = writes + 1
        /\ latest' = [latest EXCEPT ![c.disk.in] = Written(c).disk.data]
  /\ UNCHANGED <<mode, kind, srm>>

(***************************************************************************)
(* The frontend's disk control interface, which only .m3u games have, and  *)
(* the keyboard.  The tray is open while ~inserted.                        *)
(***************************************************************************)
Swappable == phase = "running" /\ kind = "m3u"
Kept == UNCHANGED <<mode, kind, phase, srm, writes, latest>>

set_eject_state(ejected) ==
  /\ Swappable
  /\ IF ejected
     THEN /\ core' = [Ejected(Flushed(core, file)) EXCEPT !.inserted = FALSE, !.ptr = 0]
          /\ file' = FilesFlushed(core, file)
     ELSE /\ core' = [core EXCEPT !.inserted = TRUE]
          /\ UNCHANGED file
  /\ Kept

\* The disk is in the drive from here on, whether or not the tray is closed.
set_image_index(n) ==
  /\ Swappable
  /\ ~core.inserted                           \* "Can only be called when disk is ejected"
  /\ core.disk = Empty \/ Reselects
  /\ core' = ImageSet(core, n, file)
  /\ UNCHANGED file
  /\ Kept

\* add_image_index() and then replace_image_index() of the new index, as
\* frontends call them to append an image.
AppendImage(i) ==
  /\ Swappable
  /\ ~core.inserted
  /\ Len(core.paths) < MAXDISKS
  /\ i \notin ToSet(core.paths)
  /\ core' = [core EXCEPT !.paths = Append(@, i)]
  /\ UNCHANGED file
  /\ Kept

\* replace_image_index(n) of another index.  The SRAM keeps changes by index,
\* so that another game's image there is patched with them.
ReplaceImage(n, i) ==
  /\ Swappable
  /\ ~core.inserted
  /\ mode # "sram"
  /\ i \notin ToSet(core.paths)
  /\ core' = [core EXCEPT !.paths[n + 1] = i]
  /\ UNCHANGED file
  /\ Kept

KeySwap_NoFlush(n) ==
  /\ Swappable
  /\ core.inserted
  /\ core' = ImageSet(core, n, file)
  /\ UNCHANGED file
  /\ Kept
\* Ctrl and a digit, in keyboard_event().
KeySwap(n) ==
  /\ Swappable
  /\ core.inserted
  /\ file' = FilesFlushed(core, file)
  /\ core' = ImageSet(Flushed(core, file), n, file')
  /\ Kept

retro_reset ==
  /\ phase = "running"
  /\ core' = Flushed(core, file)
  /\ file' = FilesFlushed(core, file)
  /\ Kept

(***************************************************************************)
(* retro_get_memory_size(), after which the frontend saves what            *)
(* retro_get_memory_data() points to, then retro_unload_game().            *)
(***************************************************************************)
\* Of an .m3u game only the slots in the directory are saved.
Saved(c) ==
  [c.sram EXCEPT !.slot = [r \in DOMAIN @ |->
     IF kind = "dsk" \/ r <= Len(c.sram.dir) THEN @[r] ELSE Nothing]]
Cleaned(c) == [c EXCEPT !.sram = NoSram, !.ptr = 0, !.patched = FALSE]

SaveFiles ==
  LET c == Flushed(core, file)
      unchanged == kind = "dsk" /\ c.sram # NoSram /\ c.sram.slot[1] = Nothing IN
  /\ phase = "running"
  /\ phase' \in {"closing"} \cup (IF kind \in SavesWhile THEN {"running"} ELSE {})
  /\ IF mode = "sram"
     THEN /\ core' = IF unchanged THEN Cleaned(c) ELSE c
          /\ srm' = IF core'.sram = NoSram THEN srm ELSE Saved(c)
          /\ file' = FilesFlushed(core, file)
     ELSE UNCHANGED <<core, srm, file>>
  /\ UNCHANGED <<mode, kind, writes, latest>>

retro_unload_game ==
  /\ phase = "closing"
  /\ file' = FilesFlushed(core, file)
  /\ core' = CoreOff
  /\ phase' = "off"
  /\ UNCHANGED <<mode, kind, srm, writes, latest>>

Next ==
  \/ retro_load_game \/ retro_run \/ retro_reset
  \/ \E ejected \in BOOLEAN : set_eject_state(ejected)
  \/ \E n \in 0 .. Len(core.paths) : set_image_index(n) \/ KeySwap(n)
  \/ \E i \in Appendable : AppendImage(i)
  \/ \E n \in 0 .. Len(core.paths) - 1, i \in Appendable : ReplaceImage(n, i)
  \/ SaveFiles \/ retro_unload_game

Spec == Init /\ [][Next]_vars
\* The frontend runs frames, and unloads a game whose SRAM it saved to close it.
FairSpec == Spec /\ WF_vars(retro_run) /\ WF_vars(retro_unload_game)

(***************************************************************************)
(* Properties                                                              *)
(***************************************************************************)
Disk == {Empty} \cup [in : Images, data : Contents]
Sram == {NoSram} \cup
        [dir : UNION {[1 .. n -> 0 .. MAXDISKS - 1] : n \in 0 .. MAXDISKS},
         slot : [1 .. MAXDISKS -> Contents \cup {Nothing}]]

\* Every variable has its type: the debounce counter stays below fps, and the
\* directory of the SRAM within its MAXDISKS entries.
TypeOK ==
  /\ mode \in Modes /\ kind \in Kinds
  /\ phase \in {"off", "loaded", "running", "closing"}
  /\ core.paths \in UNION {[1 .. n -> Images] : n \in 0 .. MAXDISKS}
  /\ core.index \in 0 .. MAXDISKS /\ core.name \in Images
  /\ core.disk \in Disk /\ core.dirty \in 0 .. fps - 1
  /\ core.sram \in Sram /\ srm \in Sram /\ core.ptr \in 0 .. MAXDISKS
  /\ {core.inserted, core.patched} \subseteq BOOLEAN
  /\ file \in [Images -> Contents \cup {Nothing}]
  /\ writes \in 0 .. MaxWrites /\ latest \in [Images -> Contents]

\* A program finds on a disk what was last written to it, whichever disks
\* were in the drive since, and however often the game was closed: unless
\* changes are never saved.
NothingLost ==
  mode # "never" /\ phase = "running" /\ core.disk # Empty =>
    core.disk.data = latest[core.disk.in]

\* What the image in the drive would show if it were inserted again.
Slot(c) == IF kind = "dsk" THEN 1 ELSE SlotOf(c)
InSram(c) ==
  /\ mode = "sram" /\ c.sram # NoSram
  /\ Slot(c) <= MAXDISKS /\ c.sram.slot[Slot(c)] # Nothing
Stored(c) == IF InSram(c) THEN c.sram.slot[Slot(c)] ELSE file[c.disk.in]

\* A disk that is not marked to be flushed is stored where it will be found:
\* in its file, or in the SRAM's slot for its index.
CleanIsStored ==
  mode # "never" /\ phase = "running" /\ core.disk # Empty /\ core.dirty = 0 =>
    core.disk.data = Stored(core)

\* The directory of the SRAM names every patched image once, and each slot
\* holds the image its entry names.
DirectoryMatches ==
  core.sram # NoSram /\ kind = "m3u" /\ phase # "loaded" =>
    /\ IsInjective(core.sram.dir)
    /\ \A r \in 1 .. MAXDISKS :
         core.sram.slot[r] # Nothing =>
           /\ r \in DOMAIN core.sram.dir
           /\ core.sram.dir[r] < Len(core.paths) =>
                core.sram.slot[r][1] = core.paths[core.sram.dir[r] + 1]

\* Where the changes of a disk go to the SRAM, there is a place in it for them.
FlushHasTarget ==
  mode = "sram" /\ core.dirty > 0 /\ Exists(core.name, file) =>
    core.sram # NoSram /\ (kind = "dsk" => core.ptr = 1)

\* What is to be found of a disk when it is inserted again is what it holds, and
\* what it holds has a place to be stored.
StoredInPlace == CleanIsStored /\ DirectoryMatches /\ FlushHasTarget

\* "This will leave your content files intact": with "To/From SRAM", and with
\* "Never", no file that exists is changed.
ContentIntact ==
  [][\A i \in Images :
       mode \in {"sram", "never"} /\ Exists(i, file) => file'[i] = file[i]]_vars

\* With "Immediate" and "To/From SRAM" a change is flushed before long.
FlushedSoon ==
  (mode \in {"immediate", "sram"} /\ core.dirty > 0) ~> (core.dirty = 0)
=============================================================================
