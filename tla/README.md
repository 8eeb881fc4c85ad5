# fMSX for libretro in TLA+

fmsx-libretro is an emulator of the MSX home computers: Marat Fayzullin's fMSX
behind the libretro interface. This directory specifies the parts of it that
keep redundant or long-lived state and are driven in any order by two actors,
the emulated program and the frontend: the address space, the floppy disk
controller, the disk images with their formats and saved data, the video processor's ports,
interrupts and command engine, the Z80 with its instructions, and the cheats.

| module | what it is |
| --- | --- |
| `MemoryMap` | slots, RAM mapper, MegaROM mappers, save states (`src/fMSX/MSX.c`, `src/EMULib/I8255.c`) |
| `MCMemoryMap` | its constants for TLC |
| `MemoryMapProofs` | theorems about it |
| `SectorTransfer` | what a disk controller promises to the program: the abstract specification of `WD1793` |
| `WD1793` | the controller, the drives and the emulator around them (`src/EMULib/WD1793.c`, `FDIDisk.c`, `MSX.c`) |
| `MCWD1793` | its constants for TLC |
| `WD1793Proofs` | theorems about it, with its refinement |
| `DiskControl` | swapping, flushing and saving disk images (`src/libretro.c`) |
| `MCDiskControl` | its constants for TLC |
| `DiskControlProofs` | theorems about it, and about `Fat12` |
| `Fat12` | the disks that are made of directories (`src/EMULib/Floppy.c`) |
| `DiskImages` | formats of images, sectors, formatting, saving and loading again (`src/EMULib/FDIDisk.c`, `src/fMSX/Patch.c`, `MSX.c`, `src/libretro.c`) |
| `MCDiskImages` | its constants for TLC: images, boot sectors, a directory |
| `VdpCommands` | commands of the video processor (`src/fMSX/V9938.c`, `MSX.c`) |
| `MCVdpCommands` | its constants for TLC |
| `VdpCommandsProofs` | theorems about it |
| `VideoMemory` | what the ports of the video processor promise: the abstract specification of `VdpPorts` |
| `VdpPorts` | ports 98h..9Bh, registers, screen modes and tables (`src/fMSX/MSX.c`) |
| `MCVdpPorts` | its constants for TLC |
| `VdpPortsProofs` | theorems about it, with its refinement |
| `Interrupts` | scanlines, cycles, the interrupt line and the Z80's flip-flops (`src/fMSX/MSX.c`, `src/Z80/Z80.c`) |
| `MCInterrupts` | its constants for TLC |
| `InterruptsProofs` | theorems about it |
| `Z80Arith` | bytes, words and flags of the Z80's arithmetic (`src/Z80/Z80.c`, `Tables.h`) |
| `Z80` | the instruction set and interrupts between instructions (`src/Z80`) |
| `MCZ80` | programs for it, with what they promise |
| `Z80Proofs` | theorems about both |
| `Cheats` | codes that patch ROM and RAM, and F7 (`src/fMSX/MSX.c`, `src/EMULib/MCF.c`, `src/libretro.c`) |
| `MCCheats` | its constants for TLC: games with their files |
| `CheatsProofs` | theorems about it |

## Inventory

The repository's own code is about 16,000 lines; the rest is libretro-common
and ROM data. Everything runs in one thread: the frontend calls
`retro_run()`, which emulates one frame by `RunZ80()`, and between two frames it
may call any other `retro_*` function or callback. What makes the code hard is
therefore not parallelism but order: of the program's port and memory accesses,
of frontend calls between frames, and of both against each other.

**Address space** (`MSX.c`: `WrZ80`, `PSlot`, `SSlot`, `OutZ80` FCh..FFh,
`MapROM`, `SetMegaROM`, `ResetMSX`, `LoadState`). State: slot registers `PSLReg`
and `SSLReg`, and behind them six caches, `PSL`, `SSL`, `RAM`, `EnWrite`,
`RAMMapper`, `ROMMapper`, plus `MemMap`. Every handler changes some of it and
repairs what it knows to be stale. Correct when the caches agree with the
registers, whatever the order; when no store reaches a ROM; when SRAM that
changed is saved; when a loaded state shows what was shown.

**Floppy controller** (`WD1793.c`). State: five registers, the heads, a pointer
`Ptr` into a disk image, two lengths, the interrupt line, a watchdog `Wait`.
Operations: reads and writes of the registers by the program, resets, disk
changes. Correct when every transfer moves the sectors that were asked for and
is signalled, when `Ptr` stays in the track that the transfer was begun on, when
what was written is flushed, and when a controller that is polled does not stay busy. Nothing
stops the head at the last track of the disk, which is the hard case here.

**Disk images** (`FDIDisk.c`, `libretro.c`). State: the disk in each drive, its
`Dirty` counter, the list of images with the current index, the SRAM buffer
with a directory of patched images, the files. Operations: loading a game,
frames, the disk control interface, keys, resets, `retro_get_memory_size()`,
unloading. Correct when nothing a program wrote is lost and files that should
stay intact do.

**Formats of images** (`FDIDisk.c`): `LoadFDI()` turns files of eleven formats into
one internal format with a directory of sectors, `SeekFDI()` and `LinearFDI()`
find sectors in it, `SaveFDI()` writes raw images. Correct when what is saved has every sector
where it is found when the image is loaded again, whatever its first format.

**FAT12 disks from directories** (`Floppy.c`): builds a disk from files. A pure
algorithm: cluster chains do not cross, files read back, the two tables agree.

**VDP command engine** (`V9938.c`): 12 commands run in slices of a budget of VDP
cycles, with a TR handshake for CPU transfers. State: `VdpEngine`, `MMC`,
`VDPStatus[2]`, `VdpOpsCnt`. Correct when CE is set exactly while an engine
runs, commands end, and transfers move each pixel once.

**VDP ports** (`MSX.c`: `VDPOut`, `OutZ80` and `InZ80` 98h..9Bh, `SetScreen`).
State: 64 registers, two byte latches, an address split over register 14, the
page pointer `VPAGE` and `VAddr`, and nine table addresses and masks computed
from registers when those are written. Correct when programs see one video
memory behind one address that counts up, and the tables are those of the
registers.

**Scanlines and interrupts** (`MSX.c`: `LoopZ80`, `SetIRQ`; `Z80.c`: `RunZ80`,
`IntZ80`). State: `ScanLine`, the status flags, `IRQPending`, `IRequest`, the
cycle counter with its copy `IBackup`, the flip-flops. Correct when the line is
up exactly while something is pending, no cycle is lost, no interrupt comes right
after EI, and there is one vertical blank in a frame.

**Z80** (`Z80.c`, `Codes*.h`): registers, memory and about 1,300 opcodes in five
tables. Correct when results and flags are those of the arithmetic, and
when interrupts leave no trace.

**Cheats** (`MSX.c`, `MCF.c`, `libretro.c`): a table of codes, each with the
bytes it covers, a switch, and F7's counter. Correct when codes are in force
while the switch is on, and when nothing of them is left after it was turned off.

**Disk ROM and tape patches** (`Patch.c`): `PHYDIO` reads and writes sectors by number, switches
the slots to RAM and has to put them back; `DSKFMT` formats.

**PPI, PSG, SCC, YM2413, sound mixer, RTC, keyboard, joysticks, mouse,
printer**: register files, latches and synthesis.

**Screen renderers**: VRAM to pixels. **Cartridge loading**: files, hashes,
`GuessROM()`. **Options**: `check_variables()` changes `Mode` and the sizes of RAM and VRAM of
a running machine.

`PROJECT.json` lists these components with their status and every hazard at its line.

## How the parts interact

The program reaches the controller through `WrZ80()`, `OutZ80()` (memory mapped
and I/O mapped registers) and the disk ROM's `PHYDIO` patch; both write sectors
of the image in the drive and make it `Dirty`. `ChangeDisk()` takes a disk away
under the controller, so it resets it first. `libretro.c` counts `Dirty` down
once a frame and saves the image, to its file or to the SRAM buffer that the
frontend stores. A save state has registers and RAM, no pointers:
`LoadState()` computes those again. `WD1793` keeps the drives from the
controller's side, `DiskControl` from the frontend's, and `DiskImages` from that of
the sectors: the first has `Ptr` and every byte, the second the contents as
versions and the files, the third the layouts of an image in memory, in its file and in
the SRAM, with whole sectors written at once.

The processor calls `LoopZ80()` twice in a scanline, when its cycle counter
expires; that one sets flags of the video processor, runs its commands, and
raises the line that `IntZ80()` answers. Programs change flags, enable bits and
the number of lines through the ports in between. `Interrupts` has time and the
line, and takes instructions by their effect on both; `Z80` has what
instructions compute and lets an interrupt come after any of them; `VdpPorts`
has the registers, and leaves their interrupt bits to `Interrupts` and R#32..R#46
to `VdpCommands`.

## MemoryMap

A memory block is `<<kind, owner, n>>`: an 8kB page of a ROM, of RAM, of SRAM.
Variables are named as in the code. `ppiA`, `ppiIn` are the PPI's port A latch and
mode; `stored` is where the last store of the program went; `saved` is a save
state, with the windows it was taken under (`view`, which is not in the file).

| action | code |
| --- | --- |
| `OutSlot`, `OutPPIMode` | `OutZ80` A8h and ABh, `Write8255`, `PSlot` |
| `WrZ80` | `WrZ80`: `SSlot` at FFFFh, the controller's registers, mapped RAM, `MapROM` with one operator for each mapper |
| `OutMapper` | `OutZ80` FCh..FFh |
| `Reset`, `Restart` | `ResetMSX`, `StartMSX` |
| `SaveState`, `LoadState` | the same |

Left out: `MAP_GUESS`, which `LoadCart()` never leaves in `ROMType`; the OPLL
registers of the FMPAC; sounds of the SCC; the disk ROM patches.

A program is a setup of cartridges with what it writes and where: `Programs` is a set of such
records, of which a behaviour takes one at its start, and none of its handlers changes
it. `ABFirst` are the cartridges with the mark "AB" in the first page of their ROM, which `ResetMSX()`
shows then; of the others it shows the last two pages. `stored` has pages
of blocks as `MapROM()` computes them, whether there is such a page or not; `Blocks` says how many
each buffer has.

Run `mappers` (69,138 states, 90 s) takes twelve programs. `Switching` has a cartridge of each
type but the FMPAC in slot A and no save state; `Saving` has a GEN16, an ASCII8 or
an FMPAC in slot B, one save state, and fewer values, as states of the machine
and saved ones multiply. 8 ROM pages and 4 RAM
segments are the smallest that differ from each other and from register values,
so that a wrong mask or a missing mask shows. The slot bytes put different
slots in all pages, and the addresses are one for each case of `MapROM()`;
two bytes are enough since every handler compares a new value with the old one only.
One save state is enough: a second one overwrites the first.

Run `sram` ends in a violation of `StoresInBuffers`, for the program with an ASCII16 cartridge. A
store to its SRAM is mirrored over 16kB from the beginning of the 8kB page the store is in: `P = RAM[A>>13]`, then
`P[A]` to `P[A + 0x3800]` (`MSX.c:1634-1640`). From A000h on `P` is the second page of a buffer
of `0x4000` bytes (`MSX.c:3117`), so that 8kB behind the buffer are written to, which `MapROM()` calls
"Write to SRAM". `BanksHonest` and its theorem allow for this one overrun, and no other.

| property | what it says |
| --- | --- |
| `WindowsShowSlots` | windows, PSL, SSL and PSLReg agree with A8h and FFFFh |
| `RAMWritable` | EnWrite exactly over mapped RAM, showing the segment of its port |
| `BanksHonest` | each bank shows the page of its register, so that `V != ROMMapper` never skips a switch that is due (`BanksShowPages`); no store changes a ROM (`RomNeverStored`), a store to SRAM marks it to be saved (`SRAMStoreIsSaved`), and every store is to a page that exists, but for the ASCII16 overrun (`StoresExist`) |
| `StoresInBuffers` | every store is to a page that exists; violated (run `sram`) |
| `LoadRestoresView` | a loaded state shows what was shown |

Three habits of the code stand behind what these leave out. A bank register of
FFh is the mark of SRAM, and page 255 of a ROM of 2 MB has the same number: in an ASCII8
cartridge of that size a program that selects it can store to it as if it were
SRAM, and with `RomPages = 256` and a program that stores FFh TLC finds `BanksHonest` violated. `FMPACKey` survives
`ResetMSX()`, which maps the ROM again, so that stores still reach it: `RomNeverStored`
leaves the FMPAC out. A bank register of FFh, which means SRAM, is
masked to a ROM page when a state is loaded: `LoadRestoresView` leaves out banks that
showed SRAM. It also leaves out SCC-I RAM and the scratch block of empty
slots, whose pages the code does not put back, and the FMPAC when unlocked.

## WD1793 and SectorTransfer

`Ptr` says which part of which disk it points into, so that a pointer out of its
track is a state like any other. `unsaved`, `strayed` and `astray` are history:
disks that differ from what was saved of them; another drive was selected
during this transfer; drives written to while not selected, or saved while garbled.

`Read1793()` is `ReadStatus`, `ReadData` and `ReadReady`; `Write1793()` is one
action for each command group and register; `ResetMSX`, `ChangeDisk` and
`flush_disk` are the emulator's. `SectorTransfer` knows only the transfer under
way and the signal; `TransfersSectors` is that specification under a refinement
mapping from lengths and `Ptr`, checked as a property of the run and proved, and covers the order of
bytes, whole sectors, and each way a transfer ends.

**Past the last track.** SEEK takes the head to whatever byte is in the data register, and
STEP counts on without a bound (`WD1793.c:191-221`); the head wraps with the width of its
field (`Heads`). `SeekFDI()` looks for the track by walking along the directory of the disk, track by track
(`FDIDisk.c:1006-1026`), and past its end it takes the label and the data of the disk for more of it. It then
finds nothing, goes past the end of the image, or returns a pointer computed from bytes of the disk, and leaves in
the disk a `Sectors` and a `SecSize` that it found there. Its comment (`FDIDisk.c:974-975`) says "Returns
sector address on success or 0 on failure", which past the last track it does not. The model has all of these
outcomes for a command with the head there:

* NOT FOUND, as for any sector that is not there;
* a transfer whose pointer is `"wild"`, of a length in `WildLengths`: the code multiplies two numbers it has
  read, so that it can also be 0, and then the controller is busy with nothing to transfer, or below 0, and
  then it does not end by counting down. `SectorTransfer` has a mode of its own for these, of which it promises that they are
  announced and nothing else;
* the drive is `garbled` until a `SeekFDI()` finds a sector of a track in its disk, or
  another disk comes. In a garbled drive nobody knows when the sector register goes on. `flush_disk()`
  saves as many sectors of such a size as the disk claims, which is no copy of it: it counts as `unsaved`
  and `astray`. It clears `Dirty` all the same;
* `lost`, with `WildAccess`: a search past the end of the image, a read or a write through a wild pointer, WRITE-TRACK, or the
  save of a garbled disk into the SRAM. What they change can be anything, or they fault, so that nothing is said of
  what follows.

All this is more than one disk can do, as the bytes behind its directory are what they are.
That the properties hold with it shows how far the damage goes: a transfer that begins on a track is
right, also when transfers begun past the last track came before it, unless one of those was followed.

| property | what it says |
| --- | --- |
| `TransfersSectors` | `WD1793` implements `SectorTransfer` |
| `ControllerInStep` | BUSY exactly while bytes are left or the transfer is a wild one (`BusyWhileTransfer`); `Ptr` and all bytes left of a transfer begun on a track lie in that track, of a disk that is in its drive, and `Ptr` is wild only with the head past the last track (`PtrInBounds`); the sector register names the sector `Ptr` is in (`SectorRegFollows`) |
| `TypeOK` | fields have values of their types; the head is as far as it can count |
| `WritesAreFlushed` | a disk that differs from its file is Dirty |
| `BusyEnds` | a controller that is polled does not stay busy, but for a length below 0 |

`SectorRegFollows` and `WritesAreFlushed` exclude transfers during which the
program selects another drive (`strayed`, `astray`): the code then takes sector size and
`Dirty` from the other drive, which is a hazard of its own.

Run `drives` (650,188 states, 95 s) has twelve commands, of every group and with both ends of
a transfer, for drive 0 and the other side of drive 1, which the program selects at any
time. One track of two sectors of two bytes, and one place past it, are enough to tell a track from what comes
behind the last one, one sector from a run, the first byte from the last, and a track's end from a sector's.
A register counts to 2 for 255 (`RegSize`), so that the sector register wraps; a watchdog of 1
poll stands for 255. `WildLengths` is one of each kind. Outside a transfer the pointer is `Nowhere`: the code does not look at it.

`S_RESET` is never written by the
wrappers in `MSX.c`. `F_HEADLOAD` and `F_NOTREADY` are left out, as are disks
that number sectors otherwise than 1 to `Sectors`. `flush_disk()` saves drive 0
only, as in the code. Fairness: `WF(Poll)`, that is of `ReadReady`, for a disk ROM that waits for
READY polls it again and again; every read brings the watchdog nearer.

`Wait` is not cleared when a transfer ends, so that polling an idle controller
sets LOST DATA and raises IRQ once more.

## DiskControl

`mode` is the option "Save disk changes", `kind` says whether the game is one
`.dsk` or an `.m3u` list; neither changes during a behaviour. The machine and the
core's variables are one record `core`, dropped by `retro_unload_game()`;
`file` and `srm` are what stays on the host. A disk's content is `<<image, n>>`, n counting
its writes; `latest` is what a program must find.

| action | code |
| --- | --- |
| `retro_load_game` | the same, then the frontend fills the SRAM buffer |
| `retro_run` | `FirstPatch`, the program's writes, the debounce `EndFrame` |
| `set_eject_state`, `set_image_index` | the same |
| `AppendImage` | `add_image_index` and `replace_image_index` of the new index, as frontends call them |
| `ReplaceImage` | `replace_image_index` |
| `KeySwap` | Ctrl and a digit in `keyboard_event` |
| `retro_reset`, `retro_unload_game` | the same |
| `SaveFiles` | `retro_get_memory_size` and the frontend's save of the buffer |

| property | what it says |
| --- | --- |
| `NothingLost` | a program finds what was last written, across swaps and sessions |
| `StoredInPlace` | a disk without pending flush is stored where it will be found (`CleanIsStored`), the SRAM directory names each patched image once, and rightly (`DirectoryMatches`), and a change that goes to the SRAM has a slot there (`FlushHasTarget`) |
| `ContentIntact` | "To/From SRAM" and "Never" change no existing file |
| `FlushedSoon` | with "Immediate" and "To/From SRAM" a change is flushed |

Run `disks` (34,395 states): 3 images, 3 SRAM slots for the code's 9, 3 writes,
a debounce of 3 frames for 50 or 60. Three images are the two of a game and one
that is appended; three writes are enough to write two disks and the first one again.
The frontend calls `set_image_index()` with the tray open, as `libretro.h` says,
and inserts one image into an empty drive before it closes the tray; it
replaces images outside "To/From SRAM" only. File operations do not fail; there is
no DRIVEB.DSK. Fairness: `WF(retro_run)`, the frontend runs frames, and
`WF(retro_unload_game)` after the last save of a session.

Two assumptions on frontends are constants. `SavesWhile` has the kinds of games whose SRAM
is saved while they run: with a `.dsk` game among them, one that has changed nothing yet
makes `retro_get_memory_size()` free its buffer, and its next change is flushed through a
NULL pointer (TLC finds `FlushHasTarget` violated); the run has `.m3u` games only. And
`set_image_index()` puts the image into the drive although the tray is open, so that what
the program writes to it is lost when a second call sets another one. `Reselects` allows such
calls; it is FALSE in the run, and with TRUE TLC finds `NothingLost` violated.

## DiskImages and Fat12

A disk in memory is its directory of tracks and sectors with the bytes behind it, as in
the internal format; `NewFDI()` lays it out, and the CPC and `.FDI` readers bring their own.
Bytes are counted in units of 128, the smallest sector, and a boot sector, a table and a
directory are the first unit of theirs. `file` is what has the image's name on the host, `sram`
what `sram_disk_ptr` points to. A directory becomes a disk in steps, one for each file in any
order, as the host's directory has none. `Fat12` has the steps of `DSKLoad()`: `made` is the disk that is
being made, with tables of bytes, and `read` the files that have been read. Those of `DiskImages` take one of
them or leave `made` and `read` alone, so that its behaviours are behaviours of `DSKLoad(files)`;
`Laid` puts the disk into the sectors of an image when all files are read.

| action | code |
| --- | --- |
| `InsertImage` | `ChangeDisk` with an image: `LoadFDI`, its reader by extension or by magic, then `patch_disk` |
| `OpenDirectory`, `ReadFile`, `InsertDirectory` (`StartDSK`, `AddFile`, `EndDSK`) | `ChangeDisk` with a directory: `DSKLoad`, `DSKFile`, `DSKWrite`, `DSKDelete` |
| `InsertNew` | `ChangeDisk(0,"")` for the phantom disk: `DSKCreate` |
| `ReadSector`, `WriteSector` | whole sectors by `Write1793`: `SeekFDI`, which leaves its sizes in the disk |
| `PHYDIO`, `DSKFMT` | the disk ROM patches: `LinearFDI`, `DiskWrite` |
| `Flush` | `flush_disk`: `SaveFDI` to the file, or to the SRAM |
| `Eject` | `retro_unload_game` and the end of a session |

| property | what it says |
| --- | --- |
| `CleanReloads` | a disk that is not Dirty is found again sector by sector when the image is loaded anew (`ReloadsSame`), and sector n of MSX-DOS is the n-th of the raw file (`LinearInFile`) |
| `FilesOnDisk` | each file of the directory reads back, unless it is empty, its name starts with 0xE5, is taken, or it does not fit; no cluster is in two files or lost; the two tables agree |

Run `images` (21,752 states): 80 tracks are 2 and 8, 9, 10, 16 sectors are 3, 4, 5, 6, so that
the sizes of formats that are equal or ordered in the code are so here, and a search
by size finds what the code's finds. Games are raw images of each size, short and long ones,
boot sectors that tell the truth and one whose heads are wrong, `.FDI` with sectors in
reverse, CPC with interleaved ones, `.sad`, `.trd`, `.ddp`, a directory and a new disk. The FAT12 disk
of the run has 4 clusters and 4 entries; its 8 files are empty, of one cluster, of several,
too large, one has a name that starts with 0xE5, and two have the name of a third one: 4 clusters are full with the smallest files, and
entries of the table come in pairs. Programs write one sector on each side and two by
number. There is no liveness to state: everything is a call.

A file of the host whose name starts with the byte 0xE5 (an å in Latin-1, a Han character in UTF-8) is not on the disk: FAT12
marks deleted entries with that byte, so that `DSKWrite()` takes the entry that `DSKFile()` has just
made for a deleted one and writes nothing. MSX-DOS writes 0x05 there instead; the code does not.
`NoneMissing` says so.

Left out because the code has no answer to it, as the run would show: a disk whose boot sector
is overwritten with something else and whose size does not tell its geometry
(`Recognizable`); raw images of unknown geometry, which `LoadFDI()` takes for loaded
without any data; `.IMG`, which is read side by side and flushed track by track; with "To/From SRAM"
anything but raw images of full size, since `patch_disk()` copies as many bytes as the file
has (`GameAssumption`). `SaveFDI()` removes the file when a disk cannot be saved, as those with
unlike tracks or sectors that do not count from 1. Changes to a disk of a directory cannot
be flushed, as its name is that of the directory; the code drops them, and so does the model.

## VdpCommands

A command's counters `MMC` have the fields of the C structure. Pixels have no
colours: what a command does is the sequence `done` of its moves, each from a
place to a place, and colours that the CPU sends are numbered. `cmd` is the
command that was started and its counters then; it is `NoCmd` when nothing is foretold
of the moves: after a reset, a loaded state, another screen mode, and accesses
that break the handshake. `cmd`, `done`, `got` are history, and so are the
numbers `clr` and `s7`.

The ten engines are one operator, since they differ in the registers they move
(`LoopsSX` and so on) and in nothing else: `AreaPass` is the macros `post__x_y`,
`post__xyy`, `post_xxyy` and the same loops in the engines of the CPU,
`LinePass` and `SearchPass` the other two. `Loop` repeats a pass as often as the cycles
left allow; `VdpEngine(v)` is the set of what a call of the function pointer can leave.

| action | code |
| --- | --- |
| `LoopVDP` | the same, called by `LoopZ80()` in each scanline |
| `WriteArgs` | `VDPOut` R#32..R#43, R#45 |
| `WriteColour`, `ReadPixel` | `VDPOut` R#44 and `VDPWrite`; a read of status register 7 and `VDPRead` |
| `VDPDraw` | the same, at once as far as cycles are left |
| `SetScreen`, `ResetMSX`, `LoadState` | the same, none of which touches the engine |

| property | what it says |
| --- | --- |
| `CommandsInStep` | slices or not, a command makes the moves of a closed formula, in order, each once (`DrawsPlan`); CE is set as long as the command's engine runs (`BusyWhileEngine`), and by TR no colour and no pixel is lost or used twice (`Handshake`) |
| `RegistersContinue` | SY, DY, NY let a program go on below what was drawn |
| `CommandsEnd` | commands that need no CPU end, in any mode and after any reset |

`DrawsPlan` compares the loops with `Plan`, which counts the pixels of a line and
the lines of a rectangle, and for LINE divides, instead of stepping. `TypeOK` has a
bound that the rest leans on: an engine that needs no CPU has no cycles left
between two steps, so that accesses to R#44 never run it.

Run `commands` (112,772 states): a screen of lines of 4 pixels among 8 columns
and of 3 lines stands for 256 or 512 among 512 and 1024; 3 cycles in a slice
and 2 for a pixel make slices of one pixel, of none, and debts. The arguments
are lines of full width, and a rectangle that goes left and up and leaves the
screen; SY, DY and NY then go on by themselves, so that all their values occur.
All ways through the engines occur; HMMV, LMMV, HMMM and LMMC take the same
operators as the commands in `Ops` and are left out of them.
Arguments are written during a command with one value only (`LateArgs`), and
states are loaded from one only (`SavedStates`): those are bounds. Fairness:
`WF(LoopVDP)`, scanlines go on while the emulator runs.

Not modelled: colours and logical operations, the registers of SRCH's result,
writes of single argument registers, and commands in the 80 column text mode, whose
`ScrMode` 13 passes the test for SCREENs 5-8, so that `VDPDraw()` reads its
tables past their ends.

The model shows two habits of the code that no document speaks of: LMCM leaves SY at
its last line and not behind it, and a command with NY = 0, for 1024 lines, leaves SY and DY
a line short. `RegistersContinue` excludes both.

A state saved during a command is loaded with CE set, but the engine is in no
state, so that a program that waits for CE waits for ever; the model does the
same, and no property speaks of it.

## VdpPorts and VideoMemory

Registers, latches and the address are variables of the names in the code;
`tables` holds the nine addresses and masks that `SetScreen()` and `VDPOut()`
compute. `current` (which of them were computed since the last reset) and `port`
(what the last access was to) are history.

| action | code |
| --- | --- |
| `DataOut`, `DataIn` | `OutZ80` and `InZ80` 98h |
| `Latch`, `RegisterOut`, `WriteAddress`, `ReadAddress`, `NoAddress` | `OutZ80` 99h, first byte and second, `VDPOut` |
| `PaletteOut`, `IndirectOut` | `OutZ80` 9Ah and 9Bh |
| `ResetMSX`, `LoadState` | what they do to the video processor |

| property | what it says |
| --- | --- |
| `TablesFollow` | the tables are those that the registers and the screen mode stand for |
| `LinearVRAM` | `VdpPorts` implements `VideoMemory`: one address over all of video memory |

Run `ports` (77,936 states): two pages of two bytes stand for 8 of 16kB, so that every
access can cross the end of a page; register values are those of SCREENs 0, 1, 4 and
7, the text mode of 80 columns and mode bits that stand for none, and one value
for each table register. The constraint `OneAtATime` keeps programs to tables, memory or colours at
a time. Two saved states have latches that wait for a second byte.

What the model shows of the code, and `TablesFollow` has to allow: after a
reset the tables are at 0 and registers 2..5 at FFh, until one of them is
written; `ScrMode` is not in a saved state, so that mode bits that stand for
no mode keep that of the running machine. Reading port 99h does not make the next byte a
first one again.

Run `pages192` ends in a violation of `PageInMemory`. `VRAMPageMask` is a power of 2
less one, 15 for the 12 pages of 192kB (`MaskedPages`), an option of the README;
register 14 is masked with it alone, so that the page pointer leaves video memory. With
32, 64 and 128kB the mask is the last page.

## Interrupts

The machine is one record `msx`, which an instruction takes to another one in the order of
the code: the instruction with its cycles, `LoopZ80()` when the counter has
expired, `IntZ80()` when something is requested. A program is any sequence of
instructions. `left`, `served`, `steady` are history: a clock beside the code's
counter, whether the last step accepted an interrupt, and whether `VDP[9]` is
unchanged since the first scanline.

| action | code |
| --- | --- |
| `RunZ80` | one turn of the loop of `RunZ80()`, with EI, DI, HALT, RETN, writes of registers 0, 1, 9 and 19, reads of status 0 and 1, or any other instruction |
| `retro_run` | the next frame |
| `ResetMSX`, `LoadState` | between frames |

| property | what it says |
| --- | --- |
| `LineFollowsFlags` | the request line, `IRQPending`, flags and enable bits agree |
| `CyclesKept` | EI's detour through `IBackup` neither loses nor gains cycles |
| `OneVBlank` | one vertical blank in a frame, at its line |
| `EIDelay` | no interrupt right after EI, and none later than it should be |
| `HaltEnds` | a HALT with VBlank enabled ends |

Run `frames` (99,306 states): a frame of 7 or 8 lines stands for 262 or 313, with the border,
the VBlank line and the end of coincidences in the order they have; a
line has 8 cycles, an instruction 1 or 2. Fairness: `WF` of `retro_run` and of HALT, which is executed
again and again. `CyclesAssumption` says that two instructions
do not take as long as a part of a scanline: the code's longest takes 23 cycles, and the shorter part of a line has 58.

What the model shows of the code: HALT after EI ends one cycle late; a HALT with interrupts
off ends as soon as something is requested; `Drawing` is neither reset nor saved, so
that the first frame after a loaded state may have no vertical blank (`steady`).

## Z80

`cpu` is the processor with memory and ports. The opcode tables are operators by
the fields of the opcode byte instead of 1,300 cases, with `HL`, `IX` or `IY` as a
parameter. A program is code, data, registers and what it promises of its end. Actions: `RunZ80`, one
instruction; `LoopZ80`, an interrupt after any instruction but EI; `Stop`.

| property | what it says |
| --- | --- |
| `TypeOK` | registers hold bytes, PC a word: every sum wraps |
| `EndsAsPromised` | the program's results are those of a reference that is not the code's |
| `InterruptsInvisible` | whatever the interrupts, registers, memory and ports end as without; handlers never nest |
| `ProgramsEnd` | repeating instructions stop, under `WF(RunZ80)` |

Run `programs` (14,064 states) takes a thousand small programs and up to two interrupts:
sums and differences at all edges of bytes and words against integers, DAA
against decimal numbers, logic against sums, pairs of instructions that undo each
other, block instructions against a copy byte by byte, jumps, calls and
conditions, the three interrupt modes, EI, HALT and RETI.

What the model shows of the code: INDR repeats when B has become 0 and stops otherwise, so that
no program uses it; DD or FD before ED passes over ED, so that the next byte
is run as a plain opcode; ED ED is fetched again; LDIR sets N between two turns.
Blocks of 65,536 bytes (BC = 0) are not run. ED FE, which calls `PatchZ80()`, and the debugger
are left out.

## Cheats

A byte stands for 8kB of a ROM, so that a 32kB game has four; a 16 bit value is a pair
of bytes. `CheatCodes` is the table with its remembered bytes, which nothing clears
when another game is loaded. `ram` has the pages that the program can show at the cheats'
addresses. `truth` and `touched` are history: RAM as it would be without cheats, and
whether the program itself used the cheated bytes while they were cheated.

| action | code |
| --- | --- |
| `LoadGame` | `StartMSX`, `load_core_specific_cheats`: `LoadCHT` with `AddCheat`, or `LoadMCF` |
| `F7Cycle`, `F7Toggle` | F7 in `keyboard_event`: `ApplyMCFCheat`, `Cheats`, `ResetCheats` |
| `Frame` | scanline 192 of `LoopZ80`: `ApplyCheats` |
| `ProgramWrites`, `ProgramShows` | `WrZ80` to RAM; slots and the RAM mapper |

| property | what it says |
| --- | --- |
| `ROMsAsMade` | the patched cartridge holds all codes while cheats are on and its own bytes while they are off, no other one changes, if no two codes share a byte |
| `OneCheatAtATime` | with a `.MCF` file RAM is the program's but for the bytes of the cheat that is on (`RAMGivenBack`), and the code in the table and the switch follow F7's counter (`CheatIsCurrent`) |

Run `cheats` (80,492 states) has six games, loaded in any order: in slot A, in B behind Game
Master, with overlapping codes, with a ROM that fills its slot, with values to step through
(one of them refused) and without a cartridge. Two pages of two bytes tell one byte from
two and one page from the other; a table of three codes is filled by the file of the first game.

Run `slota` ends in a violation of `GamePatched`: `Cheats()` takes `ROMData[1]` or
`ROMData[2]` for the cartridge, the game is in `ROMData[0]`, and its codes
go to the FMPAC's ROM.

What the model shows of the code, and the properties have to allow: codes that share a byte are
taken out in the order in which they were put in, so that the byte keeps the first one's value;
codes of a `.CHT` file for RAM remember no byte, so that turning them off writes what was left
in the table; four digits with four for the value, which the comment of `LoadCHT()`
speaks of, make a code of one byte; without a cartridge in slot B or in the first system slot
cheats never come on; the codes of a ROM of 16kB or 32kB are taken up to 16kB only, as its
mask is 0. Codes past the end of a ROM, RAM codes below C000h, where a write that is no
write to RAM switches banks, and those at FFFFh are left out (`FitAssumption`).

## Proofs

`MemoryMapProofs` proves for every RAM and ROM size and every set of programs:

* `TypeCorrect`: `Spec => []TypeOK`, one lemma for each action and mapper.
* `WindowsCorrect`: `Spec => []WindowsShowSlots`.
* `RAMWritableCorrect`: `Spec => []RAMWritable`.
* `BanksCorrect`: `Spec => []BanksHonest`, for ROMs below 2 MB and one FMPAC at most.
* `ViewRestored`: `Spec => LoadRestoresView`, an action property, under the same hypotheses.

The second and third are not inductive alone: whether a window is right after a
subslot switch depends on the slot registers, on `MemMap` and on the saved
state. The invariant is

    IInv == SlotsCurrent /\ Coherent /\ MapperCurrent /\ EnWriteCurrent /\ SavedCurrent

that is: PSL and SSL are what the registers select; windows are what `MemMap` has
there; slot 3:2 of `MemMap` has the segments of `RAMMapper`; `EnWrite` holds for exactly the
pages that show slot 3:2; and a save state satisfies the first and the fourth
itself. `Inductive` is `Spec => []IInv`, with `TypeOK` for the types. Assumed
of the constants: `SizeAssumption` (between 4 and 256 RAM segments, an even
number of ROM pages from 8 to 256) and `InputAssumption` (bytes, addresses,
cartridges have their types); both hold for every machine the code can set up.

`BanksCorrect` adds to these `BanksInv`:

    BanksGood /\ PairsGood /\ LandsRight /\ NoSubslots(SSLReg) /\ SavedBanks /\ OneFMPAC(ROMType)

`BanksGood` is `BanksShowPages` cell by cell, also for the FMPAC. A store to SRAM reaches it
only if the second bank of a 16kB page follows the first, and a locked FMPAC shows its
ROM again only if its registers have been a pair all the time (`PairsGood`); a switch goes
to the window that shows the cartridge only if slots 1 and 2 have no subslots
(`NoSubslots`); and a save state has kept both (`SavedBanks`). `LandsRight` is `StoresLandRight` without `StoresExist`, which
has an invariant of its own, that every cell of `MemMap` has a block that exists
(`AllExist`): page numbers are masked wherever a page is shown, and of pages that are shown in pairs the second one
exists, as `RomPages` is even. The store of the ASCII16 mapper is the one that leaves the block of its
cell, and `Ascii16Overrun` says how far. The two hypotheses are needed: TLC finds
`BanksHonest` violated with a ROM of 2 MB, whose page 255 is the mark of SRAM, and with two FMPACs,
whose key is one variable for all cartridges.

`ViewRestored` is about two moments, a save and a load that may be any number of steps apart.
What ties them together is

    ViewInv == Settled /\ RegsGood(ROMMapper) /\ SavedView

`Settled`: cells of `MemMap` that neither the RAM mapper nor a MegaROM switches hold what
`StartMSX()` put there, but for SCC-I RAM in empty slots, so that a load, which leaves them alone,
finds them as they were. `RegsGood`: registers of a MegaROM are pages below `RomPages` or the mark
of SRAM, and those of 16kB pages come in pairs, so that `Masked(Corrected(...))` changes none but the mark
(`LoadedPage`). `SavedView`: what a window showed at the save follows from the registers
in the save state (`CellGood`). That it holds of the view at the save is `BanksGood` and
`IInv` again, which is where the hypotheses come from.

`WD1793Proofs` proves for every geometry, set of drives, width of the registers and of the head, and watchdog, with no hypothesis
besides those on the constants: `TypeCorrect` (`TypeOK`, inductive), `ControllerCorrect`
(`ControllerInStep`), `FlushCorrect` (`WritesAreFlushed`, inductive with the types) and
`Refinement` (`TransfersSectors`). None of them has a bound on the head: `GeometryAssumption` asks for `Tracks < Heads`, so that it
can always go past the last track. The invariant of the second and the last is

    InStep == ControllerInStep /\ RunEnds /\ OwnSize

where `RunEnds` says that what is left of a transfer begun on a track ends at the end of a sector of
the track, and `OwnSize` that the drive of one is not garbled as long as it stays selected. The code moves the sector register on
when what is left is a multiple of the disk's sector size, without a look at the pointer; that this happens at the end
of a sector, and that the size is that of the track although a command past the last one may have left another,
takes both. For the refinement, the steps of the controller are sorted by their `Outcome`
(nothing changes, a byte moves, the transfer ends, sectors or a header begin, a transfer of what is no sector begins or goes on),
each of which is a step of `SectorTransfer` or a stutter.

`VdpPortsProofs` proves, for 32, 64 and 128kB with pages of any size, bytes and saved states:
`TypeCorrect` (`TypeOK`), `TablesCorrect` (`TablesFollow`) and `Refinement` (`LinearVRAM`).
All three come from

    Inv == TypeOK /\ PageShown /\ TablesFollow

with `PageShown == VPAGE = VDP[14]`: the page pointer and register 14 are advanced by
different statements, and the address of `VideoMemory` is one number only because they
agree. `Pages = MaskedPages` is the hypothesis, that the mask of pages is the last page;
the run `pages192` shows what happens with 192kB. `NoneStale` is the lemma that matters most: for each register, what
`VDPOut()` does not compute anew does not depend on it.

`DiskControlProofs` proves, for all lists of images, options, phases of frontends and
debounce times, `TypeCorrect` (`TypeOK`) and `FilesIntact` (the action property `ContentIntact`)
without any hypothesis. Their invariant is `Typed`: the SRAM directory has no image twice, so that it never
outgrows its `MAXDISKS` entries; the index of a disk in the drive is in the list; the
debounce counter is below `fps`.

`NothingIsLost` (`NothingLost`) and `EverythingInPlace` (`StoredInPlace`) assume `Supported`. Neither
property is inductive: a game closed now is played again later, from a file or a
buffer. `Good` says for each image where its last version is at every phase: `Safe`, in the SRAM's
slot of the image if there is one, or else in its file (`AllSafe` while the game is off); in
the drive, and nowhere else, if the change waits to be flushed (`Playing`); in the buffer that the
frontend has read before the first frame patches the disk from it (`Fresh`); in what the frontend
saves when the game is closed (`Closing`). It
also says that files and slots hold the image they are named for (`FilesGood`, `SrmGood`,
`DriveGood`, `SramMode`). `Supported` has four parts; with any of them dropped, TLC finds a violation in the model as
it stands:

* `~Reselects`: a frontend that calls `set_image_index()` again while the tray is open drops
  what the program wrote to the image in between.
* `"dsk" \notin SavesWhile`: a `.dsk` game saved with nothing to save has no buffer left.
* `phantom_disk => Single \notin Missing`: the first write to the phantom disk of a `.dsk` game makes its file,
  and the next one is to go to a slot that the game does not have.
* At most one image can be added to a list: the SRAM knows images by index,
  so that another image appended in another session is patched with the data of the first.

The last three count with "To/From SRAM" only.

`InterruptsProofs` proves for all lines, cycles and videos: `TypeCorrect`,
`LineCorrect` (`LineFollowsFlags`), `CyclesCorrect` (`CyclesKept`), `VBlankCorrect`
(`OneVBlank`) and `EIDelayCorrect` (`EIDelay`). Assumed are the orders of lines
(`LineAssumption`), of times (`TimeAssumption`, `CyclesAssumption`) and that saved states
are coherent (`SavedAssumption`). The invariant is

    IInv == TypeOK /\ LineOf(msx) /\ Timely /\ Copies(msx) /\ (steady => InFrame(msx, Drawing))

that is: the line and the flags; the clock and the counter, which is positive between two
instructions but for the one after EI; `IFF2` is set whenever `IFF1` or EI's shadow
is; and in a steady frame, where the scanline is while `Drawing` is set
and when the retrace bit may be. `LineFollowsFlags` alone is inductive with the
types; `OneVBlank` needs `InFrame`, since the vertical blank is told from
`Drawing`, and `EIDelay` and `CyclesKept` need `Timely`.

`VdpCommandsProofs` proves, for every size of the screen, width of lines in each mode, slice and
cycles of a pixel: `TypeCorrect` (`TypeOK`), `InStepWithPlan` (`CommandsInStep`) and
`RegistersGoOn` (`RegistersContinue`). Assumed are `GeometryAssumption` (lines of a
screen are made of whole bytes and columns of whole lines), `TimingAssumption` (a pixel takes less than a
slice), and that arguments, commands and saved states have their types. The invariant is

    InType /\ History

`InType` adds to `TypeOK` that an engine owes less than the cycles of a pixel of some kind (`Owed`), and
that NY is above `-Lines`, as a line that is counted down to it ends the command. `History` says that a
command of which something is foretold is at a *place*: `Place(c, mmc, k)` gives all the
counters of command `c` after `k` moves, in closed form. Without it `CommandsInStep` is not
inductive, since what is left to draw is in the counters and what was drawn in `done`.
The argument has three stages. One pass of a loop (`AreaPass`, `LinePass`, `SearchPass`) makes move
k + 1 of the plan and leads from place k to place k + 1, or is the last one
(`PassPlaces`; for rectangles by quotient and remainder of k, for LINE by the error of
the code's accumulator, which is a division in disguise). `LoopInvariant` carries that over to a loop of any number of passes:
it is stated for a *set* of pairs of a number and a result, so that the induction needs no operator.
Then a lemma for each handler says what it makes of `InStep`, the bits CE and TR among it,
and `RegistersGoOn` follows from the place of the last move (`AreaOver`).

`Z80Proofs` has first the arithmetic: for all bytes, the exclusive ors and tables of
`M_ADC` and `M_SBC` give the byte and the flags of integer sums and
differences (`AddCorrect`, `SubtractCorrect`), rotations undo each other and
shifts multiply and divide (`RotationsCorrect`), and DAA gives decimal sums and
differences with their carry (`DecimalAddCorrect`, `DecimalSubtractCorrect`). The references
(`Sum8`, `Minus8`, `Decimal`) are those that run `programs` uses. Words
are only model-checked.

Then it proves about the processor, for all programs and any number of interrupts: `TypeCorrect`
(`TypeOK`), `FlipFlopsAgree` (IFF2 is set exactly while interrupts are on or EI
is about to turn them on, and these two never hold at once) and `EIDelaysOnce` (no step
leaves the delay of EI as it was). Assumed is `ProgramsAssumption`: programs are
made of bytes. The invariant is

    Sound == program \in Programs /\ cpu \in Machines(DOMAIN program.mem) /\ FlipFlops(cpu) /\ ints \in 0 .. Interrupts

Every group of instructions has a lemma that says what it returns (`Machines`), that it leaves the
flip-flops alone (`Keeps`), or else in which of the four ways it may change them (`Passes`: EI, DI, RETN, nothing).
Those of the tables follow, `CodesEDType` and so on, then prefixes, interrupts and steps.

`DiskControlProofs` also proves of `Fat12`, for disks of any size up to the 4,080 entries of FAT12, with clusters and
directories of any size, `DirectoriesLoad`: `DSKLoad(files) => []FilesOnDisk`, for every set of files with names
and contents of any length. `FatAssumption` is those sizes; the hypothesis is the type of the files. It says of what
`DSKLoad()` computes by loops over chains what a reader expects of a directory. The argument goes up in four stages:

* Entries. What `DSKWrite()` and `DSKDelete()` put in an entry is read back and leaves every other entry as
  it was, also the neighbour in the same three bytes (`ChainedEntry`), and the second table
  stays a copy (`ChainCopies`). From there on the table is `FatEntry`, and its bytes are not looked at again.
* Loops. `Path(d, c, last)` says that the table leads along the sequence `c` and ends in `last`. `DSKDelete()`
  frees a path and nothing else, `DSKRead()` returns the bytes of one, `Chains` lists it, and `Writing` makes
  one of clusters that were free, each above the one before, as the search for a free cluster starts behind it. That
  they rise is why the loop ends within its turns and why no cluster is taken twice.
* Files. `WithFile` has three outcomes, and each leaves every other file alone: `Skipped`, `Added` with a path that holds the
  file's bytes, and `Refused`, where what was written of a file that did not fit is free again.
* The invariant, which is preserved as `Holding` is by each outcome (`HoldingAfter`):

      Loaded == made # NoDsk => read \subseteq files /\ \E ch : Holding(U, read, made, ch)

  `ch` gives each entry its path. The paths do not meet (`Apart`), each cluster that is not free is on one, each
  holds the bytes of a file that has been read under that name, and each file that has been read is
  `Accounted` for. `FilesOnDisk` is not inductive: that a file reads back says nothing of where its clusters
  are, and the next file could take them.

The loops are recursive functions; inductions over their turns use a set in place of an
operator, as below.

`CheatsProofs` proves, for all games, files and pages of RAM, `TypeCorrect` (`TypeOK`),
`ROMsCorrect` (`ROMsAsMade`) and `OneCheatCorrect` (`OneCheatAtATime`). Assumed are the types
of files (`CheatsAssumption`) and that their codes are for addresses that the game has
(`FitAssumption`), which keeps the patches in the cartridge. The invariant is

    Inv == Typed /\ ROMInv /\ Stepping /\ GivenBack

`ROMInv` is `ROMsAsMade` and that each code that is in the ROM remembers the byte of the
cartridge it covers: without this, nothing is known of the bytes that come back. `Stepping` is
`CheatIsCurrent` and that a `.MCF` file never makes more than one code, for RAM.
`GivenBack` says where RAM may differ from what it would be, and that the code
that is on remembers what belongs there.

`Cheats()` and `LoadCHT()` go through tables of any length, which `Patched`, `StoreAll` and `LoadCHT` do
with recursive functions. What these return is proved by induction in the form of a set:
`SetInduction` (a set with 0 that is closed under successor has all numbers) follows from the
library's `NatLessThanWellFounded`, which takes no operator, and `Recursion` shows that
a function that is defined by its own smaller values exists. `PatchedHolds` is the result: after k codes
that do not overlap, the cartridge has the values of the first k and its own bytes elsewhere.

Model-checked only:

* `EndsAsPromised` and `InterruptsInvisible` of `Z80`: they speak of the thousand programs of `MCZ80`
  and what these promise. A program's end is computed by running it, so that there is nothing to be proved
  of it for all constants; what can be said of all operands are the theorems of arithmetic.
* `TypeOK` and `CleanReloads` of `DiskImages`: a disk is laid out, saved and formatted by folds over tracks and
  sectors that the community modules define with operators, and which format an image is taken for depends on
  the sizes of the formats that there are, which are constants of the run. The way around the
  induction over data in the proofs of `Fat12`, `Cheats` and `VdpCommands` needs loops that
  are functions of their turns.
* Liveness (`BusyEnds`, `FlushedSoon`, `CommandsEnd`, `HaltEnds`, `ProgramsEnd`)
  and everything that needs ENABLED, which are out of the provers' reach.

## Not modelled

* Renderers, sound synthesis and the mixer: data paths from state to pixels and samples.
* Reading ROM files, hashes, `GuessROM()`, tape: input and output. Of the disk formats
  .IMG, .SCL and HoBeta. Vendored libretro-common.
* Sizes of RAM and VRAM that `check_variables()` changes under a running machine:
  it assigns `Mode`, `RAMPages` and `VRAMPages` themselves, so that a
  reset, which compares them with themselves, does not allocate again. README.md
  asks for a restart; the models take options as constants of a behaviour.

## Plan

1. Proofs: the types of `DiskImages`, for formats of any size.
2. `PHYDIO`'s slot switch as an action of `MemoryMap`.
3. `SoundChips`: register files and envelope of the PSG, SCC modes.
