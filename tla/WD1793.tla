------------------------------- MODULE WD1793 -------------------------------
(***************************************************************************)
(* The WD1793 floppy disk controller of EMULib/WD1793.c, the disks in its  *)
(* drives, and what MSX.c and libretro.c do to both.  The program drives   *)
(* the controller through Read1793() and Write1793(), in any order; the    *)
(* emulator resets it and changes or saves disks between two instructions, *)
(* so also in the middle of a transfer.                                    *)
(*                                                                         *)
(* Disks have the standard layout NewFDI() creates: each track holds       *)
(* Sectors sectors numbered from 1.  Contents are left out but for the     *)
(* fact that a disk differs from what was last saved of it.                *)
(*                                                                         *)
(* Nothing stops the head at the last track.  What SeekFDI() does past it  *)
(* depends on the bytes after the track directory: every outcome is a      *)
(* choice of the model, up to the loss of the emulator.                    *)
(***************************************************************************)
EXTENDS Integers

CONSTANTS
  Drives,      \* drives of the controller, NUM_FDI_DRIVES of them
  MAXDRIVES,   \* drives a disk can be put in are those below this one
  Selects,     \* <<drive, side>> the program selects
  Disks,       \* numbers of sides of the disks that can be inserted
  Tracks,      \* tracks of a disk
  Sectors,     \* sectors of a track
  SecSize,     \* bytes of a sector
  HeaderSize,  \* bytes of a sector header, 6
  Watchdog,    \* polls after which a transfer is given up, 255
  RegSize,     \* values of a register, 256
  Heads,       \* values of the position of a head, 256
  WildLengths, \* lengths of what SeekFDI() takes for sectors past the last track
  Commands,    \* bytes a program writes to the command register
  Values       \* bytes a program writes to the other registers, or on a disk

Byte == 0 .. 255
Reg  == 0 .. RegSize - 1
Head == 0 .. Heads - 1
ASSUME GeometryAssumption ==
  /\ Drives \subseteq 0 .. 3
  /\ 0 \in Drives
  /\ MAXDRIVES \in 1 .. 4
  /\ Disks \subseteq 1 .. 2
  /\ RegSize \in 2 .. 256
  /\ Heads \in 2 .. RegSize
  /\ Tracks \in 1 .. Heads - 1
  /\ Sectors \in 1 .. RegSize - 1
  /\ WildLengths \subseteq Int
  /\ HeaderSize \in Nat \ {0}
  /\ SecSize \in Nat
  /\ SecSize > HeaderSize
  /\ Watchdog \in 1 .. 255
ASSUME InputAssumption ==
  /\ Commands \subseteq Byte /\ Values \subseteq Reg
  /\ Selects \subseteq Drives \X (0 .. 1)

(***************************************************************************)
(* The status register is the set of its bits.  Some have one meaning      *)
(* after a head command (type 1) and another one after the others.         *)
(* F_HEADLOAD is left out, and F_NOTREADY, which is never stored.          *)
(***************************************************************************)
F_BUSY     == 1
F_DRQ      == 2
F_INDEX    == 2
F_LOSTDATA == 4
F_TRACK0   == 4
F_NOTFOUND == 16

BitSet(v, k) == (v \div k) % 2 = 1
Class(v)     == v \div 16             \* which command
C_IRQ        == 8
C_MULTIREC   == 16
C_SETTRACK   == 16
C_SIDECOMP   == 2
C_SIDE       == 8
STEP_OUT     == 32                    \* 0x20
STEP_KEEPS   == 64                    \* 0x40

VARIABLES
  status,                         \* R[0]
  trackReg, sectorReg, dataReg,   \* R[1], R[2], R[3]
  typeI,       \* Cmd < 0x80 or Cmd = 0xD0
  Drive, Side, \* selected
  Track,       \* where the head of each drive is
  LastS,       \* last step was outwards
  IRQ,         \* "none", "DRQ" or "IRQ"
  Wait,        \* polls left to the watchdog
  RDLength, WRLength,
  Ptr,         \* next byte to transfer
  disk,        \* sides of the disk in each drive, 0 where there is none
  Dirty,       \* 1: data to be flushed
  unsaved,     \* drives whose disk differs from what was saved of it
  strayed,     \* another drive was selected during this transfer
  astray,      \* drives written to since they were saved while not selected,
               \* or saved while garbled
  garbled,     \* drives whose Sectors and SecSize are not those of a track
  lost         \* a pointer that is no sector was written through, or faulted

regs     == <<trackReg, sectorReg, dataReg>>
select   == <<Drive, Side>>
lengths  == <<RDLength, WRLength>>
media    == <<disk, Dirty, unsaved, astray, garbled>>
vars == <<status, regs, typeI, select, Track, LastS, IRQ, Wait, lengths, Ptr,
          media, strayed, lost>>

\* Ptr also says which part of which disk it points into, "wild" where no
\* sector is; nothing follows it outside a transfer, when it is Nowhere.
Place == [area : {"track", "header", "wild"}, drive : Drives, track : Head,
          side : 0 .. 1, pos : Nat]
Nowhere == [area |-> "track", drive |-> 0, track |-> 0, side |-> 0, pos |-> 0]

Left == RDLength + WRLength
Busy == F_BUSY \in status

(***************************************************************************)
(* Disks.  SeekFDI() looks for a sector with the given ID among those at   *)
(* the given physical side and track.  Past the last track it reads the    *)
(* label and the sectors that follow the directory as more of it: it finds *)
(* nothing, or returns a pointer computed from them and leaves a Sectors   *)
(* and a SecSize it read there in the disk.                                *)
(***************************************************************************)
Present(d) == disk[d] # 0
OnSide(d, side) == side % disk[d]

Found(d, side, track, sideID, trackID, sector) ==
  /\ Present(d) /\ track < Tracks
  /\ trackID = track
  /\ sideID = OnSide(d, side)
  /\ sector \in 1 .. Sectors

SeekFDI_FromZero(d, side, track, sector) ==
  [area |-> "track", drive |-> d, track |-> track, side |-> OnSide(d, side),
   pos |-> sector * SecSize]
SeekFDI(d, side, track, sector) ==
  [area |-> "track", drive |-> d, track |-> track, side |-> OnSide(d, side),
   pos |-> (sector - 1) * SecSize]

OffDisk == Present(Drive) /\ Track[Drive] >= Tracks
Wild    == [area |-> "wild", drive |-> Drive, track |-> Track[Drive],
            side |-> OnSide(Drive, Side), pos |-> 0]

\* Bytes to transfer from the given sector, with or without C_MULTIREC.
Extent_NoLast(v, sector) ==
  SecSize * (IF BitSet(v, C_MULTIREC) THEN Sectors - sector ELSE 1)
Extent(v, sector) ==
  SecSize * (IF BitSet(v, C_MULTIREC) THEN Sectors - sector + 1 ELSE 1)

(***************************************************************************)
(* Reset1793(D, FDD, WD1793_KEEP).                                         *)
(***************************************************************************)
Reset1793 ==
  /\ status' = {} /\ trackReg' = 0 /\ sectorReg' = 0 /\ dataReg' = 0
  /\ typeI' = TRUE /\ Drive' = 0 /\ Side' = 0 /\ LastS' = FALSE
  /\ Track' = [d \in Drives |-> 0]
  /\ IRQ' = "none" /\ Wait' = 0
  /\ RDLength' = 0 /\ WRLength' = 0
  /\ strayed' = FALSE
  /\ Ptr' = Nowhere

Init ==
  /\ status = {} /\ trackReg = 0 /\ sectorReg = 0 /\ dataReg = 0
  /\ typeI = TRUE /\ Drive = 0 /\ Side = 0 /\ LastS = FALSE
  /\ Track = [d \in Drives |-> 0]
  /\ IRQ = "none" /\ Wait = 0 /\ RDLength = 0 /\ WRLength = 0
  /\ Ptr = Nowhere /\ strayed = FALSE
  /\ disk \in [Drives -> Disks \cup {0}]
  /\ \A d \in Drives : d >= MAXDRIVES => disk[d] = 0
  /\ Dirty = [d \in Drives |-> FALSE]
  /\ unsaved = {} /\ astray = {} /\ garbled = {} /\ lost = FALSE

(***************************************************************************)
(* Read1793().  Reads of the track and sector registers change nothing.    *)
(***************************************************************************)
ReadStatus ==
  /\ status' = IF typeI
               THEN (status \cap {F_BUSY, F_TRACK0})
                    \cup ({F_INDEX} \ status)           \* the disk rotates
               ELSE status \cap {F_BUSY, F_DRQ}
  /\ UNCHANGED <<regs, typeI, select, Track, LastS, IRQ, Wait, lengths, Ptr,
                 media, strayed>>

\* The sector register goes on where the rest of the transfer is a whole
\* number of sectors; an empty drive has SecSize 0 and never gets there.
NextSector(left) ==
  LET next == (sectorReg + 1) % RegSize IN
  IF ~Present(Drive) THEN {sectorReg}
  ELSE IF Drive \in garbled \/ left < 0 THEN {sectorReg, next}
  ELSE IF left % SecSize = 0 THEN {next} ELSE {sectorReg}

\* A length below zero takes 2^32 bytes to come to zero.
Rest(length) == IF length > 0 THEN length - 1 ELSE length
Onward(p)    == IF p.area = "wild" THEN p ELSE [p EXCEPT !.pos = @ + 1]

\* What both directions do after the byte, when left bytes remain.
Moved(left) ==
  /\ IF left # 0
     THEN /\ Ptr' = Onward(Ptr)
          /\ Wait' = Watchdog /\ sectorReg' \in NextSector(left)
          /\ UNCHANGED <<status, IRQ, strayed>>
     ELSE /\ Ptr' = Nowhere
          /\ status' = status \ {F_DRQ, F_BUSY}
          /\ strayed' = FALSE
          /\ IRQ' = "IRQ"
          /\ UNCHANGED <<Wait, sectorReg>>

ReadData ==
  /\ RDLength # 0
  /\ RDLength' = Rest(RDLength)
  /\ Moved(Rest(RDLength))
  /\ dataReg' \in Values
  /\ UNCHANGED <<trackReg, typeI, select, Track, LastS, WRLength, media>>

\* Read of WD1793_READY: each one brings the watchdog nearer.
Expire_Hangs ==
  /\ RDLength' = 0 /\ WRLength' = 0 /\ Ptr' = Nowhere /\ strayed' = FALSE
  /\ status' = (status \ {F_DRQ}) \cup {F_LOSTDATA}
  /\ IRQ' = "IRQ"
Expire ==
  /\ RDLength' = 0 /\ WRLength' = 0 /\ Ptr' = Nowhere /\ strayed' = FALSE
  /\ status' = (status \ {F_DRQ, F_BUSY}) \cup {F_LOSTDATA}
  /\ IRQ' = "IRQ"
ReadReady ==
  /\ Wait > 0
  /\ Wait' = Wait - 1
  /\ IF Wait = 1 THEN Expire ELSE UNCHANGED <<lengths, status, IRQ, Ptr, strayed>>
  /\ UNCHANGED <<regs, typeI, select, Track, LastS, media>>

(***************************************************************************)
(* Write1793(WD1793_COMMAND, v).  One action for each group of commands;   *)
(* all but FORCE-IRQ are lost while the controller is busy, though not     *)
(* before the interrupt request is reset.                                  *)
(***************************************************************************)
Track0(d) == IF Track[d] = 0 THEN {F_TRACK0} ELSE {}

ForceIRQ(v) ==
  /\ Class(v) = 13
  /\ RDLength' = 0 /\ WRLength' = 0 /\ Ptr' = Nowhere /\ strayed' = FALSE
  /\ typeI' = TRUE
  /\ status' = IF Busy THEN status \ {F_BUSY} ELSE {F_INDEX} \cup Track0(Drive)
  /\ IRQ' = IF BitSet(v, C_IRQ) THEN "IRQ" ELSE "none"
  /\ UNCHANGED <<regs, select, Track, LastS, Wait, media>>

CommandLost(v) ==
  /\ Class(v) # 13
  /\ Busy
  /\ IRQ' = "none"
  /\ UNCHANGED <<status, regs, typeI, select, Track, LastS, Wait, lengths, Ptr,
                 media, strayed>>

\* RESTORE, SEEK and the STEPs put the head of the drive over track t.
HeadOver(t) ==
  /\ Track' = [Track EXCEPT ![Drive] = t]
  /\ status' = IF t = 0 THEN {F_INDEX, F_TRACK0} ELSE {F_INDEX}
  /\ typeI' = TRUE
  /\ IRQ' = "IRQ"
  /\ UNCHANGED <<sectorReg, dataReg, select, Wait, Ptr, media, strayed>>

Restore(v) ==
  /\ ~Busy /\ Class(v) = 0
  /\ HeadOver(0)
  /\ trackReg' = 0
  /\ UNCHANGED <<LastS, lengths>>

Seek(v) ==
  /\ ~Busy /\ Class(v) = 1
  /\ HeadOver(dataReg % Heads)
  /\ trackReg' = dataReg % Heads
  /\ RDLength' = 0 /\ WRLength' = 0
  /\ UNCHANGED LastS

StepTo_Below(out, at) == IF out THEN at - 1 ELSE (at + 1) % Heads
StepTo(out, at) ==
  IF out THEN (IF at > 0 THEN at - 1 ELSE 0) ELSE (at + 1) % Heads
Step(v) ==
  LET out == IF BitSet(v, STEP_KEEPS) THEN BitSet(v, STEP_OUT) ELSE LastS
      to  == StepTo(out, Track[Drive])
  IN
  /\ ~Busy /\ Class(v) \in 2 .. 7
  /\ HeadOver(to)
  /\ LastS' = out
  /\ trackReg' = IF BitSet(v, C_SETTRACK) THEN to ELSE trackReg
  /\ UNCHANGED lengths

\* A transfer of n bytes from p starts.
Start(p) ==
  /\ Ptr' = p
  /\ status' = {F_BUSY, F_DRQ}
  /\ typeI' = FALSE
  /\ IRQ' = "DRQ"
  /\ Wait' = Watchdog
  /\ strayed' = FALSE

NotFound ==
  /\ status' = {F_NOTFOUND}
  /\ typeI' = FALSE
  /\ IRQ' = "IRQ"
  /\ UNCHANGED <<Wait, lengths, Ptr, media, strayed>>

\* The side number looked for in the sector ID.
SideID(v) ==
  IF BitSet(v, C_SIDECOMP) THEN (IF BitSet(v, C_SIDE) THEN 1 ELSE 0) ELSE Side
Target == SeekFDI(Drive, Side, Track[Drive], sectorReg)
CanSeek(v) ==
  Found(Drive, Side, Track[Drive], SideID(v), trackReg, sectorReg)

\* Each SeekFDI() that finds something sets Sectors and SecSize of the disk.
StartFound(v) ==
  /\ CanSeek(v)
  /\ Start(Target)
  /\ garbled' = garbled \ {Drive}
StartWild ==
  /\ OffDisk
  /\ Start(Wild)
  /\ garbled' = garbled \cup {Drive}

ReadSectors(v) ==
  /\ ~Busy /\ Class(v) \in {8, 9}
  /\ \/ /\ StartFound(v)
        /\ RDLength' = Extent(v, sectorReg)
        /\ UNCHANGED <<WRLength, disk, Dirty, unsaved, astray>>
     \/ /\ StartWild
        /\ RDLength' \in WildLengths
        /\ UNCHANGED <<WRLength, disk, Dirty, unsaved, astray>>
     \/ ~CanSeek(v) /\ NotFound
  /\ UNCHANGED <<regs, select, Track, LastS>>

WriteSectors(v) ==
  /\ ~Busy /\ Class(v) \in {10, 11}
  /\ \/ /\ StartFound(v)
        /\ WRLength' = Extent(v, sectorReg)
        /\ Dirty' = [Dirty EXCEPT ![Drive] = TRUE]
        /\ UNCHANGED <<RDLength, disk, unsaved, astray>>
     \/ /\ StartWild
        /\ WRLength' \in WildLengths
        /\ Dirty' = [Dirty EXCEPT ![Drive] = TRUE]
        /\ UNCHANGED <<RDLength, disk, unsaved, astray>>
     \/ ~CanSeek(v) /\ NotFound
  /\ UNCHANGED <<regs, select, Track, LastS>>

\* The ID of the first sector found under the head, in the disk's Header.
CanReadAddress == Present(Drive) /\ Side = OnSide(Drive, Side)
ReadAddress(v) ==
  /\ ~Busy /\ Class(v) = 12
  /\ \/ /\ CanReadAddress \/ OffDisk
        /\ Start([SeekFDI(Drive, Side, Track[Drive], 1)
                    EXCEPT !.area = "header", !.pos = 0])
        /\ RDLength' = HeaderSize
        /\ garbled' = IF OffDisk THEN garbled \cup {Drive} ELSE garbled \ {Drive}
        /\ UNCHANGED <<WRLength, disk, Dirty, unsaved, astray>>
     \/ (~CanReadAddress \/ OffDisk) /\ NotFound
  /\ UNCHANGED <<regs, select, Track, LastS>>

\* READ-TRACK does nothing: no data, no interrupt request.
ReadTrack(v) ==
  /\ ~Busy /\ Class(v) = 14
  /\ status' = {} /\ typeI' = FALSE /\ IRQ' = "none"
  /\ UNCHANGED <<regs, select, Track, LastS, Wait, lengths, Ptr, media, strayed>>

\* WRITE-TRACK fills all sides of the track at once and takes no data.
CanFormat == Present(Drive) /\ Track[Drive] < Tracks /\ trackReg = Track[Drive]
WriteTrack_Clean(v) ==
  /\ ~Busy /\ Class(v) = 15
  /\ status' = {} /\ typeI' = FALSE /\ IRQ' = "none"
  /\ unsaved' = IF CanFormat THEN unsaved \cup {Drive} ELSE unsaved
  /\ garbled' = IF CanFormat THEN garbled \ {Drive} ELSE garbled
  /\ UNCHANGED <<regs, select, Track, LastS, Wait, lengths, Ptr, disk, Dirty,
                 strayed, astray>>
WriteTrack(v) ==
  /\ ~Busy /\ Class(v) = 15
  /\ status' = {} /\ typeI' = FALSE /\ IRQ' = "none"
  /\ IF CanFormat
     THEN /\ Dirty' = [Dirty EXCEPT ![Drive] = TRUE]
          /\ unsaved' = unsaved \cup {Drive}
          /\ garbled' = garbled \ {Drive}
     ELSE UNCHANGED <<Dirty, unsaved, garbled>>
  /\ UNCHANGED <<regs, select, Track, LastS, Wait, lengths, Ptr, disk, strayed,
                 astray>>

(***************************************************************************)
(* Write1793() to the other registers.                                     *)
(***************************************************************************)
WriteTrackReg(v) ==
  /\ ~Busy
  /\ trackReg' = v
  /\ UNCHANGED <<status, sectorReg, dataReg, typeI, select, Track, LastS, IRQ,
                 Wait, lengths, Ptr, media, strayed>>

WriteSectorReg(v) ==
  /\ ~Busy
  /\ sectorReg' = v
  /\ UNCHANGED <<status, trackReg, dataReg, typeI, select, Track, LastS, IRQ,
                 Wait, lengths, Ptr, media, strayed>>

\* WrZ80() and OutZ80() write S_DRIVE and S_SIDE, never S_RESET.
WriteSystem(d, side) ==
  /\ Drive' = d
  /\ Side' = side
  /\ strayed' = (strayed \/ (Busy /\ d # Drive))
  /\ UNCHANGED <<status, regs, typeI, Track, LastS, IRQ, Wait, lengths, Ptr,
                 media>>

\* The byte goes where Ptr points, Dirty is set for the drive selected now.
WriteData(v) ==
  /\ WRLength = 0 \/ Ptr.area # "wild"
  /\ dataReg' = v
  /\ IF WRLength # 0
     THEN /\ WRLength' = Rest(WRLength)
          /\ Moved(Rest(WRLength))
          /\ Dirty' = [Dirty EXCEPT ![Drive] = TRUE]
          /\ unsaved' = unsaved \cup {Ptr.drive}
          /\ astray' = astray \cup ({Ptr.drive} \ {Drive})
     ELSE UNCHANGED <<WRLength, status, IRQ, Wait, sectorReg, Ptr, Dirty,
                      unsaved, astray, strayed>>
  /\ UNCHANGED <<trackReg, typeI, select, Track, LastS, RDLength, disk, garbled>>

(***************************************************************************)
(* What cannot be followed: a SeekFDI() that goes past the end of the       *)
(* image, a WRITE-TRACK that fills memory where there is no sector, a read *)
(* through a wild pointer that faults, a write through one, which may      *)
(* change any variable of the emulator, and SaveFDI() into the SRAM of the *)
(* frontend, which first clears as much of it as Sectors and SecSize say.  *)
(***************************************************************************)
WildAccess ==
  \/ ~Busy /\ OffDisk /\ \E v \in Commands : Class(v) \in {8, 9, 10, 11, 12, 15}
  \/ Ptr.area = "wild" /\ Left # 0
  \/ Dirty[0] /\ 0 \in garbled

(***************************************************************************)
(* The emulator.                                                           *)
(***************************************************************************)
ResetMSX == Reset1793 /\ UNCHANGED media

\* ChangeDisk(d, ...): no disk, one that is loaded, or a new one, of two
\* sides and not saved anywhere yet.
ChangeDisk_NoReset(d, sides, new) ==
  /\ d < MAXDRIVES
  /\ disk' = [disk EXCEPT ![d] = sides]
  /\ Dirty' = [Dirty EXCEPT ![d] = new]
  /\ unsaved' = IF new THEN unsaved \cup {d} ELSE unsaved \ {d}
  /\ astray' = astray \ {d} /\ garbled' = garbled \ {d}
  /\ UNCHANGED <<status, regs, typeI, select, Track, LastS, IRQ, Wait, lengths,
                 Ptr, strayed>>
ChangeDisk(d, sides, new) ==
  /\ d < MAXDRIVES
  /\ Reset1793
  /\ disk' = [disk EXCEPT ![d] = sides]
  /\ Dirty' = [Dirty EXCEPT ![d] = new]
  /\ unsaved' = IF new THEN unsaved \cup {d} ELSE unsaved \ {d}
  /\ astray' = astray \ {d} /\ garbled' = garbled \ {d}
Changes == ((Disks \cup {0}) \X {FALSE}) \cup {<<2, TRUE>>}

\* flush_disk() saves the disk in drive 0, and no other.  SaveFDI() saves tracks
\* of the disk's Sectors and SecSize: what it makes of a garbled one is no copy
\* of it, but the mark is cleared, and its own SeekFDI()s put both right again.
flush_disk ==
  /\ Dirty[0]
  /\ Dirty' = [Dirty EXCEPT ![0] = FALSE]
  /\ IF 0 \in garbled
     THEN unsaved' = unsaved \cup {0} /\ astray' = astray \cup {0}
     ELSE unsaved' = unsaved \ {0} /\ astray' = astray \ {0}
  /\ garbled' = garbled \ {0}
  /\ UNCHANGED <<status, regs, typeI, select, Track, LastS, IRQ, Wait, lengths,
                 Ptr, disk, strayed>>

Read1793 == ReadStatus \/ ReadData \/ ReadReady
HeadCommand(v) == ForceIRQ(v) \/ CommandLost(v) \/ Restore(v) \/ Seek(v) \/ Step(v)
DataCommand(v) ==
  ReadSectors(v) \/ WriteSectors(v) \/ ReadAddress(v) \/ ReadTrack(v) \/ WriteTrack(v)
Write1793 ==
  \/ \E v \in Commands : HeadCommand(v) \/ DataCommand(v)
  \/ \E v \in Values : WriteTrackReg(v) \/ WriteSectorReg(v) \/ WriteData(v)
  \/ \E sel \in Selects : WriteSystem(sel[1], sel[2])
Operation ==
  \/ Read1793
  \/ Write1793
  \/ ResetMSX
  \/ \E d \in Drives, c \in Changes : ChangeDisk(d, c[1], c[2])
  \/ flush_disk
Next ==
  \/ ~lost /\ Operation /\ UNCHANGED lost
  \/ ~lost /\ WildAccess /\ lost' = TRUE
     /\ UNCHANGED <<status, regs, typeI, select, Track, LastS, IRQ, Wait,
                    lengths, Ptr, media, strayed>>
  \/ lost /\ UNCHANGED vars        \* nothing is said of what follows

Spec == Init /\ [][Next]_vars
\* DiskROM code waits for the controller by reading WD1793_READY in a loop.
Poll == ~lost /\ ReadReady /\ UNCHANGED lost
FairSpec == Spec /\ WF_vars(Poll)

(***************************************************************************)
(* Properties.                                                             *)
(***************************************************************************)
\* Every field of the controller and of the drives has a value of its C type.
TypeOK ==
  /\ status \subseteq {F_BUSY, F_DRQ, F_LOSTDATA, F_NOTFOUND}
  /\ trackReg \in Reg /\ sectorReg \in Reg /\ dataReg \in Reg
  /\ typeI \in BOOLEAN /\ LastS \in BOOLEAN
  /\ Drive \in Drives /\ Side \in 0 .. 1
  /\ Track \in [Drives -> Head]
  /\ IRQ \in {"none", "DRQ", "IRQ"}
  /\ Wait \in 0 .. Watchdog
  /\ RDLength \in Int /\ WRLength \in Int
  /\ Ptr \in Place
  /\ disk \in [Drives -> 0 .. 2]
  /\ Dirty \in [Drives -> BOOLEAN]
  /\ unsaved \subseteq Drives /\ astray \subseteq Drives /\ garbled \subseteq Drives
  /\ strayed \in BOOLEAN /\ lost \in BOOLEAN

\* The controller says it is busy exactly while a read or a write has bytes
\* left, never both; it then asks for data in the status register too, and
\* the watchdog is running, so that it cannot stay busy for good.  A transfer
\* of what is no sector may have any length, and be busy with none left.
BusyWhileTransfer ==
  /\ RDLength = 0 \/ WRLength = 0
  /\ Ptr.area # "wild" => RDLength >= 0 /\ WRLength >= 0
  /\ Busy <=> Left > 0 \/ Ptr.area = "wild"
  /\ Busy => Wait > 0 /\ F_DRQ \in status /\ ~typeI
  /\ IRQ = "DRQ" => Busy

\* The bytes left of a transfer lie in the track, or the header, that it was
\* started on, of a disk that is still in its drive: Ptr is not followed out
\* of the image, nor into one that ChangeDisk() has freed.  Only a command
\* given with the head past the last track makes Ptr wild.
PtrInBounds ==
  /\ Ptr.area = "wild" => Ptr.track >= Tracks
  /\ (Left > 0 /\ Ptr.area # "wild") =>
       /\ Present(Ptr.drive)
       /\ Ptr.pos + Left <= (IF Ptr.area = "track" THEN Sectors * SecSize
                                                   ELSE HeaderSize)
       /\ Ptr.area = "header" => WRLength = 0
       /\ Ptr.area = "track" => Ptr.track < Tracks

\* While sectors are transferred the sector register is the number of the
\* sector the next byte is in, as long as no other drive is selected.
SectorRegFollows ==
  (Left > 0 /\ Ptr.area = "track" /\ ~strayed) =>
    /\ sectorReg = Ptr.pos \div SecSize + 1
    /\ Ptr.drive = Drive

\* What the controller reports, where it points and how much is left of a
\* transfer agree.
ControllerInStep == BusyWhileTransfer /\ PtrInBounds /\ SectorRegFollows

\* A disk that was written to is marked to be flushed, unless the write went
\* to a drive other than the selected one or the disk was flushed garbled.
WritesAreFlushed == \A d \in unsaved \ astray : Dirty[d]

\* The controller does not stay busy once the program waits for it, unless the
\* transfer is of what is no sector, with a length below zero.
BusyEnds == Busy ~> (~Busy \/ Left < 0 \/ lost)

\* The transfer under way as SectorTransfer sees it.
Pending ==
  IF Ptr.area = "wild" THEN [mode |-> "wild", track |-> Ptr.track]
  ELSE IF Left = 0 THEN [mode |-> "idle"]
  ELSE [mode |-> IF RDLength > 0 THEN "read" ELSE "write", area |-> Ptr.area,
        drive |-> Ptr.drive, track |-> Ptr.track, side |-> Ptr.side,
        next |-> Ptr.pos, end |-> Ptr.pos + Left]
Abstract == INSTANCE SectorTransfer WITH todo <- Pending, line <- IRQ

\* Every transfer is what SectorTransfer promises: whole sectors of the track,
\* or a header, byte after byte, announced, and signalled at its end; but for
\* those begun with the head past the last track.
TransfersSectors == Abstract!Spec
=============================================================================
