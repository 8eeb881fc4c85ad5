----------------------------- MODULE VdpPorts -----------------------------
(***************************************************************************)
(* The ports 98h..9Bh of the video processor as OutZ80() and InZ80() of    *)
(* MSX.c serve them, the registers VDPOut() writes, and what SetScreen()   *)
(* computes from the registers for the renderers: the screen mode and the  *)
(* places and masks of the tables in video memory, which VDPOut() repairs  *)
(* one by one.  Commands, interrupts and colours of the border are in      *)
(* other modules or left out.                                              *)
(***************************************************************************)
EXTENDS Integers, Sequences, FiniteSets

CONSTANTS
  Pages,       \* pages of video memory: 32, 64, 128 or 192 KB of them
  PageSize,    \* bytes in a page, 16384
  Bytes,       \* what programs store in video memory
  NoRAM,       \* VDPData after a reset
  LowBytes,    \* what programs write first to port 99h, for an address
  HighBytes,   \* and then, without the bits that make it an address
  Regs,        \* registers that programs write
  Values,      \* by register: what they write to it
  Colours,     \* what they write to port 9Ah
  SavedStates  \* what LoadState() may find

Byte   == {n \in Nat : n <= 255}
Number == 0 .. 63   \* numbers of registers

\* The registers VDPOut() and SetScreen() know of; others are just stored.
Special == {0, 1, 2, 3, 4, 5, 6, 10, 11, 14, 16, 17, 25}

ASSUME PortsAssumption ==
  /\ Pages \in {2, 4, 8, 12}
  /\ PageSize \in Nat \ {0}
  /\ NoRAM \in Bytes
  /\ LowBytes \subseteq Byte
  /\ HighBytes \subseteq Number
  /\ Regs \subseteq Number
  /\ Special \subseteq Regs
  /\ Values \in [Number -> SUBSET Byte]
\* SaveState() wrote them with as much video memory: others have another size.
ASSUME StatesAssumption ==
  SavedStates \subseteq
    [VDP : {r \in [Number -> Byte] : r[14] < Pages /\ r[16] < 16},
     VRAM : [0 .. Pages - 1 -> [0 .. PageSize - 1 -> Bytes]],
     VAddr : 0 .. PageSize - 1, VDPData : Bytes, VKey : BOOLEAN, ALatch : Byte,
     PKey : BOOLEAN, PLatch : Byte, Palette : [0 .. 15 -> Seq(Byte)]]

\* The page numbers that VRAMPageMask lets through: it is all ones, and at least
\* Pages - 1, so that 192 KB have numbers of pages they do not have.
MaskedPages == CHOOSE n \in {2, 4, 8, 16} : n >= Pages /\ n < 2 * Pages

VARIABLES
  VDP,      \* registers
  VRAM,     \* video memory, by page and place
  VPAGE,    \* page the ports go to
  VAddr,    \* place in it
  VDPData,  \* byte read ahead
  VKey,     \* the next byte to port 99h is a first one
  ALatch,   \* first byte written to it
  PKey,     \* the next byte to port 9Ah is a first one
  PLatch,   \* first byte written to it
  Palette,  \* colours as the two bytes that made them
  ScrMode,  \* screen mode
  tables,   \* ChrTab, ChrTabM and the other places and masks of tables
  current,  \* history: those that were computed since the last reset
  port      \* history: what last changed the address, memory or a register

portVars == <<VRAM, VPAGE, VAddr, VDPData, VKey, ALatch>>
colourVars == <<PKey, PLatch, Palette>>
vars == <<VDP, portVars, colourVars, ScrMode, tables, current, port>>

-----------------------------------------------------------------------------
\* Screen modes

MAXSCREEN == 12
Text80 == MAXSCREEN + 1

\* Bits M1..M5 of registers 0 and 1; other combinations keep the mode there is.
ModeBits(v0, v1) == (v0 % 16) \div 2 + 8 * ((v1 \div 8) % 4)
ScreenOf == [b \in {0, 1, 2, 3, 4, 5, 7, 8, 16, 18} |->
  CASE b = 16 -> 0 [] b = 0 -> 1 [] b = 1 -> 2 [] b = 8 -> 3 [] b = 2 -> 4
    [] b = 3 -> 5 [] b = 4 -> 6 [] b = 5 -> 7 [] b = 7 -> 8 [] b = 18 -> Text80]
ScreenFor(v0, v1, mode) ==
  LET b == ModeBits(v0, v1) IN IF b \in DOMAIN ScreenOf THEN ScreenOf[b] ELSE mode

\* MSK[]: the bits of registers 2..5 that count, from the one of the first value to
\* below that of the second, and the value of the lowest bit above those that only mask
\* the address.
Bits(lo, hi) == [low |-> lo, high |-> hi]
None == Bits(1, 1)
MSK == [mode \in 0 .. 8 \cup {Text80} |->
  CASE mode = 0 -> [R2 |-> Bits(1, 128), R3 |-> None, R4 |-> Bits(1, 64), R5 |-> None,
                    M2 |-> 1, M3 |-> 1, M4 |-> 1, M5 |-> 1]
    [] mode = 1 -> [R2 |-> Bits(1, 128), R3 |-> Bits(1, 256), R4 |-> Bits(1, 64),
                    R5 |-> Bits(1, 256), M2 |-> 1, M3 |-> 1, M4 |-> 1, M5 |-> 1]
    [] mode = 2 -> [R2 |-> Bits(1, 128), R3 |-> Bits(128, 256), R4 |-> Bits(4, 64),
                    R5 |-> Bits(1, 256), M2 |-> 1, M3 |-> 128, M4 |-> 4, M5 |-> 1]
    [] mode = 3 -> [R2 |-> Bits(1, 128), R3 |-> None, R4 |-> Bits(1, 64), R5 |-> Bits(1, 256),
                    M2 |-> 1, M3 |-> 1, M4 |-> 1, M5 |-> 1]
    [] mode = 4 -> [R2 |-> Bits(1, 128), R3 |-> Bits(128, 256), R4 |-> Bits(4, 64),
                    R5 |-> Bits(4, 256), M2 |-> 1, M3 |-> 128, M4 |-> 4, M5 |-> 4]
    [] mode \in {5, 6} -> [R2 |-> Bits(32, 128), R3 |-> None, R4 |-> None, R5 |-> Bits(4, 256),
                           M2 |-> 32, M3 |-> 1, M4 |-> 1, M5 |-> 4]
    [] mode \in {7, 8} -> [R2 |-> Bits(32, 64), R3 |-> None, R4 |-> None, R5 |-> Bits(4, 256),
                           M2 |-> 32, M3 |-> 1, M4 |-> 1, M5 |-> 4]
    [] mode = Text80 -> [R2 |-> Bits(4, 128), R3 |-> Bits(8, 256), R4 |-> Bits(1, 64),
                         R5 |-> None, M2 |-> 4, M3 |-> 8, M4 |-> 1, M5 |-> 1]]
Modes == 0 .. 8 \cup {Text80}

-----------------------------------------------------------------------------
\* Places and masks of tables

AllOnes == 2 ^ 17 - 1
Place(v, b, unit) == ((v % b.high) - (v % b.low)) * unit
\* The address bits above those of the mask, and below the table's unit, are all set.
Mask(v, m, unit) == AllOnes - (m - 1 - (v % m)) * unit

Unit(mode) == IF mode > 6 /\ mode # Text80 THEN 2048 ELSE 1024
ChrTabAt(v, mode)    == Place(v, MSK[mode].R2, Unit(mode))
ChrTabMask(v, mode)  == Mask(v, MSK[mode].M2, Unit(mode))
ColTabAt(v, w, mode) == Place(v, MSK[mode].R3, 64) + w * 2 ^ 14
ColTabMask(v, mode)  == Mask(v, MSK[mode].M3, 64)
ChrGenAt(v, mode)    == Place(v, MSK[mode].R4, 2048)
ChrGenMask(v, mode)  == Mask(v, MSK[mode].M4, 2048)
SprTabAt(v, w, mode) == Place(v, MSK[mode].R5, 128) + w * 2 ^ 15
SprTabMask(v, mode)  == Mask(v, MSK[mode].M5, 128)
SprGenAt(v)          == v * 2 ^ 11

Tables == {"ChrTab", "ChrTabM", "ColTab", "ColTabM", "ChrGen", "ChrGenM",
           "SprTab", "SprTabM", "SprGen"}

\* What SetScreen() makes of the registers r in a screen mode.
TablesOf(r, mode) ==
  [ChrTab |-> ChrTabAt(r[2], mode),        ChrTabM |-> ChrTabMask(r[2], mode),
   ColTab |-> ColTabAt(r[3], r[10], mode), ColTabM |-> ColTabMask(r[3], mode),
   ChrGen |-> ChrGenAt(r[4], mode),        ChrGenM |-> ChrGenMask(r[4], mode),
   SprTab |-> SprTabAt(r[5], r[11], mode), SprTabM |-> SprTabMask(r[5], mode),
   SprGen |-> SprGenAt(r[6])]

SetScreen_OldMode(r) == LET mode == ScreenFor(r[0], r[1], ScrMode)
                        IN /\ ScrMode' = mode
                           /\ tables' = TablesOf(r, ScrMode)
                           /\ current' = Tables
SetScreen(r) == LET mode == ScreenFor(r[0], r[1], ScrMode)
                IN /\ ScrMode' = mode
                   /\ tables' = TablesOf(r, mode)
                   /\ current' = Tables

-----------------------------------------------------------------------------
\* Registers

\* The bits of a value that a register keeps.
Kept_AllPages(r, v) == IF r = 6 THEN v % 64 ELSE v
Kept(r, v) == CASE r = 6  -> v % 64
                [] r = 10 -> v % 8
                [] r = 11 -> v % 4
                [] r = 14 -> v % MaskedPages
                [] r \in {15, 16} -> v % 16
                [] r = 17 -> 128 * (v \div 128) + (v % 64)
                [] OTHER -> v

\* A table and its mask, or a place alone, made anew after a write.
Repaired(new) == /\ tables' = [t \in Tables |-> IF t \in DOMAIN new THEN new[t] ELSE tables[t]]
                 /\ current' = current \cup DOMAIN new
                 /\ UNCHANGED ScrMode

\* What VDPOut(r, v) repairs before it stores the value.
TablesRepaired(r, v) ==
  \/ /\ (r \in {0, 1} /\ VDP[r] # v) \/ r = 25
     /\ SetScreen([VDP EXCEPT ![r] = v])
  \/ r = 2 /\ Repaired([ChrTab |-> ChrTabAt(v, ScrMode), ChrTabM |-> ChrTabMask(v, ScrMode)])
  \/ r = 3 /\ Repaired([ColTab  |-> ColTabAt(v, VDP[10], ScrMode),
                        ColTabM |-> ColTabMask(v, ScrMode)])
  \/ r = 4 /\ Repaired([ChrGen |-> ChrGenAt(v, ScrMode), ChrGenM |-> ChrGenMask(v, ScrMode)])
  \/ r = 5 /\ Repaired([SprTab  |-> SprTabAt(v, VDP[11], ScrMode),
                        SprTabM |-> SprTabMask(v, ScrMode)])
  \/ r = 6 /\ Repaired([SprGen |-> SprGenAt(Kept(6, v))])
  \/ r = 10 /\ Repaired([ColTab |-> ColTabAt(VDP[3], Kept(10, v), ScrMode)])
  \/ r = 11 /\ Repaired([SprTab |-> SprTabAt(VDP[5], Kept(11, v), ScrMode)])
  \/ /\ (r \in {0, 1} /\ VDP[r] = v) \/ r \notin {0, 1, 2, 3, 4, 5, 6, 10, 11, 25}
     /\ UNCHANGED <<ScrMode, tables, current>>

\* The registers after it.
Stored(r, v) == [VDP EXCEPT ![r] = Kept(r, v)]

\* All of VDPOut() but for VDP[] itself, to which port 9Bh adds.
VDPOut(r, v) == /\ TablesRepaired(r, v)
                /\ VPAGE' = IF r = 14 THEN Kept(14, v) ELSE VPAGE
                /\ PKey' = (r = 16 \/ PKey)

-----------------------------------------------------------------------------
\* Ports

\* The place after VAddr; past the end of a page the bitmap modes go on in the next.
Advance_StalePage(place) ==
  /\ VAddr' = (place + 1) % PageSize
  /\ VDP' = IF VAddr' = 0 /\ ScrMode > 3 THEN [VDP EXCEPT ![14] = (@ + 1) % MaskedPages] ELSE VDP
  /\ UNCHANGED VPAGE
Advance(place) ==
  LET rolled == (place + 1) % PageSize = 0 /\ ScrMode > 3
      page   == (VDP[14] + 1) % MaskedPages
  IN /\ VAddr' = (place + 1) % PageSize
     /\ VDP' = IF rolled THEN [VDP EXCEPT ![14] = page] ELSE VDP
     /\ VPAGE' = IF rolled THEN page ELSE VPAGE

screen == <<ScrMode, tables, current>>

DataOut(b) == /\ VKey' = TRUE
              /\ VDPData' = b
              /\ VRAM' = [VRAM EXCEPT ![VPAGE][VAddr] = b]
              /\ Advance(VAddr)
              /\ port' = "data"
              /\ UNCHANGED <<ALatch, colourVars, screen>>

DataIn == /\ VKey' = TRUE
          /\ VDPData' = VRAM[VPAGE][VAddr]
          /\ Advance(VAddr)
          /\ port' = "data"
          /\ UNCHANGED <<VRAM, ALatch, colourVars, screen>>

\* The first byte to port 99h.
Latch(v) == /\ VKey
            /\ VKey' = FALSE
            /\ ALatch' = v
            /\ UNCHANGED <<VDP, VRAM, VPAGE, VAddr, VDPData, colourVars, screen, port>>

\* The second one, 80h + r.
RegisterOut(r) == /\ ~VKey
                  /\ VKey' = TRUE
                  /\ ALatch \in Values[r]
                  /\ VDPOut(r, ALatch)
                  /\ VDP' = Stored(r, ALatch)
                  /\ port' = "register"
                  /\ UNCHANGED <<VRAM, VAddr, VDPData, ALatch, PLatch, Palette>>

\* The second one, 40h + h: the address of a write.
WriteAddress(h) == /\ ~VKey
                   /\ VKey' = TRUE
                   /\ VAddr' = (256 * h + ALatch) % PageSize
                   /\ port' = "address"
                   /\ UNCHANGED <<VDP, VRAM, VPAGE, VDPData, ALatch, colourVars, screen>>

\* The second one, h: the address of a read, which is done at once.
ReadAddress(h) == LET place == (256 * h + ALatch) % PageSize
                  IN /\ ~VKey
                     /\ VKey' = TRUE
                     /\ VDPData' = VRAM[VPAGE][place]
                     /\ Advance(place)
                     /\ port' = "address"
                     /\ UNCHANGED <<VRAM, ALatch, colourVars, screen>>

\* The second one with both upper bits does nothing.
NoAddress == /\ ~VKey
             /\ VKey' = TRUE
             /\ UNCHANGED <<VDP, VRAM, VPAGE, VAddr, VDPData, ALatch, colourVars, screen, port>>

\* Port 9Ah: two bytes make a colour.
PaletteOut(v) ==
  /\ PKey' = ~PKey
  /\ UNCHANGED <<portVars, screen, port>>
  /\ \/ PKey /\ PLatch' = v /\ UNCHANGED <<VDP, Palette>>
     \/ /\ ~PKey
        /\ Palette' = [Palette EXCEPT ![VDP[16]] = <<PLatch, v>>]
        /\ VDP' = [VDP EXCEPT ![16] = (@ + 1) % 16]
        /\ UNCHANGED PLatch

\* Port 9Bh: the register that register 17 names, and then, without its bit 7, the next.
Named == VDP[17] % 64
Counted(r) == IF r[17] >= 128 THEN r ELSE [r EXCEPT ![17] = (Named + 1) % 64]
IndirectOut(v) ==
  /\ port' = "register"
  /\ UNCHANGED <<VRAM, VAddr, VDPData, VKey, ALatch, PLatch, Palette>>
  /\ \/ /\ Named # 17 /\ v \in Values[Named]
        /\ VDPOut(Named, v)
        /\ VDP' = Counted(Stored(Named, v))
     \/ /\ Named = 17
        /\ VDP' = Counted(VDP)
        /\ UNCHANGED <<VPAGE, PKey, screen>>

-----------------------------------------------------------------------------
\* Resets and states

VDPInit == [r \in Number |-> CASE r = 1 -> 16 [] r \in 2 .. 5 -> 255 [] OTHER -> 0]
NoTables == [t \in Tables |-> IF t \in {"ChrTabM", "ColTabM", "ChrGenM", "SprTabM"}
                              THEN AllOnes ELSE 0]
PalInit == [c \in 0 .. 15 |-> <<>>]

\* The VDP's part of ResetMSX(); video memory and the latches keep what they hold.
ResetMSX == /\ VDP' = VDPInit
            /\ tables' = NoTables
            /\ current' = {}
            /\ VPAGE' = 0
            /\ VAddr' = 0
            /\ ScrMode' = 0
            /\ VKey' = TRUE
            /\ PKey' = TRUE
            /\ VDPData' = NoRAM
            /\ Palette' = PalInit
            /\ port' = "reset"
            /\ UNCHANGED <<VRAM, ALatch, PLatch>>

\* The screen mode is not in the state: that of the running machine counts when the
\* mode bits stand for none.
LoadState(s) == /\ VDP' = s.VDP
                /\ VRAM' = s.VRAM
                /\ VAddr' = s.VAddr
                /\ VDPData' = s.VDPData
                /\ VKey' = s.VKey
                /\ ALatch' = s.ALatch
                /\ PKey' = s.PKey
                /\ PLatch' = s.PLatch
                /\ Palette' = s.Palette
                /\ SetScreen(s.VDP)
                /\ VPAGE' = s.VDP[14]
                /\ port' = "load"

Init == /\ VDP = VDPInit
        /\ VRAM = [p \in 0 .. Pages - 1 |-> [a \in 0 .. PageSize - 1 |-> NoRAM]]
        /\ VPAGE = 0 /\ VAddr = 0 /\ VDPData = NoRAM
        /\ VKey = TRUE /\ ALatch = 0
        /\ PKey = TRUE /\ PLatch = 0 /\ Palette = PalInit
        /\ ScrMode = 0 /\ tables = NoTables /\ current = {}
        /\ port = "reset"

Next == \/ \E b \in Bytes : DataOut(b)
        \/ DataIn
        \/ \E v \in LowBytes \cup UNION {Values[r] : r \in Regs} : Latch(v)
        \/ \E r \in Regs : RegisterOut(r)
        \/ \E h \in HighBytes : WriteAddress(h) \/ ReadAddress(h)
        \/ NoAddress
        \/ \E v \in Colours : PaletteOut(v)
        \/ \E v \in UNION {Values[r] : r \in Number} : IndirectOut(v)
        \/ ResetMSX
        \/ \E s \in SavedStates : LoadState(s)
Spec == Init /\ [][Next]_vars

-----------------------------------------------------------------------------
\* Properties

\* The page that the ports go to is one of those there are.
PageInMemory == VPAGE \in 0 .. Pages - 1

TypeOK ==
  /\ VDP \in [Number -> Byte]
  /\ VRAM \in [0 .. Pages - 1 -> [0 .. PageSize - 1 -> Bytes]]
  /\ PageInMemory /\ VAddr \in 0 .. PageSize - 1 /\ VDPData \in Bytes
  /\ VKey \in BOOLEAN /\ ALatch \in Byte
  /\ VDP[16] \in 0 .. 15 /\ PKey \in BOOLEAN
  /\ ScrMode \in Modes
  /\ tables \in [Tables -> Int]
  /\ current \subseteq Tables
  /\ port \in {"data", "address", "register", "reset", "load"}

\* The places and masks that the renderers use are those the registers and the screen
\* mode stand for, whichever of the registers VDPOut() wrote last, directly or through
\* register 17, and the screen mode is the one of the mode bits when they stand for one:
\* every branch of VDPOut() repairs all that it makes stale.
TablesFollow ==
  /\ \A t \in current : tables[t] = TablesOf(VDP, ScrMode)[t]
  /\ ScrMode = ScreenFor(VDP[0], VDP[1], ScrMode)

\* The ports give programs one address that counts up through video memory, as
\* VideoMemory has it: register 14, VPAGE and VAddr stay one number through accesses,
\* pages' ends, register writes, resets and loaded states.
Memory == INSTANCE VideoMemory WITH
  memory <- [a \in 0 .. Pages * PageSize - 1 |-> VRAM[a \div PageSize][a % PageSize]],
  address <- VPAGE * PageSize + VAddr,
  ahead <- VDPData,
  linear <- ScrMode > 3,
  port <- port
LinearVRAM == Memory!Spec
=============================================================================
