------------------------------ MODULE MemoryMap ------------------------------
(***************************************************************************)
(* The address space of the emulated MSX, as fMSX/MSX.c keeps it.          *)
(*                                                                         *)
(* The Z80 sees 64kB through eight 8kB windows, two for each 16kB page.    *)
(* Each page shows one of 4 x 4 slots; what every slot holds is MemMap,    *)
(* and which slot a page shows follows from the primary slot register      *)
(* (PPI port A, I/O A8h) and four secondary slot registers (FFFFh).  The   *)
(* code never derives a window from the registers when it is accessed:     *)
(* PSL, SSL, RAM and EnWrite cache the outcome and RAMMapper, ROMMapper    *)
(* cache the bank registers, and each handler repairs the caches it may    *)
(* have made stale.  The properties say that the caches agree.             *)
(*                                                                         *)
(* A memory block is a value <<kind, owner, n>>, never its bytes.          *)
(***************************************************************************)
EXTENDS Integers

CONSTANTS
  RamSegs,    \* 16kB segments of mapped RAM: RAMMask + 1
  RomPages,   \* 8kB pages of a MegaROM: ROMMask + 1
  Programs,   \* what is run, with what cartridges, see InputAssumption
  MSX1,       \* Mode is MSX_MSX1: slot 0 has no subslots
  MegaRAM,    \* ~(Mode & MSX_NO_MEGARAM): empty slots hold SCC-I RAM
  ABFirst     \* cartridges with the "AB" signature in the ROM's first page: the
              \* other MegaROMs have it two pages before the end

Byte     == 0 .. 255
Address  == {a \in Nat : a <= \hFFFF}
Carts    == 0 .. 5
Banks    == 0 .. 3
SRAMBank == 255                     \* FFh in a bank register selects SRAM

MegaROMs  == {"GEN8", "GEN16", "KONAMI5", "KONAMI4", "ASCII8", "ASCII16",
              "GMASTER2", "FMPAC"}
CartTypes == MegaROMs \cup {"PLAIN", "EMPTY"}  \* no ROMMask; no ROMData

ASSUME SizeAssumption ==
  /\ RamSegs \in 4 .. 256
  /\ RomPages \in 8 .. 256
  /\ RomPages % 2 = 0

\* A program is a record of what each of the six cartridge slots holds, the bytes
\* it stores in slot registers, the other bytes it stores and the addresses, the
\* RAM mapper ports it uses, FCh + j, and how many save states are taken of it.
ASSUME InputAssumption ==
  /\ \A p \in Programs :
       /\ p.carts \in [Carts -> CartTypes]
       /\ p.slotBytes \subseteq Byte /\ p.bytes \subseteq Byte
       /\ p.addrs \subseteq Address /\ p.ports \subseteq 0 .. 3
       /\ p.saves \in Nat
  /\ {MSX1, MegaRAM} \subseteq BOOLEAN /\ ABFirst \subseteq Carts

(***************************************************************************)
(* Blocks of memory.  A 16kB buffer is two blocks, n and n + 1.            *)
(***************************************************************************)
Kinds == {"empty", "bios", "ext", "disk", "ram", "rom", "sram", "scci"}
Block == Kinds \X Carts \X Nat

EmptyRAM         == <<"empty", 0, 0>>
RamBlock(seg, h) == <<"ram", 0, 2 * seg + h>>
RomBlock(c, n)   == <<"rom", c, n>>
SramBlock(c, h)  == <<"sram", c, h>>
SccRam(n)        == <<"scci", 0, n>>
NextBlock(b)     == <<b[1], b[2], b[3] + 1>>

\* Where a store can go that is not a memory block.
ToFDC == <<"fdc", 0, 0>>
ToSCC == <<"scc", 0, 0>>

(***************************************************************************)
(* Slots, windows and the bits of the registers.                           *)
(***************************************************************************)
Pages   == 0 .. 3
Windows == 0 .. 7
Slots   == Pages \X Pages
Cells   == Pages \X Pages \X Windows

Win(a)      == a \div \h2000
PageOf(a)   == Win(a) \div 2
Offset(a)   == a % \h2000
BitSet(v,k) == (v \div k) % 2 = 1
Field(r, j) == (r \div <<1, 4, 16, 64>>[j + 1]) % 4   \* (r >> 2*j) & 3
Or1(v)      == IF v % 2 = 0 THEN v + 1 ELSE v         \* v | 1

\* Cartridge number by primary and secondary slot; 255 where there is none.
CartMap ==
  [s \in Slots |->
     CASE s[1] = 1 -> 0
       [] s[1] = 2 -> 1
       [] s = <<3, 0>> -> 2
       [] s = <<0, 1>> -> 3
       [] s = <<0, 2>> -> 4
       [] s = <<0, 3>> -> 5
       [] OTHER -> 255]

\* The first slot of CartMap that holds the cartridge, where SetMegaROM()
\* and LoadCart() put its pages.
CartSlot ==
  [c \in Carts |-> <<<<1, 0>>, <<2, 0>>, <<3, 0>>,
                     <<0, 1>>, <<0, 2>>, <<0, 3>>>>[c + 1]]

VARIABLES
  PSLReg, SSLReg,  \* slot registers
  ppiA, ppiIn,     \* PPI port A latch, and whether the port is an input
  PSL, SSL,        \* slot each page shows
  EnWrite,         \* pages whose stores go to RAM directly
  RAM,             \* block behind each window
  MemMap,          \* block behind each window of each slot
  RAMMapper,       \* RAM segment of each page
  ROMMapper,       \* page in each cartridge bank
  ROMType,         \* the cartridges
  SCCOn, SCCIMode, \* SCC registers visible; SCC-I banks in all-RAM mode
  FMPACKey,        \* which of the two key bytes of the FMPAC are right
  SaveSRAM,        \* cartridges whose SRAM must be saved to disk
  stored,          \* blocks the last store of the program changed
  saved, saves     \* the save state held by the frontend, how many were taken

slotVars == <<PSLReg, SSLReg, PSL, SSL, EnWrite, ppiA, ppiIn>>
sccVars  == <<SCCOn, SCCIMode>>
saveVars == <<saved, saves>>
vars == <<slotVars, RAM, MemMap, RAMMapper, ROMMapper, ROMType, sccVars,
          FMPACKey, SaveSRAM, stored, saveVars>>

NoState == [valid |-> FALSE]
IsMega(c)   == ROMType[c] \in MegaROMs
IsEmpty(c)  == ROMType[c] = "EMPTY"
Unlocked    == FMPACKey[1] /\ FMPACKey[2]     \* FMPACKey == FMPAC_MAGIC

(***************************************************************************)
(* Power on: StartMSX() loads the ROMs and cartridges, ResetMSX() sets the *)
(* slots.                                                                  *)
(***************************************************************************)
\* Pages SetMegaROM() puts in the banks of a MegaROM on reset.
ResetBank(c, b) == IF c \in ABFirst THEN b ELSE RomPages - 2 + (b % 2)

\* 24kB and 32kB ROMs are mirrored 0:1:0:1:2:3:2:3.
PlainPage(w) == (w % 2) + (IF w < 4 THEN 0 ELSE 2)

\* MemMap after the RAM mapper of page j is set to ram[j] and the banks of
\* the MegaROMs to bank, over what the other cells held.
Remapped(map, ram, bank) ==
  [x \in Cells |->
     LET s == <<x[1], x[2]>>  w == x[3]  c == CartMap[s] IN
     IF s = <<3, 2>> THEN RamBlock(ram[w \div 2], w % 2)
     ELSE IF w \in 2 .. 5 /\ c \in Carts /\ s = CartSlot[c] /\ IsMega(c)
          THEN RomBlock(c, bank[<<c, w - 2>>])
          ELSE map[x]]

\* The system ROMs and the cartridges that are no MegaROM.
SystemBlock(s, w) ==
  LET c == CartMap[s] IN
  CASE s = <<0, 0>> /\ w < 4 -> <<"bios", 0, w>>
    [] s = <<3, 1>> /\ w < 2 /\ ~MSX1 -> <<"ext", 0, w>>
    [] s = <<3, 1>> /\ w \in {2, 3} -> <<"disk", 0, w>>
    [] c \in Carts /\ s = CartSlot[c] /\ ROMType[c] = "PLAIN"
         -> RomBlock(c, PlainPage(w))
    [] OTHER -> EmptyRAM

SystemMap == [x \in Cells |-> SystemBlock(<<x[1], x[2]>>, x[3])]

ResetRAMMapper_OffByOne == [j \in Pages |-> 4 - j]
ResetRAMMapper == [j \in Pages |-> 3 - j]
ResetROMMapper(old) ==
  [x \in Carts \X Banks |-> IF IsMega(x[1]) THEN ResetBank(x[1], x[2]) ELSE old[x]]

Init ==
  /\ ROMType \in {p.carts : p \in Programs}
  /\ PSLReg = 0 /\ SSLReg = [p \in Pages |-> 0]
  /\ ppiA = 0 /\ ppiIn = TRUE
  /\ PSL = [j \in Pages |-> 0] /\ SSL = [j \in Pages |-> 0]
  /\ EnWrite = [j \in Pages |-> FALSE]
  /\ RAMMapper = ResetRAMMapper
  /\ ROMMapper = ResetROMMapper([x \in Carts \X Banks |-> 0])
  /\ MemMap = Remapped(SystemMap, RAMMapper, ROMMapper)
  /\ RAM = [w \in Windows |-> MemMap[<<0, 0, w>>]]
  /\ SCCOn = [c \in 0 .. 1 |-> FALSE] /\ SCCIMode = [c \in 0 .. 1 |-> FALSE]
  /\ FMPACKey = <<FALSE, FALSE>>
  /\ SaveSRAM = {}
  /\ stored = {}
  /\ saved = NoState /\ saves = 0

\* The part of ResetMSX() that concerns the address space, over the given
\* memory map and bank registers.  FMPACKey is not among what it resets.
ResetOver(map, bank) ==
  /\ PSLReg' = 0 /\ SSLReg' = [p \in Pages |-> 0]
  /\ ppiA' = 0 /\ ppiIn' = TRUE
  /\ PSL' = [j \in Pages |-> 0] /\ SSL' = [j \in Pages |-> 0]
  /\ EnWrite' = [j \in Pages |-> FALSE]
  /\ RAMMapper' = ResetRAMMapper
  /\ ROMMapper' = ResetROMMapper(bank)
  /\ MemMap' = Remapped(map, RAMMapper', ROMMapper')
  /\ RAM' = [w \in Windows |-> map[<<0, 0, w>>]]
  /\ SCCOn' = [c \in 0 .. 1 |-> FALSE] /\ SCCIMode' = [c \in 0 .. 1 |-> FALSE]
  /\ stored' = {}

Reset ==
  /\ ResetOver(MemMap, ROMMapper)
  /\ UNCHANGED <<ROMType, FMPACKey, SaveSRAM, saveVars>>

\* The frontend closes the game and loads it again.  StartMSX() does not
\* clear ROMMapper: it is zero in a new process, and what the last game left
\* in the same one.
Restart ==
  /\ \E bank \in {ROMMapper, [x \in Carts \X Banks |-> 0]} :
       ResetOver(SystemMap, bank)
  /\ FMPACKey' = <<FALSE, FALSE>>
  /\ SaveSRAM' = {}
  /\ UNCHANGED <<ROMType, saveVars>>

(***************************************************************************)
(* Slot registers and the RAM mapper.                                      *)
(***************************************************************************)
\* Subslot not compared when EnWrite is set.
Show_AnySubslot(J, psl, ssl) ==
  /\ PSL' = [j \in Pages |-> IF j \in J THEN psl[j] ELSE PSL[j]]
  /\ SSL' = [j \in Pages |-> IF j \in J THEN ssl[j] ELSE SSL[j]]
  /\ RAM' = [w \in Windows |->
               IF w \div 2 \in J THEN MemMap[<<psl[w \div 2], ssl[w \div 2], w>>]
               ELSE RAM[w]]
  /\ EnWrite' = [j \in Pages |-> IF j \in J THEN psl[j] = 3 ELSE EnWrite[j]]

\* The four pages after pages J show slots psl, ssl.
Show(J, psl, ssl) ==
  /\ PSL' = [j \in Pages |-> IF j \in J THEN psl[j] ELSE PSL[j]]
  /\ SSL' = [j \in Pages |-> IF j \in J THEN ssl[j] ELSE SSL[j]]
  /\ RAM' = [w \in Windows |->
               IF w \div 2 \in J THEN MemMap[<<psl[w \div 2], ssl[w \div 2], w>>]
               ELSE RAM[w]]
  /\ EnWrite' = [j \in Pages |->
                   IF j \in J THEN /\ psl[j] = 3 /\ ssl[j] = 2
                                   /\ MemMap[<<3, 2, 2 * j>>] # EmptyRAM
                   ELSE EnWrite[j]]

PSlot(v) ==
  /\ PSLReg' = v
  /\ IF v = PSLReg THEN UNCHANGED <<PSL, SSL, RAM, EnWrite>>
     ELSE Show(Pages, [j \in Pages |-> Field(v, j)],
                      [j \in Pages |-> Field(SSLReg[Field(v, j)], j)])

\* Port A8h is the PPI's port A, ABh its control register: Rout[0] is 0
\* while port A is an input.
PortA(a, in) == IF in THEN 0 ELSE a

OutSlot(v) ==
  /\ ppiA' = v
  /\ PSlot(PortA(v, ppiIn))
  /\ stored' = {}
  /\ UNCHANGED <<SSLReg, ppiIn, MemMap, RAMMapper, ROMMapper, ROMType, sccVars,
                 FMPACKey, SaveSRAM, saveVars>>

OutPPIMode(in) ==
  /\ ppiIn' = in
  /\ PSlot(PortA(ppiA, in))
  /\ stored' = {}
  /\ UNCHANGED <<SSLReg, ppiA, MemMap, RAMMapper, ROMMapper, ROMType, sccVars,
                 FMPACKey, SaveSRAM, saveVars>>

\* Cartridge slots have no subslots, nor has slot 0 of an MSX1.
Subslots(p, v) == IF p \in {1, 2} \/ (p = 0 /\ MSX1) THEN 0 ELSE v

SSlot(v) ==
  LET p   == PSL[3]
      r   == Subslots(p, v)
      mine == {j \in Pages : PSL[j] = p} IN
  /\ SSLReg' = [SSLReg EXCEPT ![p] = r]
  /\ IF r = SSLReg[p] THEN UNCHANGED <<PSL, SSL, RAM, EnWrite>>
     ELSE Show(mine, PSL, [j \in Pages |-> Field(r, j)])
  /\ stored' = {}
  /\ UNCHANGED <<PSLReg, ppiA, ppiIn, MemMap, RAMMapper, ROMMapper, ROMType,
                 sccVars, FMPACKey, SaveSRAM, saveVars>>

OutMapper(j, byte) ==
  LET seg == byte % RamSegs IN
  /\ IF seg = RAMMapper[j]
     THEN UNCHANGED <<RAMMapper, MemMap, RAM, EnWrite>>
     ELSE /\ RAMMapper' = [RAMMapper EXCEPT ![j] = seg]
          /\ MemMap' = [MemMap EXCEPT ![<<3, 2, 2 * j>>] = RamBlock(seg, 0),
                                      ![<<3, 2, 2 * j + 1>>] = RamBlock(seg, 1)]
          /\ IF PSL[j] = 3 /\ SSL[j] = 2
             THEN /\ EnWrite' = [EnWrite EXCEPT ![j] = TRUE]
                  /\ RAM' = [RAM EXCEPT ![2 * j] = RamBlock(seg, 0),
                                        ![2 * j + 1] = RamBlock(seg, 1)]
             ELSE UNCHANGED <<EnWrite, RAM>>
  /\ stored' = {}
  /\ UNCHANGED <<PSLReg, SSLReg, ppiA, ppiIn, PSL, SSL, ROMMapper, ROMType,
                 sccVars, FMPACKey, SaveSRAM, saveVars>>

(***************************************************************************)
(* MapROM(): a store to 4000h..BFFFh outside RAM, for the cartridge c that *)
(* the page of a shows.  Every operator below is one case of its switch.   *)
(***************************************************************************)
Stores(S)  == stored' = S /\ UNCHANGED <<RAM, MemMap, ROMMapper>>
Ignored    == Stores({}) /\ UNCHANGED <<sccVars, FMPACKey, SaveSRAM>>

SetBank_KeepsRegister(c, slot, b, n, block) ==
  /\ MemMap' = [MemMap EXCEPT ![<<slot[1], slot[2], b + 2>>] = block]
  /\ RAM' = [RAM EXCEPT ![b + 2] = block]
  /\ stored' = {}
  /\ UNCHANGED ROMMapper

\* Put block n in bank b of cartridge c and behind its window.
SetBank(c, slot, b, n, block) ==
  /\ ROMMapper' = [ROMMapper EXCEPT ![<<c, b>>] = n]
  /\ MemMap' = [MemMap EXCEPT ![<<slot[1], slot[2], b + 2>>] = block]
  /\ RAM' = [RAM EXCEPT ![b + 2] = block]
  /\ stored' = {}

\* The same for the two banks from b on, which make a 16kB page.
SetTwoBanks(c, slot, b, n, m, block) ==
  /\ ROMMapper' = [ROMMapper EXCEPT ![<<c, b>>] = n, ![<<c, b + 1>>] = m]
  /\ MemMap' = [MemMap EXCEPT ![<<slot[1], slot[2], b + 2>>] = block,
                              ![<<slot[1], slot[2], b + 3>>] = NextBlock(block)]
  /\ RAM' = [RAM EXCEPT ![b + 2] = block, ![b + 3] = NextBlock(block)]
  /\ stored' = {}

\* A switch to the page the bank register already holds does nothing.
SelectPage(c, slot, b, n, block) ==
  IF n = ROMMapper[<<c, b>>] THEN Stores({}) ELSE SetBank(c, slot, b, n, block)

SelectRom(c, slot, b, n) == SelectPage(c, slot, b, n, RomBlock(c, n))

\* Bank 2 turns the SCC on and off, bank 3 the SCC-I, in slots 1 and 2.
SwitchSCC(c, b, v) ==
  /\ SCCOn' = IF c < 2 /\ b \in {2, 3}
              THEN [SCCOn EXCEPT ![c] = IF b = 2 THEN v % 64 = 63 ELSE BitSet(v, 128)]
              ELSE SCCOn
  /\ UNCHANGED SCCIMode

AtSwitch(a) == (a \div \h800) % 4 = 2                \* (A & 1800h) == 1000h

\* No ROM: SCC-I RAM.  FALSE where the code falls through to the SCC.
SccCartStore(a) == (a \div 2 = \hBFFE \div 2 /\ MegaRAM)
SccCart(c, slot, a, v) ==
  LET b == Win(a) - 2 IN
  /\ UNCHANGED <<FMPACKey, SaveSRAM>>
  /\ \/ /\ SccCartStore(a)
        /\ SCCIMode' = [SCCIMode EXCEPT ![c] = BitSet(v, 16)]
        /\ UNCHANGED SCCOn
        /\ Stores({})
     \/ /\ ~SccCartStore(a) /\ SCCIMode[c]
        /\ UNCHANGED sccVars
        /\ Stores({RAM[Win(a)]})
     \/ /\ ~SccCartStore(a) /\ ~SCCIMode[c] /\ AtSwitch(a)
        /\ SwitchSCC(c, b, v)
        /\ IF MegaRAM THEN SelectPage(c, slot, b, v % 16, SccRam(v % 16))
                      ELSE Stores({})

\* Also where there is a ROM.
InSccCart(c, a) ==
  c < 2 /\ IsEmpty(c) /\ (SccCartStore(a) \/ SCCIMode[c] \/ AtSwitch(a))

\* The SCC's registers, 9800h and B800h.  Without a ROM the wave table is
\* also stored in the scratch block all empty slots share.
InSccRegs(c, a) == c < 2 /\ SCCOn[c] /\ Win(a) \in {4, 5} /\ (a \div \h800) % 4 = 3
SccRegs(c, a) ==
  /\ Stores({ToSCC} \cup
            IF IsEmpty(c) /\ a % 256 < (IF Win(a) = 5 THEN \hA0 ELSE \h80)
            THEN {EmptyRAM} ELSE {})
  /\ UNCHANGED <<sccVars, FMPACKey, SaveSRAM>>

Gen8(c, slot, a, v) ==
  /\ IF AtSwitch(a) THEN SwitchSCC(c, Win(a) - 2, v) ELSE UNCHANGED sccVars
  /\ SelectRom(c, slot, Win(a) - 2, v % RomPages)
  /\ UNCHANGED <<FMPACKey, SaveSRAM>>

Konami5(c, slot, a, v) ==
  IF a >= \h5000 /\ a <= \hB000 /\ Offset(a) = \h1000
  THEN /\ SwitchSCC(c, Win(a) - 2, v)
       /\ SelectRom(c, slot, Win(a) - 2, v % RomPages)
       /\ UNCHANGED <<FMPACKey, SaveSRAM>>
  ELSE Ignored

Konami4(c, slot, a, v) ==
  IF a >= \h6000 /\ a <= \hA000 /\ Offset(a) = 0
  THEN /\ SelectRom(c, slot, Win(a) - 2, v % RomPages)
       /\ UNCHANGED <<sccVars, FMPACKey, SaveSRAM>>
  ELSE Ignored

\* 16kB page v as a pair of 8kB pages: (v << 1) & ROMMask.
Pair(v) == 2 * (v % (RomPages \div 2))

Gen16(c, slot, a, v) ==
  LET b == IF a >= \h8000 THEN 2 ELSE 0  n == Pair(v) IN
  /\ IF n = ROMMapper[<<c, b>>] THEN Stores({})
     ELSE SetTwoBanks(c, slot, b, n, n + 1, RomBlock(c, n))
  /\ UNCHANGED <<sccVars, FMPACKey, SaveSRAM>>

MapIfShown_Always(slot, W, block) ==
  RAM' = [w \in Windows |-> IF w \in W THEN block[w] ELSE RAM[w]]

\* The ASCII mappers are switched through 6000h..7FFFh whichever page shows
\* the bank, so its window may belong to another slot.
MapIfShown(slot, W, block) ==
  RAM' = [w \in Windows |->
            IF w \in W /\ PSL[w \div 2] = slot[1] /\ SSL[w \div 2] = slot[2]
            THEN block[w] ELSE RAM[w]]

SwitchAscii(c, slot, b, len, n, block) ==
  LET W   == (b + 2) .. (b + 1 + len)
      blk == [w \in W |-> IF w = b + 2 THEN block ELSE NextBlock(block)] IN
  /\ IF n = ROMMapper[<<c, b>>] THEN UNCHANGED <<ROMMapper, MemMap, RAM>>
     ELSE /\ ROMMapper' = [x \in Carts \X Banks |->
                             IF x[1] = c /\ x[2] + 2 \in W
                             THEN (IF x[2] = b THEN n ELSE Or1(n)) ELSE ROMMapper[x]]
          /\ MemMap' = [x \in Cells |->
                          IF <<x[1], x[2]>> = slot /\ x[3] \in W
                          THEN blk[x[3]] ELSE MemMap[x]]
          /\ MapIfShown(slot, W, blk)
  /\ stored' = {}
  /\ UNCHANGED <<sccVars, FMPACKey, SaveSRAM>>

\* A store to SRAM changes the blocks S.
StoreSRAM(c, S) ==
  /\ Stores(S)
  /\ SaveSRAM' = SaveSRAM \cup {c}
  /\ UNCHANGED <<sccVars, FMPACKey>>

\* V & (ROMMask + 1) selects SRAM.
SelectsSRAM(v) == BitSet(v, RomPages)

Ascii8(c, slot, a, v) ==
  IF a >= \h6000 /\ a < \h8000
  THEN SwitchAscii(c, slot, (a \div \h800) % 4, 1,
                   IF SelectsSRAM(v) THEN SRAMBank ELSE v % RomPages,
                   IF SelectsSRAM(v) THEN SramBlock(c, 0) ELSE RomBlock(c, v % RomPages))
  ELSE IF a >= \h8000 /\ ROMMapper[<<c, (Win(a) % 2) + 2>>] = SRAMBank
  THEN StoreSRAM(c, {RAM[Win(a)]})
  ELSE Ignored

\* SRAM is 2kB, mirrored over the 16kB from the window's block on, wherever in
\* the SRAM that block is: from A000h..BFFFh on, the second half of the 16kB is
\* past the end of it.
Ascii16(c, slot, a, v) ==
  IF a >= \h6000 /\ a < \h8000 /\ (v <= RomPages \/ a % \h1000 = 0)
  THEN SwitchAscii(c, slot, IF BitSet(a, \h1000) THEN 2 ELSE 0, 2,
                   IF SelectsSRAM(v) THEN SRAMBank ELSE Pair(v),
                   IF SelectsSRAM(v) THEN SramBlock(c, 0) ELSE RomBlock(c, Pair(v)))
  ELSE IF a >= \h8000 /\ ROMMapper[<<c, 2>>] = SRAMBank
  THEN StoreSRAM(c, {RAM[Win(a)], NextBlock(RAM[Win(a)])})
  ELSE Ignored

GMaster2(c, slot, a, v) ==
  IF a >= \h6000 /\ a <= \hA000 /\ Offset(a) = 0
  THEN /\ IF BitSet(v, 16)
          THEN SetBank(c, slot, Win(a) - 2, SRAMBank,
                       SramBlock(c, IF BitSet(v, 32) THEN 1 ELSE 0))
          ELSE SelectRom(c, slot, Win(a) - 2, v % RomPages)
       /\ UNCHANGED <<sccVars, FMPACKey, SaveSRAM>>
  ELSE IF a >= \hB000 /\ ROMMapper[<<c, 3>>] = SRAMBank
  THEN StoreSRAM(c, {RAM[5]})
  ELSE Ignored

\* Bytes 4Dh at 5FFEh and 69h at 5FFFh are the key that shows the SRAM.
FMPACByte(a) == IF a = \h5FFE THEN \h4D ELSE \h69

FMPac(c, slot, a, v) ==
  \/ /\ a = \h7FF7
     /\ IF Unlocked
        THEN /\ ROMMapper' = [ROMMapper EXCEPT ![<<c, 0>>] = Pair(v), ![<<c, 1>>] = Pair(v) + 1]
             /\ stored' = {}
             /\ UNCHANGED <<RAM, MemMap>>
        ELSE SetTwoBanks(c, slot, 0, Pair(v), Pair(v) + 1, RomBlock(c, Pair(v)))
     /\ UNCHANGED <<sccVars, FMPACKey, SaveSRAM>>
  \/ /\ a \in {\h5FFE, \h5FFF}
     /\ FMPACKey' = [FMPACKey EXCEPT ![a - \h5FFD] = (v = FMPACByte(a))]
     /\ SetTwoBanks(c, slot, 0, ROMMapper[<<c, 0>>], ROMMapper[<<c, 1>>],
                    IF FMPACKey'[1] /\ FMPACKey'[2] THEN SramBlock(c, 0)
                    ELSE RomBlock(c, ROMMapper[<<c, 0>>]))
     /\ UNCHANGED <<sccVars, SaveSRAM>>
  \/ /\ a < \h5FFE /\ Unlocked
     /\ StoreSRAM(c, {RAM[Win(a)]})
  \/ /\ a \notin {\h7FF7, \h5FFE, \h5FFF} /\ ~(a < \h5FFE /\ Unlocked)
     /\ Ignored

Mapper(c, slot, a, v) ==
  \/ ROMType[c] = "GEN8"     /\ Gen8(c, slot, a, v)
  \/ ROMType[c] = "GEN16"    /\ Gen16(c, slot, a, v)
  \/ ROMType[c] = "KONAMI5"  /\ Konami5(c, slot, a, v)
  \/ ROMType[c] = "KONAMI4"  /\ Konami4(c, slot, a, v)
  \/ ROMType[c] = "ASCII8"   /\ Ascii8(c, slot, a, v)
  \/ ROMType[c] = "ASCII16"  /\ Ascii16(c, slot, a, v)
  \/ ROMType[c] = "GMASTER2" /\ GMaster2(c, slot, a, v)
  \/ ROMType[c] = "FMPAC"    /\ FMPac(c, slot, a, v)

SlotOf(a) == <<PSL[PageOf(a)], SSL[PageOf(a)]>>

MapROM(a, v) ==
  LET slot == SlotOf(a)  c == CartMap[slot] IN
  IF c \notin Carts THEN Ignored
  ELSE IF InSccCart(c, a) THEN SccCart(c, slot, a, v)
  ELSE IF InSccRegs(c, a) THEN SccRegs(c, a)
  ELSE IF IsMega(c) THEN Mapper(c, slot, a, v)
  ELSE Ignored

(***************************************************************************)
(* A store of the program, WrZ80().                                        *)
(***************************************************************************)
\* The cases of the switch in WrZ80() and the mask tested before it.
FdcStore(a) == a \in (\h7FF8 .. \h7FFD) \cup (\hBFF8 .. \hBFFD)
                     \cup (\h7F80 .. \h7F84) \cup (\h7FB8 .. \h7FBC)
FdcMask(a)  == (a % \h4000) \div \h80 = \h7F /\ BitSet(a, 8)

CartAddress == {a \in Address : a > \h3FFF /\ a < \hC000}

ToFdc(a) == FdcMask(a) /\ FdcStore(a) /\ SlotOf(a) = <<3, 1>>

WrZ80(a, v) ==
  IF a = \hFFFF THEN SSlot(v)
  ELSE /\ UNCHANGED <<slotVars, RAMMapper, ROMType, saveVars>>
       /\ IF ToFdc(a)
          THEN Stores({ToFDC}) /\ UNCHANGED <<sccVars, FMPACKey, SaveSRAM>>
          ELSE IF EnWrite[PageOf(a)]
          THEN Stores({RAM[Win(a)]}) /\ UNCHANGED <<sccVars, FMPACKey, SaveSRAM>>
          ELSE IF a \in CartAddress THEN MapROM(a, v)
          ELSE Ignored

(***************************************************************************)
(* Save states.  MemMap and RAM are pointers: they are not in the state    *)
(* but computed again when it is loaded.                                   *)
(***************************************************************************)
SaveState(most) ==
  /\ saves < most
  /\ saved' = [valid |-> TRUE, PSLReg |-> PSLReg, SSLReg |-> SSLReg,
               PSL |-> PSL, SSL |-> SSL, EnWrite |-> EnWrite,
               ppiA |-> ppiA, ppiIn |-> ppiIn,
               RAMMapper |-> RAMMapper, ROMMapper |-> ROMMapper,
               SCCOn |-> SCCOn, SCCIMode |-> SCCIMode, FMPACKey |-> FMPACKey,
               view |-> RAM]     \* not in the file: what the windows showed
  /\ saves' = saves + 1
  /\ stored' = {}
  /\ UNCHANGED <<slotVars, RAM, MemMap, RAMMapper, ROMMapper, ROMType, sccVars,
                 FMPACKey, SaveSRAM>>

Corrected_ASCII8(bank) ==
  [x \in Carts \X Banks |->
     IF \/ ROMType[x[1]] = "FMPAC" /\ x[2] = 1
        \/ ROMType[x[1]] \in {"ASCII8", "ASCII16", "GEN16"} /\ x[2] \in {1, 3}
     THEN Or1(bank[<<x[1], x[2] - 1>>]) ELSE bank[x]]

\* The second bank of a 16kB page is recomputed from the first, for states
\* of older versions.
Corrected(bank) ==
  [x \in Carts \X Banks |->
     IF \/ ROMType[x[1]] = "FMPAC" /\ x[2] = 1
        \/ ROMType[x[1]] \in {"ASCII16", "GEN16"} /\ x[2] \in {1, 3}
     THEN Or1(bank[<<x[1], x[2] - 1>>]) ELSE bank[x]]

\* SetMegaROM() masks the page numbers.
Masked(bank) ==
  [x \in Carts \X Banks |-> IF IsMega(x[1]) THEN bank[x] % RomPages ELSE bank[x]]

\* All windows are mapped again.
RefreshWindows ==
  RAM' = [w \in Windows |-> MemMap'[<<PSL'[w \div 2], SSL'[w \div 2], w>>]]

LoadState ==
  /\ saved # NoState
  /\ PSLReg' = saved.PSLReg /\ SSLReg' = saved.SSLReg
  /\ PSL' = saved.PSL /\ SSL' = saved.SSL /\ EnWrite' = saved.EnWrite
  /\ ppiA' = saved.ppiA /\ ppiIn' = saved.ppiIn
  /\ RAMMapper' = saved.RAMMapper
  /\ ROMMapper' = Masked(Corrected(saved.ROMMapper))
  /\ MemMap' = Remapped(MemMap, RAMMapper', ROMMapper')
  /\ RefreshWindows
  /\ IF MegaRAM THEN SCCOn' = saved.SCCOn /\ SCCIMode' = saved.SCCIMode
                ELSE UNCHANGED sccVars
  /\ FMPACKey' = saved.FMPACKey
  /\ stored' = {}
  /\ UNCHANGED <<ROMType, SaveSRAM, saveVars>>

(***************************************************************************)
(* Specification                                                           *)
(***************************************************************************)
Running == {p \in Programs : p.carts = ROMType}
Next ==
  \/ Reset \/ Restart \/ LoadState
  \/ \E in \in BOOLEAN : OutPPIMode(in)
  \/ \E p \in Running :
       \/ \E v \in p.slotBytes : OutSlot(v) \/ WrZ80(\hFFFF, v)
       \/ \E j \in p.ports, byte \in p.bytes : OutMapper(j, byte)
       \/ \E a \in p.addrs \ {\hFFFF}, v \in p.bytes : WrZ80(a, v)
       \/ SaveState(p.saves)

Spec == Init /\ [][Next]_vars

(***************************************************************************)
(* Properties                                                              *)
(***************************************************************************)
Key      == BOOLEAN \X BOOLEAN
BankRegs == [Carts \X Banks -> Byte]

Registers ==
  [valid : {TRUE}, PSLReg : Byte, SSLReg : [Pages -> Byte],
   PSL : [Pages -> Pages], SSL : [Pages -> Pages], EnWrite : [Pages -> BOOLEAN],
   ppiA : Byte, ppiIn : BOOLEAN,
   RAMMapper : [Pages -> 0 .. RamSegs - 1], ROMMapper : BankRegs,
   SCCOn : [0 .. 1 -> BOOLEAN], SCCIMode : [0 .. 1 -> BOOLEAN], FMPACKey : Key,
   view : [Windows -> Block]]

SlotsType ==
  /\ PSLReg \in Byte /\ SSLReg \in [Pages -> Byte]
  /\ ppiA \in Byte /\ ppiIn \in BOOLEAN
  /\ PSL \in [Pages -> Pages] /\ SSL \in [Pages -> Pages]
  /\ EnWrite \in [Pages -> BOOLEAN]
MapType ==
  /\ RAM \in [Windows -> Block] /\ MemMap \in [Cells -> Block]
  /\ RAMMapper \in [Pages -> 0 .. RamSegs - 1] /\ ROMMapper \in BankRegs
  /\ stored \subseteq Block \cup {ToFDC, ToSCC}
CartType ==
  /\ ROMType \in [Carts -> CartTypes]
  /\ SCCOn \in [0 .. 1 -> BOOLEAN] /\ SCCIMode \in [0 .. 1 -> BOOLEAN]
  /\ FMPACKey \in Key
  /\ SaveSRAM \subseteq Carts
SavedType == saved \in {NoState} \cup Registers /\ saves \in Nat

\* Every variable has its type.
TypeOK == SlotsType /\ MapType /\ CartType /\ SavedType

\* What the code never computes as a whole: the slot a page shows according
\* to the two slot registers, and the block behind a window of that slot.
SlotBy(psl, ssl, j) == <<Field(psl, j), Field(ssl[Field(psl, j)], j)>>
SlotShown(j)  == SlotBy(PSLReg, SSLReg, j)
BlockShown(w) == MemMap[<<SlotShown(w \div 2)[1], SlotShown(w \div 2)[2], w>>]

\* The windows of the Z80 (RAM[]) always show the slot that A8h and FFFFh
\* select, and PSLReg is what the PPI puts out: PSlot(), SSlot(), the RAM
\* mapper, MapROM(), ResetMSX() and LoadState() each repair every window they
\* make stale, in every order.
WindowsShowSlots ==
  /\ PSLReg = PortA(ppiA, ppiIn)
  /\ \A j \in Pages : <<PSL[j], SSL[j]>> = SlotShown(j)
  /\ \A w \in Windows : RAM[w] = BlockShown(w)

\* A page takes stores directly exactly when it shows mapped RAM, and then
\* both its windows show the two halves of the segment its mapper port
\* selected: EnWrite survives no slot switch it should not.
RAMWritable ==
  \A j \in Pages :
    /\ EnWrite[j] <=> SlotShown(j) = <<3, 2>>
    /\ EnWrite[j] => \A h \in 0 .. 1 : RAM[2 * j + h] = RamBlock(RAMMapper[j], h)

\* Each bank of a MegaROM shows the page its register ROMMapper names, and
\* SRAM exactly where it holds FFh, so that the test "V != ROMMapper" never
\* skips a switch that is due.  (The lower banks of an unlocked FMPAC show
\* SRAM under any page.)
BanksShowPages ==
  \A c \in Carts, b \in Banks :
    LET block == MemMap[<<CartSlot[c][1], CartSlot[c][2], b + 2>>] IN
    IsMega(c) /\ ~(ROMType[c] = "FMPAC" /\ b < 2 /\ Unlocked) =>
      IF ROMMapper[<<c, b>>] = SRAMBank THEN block[1] = "sram" /\ block[2] = c
      ELSE block = RomBlock(c, ROMMapper[<<c, b>>])

\* No store of the program changes a ROM: the guards of MapROM() that let a
\* store through to RAM[A>>13] test bank registers, never the block itself.
\* (The FMPAC's key is not one of those, and survives a reset that shows the ROM.)
RomNeverStored ==
  \A block \in stored : block[1] = "rom" => ROMType[block[2]] = "FMPAC"

\* SRAM a program has changed is marked for LoadCart() to write to the .sav
\* file when the cartridge is removed.
SRAMStoreIsSaved ==
  \A block \in stored : block[1] = "sram" => block[2] \in SaveSRAM

\* How many 8kB blocks of a kind StartMSX() and LoadCart() allocate, at most.
Blocks ==
  [kind \in Kinds |->
     CASE kind = "ram"  -> 2 * RamSegs
       [] kind = "rom"  -> RomPages
       [] kind = "sram" -> 2              \* GetMemory(0x4000)
       [] kind = "scci" -> 16
       [] kind \in {"bios", "disk"} -> 4
       [] kind = "ext"  -> 2
       [] OTHER         -> 1]
Exists(block) == block[3] < Blocks[block[1]]

\* Every store of the program lands in a buffer of the emulator: what MapROM()
\* calls a write to SRAM, in the SRAM memory that LoadCart() got for it.
StoresInBuffers == \A block \in stored \ {ToFDC, ToSCC} : Exists(block)

\* Every store does, but for the ASCII16 mapper's at A000h..BFFFh: it mirrors
\* the 2kB over 16kB from the middle of the 16kB on, so past their end.
StoresExist ==
  \A block \in stored \ {ToFDC, ToSCC} :
    \/ Exists(block)
    \/ block = SramBlock(block[2], 2) /\ ROMType[block[2]] = "ASCII16"

\* A store of the program changes no ROM, a SRAM only if that is saved, and but
\* for the one overrun nothing past the end of a buffer.
StoresLandRight == RomNeverStored /\ SRAMStoreIsSaved /\ StoresExist

\* The bank registers tell what the banks show, and so what stores may reach.
BanksHonest == BanksShowPages /\ StoresLandRight

\* Loading a state shows again, through every window, what was shown when it
\* was saved, also in a machine started afresh: unless the window showed SRAM
\* or SCC-I RAM, the scratch block of an empty slot, or a page of the FMPAC
\* while its key is right.
LoadRestoresView ==
  [][LoadState =>
       \A w \in Windows :
         LET block == saved.view[w] IN
         \/ block[1] \in {"sram", "scci", "empty"}
         \/ block[1] = "rom" /\ ROMType[block[2]] = "FMPAC" /\ Unlocked'
         \/ RAM'[w] = block]_vars
=============================================================================
