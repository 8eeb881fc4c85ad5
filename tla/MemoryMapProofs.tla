--------------------------- MODULE MemoryMapProofs ---------------------------
(***************************************************************************)
(* Proofs about MemoryMap, for every size, cartridge setup and input.      *)
(***************************************************************************)
EXTENDS MemoryMap, TLAPS

(***************************************************************************)
(* Arithmetic and the fields of the registers.                             *)
(***************************************************************************)
LEMMA AddressIs ==
  ASSUME NEW a \in Address
  PROVE  a \in Int /\ 0 <= a /\ a <= 65535
  BY DEF Address

LEMMA CartAddressIs ==
  ASSUME NEW a \in CartAddress
  PROVE  a \in Int /\ \h4000 <= a /\ a <= \hBFFF
  BY DEF Address, CartAddress

LEMMA WinType ==
  ASSUME NEW a \in Address
  PROVE  Win(a) \in Windows
<1>1. a \in Int /\ 0 <= a /\ a <= 65535
  BY AddressIs
<1>2. a \div 8192 \in Int /\ 0 <= a \div 8192 /\ a \div 8192 <= 7
  BY <1>1
<1>3. QED
  BY <1>2 DEF Win, Windows

LEMMA PageType ==
  ASSUME NEW w \in Windows
  PROVE  w \div 2 \in Pages /\ w % 2 \in {0, 1} /\ w = 2 * (w \div 2) + (w % 2)
  BY DEF Windows, Pages

LEMMA CartWindow ==
  ASSUME NEW a \in CartAddress
  PROVE  Win(a) \in 2 .. 5
  BY CartAddressIs DEF Win

LEMMA PageWindows ==
  ASSUME NEW j \in Pages
  PROVE  /\ 2 * j \in Windows /\ (2 * j) \div 2 = j /\ (2 * j) % 2 = 0
         /\ 2 * j + 1 \in Windows /\ (2 * j + 1) \div 2 = j /\ (2 * j + 1) % 2 = 1
  BY DEF Windows, Pages

LEMMA WindowHalf ==
  ASSUME NEW j \in Pages, NEW w \in Windows, w \div 2 = j
  PROVE  \/ w = 2 * j /\ w % 2 = 0 /\ w # 2 * j + 1
         \/ w = 2 * j + 1 /\ w % 2 = 1 /\ w # 2 * j
  BY DEF Windows, Pages

LEMMA ByteType == SRAMBank \in Byte /\ \A v \in Byte : v \in Nat
  BY DEF SRAMBank, Byte

LEMMA FieldType ==
  ASSUME NEW r \in Byte, NEW j \in Pages
  PROVE  Field(r, j) \in Pages
  BY DEF Field, Pages, Byte

LEMMA FieldZero ==
  ASSUME NEW j \in Pages
  PROVE  Field(0, j) = 0
  BY DEF Field, Pages

LEMMA Or1Type ==
  ASSUME NEW v \in Byte
  PROVE  Or1(v) \in Byte
  BY DEF Or1, Byte

LEMMA RomMaskType ==
  ASSUME NEW v \in Byte
  PROVE  v % RomPages \in Byte
  BY SizeAssumption DEF Byte

LEMMA BlockTypes ==
  /\ EmptyRAM \in Block
  /\ \A seg \in 0 .. RamSegs - 1, h \in {0, 1} : RamBlock(seg, h) \in Block
  /\ \A c \in Carts, n \in Nat : RomBlock(c, n) \in Block /\ SramBlock(c, n) \in Block
  /\ \A n \in Nat : SccRam(n) \in Block
  /\ \A block \in Block : NextBlock(block) \in Block
  BY SizeAssumption DEF Block, Kinds, Carts, EmptyRAM, RamBlock, RomBlock, SramBlock,
                        SccRam, NextBlock

LEMMA PairType ==
  ASSUME NEW v \in Byte
  PROVE  /\ Pair(v) \in Byte /\ Pair(v) + 1 \in Byte
         /\ \A c \in Carts : RomBlock(c, Pair(v)) \in Block
<1>1. v % (RomPages \div 2) \in 0 .. (RomPages \div 2) - 1
  BY SizeAssumption DEF Byte
<1>2. RomPages \div 2 \in 4 .. 128
  BY SizeAssumption
<1>3. Pair(v) \in Byte /\ Pair(v) + 1 \in Byte
  BY <1>1, <1>2 DEF Pair, Byte
<1>4. Pair(v) \in Nat
  BY <1>3 DEF Byte
<1> QED
  BY <1>3, <1>4, BlockTypes

LEMMA CartMapType ==
  ASSUME NEW s \in Slots
  PROVE  CartMap[s] \in Carts \cup {255}
  BY DEF CartMap, Carts, Slots, Pages

LEMMA CartSlotType ==
  ASSUME NEW c \in Carts
  PROVE  CartSlot[c] \in Slots /\ CartMap[CartSlot[c]] = c
<1>1. /\ CartSlot[0] = <<1, 0>> /\ CartSlot[1] = <<2, 0>> /\ CartSlot[2] = <<3, 0>>
      /\ CartSlot[3] = <<0, 1>> /\ CartSlot[4] = <<0, 2>> /\ CartSlot[5] = <<0, 3>>
  BY DEF CartSlot, Carts
<1>0. c = 0 \/ c = 1 \/ c = 2 \/ c = 3 \/ c = 4 \/ c = 5
  BY DEF Carts
<1>2. CartSlot[c] \in Slots
  BY <1>0, <1>1 DEF Slots, Pages
<1>3. /\ CartMap[<<1, 0>>] = 0 /\ CartMap[<<2, 0>>] = 1 /\ CartMap[<<3, 0>>] = 2
      /\ CartMap[<<0, 1>>] = 3 /\ CartMap[<<0, 2>>] = 4 /\ CartMap[<<0, 3>>] = 5
  BY DEF CartMap, Slots, Pages
<1> QED BY <1>0, <1>1, <1>2, <1>3

(***************************************************************************)
(* Type correctness.                                                       *)
(***************************************************************************)
LEMMA SlotOfType ==
  ASSUME SlotsType, NEW a \in Address
  PROVE  SlotOf(a) \in Slots /\ CartMap[SlotOf(a)] \in Carts \cup {255}
<1>1. Win(a) \in Windows
  BY WinType
<1>2. PageOf(a) \in Pages
  BY <1>1, PageType DEF PageOf
<1>3. PSL \in [Pages -> Pages] /\ SSL \in [Pages -> Pages]
  BY DEF SlotsType
<1>4. SlotOf(a) \in Slots
  BY <1>2, <1>3 DEF SlotOf, Slots
<1> QED
  BY <1>4, CartMapType

LEMMA RemappedType ==
  ASSUME NEW map \in [Cells -> Block],
         NEW ram \in [Pages -> 0 .. RamSegs - 1], NEW bank \in BankRegs
  PROVE  Remapped(map, ram, bank) \in [Cells -> Block]
<1> SUFFICES ASSUME NEW x \in Cells
             PROVE  Remapped(map, ram, bank)[x] \in Block
  BY DEF Remapped
<1> DEFINE s == <<x[1], x[2]>>
           w == x[3]
           c == CartMap[s]
<1>1. s \in Slots /\ w \in Windows /\ w \div 2 \in Pages /\ w % 2 \in {0, 1}
  BY PageType DEF Cells, Slots
<1>2. RamBlock(ram[w \div 2], w % 2) \in Block
  BY <1>1, BlockTypes
<1>3. w \in 2 .. 5 /\ c \in Carts => RomBlock(c, bank[<<c, w - 2>>]) \in Block
  <2> SUFFICES ASSUME w \in 2 .. 5, c \in Carts
               PROVE  bank[<<c, w - 2>>] \in Nat
    BY BlockTypes
  <2>1. w - 2 \in Banks
    BY DEF Banks
  <2> QED
    BY <2>1 DEF BankRegs, Byte
<1>4. map[x] \in Block
  OBVIOUS
<1> QED
  BY <1>2, <1>3, <1>4 DEF Remapped

LEMMA SystemMapType ==
  ASSUME CartType
  PROVE  SystemMap \in [Cells -> Block]
<1> SUFFICES ASSUME NEW s \in Slots, NEW w \in Windows
             PROVE  SystemBlock(s, w) \in Block
  BY DEF SystemMap, Cells, Slots
<1>1. /\ <<"bios", 0, w>> \in Block /\ <<"ext", 0, w>> \in Block
      /\ <<"disk", 0, w>> \in Block
  BY DEF Block, Kinds, Carts, Windows
<1>2. PlainPage(w) \in Nat
  BY PageType DEF PlainPage
<1>3. CartMap[s] \in Carts => RomBlock(CartMap[s], PlainPage(w)) \in Block
  BY <1>2, BlockTypes
<1>4. EmptyRAM \in Block
  BY BlockTypes
<1> QED
  BY <1>1, <1>3, <1>4, Zenon DEF SystemBlock

LEMMA ResetBankType ==
  ASSUME CartType, NEW old \in BankRegs
  PROVE  ResetROMMapper(old) \in BankRegs
<1>1. \A c \in Carts, b \in Banks : ResetBank(c, b) \in Byte
  BY SizeAssumption DEF ResetBank, Banks, Byte
<1> QED
  BY <1>1 DEF ResetROMMapper, BankRegs

LEMMA InitType == Init => TypeOK
<1> SUFFICES ASSUME Init
             PROVE  TypeOK
  OBVIOUS
<1>1. CartType
  BY InputAssumption DEF Init, CartType, Key, Carts
<1>2. SlotsType
  BY DEF Init, SlotsType, Byte, Pages
<1>3. ResetRAMMapper \in [Pages -> 0 .. RamSegs - 1]
  BY SizeAssumption DEF ResetRAMMapper, Pages
<1>4. [x \in Carts \X Banks |-> 0] \in BankRegs
  BY DEF BankRegs, Byte
<1>5. ROMMapper \in BankRegs /\ RAMMapper \in [Pages -> 0 .. RamSegs - 1]
  BY <1>1, <1>3, <1>4, ResetBankType DEF Init
<1>6. MemMap \in [Cells -> Block]
  BY <1>1, <1>5, SystemMapType, RemappedType DEF Init
<1>7. \A w \in Windows : <<0, 0, w>> \in Cells
  BY DEF Cells, Pages
<1>8. RAM \in [Windows -> Block]
  BY <1>6, <1>7 DEF Init
<1>9. SavedType
  BY SizeAssumption DEF Init, SavedType
<1> QED
  BY <1>1, <1>2, <1>5, <1>6, <1>8, <1>9 DEF TypeOK, MapType, Init

LEMMA ResetOverType ==
  ASSUME CartType, NEW map \in [Cells -> Block], NEW bank \in BankRegs,
         ResetOver(map, bank)
  PROVE  SlotsType' /\ MapType'
         /\ SCCOn' \in [0 .. 1 -> BOOLEAN] /\ SCCIMode' \in [0 .. 1 -> BOOLEAN]
<1>1. SlotsType'
  BY DEF ResetOver, SlotsType, Byte, Pages
<1>2. RAMMapper' \in [Pages -> 0 .. RamSegs - 1]
  BY SizeAssumption DEF ResetOver, ResetRAMMapper, Pages
<1>3. ROMMapper' \in BankRegs
  BY ResetBankType DEF ResetOver
<1>4. MemMap' \in [Cells -> Block]
  BY <1>2, <1>3, RemappedType DEF ResetOver
<1>5. \A w \in Windows : <<0, 0, w>> \in Cells
  BY DEF Cells, Pages
<1>6. RAM' \in [Windows -> Block]
  BY <1>5 DEF ResetOver
<1> QED
  BY <1>1, <1>2, <1>3, <1>4, <1>6 DEF ResetOver, MapType

LEMMA ResetType ==
  ASSUME TypeOK, Reset
  PROVE  TypeOK'
<1>1. ResetOver(MemMap, ROMMapper) /\ UNCHANGED <<ROMType, FMPACKey, SaveSRAM, saveVars>>
  BY DEF Reset
<1>2. CartType /\ MemMap \in [Cells -> Block] /\ ROMMapper \in BankRegs /\ SavedType
  BY DEF TypeOK, MapType
<1>3. SlotsType' /\ MapType'
      /\ SCCOn' \in [0 .. 1 -> BOOLEAN] /\ SCCIMode' \in [0 .. 1 -> BOOLEAN]
  BY <1>1, <1>2, ResetOverType
<1> QED
  BY <1>1, <1>2, <1>3 DEF TypeOK, CartType, SavedType, saveVars

LEMMA RestartType ==
  ASSUME TypeOK, Restart
  PROVE  TypeOK'
<1>1. PICK bank \in {ROMMapper, [x \in Carts \X Banks |-> 0]} : ResetOver(SystemMap, bank)
  BY DEF Restart
<1>2. CartType /\ SavedType /\ bank \in BankRegs
  BY DEF TypeOK, MapType, BankRegs, Byte
<1>3. SystemMap \in [Cells -> Block]
  BY <1>2, SystemMapType
<1>4. SlotsType' /\ MapType'
      /\ SCCOn' \in [0 .. 1 -> BOOLEAN] /\ SCCIMode' \in [0 .. 1 -> BOOLEAN]
  BY <1>1, <1>2, <1>3, ResetOverType
<1> QED
  BY <1>2, <1>4 DEF Restart, TypeOK, CartType, SavedType, saveVars, Key

(***************************************************************************)
(* Slot registers and the RAM mapper.                                      *)
(***************************************************************************)
LEMMA ShowType ==
  ASSUME SlotsType, MapType, NEW J \in SUBSET Pages,
         NEW psl \in [Pages -> Pages], NEW ssl \in [Pages -> Pages],
         Show(J, psl, ssl)
  PROVE  /\ PSL' \in [Pages -> Pages] /\ SSL' \in [Pages -> Pages]
         /\ RAM' \in [Windows -> Block] /\ EnWrite' \in [Pages -> BOOLEAN]
<1>1. PSL' \in [Pages -> Pages] /\ SSL' \in [Pages -> Pages]
  BY DEF Show, SlotsType
<1>2. \A w \in Windows : <<psl[w \div 2], ssl[w \div 2], w>> \in Cells
  BY PageType DEF Cells
<1>3. RAM' \in [Windows -> Block]
  BY <1>2 DEF Show, MapType
<1>4. EnWrite' \in [Pages -> BOOLEAN]
  <2> SUFFICES ASSUME NEW j \in Pages
               PROVE  EnWrite'[j] \in BOOLEAN
    BY DEF Show
  <2>1. EnWrite[j] \in BOOLEAN
    BY DEF SlotsType
  <2> QED
    BY <2>1 DEF Show
<1> QED
  BY <1>1, <1>3, <1>4

LEMMA PSlotType ==
  ASSUME SlotsType, MapType, NEW v \in Byte, PSlot(v)
  PROVE  /\ PSLReg' \in Byte
         /\ PSL' \in [Pages -> Pages] /\ SSL' \in [Pages -> Pages]
         /\ RAM' \in [Windows -> Block] /\ EnWrite' \in [Pages -> BOOLEAN]
<1>1. CASE v = PSLReg
  BY <1>1 DEF PSlot, SlotsType, MapType
<1>2. CASE v # PSLReg
  <2> DEFINE psl == [j \in Pages |-> Field(v, j)]
             ssl == [j \in Pages |-> Field(SSLReg[Field(v, j)], j)]
  <2>1. psl \in [Pages -> Pages] /\ ssl \in [Pages -> Pages]
    BY FieldType DEF SlotsType
  <2>2. Show(Pages, psl, ssl)
    BY <1>2 DEF PSlot
  <2> QED
    BY <2>1, <2>2, ShowType DEF PSlot
<1> QED
  BY <1>1, <1>2

LEMMA OutSlotType ==
  ASSUME TypeOK, NEW v \in Byte, OutSlot(v)
  PROVE  TypeOK'
<1>1. SlotsType /\ MapType
  BY DEF TypeOK
<1>2. PortA(v, ppiIn) \in Byte /\ PSlot(PortA(v, ppiIn))
  BY DEF OutSlot, PortA, Byte
<1>3. SlotsType' /\ MapType'
  BY <1>1, <1>2, PSlotType DEF OutSlot, SlotsType, MapType
<1> QED
  BY <1>3 DEF OutSlot, TypeOK, CartType, SavedType, saveVars, sccVars

LEMMA OutPPIModeType ==
  ASSUME TypeOK, NEW in \in BOOLEAN, OutPPIMode(in)
  PROVE  TypeOK'
<1>1. SlotsType /\ MapType
  BY DEF TypeOK
<1>2. PortA(ppiA, in) \in Byte /\ PSlot(PortA(ppiA, in))
  BY <1>1 DEF OutPPIMode, PortA, Byte, SlotsType
<1>3. SlotsType' /\ MapType'
  BY <1>1, <1>2, PSlotType DEF OutPPIMode, SlotsType, MapType
<1> QED
  BY <1>3 DEF OutPPIMode, TypeOK, CartType, SavedType, saveVars, sccVars

LEMMA SSlotType ==
  ASSUME TypeOK, NEW v \in Byte, SSlot(v)
  PROVE  TypeOK'
<1>1. SlotsType /\ MapType
  BY DEF TypeOK
<1> DEFINE p == PSL[3]
           r == Subslots(p, v)
           mine == {j \in Pages : PSL[j] = p}
           ssl == [j \in Pages |-> Field(r, j)]
<1>2. p \in Pages /\ r \in Byte
  BY <1>1 DEF SlotsType, Subslots, Byte, Pages
<1>3. SSLReg' \in [Pages -> Byte]
  BY <1>1, <1>2 DEF SSlot, SlotsType
<1>4. /\ PSL' \in [Pages -> Pages] /\ SSL' \in [Pages -> Pages]
      /\ RAM' \in [Windows -> Block] /\ EnWrite' \in [Pages -> BOOLEAN]
  <2>1. CASE r = SSLReg[p]
    BY <1>1, <2>1 DEF SSlot, SlotsType, MapType
  <2>2. CASE r # SSLReg[p]
    <3>1. Show(mine, PSL, ssl)
      BY <2>2 DEF SSlot
    <3>2. PSL \in [Pages -> Pages] /\ ssl \in [Pages -> Pages] /\ mine \in SUBSET Pages
      BY <1>1, <1>2, FieldType DEF SlotsType
    <3> QED
      BY <1>1, <3>1, <3>2, ShowType
  <2> QED
    BY <2>1, <2>2
<1>5. SlotsType' /\ MapType'
  BY <1>1, <1>3, <1>4 DEF SSlot, SlotsType, MapType
<1> QED
  BY <1>5 DEF SSlot, TypeOK, CartType, SavedType, saveVars, sccVars

LEMMA OutMapperType ==
  ASSUME TypeOK, NEW j \in Pages, NEW byte \in Byte, OutMapper(j, byte)
  PROVE  TypeOK'
<1>1. SlotsType /\ MapType
  BY DEF TypeOK
<1> DEFINE seg == byte % RamSegs
<1>2. seg \in 0 .. RamSegs - 1
  BY SizeAssumption DEF Byte
<1>3. RamBlock(seg, 0) \in Block /\ RamBlock(seg, 1) \in Block
  BY <1>2, BlockTypes
<1>4. RAMMapper' \in [Pages -> 0 .. RamSegs - 1]
  BY <1>1, <1>2 DEF OutMapper, MapType
<1>5. MemMap' \in [Cells -> Block]
  BY <1>1, <1>3 DEF OutMapper, MapType
<1>6. RAM' \in [Windows -> Block]
  BY <1>1, <1>3 DEF OutMapper, MapType
<1>7. EnWrite' \in [Pages -> BOOLEAN]
  BY <1>1 DEF OutMapper, SlotsType
<1>8. SlotsType' /\ MapType'
  BY <1>1, <1>4, <1>5, <1>6, <1>7 DEF OutMapper, SlotsType, MapType
<1> QED
  BY <1>8 DEF OutMapper, TypeOK, CartType, SavedType, saveVars, sccVars

(***************************************************************************)
(* Stores to cartridges.                                                   *)
(***************************************************************************)
\* What MapROM() changes.
BlocksType ==
  /\ RAM \in [Windows -> Block] /\ MemMap \in [Cells -> Block]
  /\ ROMMapper \in BankRegs
  /\ stored \subseteq Block \cup {ToFDC, ToSCC}
SwitchType ==
  /\ SCCOn \in [0 .. 1 -> BOOLEAN] /\ SCCIMode \in [0 .. 1 -> BOOLEAN]
  /\ FMPACKey \in Key
  /\ SaveSRAM \subseteq Carts

LEMMA BankType ==
  ASSUME NEW b \in Banks
  PROVE  b + 2 \in Windows /\ b + 2 \in 2 .. 5
  BY DEF Banks, Windows

LEMMA CartBank ==
  ASSUME NEW a \in CartAddress
  PROVE  Win(a) \in Windows /\ Win(a) - 2 \in Banks
<1>1. Win(a) \in 2 .. 5
  BY CartAddressIs DEF Win
<1> QED
  BY <1>1 DEF Banks, Windows

LEMMA StoresType ==
  ASSUME BlocksType, NEW S \in SUBSET (Block \cup {ToFDC, ToSCC}), Stores(S)
  PROVE  BlocksType'
  BY DEF BlocksType, Stores

LEMMA IgnoredType ==
  ASSUME BlocksType, SwitchType, Ignored
  PROVE  BlocksType' /\ SwitchType'
  BY StoresType DEF Ignored, SwitchType, sccVars, Stores, BlocksType

LEMMA SetBankType ==
  ASSUME BlocksType, NEW c \in Carts, NEW slot \in Slots, NEW b \in Banks,
         NEW n \in Byte, NEW block \in Block, SetBank(c, slot, b, n, block)
  PROVE  BlocksType'
<1>1. ROMMapper' \in BankRegs
  BY DEF SetBank, BlocksType, BankRegs
<1>2. MemMap' \in [Cells -> Block] /\ RAM' \in [Windows -> Block]
  BY DEF SetBank, BlocksType
<1> QED
  BY <1>1, <1>2 DEF SetBank, BlocksType

LEMMA SetTwoBanksType ==
  ASSUME BlocksType, NEW c \in Carts, NEW slot \in Slots, NEW b \in Banks,
         NEW n \in Byte, NEW m \in Byte, NEW block \in Block,
         SetTwoBanks(c, slot, b, n, m, block)
  PROVE  BlocksType'
<1>1. ROMMapper' \in BankRegs
  BY DEF SetTwoBanks, BlocksType, BankRegs
<1>2. MemMap' \in [Cells -> Block] /\ RAM' \in [Windows -> Block]
  BY BlockTypes DEF SetTwoBanks, BlocksType
<1> QED
  BY <1>1, <1>2 DEF SetTwoBanks, BlocksType

LEMMA SelectPageType ==
  ASSUME BlocksType, NEW c \in Carts, NEW slot \in Slots, NEW b \in Banks,
         NEW n \in Byte, NEW block \in Block, SelectPage(c, slot, b, n, block)
  PROVE  BlocksType'
  BY StoresType, SetBankType DEF SelectPage

LEMMA SelectRomType ==
  ASSUME BlocksType, NEW c \in Carts, NEW slot \in Slots, NEW b \in Banks,
         NEW n \in Byte, SelectRom(c, slot, b, n)
  PROVE  BlocksType'
<1>1. RomBlock(c, n) \in Block
  BY BlockTypes DEF Byte
<1> QED
  BY <1>1, SelectPageType DEF SelectRom

LEMMA SwitchSCCType ==
  ASSUME SCCOn \in [0 .. 1 -> BOOLEAN], SCCIMode \in [0 .. 1 -> BOOLEAN],
         NEW c \in Carts, NEW b, NEW v, SwitchSCC(c, b, v)
  PROVE  SCCOn' \in [0 .. 1 -> BOOLEAN] /\ SCCIMode' \in [0 .. 1 -> BOOLEAN]
  BY DEF SwitchSCC, BitSet

LEMMA SccCartType ==
  ASSUME BlocksType, SwitchType, NEW c \in Carts, NEW slot \in Slots,
         NEW a \in CartAddress, NEW v \in Byte, c < 2, SccCart(c, slot, a, v)
  PROVE  BlocksType' /\ SwitchType'
<1>1. FMPACKey' \in Key /\ SaveSRAM' \subseteq Carts
  BY DEF SccCart, SwitchType
<1> DEFINE b == Win(a) - 2
<1>2. CASE /\ SccCartStore(a) /\ SCCIMode' = [SCCIMode EXCEPT ![c] = BitSet(v, 16)]
           /\ UNCHANGED SCCOn /\ Stores({})
  BY <1>1, <1>2, StoresType DEF SwitchType, BitSet
<1>3. CASE UNCHANGED sccVars /\ Stores({RAM[Win(a)]})
  <2>1. RAM[Win(a)] \in Block
    BY CartBank DEF BlocksType
  <2> QED
    BY <1>1, <1>3, <2>1, StoresType DEF SwitchType, sccVars
<1>4. CASE /\ SwitchSCC(c, b, v)
           /\ IF MegaRAM THEN SelectPage(c, slot, b, v % 16, SccRam(v % 16))
                         ELSE Stores({})
  <2>1. v % 16 \in Byte /\ v % 16 \in Nat
    BY DEF Byte
  <2>2. SccRam(v % 16) \in Block /\ b \in Banks
    BY <2>1, BlockTypes, CartBank
  <2>3. BlocksType'
    BY <1>4, <2>1, <2>2, SelectPageType, StoresType
  <2> QED
    BY <1>1, <1>4, <2>3, SwitchSCCType DEF SwitchType
<1> QED
  BY <1>2, <1>3, <1>4 DEF SccCart

LEMMA SccRegsType ==
  ASSUME BlocksType, SwitchType, NEW c \in Carts, NEW a, SccRegs(c, a)
  PROVE  BlocksType' /\ SwitchType'
<1>1. BlocksType'
  BY StoresType, BlockTypes DEF SccRegs
<1> QED
  BY <1>1 DEF SccRegs, SwitchType, sccVars

LEMMA Gen8Type ==
  ASSUME BlocksType, SwitchType, NEW c \in Carts, NEW slot \in Slots,
         NEW a \in CartAddress, NEW v \in Byte, Gen8(c, slot, a, v)
  PROVE  BlocksType' /\ SwitchType'
<1>1. BlocksType'
  BY SelectRomType, RomMaskType, CartBank DEF Gen8
<1>2. SCCOn' \in [0 .. 1 -> BOOLEAN] /\ SCCIMode' \in [0 .. 1 -> BOOLEAN]
  BY SwitchSCCType DEF Gen8, SwitchType, sccVars
<1> QED
  BY <1>1, <1>2 DEF Gen8, SwitchType

LEMMA Konami5Type ==
  ASSUME BlocksType, SwitchType, NEW c \in Carts, NEW slot \in Slots,
         NEW a \in CartAddress, NEW v \in Byte, Konami5(c, slot, a, v)
  PROVE  BlocksType' /\ SwitchType'
<1>1. CASE Ignored
  BY <1>1, IgnoredType
<1>2. CASE /\ SwitchSCC(c, Win(a) - 2, v)
           /\ SelectRom(c, slot, Win(a) - 2, v % RomPages)
           /\ UNCHANGED <<FMPACKey, SaveSRAM>>
  BY <1>2, SelectRomType, SwitchSCCType, RomMaskType, CartBank DEF SwitchType
<1> QED
  BY <1>1, <1>2 DEF Konami5

LEMMA Konami4Type ==
  ASSUME BlocksType, SwitchType, NEW c \in Carts, NEW slot \in Slots,
         NEW a \in CartAddress, NEW v \in Byte, Konami4(c, slot, a, v)
  PROVE  BlocksType' /\ SwitchType'
<1>1. CASE Ignored
  BY <1>1, IgnoredType
<1>2. CASE /\ SelectRom(c, slot, Win(a) - 2, v % RomPages)
           /\ UNCHANGED <<sccVars, FMPACKey, SaveSRAM>>
  BY <1>2, SelectRomType, RomMaskType, CartBank DEF SwitchType, sccVars
<1> QED
  BY <1>1, <1>2 DEF Konami4

LEMMA Gen16Type ==
  ASSUME BlocksType, SwitchType, NEW c \in Carts, NEW slot \in Slots,
         NEW a \in CartAddress, NEW v \in Byte, Gen16(c, slot, a, v)
  PROVE  BlocksType' /\ SwitchType'
<1> DEFINE b == IF a >= \h8000 THEN 2 ELSE 0
<1>1. b \in Banks
  BY DEF Banks
<1>2. Pair(v) \in Byte /\ Pair(v) + 1 \in Byte /\ RomBlock(c, Pair(v)) \in Block
  BY PairType
<1>3. BlocksType'
  BY <1>1, <1>2, StoresType, SetTwoBanksType DEF Gen16
<1> QED
  BY <1>3 DEF Gen16, SwitchType, sccVars

LEMMA SwitchAsciiType ==
  ASSUME BlocksType, SwitchType, NEW c \in Carts, NEW slot \in Slots,
         NEW b \in Banks, NEW len \in 1 .. 2, b + len \in 1 .. 4, NEW n \in Byte,
         NEW block \in Block, SwitchAscii(c, slot, b, len, n, block)
  PROVE  BlocksType' /\ SwitchType'
<1> DEFINE W   == (b + 2) .. (b + 1 + len)
           blk == [w \in W |-> IF w = b + 2 THEN block ELSE NextBlock(block)]
<1>1. SwitchType' /\ stored' = {}
  BY DEF SwitchAscii, SwitchType, sccVars
<1>2. CASE n = ROMMapper[<<c, b>>]
  BY <1>1, <1>2 DEF SwitchAscii, BlocksType
<1>3. CASE n # ROMMapper[<<c, b>>]
  <2>1. blk \in [W -> Block]
    BY BlockTypes
  <2>2. ROMMapper' \in BankRegs
    <3>1. ROMMapper' = [x \in Carts \X Banks |->
                          IF x[1] = c /\ x[2] + 2 \in W
                          THEN (IF x[2] = b THEN n ELSE Or1(n)) ELSE ROMMapper[x]]
      BY <1>3 DEF SwitchAscii
    <3>2. Or1(n) \in Byte
      BY Or1Type
    <3>3. ROMMapper \in [Carts \X Banks -> Byte]
      BY DEF BlocksType, BankRegs
    <3> HIDE DEF W
    <3> QED
      BY <3>1, <3>2, <3>3 DEF BankRegs
  <2>3. MemMap' \in [Cells -> Block]
    <3>1. MemMap' = [x \in Cells |-> IF <<x[1], x[2]>> = slot /\ x[3] \in W
                                     THEN blk[x[3]] ELSE MemMap[x]]
      BY <1>3 DEF SwitchAscii
    <3> HIDE DEF W, blk
    <3> QED
      BY <2>1, <3>1 DEF BlocksType
  <2>4. RAM' \in [Windows -> Block]
    <3>1. MapIfShown(slot, W, blk)
      BY <1>3 DEF SwitchAscii
    <3> HIDE DEF W, blk
    <3> QED
      BY <2>1, <3>1 DEF BlocksType, MapIfShown
  <2> QED
    BY <1>1, <2>2, <2>3, <2>4 DEF BlocksType
<1> QED
  BY <1>1, <1>2, <1>3

LEMMA StoreSRAMType ==
  ASSUME BlocksType, SwitchType, NEW c \in Carts, NEW S \in SUBSET Block,
         StoreSRAM(c, S)
  PROVE  BlocksType' /\ SwitchType'
<1>1. BlocksType'
  BY StoresType DEF StoreSRAM
<1> QED
  BY <1>1 DEF StoreSRAM, SwitchType, sccVars

LEMMA Ascii8Type ==
  ASSUME BlocksType, SwitchType, NEW c \in Carts, NEW slot \in Slots,
         NEW a \in CartAddress, NEW v \in Byte, Ascii8(c, slot, a, v)
  PROVE  BlocksType' /\ SwitchType'
<1> DEFINE b     == (a \div \h800) % 4
           n     == IF SelectsSRAM(v) THEN SRAMBank ELSE v % RomPages
           block == IF SelectsSRAM(v) THEN SramBlock(c, 0) ELSE RomBlock(c, v % RomPages)
<1>1. CASE SwitchAscii(c, slot, b, 1, n, block)
  <2>1. b \in Banks /\ b + 1 \in 1 .. 4
    BY CartAddressIs DEF Banks
  <2>2. n \in Byte /\ v % RomPages \in Nat
    BY RomMaskType, ByteType
  <2>3. block \in Block
    BY <2>2, BlockTypes
  <2> HIDE DEF b, n, block
  <2> QED
    BY <1>1, <2>1, <2>2, <2>3, SwitchAsciiType
<1>2. CASE StoreSRAM(c, {RAM[Win(a)]})
  <2>1. RAM[Win(a)] \in Block
    BY CartBank DEF BlocksType
  <2> QED
    BY <1>2, <2>1, StoreSRAMType
<1>3. CASE Ignored
  BY <1>3, IgnoredType
<1> QED
  BY <1>1, <1>2, <1>3 DEF Ascii8

LEMMA Ascii16Type ==
  ASSUME BlocksType, SwitchType, NEW c \in Carts, NEW slot \in Slots,
         NEW a \in CartAddress, NEW v \in Byte, Ascii16(c, slot, a, v)
  PROVE  BlocksType' /\ SwitchType'
<1> DEFINE b     == IF BitSet(a, \h1000) THEN 2 ELSE 0
           n     == IF SelectsSRAM(v) THEN SRAMBank ELSE Pair(v)
           block == IF SelectsSRAM(v) THEN SramBlock(c, 0) ELSE RomBlock(c, Pair(v))
<1>1. CASE SwitchAscii(c, slot, b, 2, n, block)
  <2>1. b \in Banks /\ b + 2 \in 1 .. 4
    BY DEF Banks
  <2>2. n \in Byte
    BY PairType, ByteType
  <2>3. block \in Block
    BY PairType, BlockTypes
  <2> HIDE DEF b, n, block
  <2> QED
    BY <1>1, <2>1, <2>2, <2>3, SwitchAsciiType
<1>2. CASE StoreSRAM(c, {RAM[Win(a)], NextBlock(RAM[Win(a)])})
  <2>1. RAM[Win(a)] \in Block
    BY CartBank DEF BlocksType
  <2>2. NextBlock(RAM[Win(a)]) \in Block
    BY <2>1, BlockTypes
  <2> QED
    BY <1>2, <2>1, <2>2, StoreSRAMType
<1>3. CASE Ignored
  BY <1>3, IgnoredType
<1> QED
  BY <1>1, <1>2, <1>3 DEF Ascii16

LEMMA GMaster2Type ==
  ASSUME BlocksType, SwitchType, NEW c \in Carts, NEW slot \in Slots,
         NEW a \in CartAddress, NEW v \in Byte, GMaster2(c, slot, a, v)
  PROVE  BlocksType' /\ SwitchType'
<1>1. Win(a) - 2 \in Banks
  BY CartBank
<1>2. CASE /\ SetBank(c, slot, Win(a) - 2, SRAMBank,
                      SramBlock(c, IF BitSet(v, 32) THEN 1 ELSE 0))
           /\ UNCHANGED <<sccVars, FMPACKey, SaveSRAM>>
  <2>1. SRAMBank \in Byte /\ SramBlock(c, IF BitSet(v, 32) THEN 1 ELSE 0) \in Block
    BY BlockTypes, ByteType
  <2>2. BlocksType'
    BY <1>1, <1>2, <2>1, SetBankType
  <2> QED
    BY <1>2, <2>2 DEF SwitchType, sccVars
<1>3. CASE /\ SelectRom(c, slot, Win(a) - 2, v % RomPages)
           /\ UNCHANGED <<sccVars, FMPACKey, SaveSRAM>>
  <2>1. BlocksType'
    BY <1>1, <1>3, RomMaskType, SelectRomType
  <2> QED
    BY <1>3, <2>1 DEF SwitchType, sccVars
<1>4. CASE StoreSRAM(c, {RAM[5]})
  <2>1. RAM[5] \in Block
    BY DEF BlocksType, Windows
  <2> QED
    BY <1>4, <2>1, StoreSRAMType
<1>5. CASE Ignored
  BY <1>5, IgnoredType
<1> QED
  BY <1>2, <1>3, <1>4, <1>5 DEF GMaster2

LEMMA FMPacType ==
  ASSUME BlocksType, SwitchType, NEW c \in Carts, NEW slot \in Slots,
         NEW a \in CartAddress, NEW v \in Byte, FMPac(c, slot, a, v)
  PROVE  BlocksType' /\ SwitchType'
<1>1. 0 \in Banks /\ 1 \in Banks
  BY DEF Banks
<1>2. Pair(v) \in Byte /\ Pair(v) + 1 \in Byte /\ RomBlock(c, Pair(v)) \in Block
  BY PairType
<1>3. CASE a = \h7FF7
  <2>1. UNCHANGED <<sccVars, FMPACKey, SaveSRAM>>
    BY <1>3 DEF FMPac
  <2>2. CASE Unlocked
    <3>1. /\ ROMMapper' = [ROMMapper EXCEPT ![<<c, 0>>] = Pair(v), ![<<c, 1>>] = Pair(v) + 1]
          /\ stored' = {} /\ UNCHANGED <<RAM, MemMap>>
      BY <1>3, <2>2 DEF FMPac
    <3>2. BlocksType'
      BY <1>1, <1>2, <3>1 DEF BlocksType, BankRegs
    <3> QED
      BY <2>1, <3>2 DEF SwitchType, sccVars
  <2>3. CASE ~Unlocked
    <3>1. SetTwoBanks(c, slot, 0, Pair(v), Pair(v) + 1, RomBlock(c, Pair(v)))
      BY <1>3, <2>3 DEF FMPac
    <3>2. BlocksType'
      BY <1>1, <1>2, <3>1, SetTwoBanksType
    <3> QED
      BY <2>1, <3>2 DEF SwitchType, sccVars
  <2> QED
    BY <2>2, <2>3
<1>4. CASE a \in {\h5FFE, \h5FFF}
  <2> DEFINE block == IF FMPACKey'[1] /\ FMPACKey'[2] THEN SramBlock(c, 0)
                      ELSE RomBlock(c, ROMMapper[<<c, 0>>])
  <2>1. /\ FMPACKey' = [FMPACKey EXCEPT ![a - \h5FFD] = (v = FMPACByte(a))]
        /\ SetTwoBanks(c, slot, 0, ROMMapper[<<c, 0>>], ROMMapper[<<c, 1>>], block)
        /\ UNCHANGED <<sccVars, SaveSRAM>>
    BY <1>4 DEF FMPac
  <2>2. ROMMapper[<<c, 0>>] \in Byte /\ ROMMapper[<<c, 1>>] \in Byte
    BY <1>1 DEF BlocksType, BankRegs
  <2>3. block \in Block
    BY <2>2, BlockTypes, ByteType
  <2>4. BlocksType'
    <3> HIDE DEF block
    <3> QED
      BY <1>1, <2>1, <2>2, <2>3, SetTwoBanksType
  <2>5. FMPACKey' \in Key
    <3>1. PICK k1 \in BOOLEAN, k2 \in BOOLEAN : FMPACKey = <<k1, k2>>
      BY DEF SwitchType, Key
    <3>2. a - \h5FFD \in {1, 2}
      BY <1>4
    <3> DEFINE t == v = FMPACByte(a)
    <3>3. t \in BOOLEAN /\ FMPACKey' = [FMPACKey EXCEPT ![a - \h5FFD] = t]
      BY <2>1
    <3> HIDE DEF t
    <3>4. FMPACKey' = <<t, k2>> \/ FMPACKey' = <<k1, t>>
      BY <3>1, <3>2, <3>3
    <3> QED
      BY <3>1, <3>3, <3>4 DEF Key
  <2> QED
    BY <2>1, <2>4, <2>5 DEF SwitchType, sccVars
<1>5. CASE StoreSRAM(c, {RAM[Win(a)]})
  <2>1. RAM[Win(a)] \in Block
    BY CartBank DEF BlocksType
  <2> QED
    BY <1>5, <2>1, StoreSRAMType
<1>6. CASE Ignored
  BY <1>6, IgnoredType
<1> QED
  BY <1>3, <1>4, <1>5, <1>6 DEF FMPac

LEMMA MapperType ==
  ASSUME BlocksType, SwitchType, NEW c \in Carts, NEW slot \in Slots,
         NEW a \in CartAddress, NEW v \in Byte, Mapper(c, slot, a, v)
  PROVE  BlocksType' /\ SwitchType'
  BY Gen8Type, Gen16Type, Konami5Type, Konami4Type, Ascii8Type, Ascii16Type,
     GMaster2Type, FMPacType DEF Mapper

LEMMA MapROMType ==
  ASSUME SlotsType, BlocksType, SwitchType, NEW a \in CartAddress, a \in Address,
         NEW v \in Byte, MapROM(a, v)
  PROVE  BlocksType' /\ SwitchType'
<1> DEFINE slot == SlotOf(a)
           c    == CartMap[slot]
<1>1. slot \in Slots
  BY SlotOfType
<1>2. CASE Ignored
  BY <1>2, IgnoredType
<1>3. CASE c \in Carts /\ InSccCart(c, a) /\ SccCart(c, slot, a, v)
  <2>1. c < 2
    BY <1>3 DEF InSccCart
  <2> HIDE DEF c, slot
  <2> QED
    BY <1>1, <1>3, <2>1, SccCartType
<1>4. CASE c \in Carts /\ SccRegs(c, a)
  <2> HIDE DEF c, slot
  <2> QED
    BY <1>4, SccRegsType
<1>5. CASE c \in Carts /\ Mapper(c, slot, a, v)
  <2> HIDE DEF c, slot
  <2> QED
    BY <1>1, <1>5, MapperType
<1> QED
  BY <1>2, <1>3, <1>4, <1>5 DEF MapROM

LEMMA WrZ80Type ==
  ASSUME TypeOK, NEW a \in Address, NEW v \in Byte, WrZ80(a, v)
  PROVE  TypeOK'
<1>1. SlotsType /\ BlocksType /\ SwitchType
  BY DEF TypeOK, MapType, CartType, BlocksType, SwitchType
<1>2. CASE a = \hFFFF
  BY <1>2, SSlotType DEF WrZ80
<1>3. CASE a # \hFFFF
  <2>1. UNCHANGED <<slotVars, RAMMapper, ROMType, saveVars>>
    BY <1>3 DEF WrZ80
  <2>2. BlocksType' /\ SwitchType'
    <3>1. RAM[Win(a)] \in Block
      BY WinType, <1>1 DEF BlocksType
    <3>2. CASE Stores({ToFDC}) /\ UNCHANGED <<sccVars, FMPACKey, SaveSRAM>>
      BY <1>1, <3>2, StoresType DEF SwitchType, sccVars
    <3>3. CASE Stores({RAM[Win(a)]}) /\ UNCHANGED <<sccVars, FMPACKey, SaveSRAM>>
      BY <1>1, <3>1, <3>3, StoresType DEF SwitchType, sccVars
    <3>4. CASE a \in CartAddress /\ MapROM(a, v)
      BY <1>1, <3>4, MapROMType
    <3>5. CASE Ignored
      BY <1>1, <3>5, IgnoredType
    <3> QED
      BY <1>3, <3>2, <3>3, <3>4, <3>5 DEF WrZ80
  <2> QED
    BY <2>1, <2>2 DEF TypeOK, SlotsType, MapType, CartType, SavedType, BlocksType,
                      SwitchType, slotVars, saveVars
<1> QED
  BY <1>2, <1>3

(***************************************************************************)
(* Save states.                                                            *)
(***************************************************************************)
LEMMA SaveStateType ==
  ASSUME TypeOK, NEW most, SaveState(most)
  PROVE  TypeOK'
<1>1. SlotsType' /\ CartType' /\ MapType'
  BY DEF TypeOK, SaveState, SlotsType, CartType, MapType, slotVars, sccVars
<1>2. saved' \in Registers
  BY DEF TypeOK, SaveState, SlotsType, CartType, MapType, Registers
<1>3. saves' \in Nat
  BY DEF TypeOK, SaveState, SavedType
<1> QED
  BY <1>1, <1>2, <1>3 DEF TypeOK, SavedType

LEMMA CorrectedType ==
  ASSUME NEW bank \in BankRegs
  PROVE  Corrected(bank) \in BankRegs
<1> SUFFICES ASSUME NEW x \in Carts \X Banks
             PROVE  Corrected(bank)[x] \in Byte
  BY DEF Corrected, BankRegs
<1>1. CASE Corrected(bank)[x] = bank[x]
  BY <1>1 DEF BankRegs
<1>2. CASE x[2] \in {1, 3} /\ Corrected(bank)[x] = Or1(bank[<<x[1], x[2] - 1>>])
  <2>1. <<x[1], x[2] - 1>> \in Carts \X Banks
    BY <1>2 DEF Banks
  <2>2. bank[<<x[1], x[2] - 1>>] \in Byte
    BY <2>1 DEF BankRegs
  <2> QED
    BY <1>2, <2>2, Or1Type
<1> QED
  BY <1>1, <1>2 DEF Corrected

LEMMA MaskedType ==
  ASSUME NEW bank \in BankRegs
  PROVE  Masked(Corrected(bank)) \in BankRegs
<1>1. Corrected(bank) \in BankRegs
  BY CorrectedType
<1>2. \A x \in Carts \X Banks : Corrected(bank)[x] \in Byte /\ Corrected(bank)[x] % RomPages \in Byte
  BY <1>1, RomMaskType DEF BankRegs
<1> QED
  BY <1>2 DEF Masked, BankRegs

LEMMA LoadStateType ==
  ASSUME TypeOK, LoadState
  PROVE  TypeOK'
<1>1. saved \in Registers
  BY DEF TypeOK, SavedType, LoadState
<1>2. SlotsType'
  BY <1>1 DEF LoadState, Registers, SlotsType
<1>3. RAMMapper' \in [Pages -> 0 .. RamSegs - 1]
  BY <1>1 DEF LoadState, Registers
<1>4. ROMMapper' \in BankRegs
  BY <1>1, MaskedType DEF LoadState, Registers
<1>5. MemMap' \in [Cells -> Block]
  BY <1>3, <1>4, RemappedType DEF LoadState, TypeOK, MapType
<1>6. RAM' \in [Windows -> Block]
  <2> SUFFICES ASSUME NEW w \in Windows
               PROVE  MemMap'[<<PSL'[w \div 2], SSL'[w \div 2], w>>] \in Block
    BY DEF LoadState, RefreshWindows
  <2>1. <<PSL'[w \div 2], SSL'[w \div 2], w>> \in Cells
    BY <1>2, PageType DEF SlotsType, Cells
  <2> QED
    BY <1>5, <2>1
<1>7. MapType'
  BY <1>3, <1>4, <1>5, <1>6 DEF MapType, LoadState
<1>8. CartType'
  <2>1. SCCOn' \in [0 .. 1 -> BOOLEAN] /\ SCCIMode' \in [0 .. 1 -> BOOLEAN]
    BY <1>1 DEF LoadState, Registers, TypeOK, CartType, sccVars
  <2> QED
    BY <1>1, <2>1 DEF LoadState, Registers, TypeOK, CartType
<1> QED
  BY <1>2, <1>7, <1>8 DEF LoadState, TypeOK, SavedType, saveVars

\* A step is one of these, whatever the program.
LEMMA AnyProgram ==
  ASSUME Next
  PROVE  \/ Reset \/ Restart \/ LoadState
         \/ \E in \in BOOLEAN : OutPPIMode(in)
         \/ \E v \in Byte : OutSlot(v) \/ WrZ80(\hFFFF, v)
         \/ \E j \in Pages, byte \in Byte : OutMapper(j, byte)
         \/ \E a \in Address \ {\hFFFF}, v \in Byte : WrZ80(a, v)
         \/ \E most \in Nat : SaveState(most)
<1>1. ASSUME NEW p \in Running
      PROVE  /\ p.slotBytes \subseteq Byte /\ p.bytes \subseteq Byte /\ p.saves \in Nat
             /\ p.addrs \subseteq Address /\ p.ports \subseteq Pages
  <2>1. p \in Programs
    BY DEF Running
  <2> QED BY <2>1, InputAssumption DEF Pages
<1>2. CASE Reset \/ Restart \/ LoadState \/ \E in \in BOOLEAN : OutPPIMode(in)
  BY <1>2
<1>3. ASSUME NEW p \in Running, NEW v \in p.slotBytes, OutSlot(v) \/ WrZ80(\hFFFF, v)
      PROVE  \E u \in Byte : OutSlot(u) \/ WrZ80(\hFFFF, u)
  BY <1>1, <1>3
<1>4. ASSUME NEW p \in Running, NEW j \in p.ports, NEW byte \in p.bytes, OutMapper(j, byte)
      PROVE  \E i \in Pages, u \in Byte : OutMapper(i, u)
  BY <1>1, <1>4
<1>5. ASSUME NEW p \in Running, NEW a \in p.addrs \ {\hFFFF}, NEW v \in p.bytes, WrZ80(a, v)
      PROVE  \E x \in Address \ {\hFFFF}, u \in Byte : WrZ80(x, u)
  BY <1>1, <1>5
<1>6. ASSUME NEW p \in Running, SaveState(p.saves)
      PROVE  \E most \in Nat : SaveState(most)
  BY <1>1, <1>6
<1> QED BY <1>2, <1>3, <1>4, <1>5, <1>6 DEF Next

(***************************************************************************)
(* Each variable keeps its type, for all sizes of RAM and of the ROMs and  *)
(* all sets of inputs: in particular no page number, segment or slot that  *)
(* a handler computes from a stored byte is out of range.                  *)
(***************************************************************************)
THEOREM TypeCorrect == Spec => []TypeOK
<1>1. Init => TypeOK
  BY InitType
<1>2. TypeOK /\ [Next]_vars => TypeOK'
  <2> SUFFICES ASSUME TypeOK, [Next]_vars
               PROVE  TypeOK'
    OBVIOUS
  <2>1. CASE Reset
    BY <2>1, ResetType
  <2>2. CASE Restart
    BY <2>2, RestartType
  <2>3. ASSUME NEW v \in Byte, OutSlot(v) \/ WrZ80(\hFFFF, v)
        PROVE  TypeOK'
    <3>1. OutSlot(v) \/ SSlot(v)
      BY <2>3 DEF WrZ80
    <3> QED
      BY <3>1, OutSlotType, SSlotType
  <2>4. ASSUME NEW in \in BOOLEAN, OutPPIMode(in)
        PROVE  TypeOK'
    BY <2>4, OutPPIModeType
  <2>5. ASSUME NEW j \in Pages, NEW byte \in Byte, OutMapper(j, byte)
        PROVE  TypeOK'
    BY <2>5, OutMapperType
  <2>6. ASSUME NEW a \in Address \ {\hFFFF}, NEW v \in Byte, WrZ80(a, v)
        PROVE  TypeOK'
    BY <2>6, WrZ80Type
  <2>7. ASSUME NEW most \in Nat, SaveState(most)
        PROVE  TypeOK'
    BY <2>7, SaveStateType
  <2>8. CASE LoadState
    BY <2>8, LoadStateType
  <2>9. CASE UNCHANGED vars
    BY <2>9 DEF vars, slotVars, sccVars, saveVars, TypeOK, SlotsType, MapType,
                CartType, SavedType
  <2> QED
    BY <2>1, <2>2, <2>3, <2>4, <2>5, <2>6, <2>7, <2>8, <2>9, AnyProgram
<1> QED
  BY <1>1, <1>2, PTL DEF Spec

(***************************************************************************)
(* The inductive invariant behind WindowsShowSlots and RAMWritable.        *)
(***************************************************************************)
\* PSL and SSL are the fields of the slot registers, and PSLReg what the PPI
\* puts out.
SlotsCurrent(pslreg, sslreg, psl, ssl, a, in) ==
  /\ pslreg = PortA(a, in)
  /\ \A j \in Pages : <<psl[j], ssl[j]>> = SlotBy(pslreg, sslreg, j)

\* Each window shows the cell of the memory map it should.
Coherent == \A w \in Windows : RAM[w] = MemMap[<<PSL[w \div 2], SSL[w \div 2], w>>]

\* Slot 3:2 holds the segments the RAM mapper selected.
MapperCurrent ==
  \A w \in Windows : MemMap[<<3, 2, w>>] = RamBlock(RAMMapper[w \div 2], w % 2)

\* Pages of slot 3:2 and no others take stores directly.
EnWriteCurrent(enwrite, psl, ssl) ==
  \A j \in Pages : enwrite[j] <=> (psl[j] = 3 /\ ssl[j] = 2)

\* The same is true of the registers of a saved state.
SavedCurrent ==
  saved # NoState =>
    /\ SlotsCurrent(saved.PSLReg, saved.SSLReg, saved.PSL, saved.SSL,
                    saved.ppiA, saved.ppiIn)
    /\ EnWriteCurrent(saved.EnWrite, saved.PSL, saved.SSL)

IInv ==
  /\ SlotsCurrent(PSLReg, SSLReg, PSL, SSL, ppiA, ppiIn)
  /\ Coherent
  /\ MapperCurrent
  /\ EnWriteCurrent(EnWrite, PSL, SSL)
  /\ SavedCurrent

LEMMA NotRAM ==
  CartMap[<<3, 2>>] \notin Carts /\ CartMap[<<0, 0>>] \notin Carts
  BY DEF CartMap, Carts, Slots, Pages

LEMMA MapCells ==
  ASSUME NEW w \in Windows
  PROVE  <<0, 0, w>> \in Cells /\ <<3, 2, w>> \in Cells
  BY DEF Cells, Pages

LEMMA RemappedRAM ==
  ASSUME NEW map, NEW ram, NEW bank, NEW w \in Windows
  PROVE  Remapped(map, ram, bank)[<<3, 2, w>>] = RamBlock(ram[w \div 2], w % 2)
  BY MapCells DEF Remapped

LEMMA RemappedBIOS ==
  ASSUME NEW map, NEW ram, NEW bank, NEW w \in Windows
  PROVE  Remapped(map, ram, bank)[<<0, 0, w>>] = map[<<0, 0, w>>]
<1> DEFINE x == <<0, 0, w>>
<1>1. x \in Cells /\ x[1] = 0 /\ x[2] = 0
  BY MapCells
<1>2. <<x[1], x[2]>> = <<0, 0>> /\ <<x[1], x[2]>> # <<3, 2>>
  BY <1>1
<1>3. CartMap[<<x[1], x[2]>>] \notin Carts
  BY <1>2, NotRAM
<1> HIDE DEF x
<1>4. Remapped(map, ram, bank)[x] = map[x]
  BY <1>1, <1>2, <1>3 DEF Remapped
<1> QED
  BY <1>4 DEF x

LEMMA ZeroSlots ==
  SlotsCurrent(0, [p \in Pages |-> 0], [j \in Pages |-> 0], [j \in Pages |-> 0], 0, TRUE)
<1>1. \A j \in Pages : Field(0, j) = 0 /\ 0 \in Pages
  BY FieldZero DEF Pages
<1> QED
  BY <1>1 DEF SlotsCurrent, PortA, SlotBy

LEMMA InitInvariant == Init => IInv
<1> SUFFICES ASSUME Init
             PROVE  IInv
  OBVIOUS
<1>1. SlotsCurrent(PSLReg, SSLReg, PSL, SSL, ppiA, ppiIn)
  BY ZeroSlots DEF Init
<1>2. \A w \in Windows : PSL[w \div 2] = 0 /\ SSL[w \div 2] = 0
  BY PageType DEF Init
<1>3. Coherent
  BY <1>2 DEF Init, Coherent
<1>0. MemMap = Remapped(SystemMap, RAMMapper, ROMMapper)
  BY DEF Init
<1>4. MapperCurrent
  BY <1>0, RemappedRAM DEF MapperCurrent
<1>5. EnWriteCurrent(EnWrite, PSL, SSL)
  BY DEF Init, EnWriteCurrent
<1>6. SavedCurrent
  BY DEF Init, SavedCurrent
<1> QED
  BY <1>1, <1>3, <1>4, <1>5, <1>6 DEF IInv

LEMMA ResetInvariant ==
  ASSUME IInv, NEW map, NEW bank, ResetOver(map, bank), UNCHANGED saveVars
  PROVE  IInv'
<1>1. SlotsCurrent(PSLReg, SSLReg, PSL, SSL, ppiA, ppiIn)'
  BY ZeroSlots DEF ResetOver
<1>2. \A w \in Windows : PSL'[w \div 2] = 0 /\ SSL'[w \div 2] = 0
  BY PageType DEF ResetOver
<1>0. MemMap' = Remapped(map, RAMMapper', ROMMapper')
  BY DEF ResetOver
<1>3. Coherent'
  <2>1. \A w \in Windows : MemMap'[<<0, 0, w>>] = map[<<0, 0, w>>]
    BY <1>0, RemappedBIOS
  <2> QED
    BY <1>2, <2>1 DEF ResetOver, Coherent
<1>4. MapperCurrent'
  BY <1>0, RemappedRAM DEF MapperCurrent
<1>5. EnWriteCurrent(EnWrite, PSL, SSL)'
  BY DEF ResetOver, EnWriteCurrent
<1>6. SavedCurrent'
  BY DEF SavedCurrent, saveVars, IInv, SlotsCurrent, EnWriteCurrent
<1> QED
  BY <1>1, <1>3, <1>4, <1>5, <1>6 DEF IInv

\* A slot switch.
LEMMA ShowCurrent ==
  ASSUME Coherent, MapperCurrent, EnWriteCurrent(EnWrite, PSL, SSL),
         NEW J \in SUBSET Pages, NEW psl, NEW ssl, Show(J, psl, ssl), UNCHANGED MemMap
  PROVE  Coherent' /\ EnWriteCurrent(EnWrite, PSL, SSL)'
<1>1. Coherent'
  BY PageType DEF Show, Coherent
<1>2. \A j \in Pages : MemMap[<<3, 2, 2 * j>>] # EmptyRAM
  <2> SUFFICES ASSUME NEW j \in Pages
               PROVE  MemMap[<<3, 2, 2 * j>>] # EmptyRAM
    OBVIOUS
  <2>1. MemMap[<<3, 2, 2 * j>>] = RamBlock(RAMMapper[(2 * j) \div 2], (2 * j) % 2)
    BY PageWindows DEF MapperCurrent
  <2> QED
    BY <2>1 DEF RamBlock, EmptyRAM
<1>3. EnWriteCurrent(EnWrite, PSL, SSL)'
  <2> SUFFICES ASSUME NEW j \in Pages
               PROVE  EnWrite'[j] <=> (PSL'[j] = 3 /\ SSL'[j] = 2)
    BY DEF EnWriteCurrent
  <2>1. CASE j \in J
    BY <1>2, <2>1 DEF Show
  <2>2. CASE j \notin J
    BY <2>2 DEF Show, EnWriteCurrent
  <2> QED
    BY <2>1, <2>2
<1> QED
  BY <1>1, <1>3

LEMMA PSlotCurrent ==
  ASSUME IInv, NEW v \in Byte, PSlot(v), UNCHANGED <<SSLReg, MemMap>>
  PROVE  /\ Coherent' /\ EnWriteCurrent(EnWrite, PSL, SSL)'
         /\ PSLReg' = v
         /\ \A j \in Pages : <<PSL'[j], SSL'[j]>> = SlotBy(PSLReg', SSLReg', j)
<1>1. PSLReg' = v
  BY DEF PSlot
<1>2. CASE v = PSLReg
  <2>1. UNCHANGED <<PSLReg, SSLReg, PSL, SSL, RAM, EnWrite, MemMap>>
    BY <1>2 DEF PSlot
  <2> QED
    BY <1>1, <2>1 DEF IInv, Coherent, EnWriteCurrent, SlotsCurrent
<1>3. CASE v # PSLReg
  <2> DEFINE psl == [j \in Pages |-> Field(v, j)]
             ssl == [j \in Pages |-> Field(SSLReg[Field(v, j)], j)]
  <2>1. Show(Pages, psl, ssl)
    BY <1>3 DEF PSlot
  <2>2. Coherent' /\ EnWriteCurrent(EnWrite, PSL, SSL)'
    <3> HIDE DEF psl, ssl
    <3> QED
      BY <2>1, ShowCurrent DEF IInv
  <2>3. \A j \in Pages : PSL'[j] = Field(v, j) /\ SSL'[j] = Field(SSLReg[Field(v, j)], j)
    BY <2>1 DEF Show
  <2> QED
    BY <1>1, <2>2, <2>3 DEF SlotBy
<1> QED
  BY <1>2, <1>3

LEMMA OutSlotInvariant ==
  ASSUME TypeOK, IInv, NEW v \in Byte, OutSlot(v)
  PROVE  IInv'
<1>1. PortA(v, ppiIn) \in Byte /\ PSlot(PortA(v, ppiIn))
      /\ UNCHANGED <<SSLReg, MemMap, RAMMapper, ppiIn, saved>> /\ ppiA' = v
  BY DEF OutSlot, PortA, Byte, saveVars
<1>2. /\ Coherent' /\ EnWriteCurrent(EnWrite, PSL, SSL)'
      /\ PSLReg' = PortA(v, ppiIn)
      /\ \A j \in Pages : <<PSL'[j], SSL'[j]>> = SlotBy(PSLReg', SSLReg', j)
  BY <1>1, PSlotCurrent
<1>3. MapperCurrent' /\ SavedCurrent'
  BY <1>1 DEF IInv, MapperCurrent, SavedCurrent
<1> QED
  BY <1>1, <1>2, <1>3 DEF IInv, SlotsCurrent

LEMMA OutPPIModeInvariant ==
  ASSUME TypeOK, IInv, NEW in \in BOOLEAN, OutPPIMode(in)
  PROVE  IInv'
<1>1. PortA(ppiA, in) \in Byte /\ PSlot(PortA(ppiA, in))
      /\ UNCHANGED <<SSLReg, MemMap, RAMMapper, ppiA, saved>> /\ ppiIn' = in
  BY DEF OutPPIMode, PortA, Byte, saveVars, TypeOK, SlotsType
<1>2. /\ Coherent' /\ EnWriteCurrent(EnWrite, PSL, SSL)'
      /\ PSLReg' = PortA(ppiA, in)
      /\ \A j \in Pages : <<PSL'[j], SSL'[j]>> = SlotBy(PSLReg', SSLReg', j)
  BY <1>1, PSlotCurrent
<1>3. MapperCurrent' /\ SavedCurrent'
  BY <1>1 DEF IInv, MapperCurrent, SavedCurrent
<1> QED
  BY <1>1, <1>2, <1>3 DEF IInv, SlotsCurrent

LEMMA SSlotInvariant ==
  ASSUME TypeOK, IInv, NEW v \in Byte, SSlot(v)
  PROVE  IInv'
<1> DEFINE p == PSL[3]
           r == Subslots(p, v)
           mine == {j \in Pages : PSL[j] = p}
           ssl == [j \in Pages |-> Field(r, j)]
<1>1. UNCHANGED <<PSLReg, ppiA, ppiIn, MemMap, RAMMapper, saved>>
      /\ SSLReg' = [SSLReg EXCEPT ![p] = r]
  BY DEF SSlot, saveVars
<1>2. SSLReg \in [Pages -> Byte] /\ PSL \in [Pages -> Pages] /\ p \in Pages
  BY DEF TypeOK, SlotsType, Pages
<1>3. MapperCurrent' /\ SavedCurrent'
  BY <1>1 DEF IInv, MapperCurrent, SavedCurrent
<1>4. \A j \in Pages : PSL[j] = Field(PSLReg, j) /\ SSL[j] = Field(SSLReg[PSL[j]], j)
  BY DEF IInv, SlotsCurrent, SlotBy
<1>5. CASE r = SSLReg[p]
  <2>1. UNCHANGED <<PSL, SSL, RAM, EnWrite>> /\ SSLReg' = SSLReg
    BY <1>1, <1>2, <1>5 DEF SSlot
  <2> QED
    BY <1>1, <1>3, <2>1 DEF IInv, Coherent, EnWriteCurrent, SlotsCurrent
<1>6. CASE r # SSLReg[p]
  <2>1. Show(mine, PSL, ssl)
    BY <1>6 DEF SSlot
  <2>2. Coherent' /\ EnWriteCurrent(EnWrite, PSL, SSL)'
    <3> mine \in SUBSET Pages
      OBVIOUS
    <3> HIDE DEF mine, ssl
    <3> QED
      BY <1>1, <2>1, ShowCurrent DEF IInv
  <2>3. ASSUME NEW j \in Pages
        PROVE  PSL'[j] = Field(PSLReg, j) /\ SSL'[j] = Field(SSLReg'[PSL[j]], j)
    <3>1. PSL'[j] = PSL[j]
      BY <2>1 DEF Show
    <3>2. CASE PSL[j] = p
      <4>1. SSL'[j] = Field(r, j)
        BY <2>1, <3>2 DEF Show
      <4> QED
        BY <1>1, <1>2, <1>4, <3>1, <3>2, <4>1
    <3>3. CASE PSL[j] # p
      <4>1. SSL'[j] = SSL[j]
        BY <2>1, <3>3 DEF Show
      <4>2. SSLReg'[PSL[j]] = SSLReg[PSL[j]]
        BY <1>1, <1>2, <3>3
      <4> QED
        BY <1>4, <3>1, <4>1, <4>2
    <3> QED
      BY <3>2, <3>3
  <2>4. SlotsCurrent(PSLReg, SSLReg, PSL, SSL, ppiA, ppiIn)'
    BY <1>1, <1>4, <2>3 DEF IInv, SlotsCurrent, SlotBy
  <2> QED
    BY <1>3, <2>2, <2>4 DEF IInv
<1> QED
  BY <1>5, <1>6

LEMMA OutMapperInvariant ==
  ASSUME TypeOK, IInv, NEW j \in Pages, NEW byte \in Byte, OutMapper(j, byte)
  PROVE  IInv'
<1> DEFINE seg == byte % RamSegs
<1>1. UNCHANGED <<PSLReg, SSLReg, ppiA, ppiIn, PSL, SSL, saved>>
  BY DEF OutMapper, saveVars
<1>2. RAM \in [Windows -> Block] /\ MemMap \in [Cells -> Block]
      /\ RAMMapper \in [Pages -> 0 .. RamSegs - 1] /\ EnWrite \in [Pages -> BOOLEAN]
  BY DEF TypeOK, MapType, SlotsType
<1>3. CASE seg = RAMMapper[j]
  <2>1. UNCHANGED <<RAMMapper, MemMap, RAM, EnWrite>>
    BY <1>3 DEF OutMapper
  <2> QED
    BY <1>1, <2>1 DEF IInv, Coherent, MapperCurrent, EnWriteCurrent, SlotsCurrent, SavedCurrent
<1>4. CASE seg # RAMMapper[j]
  <2>1. /\ RAMMapper' = [RAMMapper EXCEPT ![j] = seg]
        /\ MemMap' = [MemMap EXCEPT ![<<3, 2, 2 * j>>] = RamBlock(seg, 0),
                                    ![<<3, 2, 2 * j + 1>>] = RamBlock(seg, 1)]
    BY <1>4 DEF OutMapper
  <2> HIDE DEF seg
  <2>2. MapperCurrent'
    <3> SUFFICES ASSUME NEW w \in Windows
                 PROVE  MemMap'[<<3, 2, w>>] = RamBlock(RAMMapper'[w \div 2], w % 2)
      BY DEF MapperCurrent
    <3>1. CASE w \div 2 = j
      <4>1. RAMMapper'[w \div 2] = seg
        BY <1>2, <2>1, <3>1
      <4>2. <<3, 2, w>> \in Cells
        BY MapCells
      <4>3. CASE w = 2 * j /\ w % 2 = 0 /\ w # 2 * j + 1
        BY <1>2, <2>1, <4>1, <4>2, <4>3
      <4>4. CASE w = 2 * j + 1 /\ w % 2 = 1 /\ w # 2 * j
        BY <1>2, <2>1, <4>1, <4>2, <4>4
      <4> QED
        BY <3>1, <4>3, <4>4, WindowHalf
    <3>2. CASE w \div 2 # j
      <4>1. w # 2 * j /\ w # 2 * j + 1
        BY <3>2, PageWindows
      <4>2. MemMap'[<<3, 2, w>>] = MemMap[<<3, 2, w>>]
        BY <1>2, <2>1, <4>1, MapCells
      <4>3. RAMMapper'[w \div 2] = RAMMapper[w \div 2]
        BY <1>2, <2>1, <3>2, PageType
      <4> QED
        BY <4>2, <4>3 DEF IInv, MapperCurrent
    <3> QED
      BY <3>1, <3>2
  <2>3. Coherent'
    <3> SUFFICES ASSUME NEW w \in Windows
                 PROVE  RAM'[w] = MemMap'[<<PSL[w \div 2], SSL[w \div 2], w>>]
      BY <1>1 DEF Coherent
    <3> DEFINE s1 == PSL[w \div 2]
               s2 == SSL[w \div 2]
    <3>1. <<s1, s2, w>> \in Cells /\ RAM[w] = MemMap[<<s1, s2, w>>]
      BY PageType DEF TypeOK, SlotsType, Cells, IInv, Coherent
    <3>2. CASE w \div 2 = j /\ s1 = 3 /\ s2 = 2
      <4>1. RAM' = [RAM EXCEPT ![2 * j] = RamBlock(seg, 0), ![2 * j + 1] = RamBlock(seg, 1)]
        BY <1>4, <3>2 DEF OutMapper, seg
      <4>2. (w = 2 * j /\ w # 2 * j + 1) \/ (w = 2 * j + 1 /\ w # 2 * j)
        BY <3>2, WindowHalf
      <4> QED
        BY <1>2, <2>1, <3>1, <3>2, <4>1, <4>2
    <3>3. CASE w \div 2 # j
      <4>1. w # 2 * j /\ w # 2 * j + 1
        BY <3>3, PageWindows
      <4>2. RAM'[w] = RAM[w]
        BY <1>2, <1>4, <4>1 DEF OutMapper, seg
      <4>3. MemMap'[<<s1, s2, w>>] = MemMap[<<s1, s2, w>>]
        BY <1>2, <2>1, <3>1, <4>1
      <4> QED
        BY <3>1, <4>2, <4>3
    <3>4. CASE w \div 2 = j /\ ~(s1 = 3 /\ s2 = 2)
      <4>1. RAM' = RAM
        BY <1>4, <3>4 DEF OutMapper, seg
      <4>2. MemMap'[<<s1, s2, w>>] = MemMap[<<s1, s2, w>>]
        BY <1>2, <2>1, <3>1, <3>4
      <4> QED
        BY <3>1, <4>1, <4>2
    <3> QED
      BY <3>2, <3>3, <3>4
  <2>4. EnWriteCurrent(EnWrite, PSL, SSL)'
    BY <1>1, <1>2, <1>4 DEF OutMapper, IInv, EnWriteCurrent, seg
  <2> QED
    BY <1>1, <2>2, <2>3, <2>4 DEF IInv, SlotsCurrent, SavedCurrent
<1> QED
  BY <1>3, <1>4

\* A bank switch: windows W of a cartridge slot get the blocks, in the
\* memory map and wherever a page shows the slot.
Shows(slot, w) == PSL[w \div 2] = slot[1] /\ SSL[w \div 2] = slot[2]
Repaired(slot, W, block) ==
  /\ \A x \in Cells :
       MemMap'[x] = IF <<x[1], x[2]>> = slot /\ x[3] \in W THEN block[x[3]] ELSE MemMap[x]
  /\ \A w \in Windows : RAM'[w] = IF w \in W /\ Shows(slot, w) THEN block[w] ELSE RAM[w]

Kept == UNCHANGED <<PSL, SSL, RAMMapper>>
MapCurrent == Coherent /\ MapperCurrent

LEMMA RepairedCurrent ==
  ASSUME TypeOK, MapCurrent, Kept, NEW slot \in Slots, slot # <<3, 2>>,
         NEW W, NEW block, Repaired(slot, W, block)
  PROVE  MapCurrent'
<1>1. Coherent'
  <2> SUFFICES ASSUME NEW w \in Windows
               PROVE  RAM'[w] = MemMap'[<<PSL[w \div 2], SSL[w \div 2], w>>]
    BY DEF Coherent, Kept
  <2> DEFINE x == <<PSL[w \div 2], SSL[w \div 2], w>>
  <2>1. x \in Cells /\ x[1] = PSL[w \div 2] /\ x[2] = SSL[w \div 2] /\ x[3] = w
    BY PageType DEF TypeOK, SlotsType, Cells
  <2>2. RAM[w] = MemMap[x]
    BY DEF MapCurrent, Coherent
  <2>3. <<x[1], x[2]>> = slot <=> Shows(slot, w)
    BY <2>1 DEF Shows, Slots
  <2> HIDE DEF x
  <2>4. RAM'[w] = MemMap'[x]
    BY <2>1, <2>2, <2>3 DEF Repaired
  <2> QED
    BY <2>4 DEF x
<1>2. MapperCurrent'
  <2> SUFFICES ASSUME NEW w \in Windows
               PROVE  MemMap'[<<3, 2, w>>] = MemMap[<<3, 2, w>>]
    BY DEF MapCurrent, MapperCurrent, Kept
  <2> DEFINE x == <<3, 2, w>>
  <2>1. x \in Cells /\ <<x[1], x[2]>> = <<3, 2>>
    BY MapCells
  <2> HIDE DEF x
  <2>2. MemMap'[x] = MemMap[x]
    BY <2>1 DEF Repaired
  <2> QED
    BY <2>2 DEF x
<1> QED
  BY <1>1, <1>2 DEF MapCurrent

LEMMA StoresCurrent ==
  ASSUME MapCurrent, Kept, NEW S, Stores(S)
  PROVE  MapCurrent'
  BY DEF MapCurrent, Coherent, MapperCurrent, Kept, Stores

LEMMA SetBankCurrent ==
  ASSUME TypeOK, MapCurrent, Kept, NEW slot \in Slots, slot # <<3, 2>>, NEW c, NEW n,
         NEW block, NEW b \in Banks, Shows(slot, b + 2), SetBank(c, slot, b, n, block)
  PROVE  MapCurrent'
<1> DEFINE blk == [w \in {b + 2} |-> block]
<1>1. PICK s1 \in Pages, s2 \in Pages : slot = <<s1, s2>>
  BY DEF Slots
<1>2. <<s1, s2, b + 2>> \in Cells /\ b + 2 \in Windows
  BY BankType DEF Cells
<1>3. /\ MemMap' = [MemMap EXCEPT ![<<s1, s2, b + 2>>] = block]
      /\ RAM' = [RAM EXCEPT ![b + 2] = block]
  BY <1>1 DEF SetBank
<1>4. MemMap \in [Cells -> Block] /\ RAM \in [Windows -> Block]
  BY DEF TypeOK, MapType
<1>5. ASSUME NEW x \in Cells
      PROVE  MemMap'[x] = IF <<x[1], x[2]>> = slot /\ x[3] \in {b + 2}
                          THEN blk[x[3]] ELSE MemMap[x]
  <2>1. PICK x1 \in Pages, x2 \in Pages, x3 \in Windows : x = <<x1, x2, x3>>
    BY DEF Cells
  <2> QED
    BY <1>1, <1>2, <1>3, <1>4, <2>1
<1>6. Repaired(slot, {b + 2}, blk)
  BY <1>2, <1>3, <1>4, <1>5 DEF Repaired
<1> HIDE DEF blk
<1> QED
  BY <1>6, RepairedCurrent

LEMMA SetTwoBanksCurrent ==
  ASSUME TypeOK, MapCurrent, Kept, NEW slot \in Slots, slot # <<3, 2>>, NEW c, NEW n,
         NEW m, NEW block, NEW b \in {0, 2}, Shows(slot, b + 2),
         SetTwoBanks(c, slot, b, n, m, block)
  PROVE  MapCurrent'
<1> DEFINE W   == {b + 2, b + 3}
           blk == [w \in W |-> IF w = b + 2 THEN block ELSE NextBlock(block)]
<1>1. PICK s1 \in Pages, s2 \in Pages : slot = <<s1, s2>>
  BY DEF Slots
<1>2. /\ <<s1, s2, b + 2>> \in Cells /\ <<s1, s2, b + 3>> \in Cells
      /\ b + 2 \in Windows /\ b + 3 \in Windows
  BY DEF Cells, Windows
<1>3. /\ MemMap' = [MemMap EXCEPT ![<<s1, s2, b + 2>>] = block,
                                  ![<<s1, s2, b + 3>>] = NextBlock(block)]
      /\ RAM' = [RAM EXCEPT ![b + 2] = block, ![b + 3] = NextBlock(block)]
  BY <1>1 DEF SetTwoBanks
<1>4. MemMap \in [Cells -> Block] /\ RAM \in [Windows -> Block]
  BY DEF TypeOK, MapType
<1>5. ASSUME NEW x \in Cells
      PROVE  MemMap'[x] = IF <<x[1], x[2]>> = slot /\ x[3] \in W
                          THEN blk[x[3]] ELSE MemMap[x]
  <2>1. PICK x1 \in Pages, x2 \in Pages, x3 \in Windows : x = <<x1, x2, x3>>
    BY DEF Cells
  <2> QED
    BY <1>1, <1>2, <1>3, <1>4, <2>1 DEF Windows
<1>6. Shows(slot, b + 3)
  BY DEF Shows
<1>7. \A w \in Windows : RAM'[w] = IF w \in W /\ Shows(slot, w) THEN blk[w] ELSE RAM[w]
  BY <1>2, <1>3, <1>4, <1>6 DEF Windows
<1>8. Repaired(slot, W, blk)
  BY <1>5, <1>7 DEF Repaired
<1> HIDE DEF blk, W
<1> QED
  BY <1>8, RepairedCurrent

LEMMA SwitchAsciiCurrent ==
  ASSUME TypeOK, MapCurrent, Kept, NEW slot \in Slots, slot # <<3, 2>>, NEW c, NEW b,
         NEW len, NEW n, NEW block, SwitchAscii(c, slot, b, len, n, block)
  PROVE  MapCurrent'
<1> DEFINE W   == (b + 2) .. (b + 1 + len)
           blk == [w \in W |-> IF w = b + 2 THEN block ELSE NextBlock(block)]
<1>1. CASE UNCHANGED <<MemMap, RAM>>
  BY <1>1 DEF MapCurrent, Coherent, MapperCurrent, Kept
<1>2. CASE /\ MemMap' = [x \in Cells |-> IF <<x[1], x[2]>> = slot /\ x[3] \in W
                                         THEN blk[x[3]] ELSE MemMap[x]]
           /\ MapIfShown(slot, W, blk)
  <2> HIDE DEF W, blk
  <2>1. Repaired(slot, W, blk)
    BY <1>2 DEF Repaired, MapIfShown, Shows
  <2> QED
    BY <2>1, RepairedCurrent
<1> QED
  BY <1>1, <1>2 DEF SwitchAscii

LEMMA SelectPageCurrent ==
  ASSUME TypeOK, MapCurrent, Kept, NEW slot \in Slots, slot # <<3, 2>>, NEW c, NEW n,
         NEW block, NEW b \in Banks, Shows(slot, b + 2), SelectPage(c, slot, b, n, block)
  PROVE  MapCurrent'
  BY SetBankCurrent, StoresCurrent DEF SelectPage

LEMMA IgnoredCurrent ==
  ASSUME MapCurrent, Kept, Ignored
  PROVE  MapCurrent'
  BY StoresCurrent DEF Ignored

LEMMA MapperSwitch ==
  ASSUME TypeOK, MapCurrent, Kept, NEW slot \in Slots, slot # <<3, 2>>,
         NEW a \in CartAddress, slot = SlotOf(a), NEW c, NEW v, Mapper(c, slot, a, v)
  PROVE  MapCurrent'
<1>1. Win(a) - 2 \in Banks /\ Win(a) \in 2 .. 5
  BY CartBank, CartWindow
<1> DEFINE B == Win(a) - 2
<1>2. B \in Banks /\ Shows(slot, B + 2)
  BY <1>1 DEF Shows, SlotOf, PageOf
<1> HIDE DEF B
<1>3. CASE Gen8(c, slot, a, v)
  <2>1. SelectPage(c, slot, B, v % RomPages, RomBlock(c, v % RomPages))
    BY <1>3 DEF Gen8, SelectRom, B
  <2> QED
    BY <1>2, <2>1, SelectPageCurrent
<1>4. CASE Konami5(c, slot, a, v) \/ Konami4(c, slot, a, v)
  <2>1. SelectPage(c, slot, B, v % RomPages, RomBlock(c, v % RomPages)) \/ Ignored
    BY <1>4 DEF Konami5, Konami4, SelectRom, B
  <2> QED
    BY <1>2, <2>1, SelectPageCurrent, IgnoredCurrent
<1>5. CASE Gen16(c, slot, a, v)
  <2> DEFINE b == IF a >= \h8000 THEN 2 ELSE 0
  <2>1. b \in {0, 2} /\ (b + 2) \div 2 = Win(a) \div 2
    <3>1. CASE a >= \h8000
      <4>1. Win(a) \in {4, 5}
        BY <3>1, CartAddressIs DEF Win
      <4> QED
        BY <3>1, <4>1
    <3>2. CASE ~(a >= \h8000)
      <4>1. Win(a) \in {2, 3}
        BY <3>2, CartAddressIs DEF Win
      <4> QED
        BY <3>2, <4>1
    <3> QED
      BY <3>1, <3>2
  <2>2. Shows(slot, b + 2)
    BY <2>1 DEF Shows, SlotOf, PageOf
  <2>3. Stores({}) \/ SetTwoBanks(c, slot, b, Pair(v), Pair(v) + 1, RomBlock(c, Pair(v)))
    BY <1>5 DEF Gen16
  <2> HIDE DEF b
  <2> QED
    BY <2>1, <2>2, <2>3, StoresCurrent, SetTwoBanksCurrent
<1>6. CASE Ascii8(c, slot, a, v) \/ Ascii16(c, slot, a, v)
  <2>1. ASSUME NEW b, NEW len, NEW n, NEW block, SwitchAscii(c, slot, b, len, n, block)
        PROVE  MapCurrent'
    BY <2>1, SwitchAsciiCurrent
  <2>2. ASSUME NEW S, StoreSRAM(c, S)
        PROVE  MapCurrent'
    BY <2>2, StoresCurrent DEF StoreSRAM
  <2> QED
    BY <1>6, <2>1, <2>2, IgnoredCurrent DEF Ascii8, Ascii16
<1>7. CASE GMaster2(c, slot, a, v)
  <2>1. ASSUME NEW n, NEW block, SetBank(c, slot, B, n, block)
        PROVE  MapCurrent'
    BY <1>2, <2>1, SetBankCurrent
  <2>2. ASSUME NEW n, NEW block, SelectPage(c, slot, B, n, block)
        PROVE  MapCurrent'
    BY <1>2, <2>2, SelectPageCurrent
  <2>3. ASSUME NEW S, StoreSRAM(c, S)
        PROVE  MapCurrent'
    BY <2>3, StoresCurrent DEF StoreSRAM
  <2> QED
    BY <1>7, <2>1, <2>2, <2>3, IgnoredCurrent DEF GMaster2, SelectRom, B
<1>8. CASE FMPac(c, slot, a, v)
  <2>1. ASSUME a \in {\h5FFE, \h5FFF, \h7FF7}, NEW n, NEW m, NEW block,
               SetTwoBanks(c, slot, 0, n, m, block)
        PROVE  MapCurrent'
    <3>1. Win(a) \div 2 = (0 + 2) \div 2
      BY <2>1 DEF Win
    <3>2. Shows(slot, 0 + 2)
      BY <3>1 DEF Shows, SlotOf, PageOf
    <3> QED
      BY <2>1, <3>2, SetTwoBanksCurrent
  <2>2. ASSUME NEW S, StoreSRAM(c, S)
        PROVE  MapCurrent'
    BY <2>2, StoresCurrent DEF StoreSRAM
  <2>3. CASE UNCHANGED <<RAM, MemMap>>
    BY <2>3 DEF MapCurrent, Coherent, MapperCurrent, Kept
  <2> QED
    BY <1>8, <2>1, <2>2, <2>3, IgnoredCurrent DEF FMPac
<1> QED
  BY <1>3, <1>4, <1>5, <1>6, <1>7, <1>8 DEF Mapper

LEMMA MapROMCurrent ==
  ASSUME TypeOK, MapCurrent, Kept, NEW a \in CartAddress, a \in Address, NEW v, MapROM(a, v)
  PROVE  MapCurrent'
<1> DEFINE slot == SlotOf(a)
           c    == CartMap[slot]
<1>1. slot \in Slots
  BY SlotOfType DEF TypeOK
<1>2. c \in Carts => slot # <<3, 2>>
  BY NotRAM
<1>3. CASE Ignored
  BY <1>3, IgnoredCurrent
<1>4. CASE c \in Carts /\ SccCart(c, slot, a, v)
  <2>1. CASE Stores({}) \/ Stores({RAM[Win(a)]})
    BY <2>1, StoresCurrent
  <2>2. ASSUME SelectPage(c, slot, Win(a) - 2, v % 16, SccRam(v % 16))
        PROVE  MapCurrent'
    <3>1. Win(a) - 2 \in Banks /\ Win(a) \in 2 .. 5
      BY CartBank, CartWindow
    <3>2. Shows(slot, (Win(a) - 2) + 2)
      BY <3>1 DEF Shows, SlotOf, PageOf
    <3> HIDE DEF slot, c
    <3> QED
      BY <1>1, <1>2, <1>4, <2>2, <3>1, <3>2, SelectPageCurrent
  <2> QED
    BY <1>4, <2>1, <2>2 DEF SccCart
<1>5. CASE c \in Carts /\ SccRegs(c, a)
  BY <1>5, StoresCurrent DEF SccRegs
<1>6. CASE c \in Carts /\ Mapper(c, slot, a, v)
  <2> HIDE DEF c
  <2> QED
    BY <1>1, <1>2, <1>6, MapperSwitch
<1> QED
  BY <1>3, <1>4, <1>5, <1>6 DEF MapROM

LEMMA WrZ80Invariant ==
  ASSUME TypeOK, IInv, NEW a \in Address, a # \hFFFF, NEW v, WrZ80(a, v)
  PROVE  IInv'
<1>1. UNCHANGED <<slotVars, RAMMapper, saved>>
  BY DEF WrZ80, saveVars
<1>2. Kept /\ MapCurrent
  BY <1>1 DEF Kept, slotVars, IInv, MapCurrent
<1>3. MapCurrent'
  BY <1>2, StoresCurrent, IgnoredCurrent, MapROMCurrent DEF WrZ80
<1> QED
  BY <1>1, <1>3 DEF IInv, MapCurrent, slotVars, SlotsCurrent, EnWriteCurrent, SavedCurrent

LEMMA SaveStateInvariant ==
  ASSUME IInv, NEW most, SaveState(most)
  PROVE  IInv'
<1>1. UNCHANGED <<slotVars, RAM, MemMap, RAMMapper>>
  BY DEF SaveState
<1>2. SavedCurrent'
  BY DEF SaveState, SavedCurrent, IInv
<1> QED
  BY <1>1, <1>2 DEF IInv, slotVars, SlotsCurrent, EnWriteCurrent, Coherent, MapperCurrent

LEMMA LoadStateInvariant ==
  ASSUME IInv, LoadState
  PROVE  IInv'
<1>1. SlotsCurrent(PSLReg, SSLReg, PSL, SSL, ppiA, ppiIn)'
  BY DEF LoadState, IInv, SavedCurrent, SlotsCurrent
<1>2. EnWriteCurrent(EnWrite, PSL, SSL)'
  BY DEF LoadState, IInv, SavedCurrent, EnWriteCurrent
<1>3. Coherent'
  BY DEF LoadState, RefreshWindows, Coherent
<1>4. MapperCurrent'
  <2>1. MemMap' = Remapped(MemMap, RAMMapper', ROMMapper')
    BY DEF LoadState
  <2> QED
    BY <2>1, RemappedRAM DEF MapperCurrent
<1>5. SavedCurrent'
  BY DEF LoadState, IInv, SavedCurrent, saveVars
<1> QED
  BY <1>1, <1>2, <1>3, <1>4, <1>5 DEF IInv

LEMMA Inductive == Spec => []IInv
<1>1. Init => IInv
  BY InitInvariant
<1>2. TypeOK /\ IInv /\ [Next]_vars => IInv'
  <2> SUFFICES ASSUME TypeOK, IInv, [Next]_vars
               PROVE  IInv'
    OBVIOUS
  <2>1. CASE Reset
    BY <2>1, ResetInvariant DEF Reset
  <2>2. CASE Restart
    BY <2>2, ResetInvariant DEF Restart
  <2>3. ASSUME NEW v \in Byte, OutSlot(v) \/ WrZ80(\hFFFF, v)
        PROVE  IInv'
    <3>1. OutSlot(v) \/ SSlot(v)
      BY <2>3 DEF WrZ80
    <3> QED
      BY <3>1, OutSlotInvariant, SSlotInvariant
  <2>4. ASSUME NEW in \in BOOLEAN, OutPPIMode(in)
        PROVE  IInv'
    BY <2>4, OutPPIModeInvariant
  <2>5. ASSUME NEW j \in Pages, NEW byte \in Byte, OutMapper(j, byte)
        PROVE  IInv'
    BY <2>5, OutMapperInvariant
  <2>6. ASSUME NEW a \in Address \ {\hFFFF}, NEW v \in Byte, WrZ80(a, v)
        PROVE  IInv'
    <3>1. a # \hFFFF
      OBVIOUS
    <3> QED
      BY <2>6, <3>1, WrZ80Invariant
  <2>7. ASSUME NEW most \in Nat, SaveState(most)
        PROVE  IInv'
    BY <2>7, SaveStateInvariant
  <2>8. CASE LoadState
    BY <2>8, LoadStateInvariant
  <2>9. CASE UNCHANGED vars
    BY <2>9 DEF vars, slotVars, saveVars, IInv, SlotsCurrent, Coherent, MapperCurrent,
                EnWriteCurrent, SavedCurrent
  <2> QED
    BY <2>1, <2>2, <2>3, <2>4, <2>5, <2>6, <2>7, <2>8, <2>9, AnyProgram
<1> QED
  BY <1>1, <1>2, TypeCorrect, PTL DEF Spec

(***************************************************************************)
(* The windows the Z80 sees always show the slots its registers select,    *)
(* whatever program runs, whatever cartridges are in and however often the *)
(* machine is reset, saved and restored.                                   *)
(***************************************************************************)
THEOREM WindowsCorrect == Spec => []WindowsShowSlots
<1>1. TypeOK /\ IInv => WindowsShowSlots
  <2> SUFFICES ASSUME TypeOK, IInv
               PROVE  WindowsShowSlots
    OBVIOUS
  <2>1. \A j \in Pages : <<PSL[j], SSL[j]>> = SlotShown(j)
    BY DEF IInv, SlotsCurrent, SlotShown
  <2>2. ASSUME NEW w \in Windows
        PROVE  RAM[w] = BlockShown(w)
    <3>1. PSL[w \div 2] = SlotShown(w \div 2)[1] /\ SSL[w \div 2] = SlotShown(w \div 2)[2]
      BY <2>1, PageType DEF SlotShown, SlotBy
    <3> QED
      BY <3>1 DEF IInv, Coherent, BlockShown
  <2> QED
    BY <2>1, <2>2 DEF WindowsShowSlots, IInv, SlotsCurrent
<1> QED
  BY <1>1, TypeCorrect, Inductive, PTL

(***************************************************************************)
(* Stores bypass the mappers exactly in the pages that show mapped RAM,    *)
(* and reach there the segment the program selected.                       *)
(***************************************************************************)
THEOREM RAMWritableCorrect == Spec => []RAMWritable
<1>1. TypeOK /\ IInv => RAMWritable
  <2> SUFFICES ASSUME TypeOK, IInv, NEW j \in Pages
               PROVE  /\ EnWrite[j] <=> SlotShown(j) = <<3, 2>>
                      /\ EnWrite[j] => \A h \in 0 .. 1 :
                                         RAM[2 * j + h] = RamBlock(RAMMapper[j], h)
    BY DEF RAMWritable
  <2>1. <<PSL[j], SSL[j]>> = SlotShown(j)
    BY DEF IInv, SlotsCurrent, SlotShown
  <2>2. EnWrite[j] <=> (PSL[j] = 3 /\ SSL[j] = 2)
    BY DEF IInv, EnWriteCurrent
  <2>3. EnWrite[j] <=> SlotShown(j) = <<3, 2>>
    BY <2>1, <2>2
  <2>4. ASSUME EnWrite[j], NEW h \in 0 .. 1
        PROVE  RAM[2 * j + h] = RamBlock(RAMMapper[j], h)
    <3>1. 2 * j + h \in Windows /\ (2 * j + h) \div 2 = j /\ (2 * j + h) % 2 = h
      BY DEF Windows, Pages
    <3>2. RAM[2 * j + h] = MemMap[<<3, 2, 2 * j + h>>]
      BY <2>2, <2>4, <3>1 DEF IInv, Coherent
    <3> QED
      BY <3>1, <3>2 DEF IInv, MapperCurrent
  <2> QED
    BY <2>3, <2>4
<1> QED
  BY <1>1, TypeCorrect, Inductive, PTL

(***************************************************************************)
(* The banks of the cartridges.  What BanksHonest says is not inductive:   *)
(* that a store to SRAM reaches SRAM needs the second bank of a 16kB page  *)
(* to follow its first, that a locked FMPAC shows the ROM again needs its  *)
(* registers to be a pair while it is unlocked, and that a cartridge is    *)
(* switched where its windows are needs slots 1 and 2 to have no subslots. *)
(***************************************************************************)
CartCell(c, b) == <<CartSlot[c][1], CartSlot[c][2], b + 2>>

\* Bank b of a cartridge of the type shows the block, its register holds n.
BankGood(c, type, b, unlocked, n, block) ==
  /\ type = "EMPTY" => block[1] \notin {"rom", "sram"}
  /\ type \in MegaROMs =>
       /\ block[1] \in {"rom", "sram"} /\ block[2] = c
       /\ \/ type = "FMPAC" /\ b < 2 /\ unlocked
          \/ n = SRAMBank /\ block[1] = "sram"
          \/ n # SRAMBank /\ block = RomBlock(c, n)
BanksGood ==
  \A c \in Carts, b \in Banks :
    BankGood(c, ROMType[c], b, Unlocked, ROMMapper[<<c, b>>], MemMap[CartCell(c, b)])

\* The registers of 16kB pages that are used without a look at what they show.
PairGood(c, type, bank) ==
  /\ type = "FMPAC" => /\ bank[<<c, 0>>] % 2 = 0 /\ bank[<<c, 0>>] < RomPages
                       /\ bank[<<c, 1>>] = bank[<<c, 0>>] + 1
  /\ type = "ASCII16" => bank[<<c, 3>>] = Or1(bank[<<c, 2>>])
PairsGood == \A c \in Carts : PairGood(c, ROMType[c], ROMMapper)

NoSubslots(sslreg) == sslreg[1] = 0 /\ sslreg[2] = 0
SavedBanks ==
  saved # NoState =>
    /\ NoSubslots(saved.SSLReg)
    /\ \A c \in Carts : ROMType[c] = "FMPAC" => saved.ROMMapper[<<c, 0>>] % 2 = 0

\* The key is one for all cartridges.
OneFMPAC(type) == \A c, d \in Carts : type[c] = "FMPAC" /\ type[d] = "FMPAC" => c = d

LandsRight == RomNeverStored /\ SRAMStoreIsSaved

BanksInv ==
  /\ BanksGood /\ PairsGood /\ LandsRight
  /\ NoSubslots(SSLReg) /\ SavedBanks /\ OneFMPAC(ROMType)

LEMMA CellFacts ==
  ASSUME NEW c \in Carts, NEW b \in Banks
  PROVE  /\ CartCell(c, b) \in Cells
         /\ CartCell(c, b)[1] = CartSlot[c][1] /\ CartCell(c, b)[2] = CartSlot[c][2]
         /\ CartCell(c, b)[3] = b + 2
         /\ <<CartCell(c, b)[1], CartCell(c, b)[2]>> = CartSlot[c]
         /\ CartSlot[c] # <<3, 2>> /\ CartSlot[c] \in Slots
<1>1. CartSlot[c] \in Slots /\ CartMap[CartSlot[c]] = c
  BY CartSlotType
<1>2. CartSlot[c] # <<3, 2>>
  BY <1>1, NotRAM
<1>3. PICK s1 \in Pages, s2 \in Pages : CartSlot[c] = <<s1, s2>>
  BY <1>1 DEF Slots
<1>4. b + 2 \in Windows
  BY BankType
<1> QED BY <1>1, <1>2, <1>3, <1>4 DEF CartCell, Cells

LEMMA RemappedBanks ==
  ASSUME NEW map, NEW ram, NEW bank, NEW c \in Carts, NEW b \in Banks
  PROVE  Remapped(map, ram, bank)[CartCell(c, b)]
           = IF IsMega(c) THEN RomBlock(c, bank[<<c, b>>]) ELSE map[CartCell(c, b)]
<1> DEFINE x == CartCell(c, b)
<1>1. /\ x \in Cells /\ <<x[1], x[2]>> = CartSlot[c] /\ CartSlot[c] # <<3, 2>> /\ x[3] = b + 2
  BY CellFacts
<1>2. CartMap[<<x[1], x[2]>>] = c
  BY <1>1, CartSlotType
<1>3. x[3] \in 2 .. 5 /\ x[3] - 2 = b
  BY <1>1, BankType DEF Banks
<1> HIDE DEF x
<1>4. Remapped(map, ram, bank)[x]
        = IF IsMega(c) THEN RomBlock(c, bank[<<c, b>>]) ELSE map[x]
  BY <1>1, <1>2, <1>3 DEF Remapped
<1> QED BY <1>4 DEF x

LEMMA RomBank ==
  ASSUME NEW c \in Carts, NEW type, type # "EMPTY", NEW b, NEW u, NEW n \in 0 .. 254
  PROVE  BankGood(c, type, b, u, n, RomBlock(c, n))
BY DEF BankGood, RomBlock, SRAMBank

LEMMA SramBankGood ==
  ASSUME NEW c \in Carts, NEW type, type # "EMPTY", NEW b, NEW u, NEW h
  PROVE  BankGood(c, type, b, u, SRAMBank, SramBlock(c, h))
BY DEF BankGood, SramBlock, SRAMBank

LEMMA MegaType ==
  ASSUME NEW c \in Carts, IsMega(c)
  PROVE  ROMType[c] # "EMPTY"
BY DEF IsMega, MegaROMs

\* The memory map made anew from bank registers that hold pages.
LEMMA RemappedGood ==
  ASSUME NEW map, NEW ram, NEW bank, UNCHANGED ROMType,
         \A c \in Carts, b \in Banks : IsMega(c) => bank[<<c, b>>] \in 0 .. 254,
         \A c \in Carts, b \in Banks : IsEmpty(c) => map[CartCell(c, b)][1] \notin {"rom", "sram"},
         MemMap' = Remapped(map, ram, bank), ROMMapper' = bank
  PROVE  BanksGood'
<1> SUFFICES ASSUME NEW c \in Carts, NEW b \in Banks
             PROVE  BankGood(c, ROMType[c], b, Unlocked', bank[<<c, b>>], MemMap'[CartCell(c, b)])
  BY DEF BanksGood
<1>1. MemMap'[CartCell(c, b)]
        = IF IsMega(c) THEN RomBlock(c, bank[<<c, b>>]) ELSE map[CartCell(c, b)]
  BY RemappedBanks
<1>2. CASE IsMega(c)
  BY <1>1, <1>2, RomBank, MegaType
<1>3. CASE ~IsMega(c)
  BY <1>1, <1>3 DEF BankGood, IsMega, IsEmpty
<1> QED BY <1>2, <1>3

\* The cells of the windows W of a slot get the blocks.
Moved(slot, W, blk) ==
  \A x \in Cells : MemMap'[x] = IF <<x[1], x[2]>> = slot /\ x[3] \in W THEN blk[x[3]] ELSE MemMap[x]

LEMMA BanksMoved ==
  ASSUME BanksGood, OneFMPAC(ROMType), UNCHANGED ROMType, NEW c \in Carts, NEW W, NEW blk,
         Moved(CartSlot[c], W, blk),
         \A d \in Carts, b \in Banks :
           d # c \/ b + 2 \notin W => ROMMapper'[<<d, b>>] = ROMMapper[<<d, b>>],
         \A b \in Banks : b + 2 \in W =>
           BankGood(c, ROMType[c], b, Unlocked', ROMMapper'[<<c, b>>], blk[b + 2]),
         Unlocked' = Unlocked \/ (ROMType[c] = "FMPAC" /\ 2 \in W /\ 3 \in W)
  PROVE  BanksGood'
<1> SUFFICES ASSUME NEW d \in Carts, NEW b \in Banks
             PROVE  BankGood(d, ROMType[d], b, Unlocked', ROMMapper'[<<d, b>>],
                             MemMap'[CartCell(d, b)])
  BY DEF BanksGood
<1>1. /\ CartCell(d, b) \in Cells /\ CartCell(d, b)[3] = b + 2
      /\ <<CartCell(d, b)[1], CartCell(d, b)[2]>> = CartSlot[d]
  BY CellFacts
<1>2. BankGood(d, ROMType[d], b, Unlocked, ROMMapper[<<d, b>>], MemMap[CartCell(d, b)])
  BY DEF BanksGood
<1>3. CASE d = c /\ b + 2 \in W
  BY <1>1, <1>3 DEF Moved
<1>4. CASE d # c \/ b + 2 \notin W
  <2>1. CartSlot[d] = CartSlot[c] => d = c
    BY CartSlotType
  <2>2. MemMap'[CartCell(d, b)] = MemMap[CartCell(d, b)]
    BY <1>1, <1>4, <2>1 DEF Moved
  <2>3. ROMMapper'[<<d, b>>] = ROMMapper[<<d, b>>]
    BY <1>4
  <2>4. BankGood(d, ROMType[d], b, Unlocked', ROMMapper[<<d, b>>], MemMap[CartCell(d, b)])
    <3>1. CASE Unlocked' = Unlocked
      BY <1>2, <3>1
    <3>2. CASE ROMType[c] = "FMPAC" /\ 2 \in W /\ 3 \in W
      <4>1. ~(ROMType[d] = "FMPAC" /\ b < 2)
        BY <1>4, <3>2 DEF OneFMPAC, Banks
      <4> QED BY <1>2, <4>1 DEF BankGood
    <3> QED BY <3>1, <3>2
  <2> QED BY <2>2, <2>3, <2>4
<1> QED BY <1>3, <1>4

LEMMA PairsMoved ==
  ASSUME PairsGood, UNCHANGED ROMType, NEW c \in Carts,
         \A d \in Carts, b \in Banks : d # c => ROMMapper'[<<d, b>>] = ROMMapper[<<d, b>>],
         PairGood(c, ROMType[c], ROMMapper')
  PROVE  PairsGood'
<1> SUFFICES ASSUME NEW d \in Carts PROVE PairGood(d, ROMType[d], ROMMapper')
  BY DEF PairsGood
<1>1. CASE d = c
  BY <1>1
<1>2. CASE d # c
  <2>1. /\ ROMMapper'[<<d, 0>>] = ROMMapper[<<d, 0>>] /\ ROMMapper'[<<d, 1>>] = ROMMapper[<<d, 1>>]
        /\ ROMMapper'[<<d, 2>>] = ROMMapper[<<d, 2>>] /\ ROMMapper'[<<d, 3>>] = ROMMapper[<<d, 3>>]
    BY <1>2 DEF Banks
  <2> QED BY <2>1 DEF PairsGood, PairGood
<1> QED BY <1>1, <1>2

\* What every handler of a cartridge has to leave.
CartsGood == BanksGood /\ PairsGood /\ LandsRight

\* Where the state is right, and the game and the key are the same.
Before == TypeOK /\ BanksGood /\ PairsGood /\ OneFMPAC(ROMType) /\ UNCHANGED ROMType

LEMMA NothingStored ==
  ASSUME stored' = {}
  PROVE  LandsRight'
BY DEF LandsRight, RomNeverStored, SRAMStoreIsSaved

LEMMA StoresGood ==
  ASSUME Before, UNCHANGED FMPACKey, NEW S, Stores(S),
         \A block \in S : /\ block[1] = "rom" => ROMType[block[2]] = "FMPAC"
                          /\ block[1] = "sram" => block[2] \in SaveSRAM'
  PROVE  CartsGood'
<1>1. UNCHANGED <<MemMap, ROMMapper, ROMType, FMPACKey>> /\ stored' = S
  BY DEF Stores, Before
<1>2. Unlocked' = Unlocked
  BY <1>1 DEF Unlocked
<1>3. BanksGood' /\ PairsGood'
  BY <1>1, <1>2 DEF Before, BanksGood, PairsGood
<1>4. LandsRight'
  BY <1>1 DEF LandsRight, RomNeverStored, SRAMStoreIsSaved
<1> QED BY <1>3, <1>4 DEF CartsGood

LEMMA IgnoredGood ==
  ASSUME Before, Ignored
  PROVE  CartsGood'
BY StoresGood DEF Ignored

LEMMA StoreSRAMGood ==
  ASSUME Before, NEW c \in Carts, NEW S, StoreSRAM(c, S),
         \A block \in S : /\ block[1] = "rom" => ROMType[block[2]] = "FMPAC"
                          /\ block[1] = "sram" => block[2] = c
  PROVE  CartsGood'
<1>1. c \in SaveSRAM' /\ Stores(S) /\ UNCHANGED FMPACKey
  BY DEF StoreSRAM
<1> QED BY <1>1, StoresGood

\* The blocks of one bank, or of two that make a 16kB page.
OneBlock(b, block) == [w \in {b + 2} |-> block]
TwoBlocks(b, block) == [w \in {b + 2, b + 3} |-> IF w = b + 2 THEN block ELSE NextBlock(block)]

LEMMA SetBankMoved ==
  ASSUME TypeOK, NEW slot \in Slots, NEW c \in Carts, NEW b \in Banks, NEW n, NEW block,
         SetBank(c, slot, b, n, block)
  PROVE  /\ Moved(slot, {b + 2}, OneBlock(b, block))
         /\ \A d \in Carts, e \in Banks :
              ROMMapper'[<<d, e>>] = IF d = c /\ e = b THEN n ELSE ROMMapper[<<d, e>>]
<1> DEFINE blk == OneBlock(b, block)
<1>1. PICK s1 \in Pages, s2 \in Pages : slot = <<s1, s2>>
  BY DEF Slots
<1>2. <<s1, s2, b + 2>> \in Cells /\ b + 2 \in Windows
  BY BankType DEF Cells
<1>3. MemMap' = [MemMap EXCEPT ![<<s1, s2, b + 2>>] = block]
  BY <1>1 DEF SetBank
<1>4. MemMap \in [Cells -> Block] /\ ROMMapper \in [Carts \X Banks -> Byte]
  BY DEF TypeOK, MapType, BankRegs
<1>5. ASSUME NEW x \in Cells
      PROVE  MemMap'[x] = IF <<x[1], x[2]>> = slot /\ x[3] \in {b + 2}
                          THEN blk[x[3]] ELSE MemMap[x]
  <2>1. PICK x1 \in Pages, x2 \in Pages, x3 \in Windows : x = <<x1, x2, x3>>
    BY DEF Cells
  <2> QED BY <1>1, <1>2, <1>3, <1>4, <2>1 DEF OneBlock
<1>6. Moved(slot, {b + 2}, blk)
  BY <1>5 DEF Moved
<1>7. ROMMapper' = [ROMMapper EXCEPT ![<<c, b>>] = n]
  BY DEF SetBank
<1> QED BY <1>4, <1>6, <1>7

\* The registers of two banks, and no others, get n and m.
TwoSet(c, b, n, m) ==
  \A d \in Carts, e \in Banks :
    ROMMapper'[<<d, e>>] = IF d = c /\ e = b THEN n
                           ELSE IF d = c /\ e = b + 1 THEN m ELSE ROMMapper[<<d, e>>]

LEMMA SetTwoBanksMoved ==
  ASSUME TypeOK, NEW slot \in Slots, NEW c \in Carts, NEW b, b \in {0, 2}, NEW n, NEW m, NEW block,
         SetTwoBanks(c, slot, b, n, m, block)
  PROVE  /\ Moved(slot, {b + 2, b + 3}, TwoBlocks(b, block))
         /\ TwoSet(c, b, n, m)
<1> DEFINE W   == {b + 2, b + 3}
           blk == TwoBlocks(b, block)
<1>1. PICK s1 \in Pages, s2 \in Pages : slot = <<s1, s2>>
  BY DEF Slots
<1>2. /\ <<s1, s2, b + 2>> \in Cells /\ <<s1, s2, b + 3>> \in Cells
      /\ b + 2 \in Windows /\ b + 3 \in Windows /\ b \in Banks /\ b + 1 \in Banks
  BY DEF Cells, Windows, Banks
<1>3. MemMap' = [MemMap EXCEPT ![<<s1, s2, b + 2>>] = block,
                               ![<<s1, s2, b + 3>>] = NextBlock(block)]
  BY <1>1 DEF SetTwoBanks
<1>4. MemMap \in [Cells -> Block] /\ ROMMapper \in [Carts \X Banks -> Byte]
  BY DEF TypeOK, MapType, BankRegs
<1>5. ASSUME NEW x \in Cells
      PROVE  MemMap'[x] = IF <<x[1], x[2]>> = slot /\ x[3] \in W
                          THEN blk[x[3]] ELSE MemMap[x]
  <2>1. PICK x1 \in Pages, x2 \in Pages, x3 \in Windows : x = <<x1, x2, x3>>
    BY DEF Cells
  <2> QED BY <1>1, <1>2, <1>3, <1>4, <2>1 DEF Windows, TwoBlocks
<1>6. Moved(slot, W, blk)
  BY <1>5 DEF Moved
<1>7. ROMMapper' = [ROMMapper EXCEPT ![<<c, b>>] = n, ![<<c, b + 1>>] = m]
  BY DEF SetTwoBanks
<1> QED BY <1>2, <1>4, <1>6, <1>7 DEF TwoSet

\* A bank gets a block that its new register stands for.
LEMMA SetBankGood ==
  ASSUME Before, UNCHANGED FMPACKey, NEW c \in Carts, NEW b \in Banks, NEW n, NEW block,
         SetBank(c, CartSlot[c], b, n, block), ROMType[c] \notin {"FMPAC", "ASCII16"},
         BankGood(c, ROMType[c], b, Unlocked, n, block)
  PROVE  CartsGood'
<1> DEFINE blk == OneBlock(b, block)
<1>1. /\ Moved(CartSlot[c], {b + 2}, blk)
      /\ \A d \in Carts, e \in Banks :
           ROMMapper'[<<d, e>>] = IF d = c /\ e = b THEN n ELSE ROMMapper[<<d, e>>]
  <2>1. CartSlot[c] \in Slots /\ TypeOK
    BY CartSlotType DEF Before
  <2> QED BY <2>1, SetBankMoved
<1>2. ASSUME NEW e \in Banks, e + 2 \in {b + 2}
      PROVE  e = b /\ blk[e + 2] = block
  BY <1>2 DEF Banks, OneBlock
<1>3. Unlocked' = Unlocked
  BY DEF Unlocked
<1> HIDE DEF blk
<1>4. \A d \in Carts, e \in Banks : d # c \/ e + 2 \notin {b + 2} =>
        ROMMapper'[<<d, e>>] = ROMMapper[<<d, e>>]
  BY <1>1
<1>5. \A e \in Banks : e + 2 \in {b + 2} =>
        BankGood(c, ROMType[c], e, Unlocked', ROMMapper'[<<c, e>>], blk[e + 2])
  BY <1>1, <1>2, <1>3
<1>6. BanksGood'
  BY <1>1, <1>3, <1>4, <1>5, BanksMoved DEF Before
<1>7. PairGood(c, ROMType[c], ROMMapper')
  BY DEF PairGood
<1>8. PairsGood'
  BY <1>1, <1>7, PairsMoved DEF Before
<1> QED BY <1>6, <1>8, NothingStored DEF SetBank, CartsGood

\* The numbers of pages of a ROM that is smaller than 2 MB are no mark of SRAM.
LEMMA PageNumbers ==
  ASSUME RomPages < 256, NEW v \in Byte
  PROVE  /\ v % RomPages \in 0 .. 254
         /\ Pair(v) \in 0 .. 252 /\ Pair(v) + 1 \in 0 .. 254
         /\ Pair(v) % 2 = 0 /\ Pair(v) < RomPages /\ Or1(Pair(v)) = Pair(v) + 1
<1>1. RomPages \in 8 .. 254 /\ RomPages % 2 = 0
  BY SizeAssumption
<1>2. v % RomPages \in 0 .. 254
  BY <1>1 DEF Byte
<1> DEFINE half == RomPages \div 2
           k == v % half
<1>3. half \in 4 .. 127 /\ RomPages = 2 * half
  BY <1>1
<1> HIDE DEF half
<1>4. k \in 0 .. half - 1
  BY <1>3 DEF Byte
<1>5. Pair(v) = 2 * k
  BY DEF Pair, half
<1> HIDE DEF k
<1>6. (2 * k) % 2 = 0 /\ 2 * k \in 0 .. 252 /\ 2 * k < RomPages
  BY <1>3, <1>4
<1> QED BY <1>2, <1>3, <1>4, <1>5, <1>6 DEF Or1

LEMMA SelectRomGood ==
  ASSUME RomPages < 256, Before, UNCHANGED FMPACKey, NEW c \in Carts, NEW b \in Banks,
         NEW v \in Byte, SelectRom(c, CartSlot[c], b, v % RomPages), IsMega(c),
         ROMType[c] \notin {"FMPAC", "ASCII16"}
  PROVE  CartsGood'
<1>1. CASE v % RomPages = ROMMapper[<<c, b>>]
  BY <1>1, StoresGood DEF SelectRom, SelectPage
<1>2. CASE v % RomPages # ROMMapper[<<c, b>>]
  <2> DEFINE n == v % RomPages
  <2>1. n \in 0 .. 254
    BY PageNumbers
  <2>2. SetBank(c, CartSlot[c], b, n, RomBlock(c, n))
    BY <1>2 DEF SelectRom, SelectPage
  <2> HIDE DEF n
  <2>3. BankGood(c, ROMType[c], b, Unlocked, n, RomBlock(c, n))
    BY <2>1, RomBank, MegaType
  <2> QED BY <2>2, <2>3, SetBankGood
<1> QED BY <1>1, <1>2

\* Two banks get the halves of a 16kB page of the ROM.
LEMMA SetPagesGood ==
  ASSUME Before, NEW c \in Carts, NEW b, b \in {0, 2}, NEW n \in 0 .. 253,
         SetTwoBanks(c, CartSlot[c], b, n, n + 1, RomBlock(c, n)), IsMega(c),
         ROMType[c] # "ASCII16",
         ROMType[c] = "FMPAC" => b = 0 /\ n % 2 = 0 /\ n < RomPages,
         ROMType[c] # "FMPAC" => UNCHANGED FMPACKey
  PROVE  CartsGood'
<1> DEFINE W == {b + 2, b + 3}
           block == RomBlock(c, n)
           blk == TwoBlocks(b, block)
<1>1. /\ Moved(CartSlot[c], W, blk)
      /\ \A d \in Carts, e \in Banks :
           ROMMapper'[<<d, e>>] = IF d = c /\ e = b THEN n
                                  ELSE IF d = c /\ e = b + 1 THEN n + 1 ELSE ROMMapper[<<d, e>>]
  <2>1. CartSlot[c] \in Slots /\ TypeOK
    BY CartSlotType DEF Before
  <2> DEFINE m == n + 1
  <2>2. SetTwoBanks(c, CartSlot[c], b, n, m, block)
    OBVIOUS
  <2> HIDE DEF m, block
  <2>3. /\ Moved(CartSlot[c], {b + 2, b + 3}, TwoBlocks(b, block))
        /\ TwoSet(c, b, n, m)
    BY <2>1, <2>2, SetTwoBanksMoved
  <2> QED BY <2>3 DEF m, TwoSet
<1>2. NextBlock(block) = RomBlock(c, n + 1)
  BY DEF NextBlock, RomBlock
<1>3. ROMType[c] # "EMPTY" /\ n \in 0 .. 254 /\ n + 1 \in 0 .. 254
  BY MegaType
<1>4. ASSUME NEW e \in Banks, e + 2 \in W
      PROVE  BankGood(c, ROMType[c], e, Unlocked', ROMMapper'[<<c, e>>], blk[e + 2])
  <2>1. CASE e = b
    <3>1. blk[e + 2] = RomBlock(c, n) /\ ROMMapper'[<<c, e>>] = n
      BY <1>1, <2>1 DEF TwoBlocks
    <3> QED BY <1>3, <3>1, RomBank
  <2>2. CASE e = b + 1
    <3>1. blk[e + 2] = RomBlock(c, n + 1) /\ ROMMapper'[<<c, e>>] = n + 1
      BY <1>1, <1>2, <2>2 DEF TwoBlocks
    <3> QED BY <1>3, <3>1, RomBank
  <2> QED BY <1>4, <2>1, <2>2 DEF Banks
<1>5. Unlocked' = Unlocked \/ (ROMType[c] = "FMPAC" /\ 2 \in W /\ 3 \in W)
  BY DEF Unlocked
<1>6. \A d \in Carts, e \in Banks :
        d # c \/ e + 2 \notin W => ROMMapper'[<<d, e>>] = ROMMapper[<<d, e>>]
  <2> TAKE d \in Carts, e \in Banks
  <2>1. ROMMapper'[<<d, e>>] = IF d = c /\ e = b THEN n
                               ELSE IF d = c /\ e = b + 1 THEN n + 1 ELSE ROMMapper[<<d, e>>]
    BY <1>1
  <2>2. e = b => e + 2 \in W
    OBVIOUS
  <2>3. e = b + 1 => e + 2 \in W
    OBVIOUS
  <2> HIDE DEF W
  <2> QED BY <2>1, <2>2, <2>3
<1> HIDE DEF blk, W
<1>7. BanksGood'
  BY <1>1, <1>4, <1>5, <1>6, BanksMoved DEF Before
<1>8. PairGood(c, ROMType[c], ROMMapper')
  BY <1>1 DEF PairGood, Banks
<1>9. PairsGood'
  BY <1>1, <1>8, PairsMoved DEF Before
<1> QED BY <1>7, <1>9, NothingStored DEF SetTwoBanks, CartsGood

LEMMA Gen16Good ==
  ASSUME RomPages < 256, Before, NEW c \in Carts, NEW a, NEW v \in Byte,
         Gen16(c, CartSlot[c], a, v), ROMType[c] = "GEN16"
  PROVE  CartsGood'
<1> DEFINE b == IF a >= \h8000 THEN 2 ELSE 0
<1>1. /\ Stores({}) \/ SetTwoBanks(c, CartSlot[c], b, Pair(v), Pair(v) + 1, RomBlock(c, Pair(v)))
      /\ UNCHANGED FMPACKey
  BY DEF Gen16
<1>2. b \in {0, 2} /\ IsMega(c) /\ Pair(v) \in 0 .. 253
  BY PageNumbers DEF IsMega, MegaROMs
<1> HIDE DEF b
<1> QED BY <1>1, <1>2, StoresGood, SetPagesGood

LEMMA SwitchAsciiGood ==
  ASSUME Before, NEW c \in Carts, NEW b \in Banks, NEW len, NEW n, NEW block,
         SwitchAscii(c, CartSlot[c], b, len, n, block),
         \/ len = 1 /\ ROMType[c] = "ASCII8"
         \/ len = 2 /\ ROMType[c] = "ASCII16" /\ b \in {0, 2}
                    /\ BankGood(c, ROMType[c], b + 1, Unlocked, Or1(n), NextBlock(block)),
         BankGood(c, ROMType[c], b, Unlocked, n, block)
  PROVE  CartsGood'
<1> DEFINE W   == (b + 2) .. (b + 1 + len)
           blk == [w \in W |-> IF w = b + 2 THEN block ELSE NextBlock(block)]
<1>1. stored' = {} /\ UNCHANGED FMPACKey /\ ROMType' = ROMType
  BY DEF SwitchAscii, Before
<1>2. Unlocked' = Unlocked
  BY <1>1 DEF Unlocked
<1>3. CASE UNCHANGED <<ROMMapper, MemMap>>
  <2>1. BanksGood' /\ PairsGood'
    BY <1>1, <1>2, <1>3 DEF Before, BanksGood, PairsGood
  <2> QED BY <1>1, <2>1, NothingStored DEF CartsGood
<1>4. CASE /\ ROMMapper' = [x \in Carts \X Banks |->
                              IF x[1] = c /\ x[2] + 2 \in W
                              THEN (IF x[2] = b THEN n ELSE Or1(n)) ELSE ROMMapper[x]]
           /\ MemMap' = [x \in Cells |-> IF <<x[1], x[2]>> = CartSlot[c] /\ x[3] \in W
                                         THEN blk[x[3]] ELSE MemMap[x]]
  <2>0. len \in {1, 2} /\ (len = 2 => b \in {0, 2})
    OBVIOUS
  <2>1. \A e \in Banks : e + 2 \in W <=> e = b \/ (len = 2 /\ e = b + 1)
    BY <2>0 DEF Banks
  <2>2. \A w \in W : blk[w] = IF w = b + 2 THEN block ELSE NextBlock(block)
    OBVIOUS
  <2> HIDE DEF W, blk
  <2>3. Moved(CartSlot[c], W, blk)
    BY <1>4 DEF Moved
  <2>4. ASSUME NEW d \in Carts, NEW e \in Banks
        PROVE  ROMMapper'[<<d, e>>] = IF d = c /\ e + 2 \in W
                                      THEN (IF e = b THEN n ELSE Or1(n)) ELSE ROMMapper[<<d, e>>]
    BY <1>4
  <2>5. ASSUME NEW e \in Banks, e + 2 \in W
        PROVE  BankGood(c, ROMType[c], e, Unlocked', ROMMapper'[<<c, e>>], blk[e + 2])
    <3>1. CASE e = b
      <4>1. blk[e + 2] = block /\ ROMMapper'[<<c, e>>] = n
        BY <2>2, <2>4, <2>5, <3>1
      <4> QED BY <1>2, <3>1, <4>1
    <3>2. CASE len = 2 /\ e = b + 1
      <4>1. e # b /\ e + 2 # b + 2
        BY <3>2 DEF Banks
      <4>2. blk[e + 2] = NextBlock(block) /\ ROMMapper'[<<c, e>>] = Or1(n)
        BY <2>2, <2>4, <2>5, <4>1
      <4> QED BY <1>2, <3>2, <4>2
    <3> QED BY <2>1, <2>5, <3>1, <3>2
  <2>6. BanksGood'
    <3>1. BanksGood /\ OneFMPAC(ROMType) /\ UNCHANGED ROMType
      BY <1>1 DEF Before
    <3>2. (Unlocked' = Unlocked) \/ (ROMType[c] = "FMPAC" /\ 2 \in W /\ 3 \in W)
      BY <1>2
    <3>3. \A d \in Carts, e \in Banks :
            d # c \/ e + 2 \notin W => ROMMapper'[<<d, e>>] = ROMMapper[<<d, e>>]
      BY <2>4
    <3>4. \A e \in Banks : e + 2 \in W =>
            BankGood(c, ROMType[c], e, Unlocked', ROMMapper'[<<c, e>>], blk[e + 2])
      BY <2>5
    <3> QED BY <2>3, <3>1, <3>2, <3>3, <3>4, BanksMoved
  <2>7. PairGood(c, ROMType[c], ROMMapper')
    <3>1. CASE ROMType[c] # "ASCII16"
      <4>1. ROMType[c] = "ASCII8"
        BY <3>1
      <4> QED BY <4>1 DEF PairGood
    <3>2. CASE ROMType[c] = "ASCII16" /\ b = 2
      <4>1. 2 \in Banks /\ 3 \in Banks /\ 2 + 2 \in W /\ 3 + 2 \in W
        BY <2>1, <3>2 DEF Banks
      <4>2. ROMMapper'[<<c, 2>>] = n /\ ROMMapper'[<<c, 3>>] = Or1(n)
        BY <2>4, <3>2, <4>1
      <4> QED BY <3>2, <4>2 DEF PairGood
    <3>3. CASE ROMType[c] = "ASCII16" /\ b = 0
      <4>1. 2 \in Banks /\ 3 \in Banks /\ 2 + 2 \notin W /\ 3 + 2 \notin W
        BY <2>1, <3>3 DEF Banks
      <4>2. ROMMapper'[<<c, 2>>] = ROMMapper[<<c, 2>>] /\ ROMMapper'[<<c, 3>>] = ROMMapper[<<c, 3>>]
        BY <2>4, <4>1
      <4> QED BY <3>3, <4>2 DEF PairGood, PairsGood, Before
    <3> QED BY <3>1, <3>2, <3>3
  <2>8. PairsGood'
    BY <2>4, <2>7, PairsMoved DEF Before
  <2> QED BY <1>1, <2>6, <2>8, NothingStored DEF CartsGood
<1> QED BY <1>3, <1>4 DEF SwitchAscii

\* The window that a store goes through shows the bank of the cartridge it is meant for.
LEMMA BankWindow ==
  ASSUME Coherent, NEW a \in CartAddress, NEW c \in Carts, SlotOf(a) = CartSlot[c]
  PROVE  /\ RAM[Win(a)] = MemMap[CartCell(c, Win(a) - 2)]
         /\ Win(a) - 2 \in Banks /\ Win(a) \in 2 .. 5
<1>1. Win(a) \in Windows /\ Win(a) - 2 \in Banks /\ Win(a) \in 2 .. 5
  BY CartBank, CartWindow
<1>2. PSL[Win(a) \div 2] = CartSlot[c][1] /\ SSL[Win(a) \div 2] = CartSlot[c][2]
  BY DEF SlotOf, PageOf
<1>3. (Win(a) - 2) + 2 = Win(a)
  BY <1>1
<1> QED BY <1>1, <1>2, <1>3 DEF Coherent, CartCell

LEMMA Ascii8Good ==
  ASSUME RomPages < 256, Before, Coherent, NEW a \in CartAddress, NEW v \in Byte,
         NEW c \in Carts, SlotOf(a) = CartSlot[c], Ascii8(c, CartSlot[c], a, v),
         ROMType[c] = "ASCII8"
  PROVE  CartsGood'
<1>1. CASE a >= \h6000 /\ a < \h8000
  <2> DEFINE b == (a \div \h800) % 4
             n == IF SelectsSRAM(v) THEN SRAMBank ELSE v % RomPages
             block == IF SelectsSRAM(v) THEN SramBlock(c, 0) ELSE RomBlock(c, v % RomPages)
  <2>1. b \in Banks
    BY <1>1, CartAddressIs DEF Banks
  <2>2. SwitchAscii(c, CartSlot[c], b, 1, n, block)
    BY <1>1 DEF Ascii8
  <2>3. BankGood(c, ROMType[c], b, Unlocked, n, block)
    BY PageNumbers, RomBank, SramBankGood
  <2> HIDE DEF b, n, block
  <2> QED BY <2>1, <2>2, <2>3, SwitchAsciiGood
<1>2. CASE a >= \h8000 /\ ROMMapper[<<c, (Win(a) % 2) + 2>>] = SRAMBank /\ ~(a >= \h6000 /\ a < \h8000)
  <2>1. StoreSRAM(c, {RAM[Win(a)]})
    BY <1>2 DEF Ascii8
  <2>2. (Win(a) % 2) + 2 = Win(a) - 2
    <3>1. a \in Int /\ a >= \h8000 /\ a <= \hBFFF
      BY <1>2, CartAddressIs
    <3>2. Win(a) \in {4, 5}
      BY <3>1 DEF Win
    <3> QED BY <3>2
  <2>3. BankGood(c, ROMType[c], Win(a) - 2, Unlocked, SRAMBank, RAM[Win(a)])
    BY <1>2, <2>2, BankWindow DEF Before, BanksGood
  <2>4. RAM[Win(a)][1] = "sram" /\ RAM[Win(a)][2] = c
    BY <2>3 DEF BankGood, MegaROMs
  <2> QED BY <2>1, <2>4, StoreSRAMGood
<1> QED BY <1>1, <1>2, IgnoredGood DEF Ascii8

\* A bank whose register is marked shows SRAM.
LEMMA MarkedBank ==
  ASSUME Before, Coherent, NEW a \in CartAddress, NEW c \in Carts, SlotOf(a) = CartSlot[c],
         IsMega(c), ROMType[c] # "FMPAC", ROMMapper[<<c, Win(a) - 2>>] = SRAMBank
  PROVE  RAM[Win(a)][1] = "sram" /\ RAM[Win(a)][2] = c
<1>1. BankGood(c, ROMType[c], Win(a) - 2, Unlocked, SRAMBank, RAM[Win(a)])
  BY BankWindow DEF Before, BanksGood
<1> QED BY <1>1 DEF BankGood, IsMega

LEMMA Ascii16Good ==
  ASSUME RomPages < 256, Before, Coherent, NEW a \in CartAddress, NEW v \in Byte,
         NEW c \in Carts, SlotOf(a) = CartSlot[c], Ascii16(c, CartSlot[c], a, v),
         ROMType[c] = "ASCII16"
  PROVE  CartsGood'
<1> DEFINE switch == a >= \h6000 /\ a < \h8000 /\ (v <= RomPages \/ a % \h1000 = 0)
<1>1. CASE switch
  <2> DEFINE b == IF BitSet(a, \h1000) THEN 2 ELSE 0
             n == IF SelectsSRAM(v) THEN SRAMBank ELSE Pair(v)
             block == IF SelectsSRAM(v) THEN SramBlock(c, 0) ELSE RomBlock(c, Pair(v))
  <2>1. b \in {0, 2} /\ b \in Banks
    BY DEF Banks
  <2>2. SwitchAscii(c, CartSlot[c], b, 2, n, block)
    BY <1>1 DEF Ascii16
  <2>3. Pair(v) \in 0 .. 254 /\ Pair(v) + 1 \in 0 .. 254 /\ Or1(Pair(v)) = Pair(v) + 1
    BY PageNumbers
  <2>4. NextBlock(SramBlock(c, 0)) = SramBlock(c, 1) /\ Or1(SRAMBank) = SRAMBank
    BY DEF NextBlock, SramBlock, Or1, SRAMBank
  <2>5. NextBlock(RomBlock(c, Pair(v))) = RomBlock(c, Pair(v) + 1)
    BY DEF NextBlock, RomBlock
  <2>6. BankGood(c, ROMType[c], b, Unlocked, n, block)
    BY <2>3, RomBank, SramBankGood
  <2>7. BankGood(c, ROMType[c], b + 1, Unlocked, Or1(n), NextBlock(block))
    <3>1. CASE SelectsSRAM(v)
      <4>1. Or1(n) = SRAMBank /\ NextBlock(block) = SramBlock(c, 1)
        BY <2>4, <3>1
      <4> QED BY <4>1, SramBankGood
    <3>2. CASE ~SelectsSRAM(v)
      <4>1. Or1(n) = Pair(v) + 1 /\ NextBlock(block) = RomBlock(c, Pair(v) + 1)
        BY <2>3, <2>5, <3>2
      <4> DEFINE m == Pair(v) + 1
      <4>2. m \in 0 .. 254 /\ Or1(n) = m /\ NextBlock(block) = RomBlock(c, m)
        BY <2>3, <4>1
      <4> HIDE DEF m, n, block, b
      <4> QED BY <4>2, RomBank
    <3> QED BY <3>1, <3>2
  <2> HIDE DEF b, n, block
  <2> QED BY <2>1, <2>2, <2>6, <2>7, SwitchAsciiGood
<1>2. ASSUME ~switch, a >= \h8000, ROMMapper[<<c, 2>>] = SRAMBank
      PROVE  CartsGood'
  <2>1. StoreSRAM(c, {RAM[Win(a)], NextBlock(RAM[Win(a)])})
    BY <1>2 DEF Ascii16
  <2>2. ROMMapper[<<c, 3>>] = SRAMBank
    <3>1. PairGood(c, ROMType[c], ROMMapper)
      BY DEF Before, PairsGood
    <3>2. ROMMapper[<<c, 3>>] = Or1(ROMMapper[<<c, 2>>])
      BY <3>1 DEF PairGood
    <3>3. Or1(SRAMBank) = SRAMBank
      BY DEF Or1, SRAMBank
    <3> QED BY <1>2, <3>2, <3>3
  <2>3. Win(a) - 2 \in {2, 3}
    <3> HIDE DEF switch
    <3>1. a >= \h8000
      BY <1>2
    <3>2. a \in Int /\ a <= \hBFFF
      BY CartAddressIs
    <3>3. Win(a) \in {4, 5}
      BY <3>1, <3>2 DEF Win
    <3> QED BY <3>3
  <2>4. RAM[Win(a)][1] = "sram" /\ RAM[Win(a)][2] = c
    BY <1>2, <2>2, <2>3, MarkedBank DEF IsMega, MegaROMs
  <2>5. \A block \in {RAM[Win(a)], NextBlock(RAM[Win(a)])} : block[1] = "sram" /\ block[2] = c
    BY <2>4 DEF NextBlock
  <2> QED BY <2>1, <2>5, StoreSRAMGood
<1> QED BY <1>1, <1>2, IgnoredGood DEF Ascii16

LEMMA GMaster2Good ==
  ASSUME RomPages < 256, Before, Coherent, NEW a \in CartAddress, NEW v \in Byte,
         NEW c \in Carts, SlotOf(a) = CartSlot[c], GMaster2(c, CartSlot[c], a, v),
         ROMType[c] = "GMASTER2"
  PROVE  CartsGood'
<1> DEFINE b == Win(a) - 2
           switch == a >= \h6000 /\ a <= \hA000 /\ Offset(a) = 0
<1>1. b \in Banks /\ IsMega(c)
  BY CartBank DEF IsMega, MegaROMs
<1>2. CASE switch /\ BitSet(v, 16)
  <2> DEFINE block == SramBlock(c, IF BitSet(v, 32) THEN 1 ELSE 0)
  <2>1. SetBank(c, CartSlot[c], b, SRAMBank, block) /\ UNCHANGED FMPACKey
    BY <1>2 DEF GMaster2
  <2>2. BankGood(c, ROMType[c], b, Unlocked, SRAMBank, block)
    BY SramBankGood
  <2> HIDE DEF b, block
  <2> QED BY <1>1, <2>1, <2>2, SetBankGood
<1>3. CASE switch /\ ~BitSet(v, 16)
  <2>1. SelectRom(c, CartSlot[c], b, v % RomPages) /\ UNCHANGED FMPACKey
    BY <1>3 DEF GMaster2
  <2> HIDE DEF b
  <2> QED BY <1>1, <2>1, SelectRomGood
<1>4. CASE ~switch /\ a >= \hB000 /\ ROMMapper[<<c, 3>>] = SRAMBank
  <2>1. StoreSRAM(c, {RAM[5]})
    BY <1>4 DEF GMaster2
  <2>2. Win(a) = 5
    <3>1. a \in Int /\ a >= \hB000 /\ a <= \hBFFF
      BY <1>4, CartAddressIs
    <3> QED BY <3>1 DEF Win
  <2>3. Win(a) - 2 = 3
    BY <2>2
  <2>4. ROMMapper[<<c, Win(a) - 2>>] = SRAMBank /\ ROMType[c] # "FMPAC"
    BY <1>4, <2>3
  <2> HIDE DEF switch, b
  <2>5. RAM[Win(a)][1] = "sram" /\ RAM[Win(a)][2] = c
    BY <1>1, <2>4, MarkedBank
  <2> DEFINE S == {RAM[5]}
  <2>6. \A block \in S : block[1] = "sram" /\ block[2] = c
    BY <2>2, <2>5
  <2>7. StoreSRAM(c, S)
    BY <2>1
  <2> HIDE DEF S
  <2> QED BY <2>6, <2>7, StoreSRAMGood
<1>5. CASE ~switch /\ ~(a >= \hB000 /\ ROMMapper[<<c, 3>>] = SRAMBank)
  BY <1>5, IgnoredGood DEF GMaster2
<1> HIDE DEF switch
<1> QED BY <1>2, <1>3, <1>4, <1>5

\* The mappers that only select pages of the ROM.
LEMMA KonamiGood ==
  ASSUME RomPages < 256, Before, NEW a \in CartAddress, NEW v \in Byte, NEW c \in Carts,
         \/ ROMType[c] = "GEN8" /\ Gen8(c, CartSlot[c], a, v)
         \/ ROMType[c] = "KONAMI5" /\ Konami5(c, CartSlot[c], a, v)
         \/ ROMType[c] = "KONAMI4" /\ Konami4(c, CartSlot[c], a, v)
  PROVE  CartsGood'
<1> DEFINE b == Win(a) - 2
<1>1. b \in Banks /\ IsMega(c) /\ ROMType[c] \notin {"FMPAC", "ASCII16"}
  BY CartBank DEF IsMega, MegaROMs
<1>2. Ignored \/ (SelectRom(c, CartSlot[c], b, v % RomPages) /\ UNCHANGED FMPACKey)
  BY DEF Gen8, Konami5, Konami4
<1> HIDE DEF b
<1> QED BY <1>1, <1>2, SelectRomGood, IgnoredGood

\* A bank register of 16kB pages of the FMPAC is written while SRAM is shown.
LEMMA FMPacKeptGood ==
  ASSUME RomPages < 256, Before, NEW c \in Carts, ROMType[c] = "FMPAC", Unlocked,
         UNCHANGED <<MemMap, FMPACKey>>, stored' = {}, NEW n, n \in 0 .. 252, n % 2 = 0, n < RomPages,
         TwoSet(c, 0, n, n + 1)
  PROVE  CartsGood'
<1>1. Unlocked'
  BY DEF Unlocked
<1>2. BanksGood'
  <2> SUFFICES ASSUME NEW d \in Carts, NEW b \in Banks
               PROVE  BankGood(d, ROMType[d], b, TRUE, ROMMapper'[<<d, b>>], MemMap[CartCell(d, b)])
    BY <1>1 DEF BanksGood, Before
  <2>1. BankGood(d, ROMType[d], b, TRUE, ROMMapper[<<d, b>>], MemMap[CartCell(d, b)])
    BY DEF Before, BanksGood
  <2>2. CASE d = c /\ b \in {0, 1}
    BY <2>1, <2>2 DEF BankGood
  <2>3. CASE ~(d = c /\ b \in {0, 1})
    <3>1. ROMMapper'[<<d, b>>] = ROMMapper[<<d, b>>]
      BY <2>3 DEF TwoSet
    <3> QED BY <2>1, <3>1
  <2> QED BY <2>2, <2>3
<1>3. 0 \in Banks /\ 1 \in Banks
  BY DEF Banks
<1>4. ROMMapper'[<<c, 0>>] = n /\ ROMMapper'[<<c, 1>>] = n + 1
  BY <1>3 DEF TwoSet
<1>5. PairGood(c, ROMType[c], ROMMapper')
  BY <1>4 DEF PairGood
<1>6. \A d \in Carts, b \in Banks : d # c => ROMMapper'[<<d, b>>] = ROMMapper[<<d, b>>]
  BY DEF TwoSet
<1>7. PairsGood'
  BY <1>5, <1>6, PairsMoved DEF Before
<1> QED BY <1>2, <1>7, NothingStored DEF CartsGood

\* The key was completed: the lower banks show SRAM.
LEMMA FMPacUnlockGood ==
  ASSUME Before, NEW c \in Carts, ROMType[c] = "FMPAC", Unlocked', NEW block,
         SetTwoBanks(c, CartSlot[c], 0, ROMMapper[<<c, 0>>], ROMMapper[<<c, 1>>], block),
         block[1] = "sram", block[2] = c
  PROVE  CartsGood'
<1> DEFINE W == {0 + 2, 0 + 3}
           blk == TwoBlocks(0, block)
           n == ROMMapper[<<c, 0>>]
           m == ROMMapper[<<c, 1>>]
<1>1. Moved(CartSlot[c], W, blk) /\ TwoSet(c, 0, n, m)
  <2>1. CartSlot[c] \in Slots /\ TypeOK
    BY CartSlotType DEF Before
  <2> HIDE DEF n, m
  <2> QED BY <2>1, SetTwoBanksMoved DEF n, m
<1>2. \A d \in Carts, e \in Banks : ROMMapper'[<<d, e>>] = ROMMapper[<<d, e>>]
  <2> TAKE d \in Carts, e \in Banks
  <2>1. ROMMapper'[<<d, e>>] = IF d = c /\ e = 0 THEN n
                               ELSE IF d = c /\ e = 0 + 1 THEN m ELSE ROMMapper[<<d, e>>]
    BY <1>1 DEF TwoSet
  <2>2. 0 + 1 = 1
    OBVIOUS
  <2> QED BY <2>1, <2>2
<1>3. Unlocked' = Unlocked \/ (ROMType[c] = "FMPAC" /\ 2 \in W /\ 3 \in W)
  OBVIOUS
<1>4. \A e \in Banks : e + 2 \in W =>
        BankGood(c, ROMType[c], e, Unlocked', ROMMapper'[<<c, e>>], blk[e + 2])
  <2> TAKE e \in Banks
  <2> HAVE e + 2 \in W
  <2>1. e < 2 /\ e + 2 \in {2, 3}
    BY DEF Banks
  <2>2. blk[e + 2][1] = "sram" /\ blk[e + 2][2] = c
    BY <2>1 DEF TwoBlocks, NextBlock
  <2> HIDE DEF blk
  <2> QED BY <2>1, <2>2 DEF BankGood
<1> HIDE DEF blk, W
<1>5. BanksGood'
  BY <1>1, <1>2, <1>3, <1>4, BanksMoved DEF Before
<1>6. PairGood(c, ROMType[c], ROMMapper')
  <2>1. PairGood(c, ROMType[c], ROMMapper)
    BY DEF Before, PairsGood
  <2>2. ROMMapper'[<<c, 0>>] = ROMMapper[<<c, 0>>] /\ ROMMapper'[<<c, 1>>] = ROMMapper[<<c, 1>>]
    <3>1. 0 \in Banks /\ 1 \in Banks
      BY DEF Banks
    <3> QED BY <1>2, <3>1
  <2> QED BY <2>1, <2>2 DEF PairGood
<1>7. PairsGood'
  BY <1>2, <1>6, PairsMoved DEF Before
<1> QED BY <1>5, <1>7, NothingStored DEF SetTwoBanks, CartsGood

LEMMA FMPacGood ==
  ASSUME RomPages < 256, Before, Coherent, NEW a \in CartAddress, NEW v \in Byte,
         NEW c \in Carts, SlotOf(a) = CartSlot[c], FMPac(c, CartSlot[c], a, v),
         ROMType[c] = "FMPAC"
  PROVE  CartsGood'
<1>0. IsMega(c)
  BY DEF IsMega, MegaROMs
<1>1. PairGood(c, ROMType[c], ROMMapper)
  BY DEF Before, PairsGood
<1> DEFINE r0 == ROMMapper[<<c, 0>>]
           r1 == ROMMapper[<<c, 1>>]
           n  == Pair(v)
<1>2. /\ n \in 0 .. 252 /\ n \in 0 .. 253 /\ n + 1 \in 0 .. 254 /\ n % 2 = 0 /\ n < RomPages
  BY PageNumbers
<1>3. <<c, 0>> \in Carts \X Banks /\ <<c, 1>> \in Carts \X Banks
  BY DEF Banks
<1>4. ROMMapper \in [Carts \X Banks -> Byte] /\ r0 \in Byte
  BY <1>3 DEF Before, TypeOK, MapType, BankRegs
<1>5. RomPages \in 8 .. 254
  BY SizeAssumption
<1>6. r0 \in 0 .. 253 /\ r0 % 2 = 0 /\ r0 < RomPages /\ r1 = r0 + 1
  BY <1>1, <1>4, <1>5 DEF PairGood, Byte
<1>7. CASE /\ Unlocked /\ UNCHANGED <<MemMap, FMPACKey>> /\ stored' = {}
           /\ ROMMapper' = [ROMMapper EXCEPT ![<<c, 0>>] = n, ![<<c, 1>>] = n + 1]
  <2> DEFINE m == n + 1
  <2>1. ROMMapper' = [ROMMapper EXCEPT ![<<c, 0>>] = n, ![<<c, 1>>] = m]
    BY <1>7
  <2> HIDE DEF m, n
  <2>2. TwoSet(c, 0, n, m)
    BY <1>3, <1>4, <2>1 DEF TwoSet
  <2>3. TwoSet(c, 0, n, n + 1)
    BY <2>2 DEF m
  <2> QED BY <1>2, <1>7, <2>3, FMPacKeptGood
<1>8. CASE ~Unlocked /\ SetTwoBanks(c, CartSlot[c], 0, n, n + 1, RomBlock(c, n))
  <2> HIDE DEF n
  <2> QED BY <1>0, <1>2, <1>8, SetPagesGood
<1>9. CASE SetTwoBanks(c, CartSlot[c], 0, r0, r1,
                       IF FMPACKey'[1] /\ FMPACKey'[2] THEN SramBlock(c, 0) ELSE RomBlock(c, r0))
  <2>1. CASE Unlocked'
    <3> DEFINE block == SramBlock(c, 0)
    <3>1. SetTwoBanks(c, CartSlot[c], 0, r0, r1, block)
      BY <1>9, <2>1 DEF Unlocked
    <3>2. block[1] = "sram" /\ block[2] = c
      BY DEF SramBlock
    <3> HIDE DEF block
    <3> QED BY <2>1, <3>1, <3>2, FMPacUnlockGood
  <2>2. CASE ~Unlocked'
    <3>1. SetTwoBanks(c, CartSlot[c], 0, r0, r0 + 1, RomBlock(c, r0))
      BY <1>6, <1>9, <2>2 DEF Unlocked
    <3> HIDE DEF r0
    <3> QED BY <1>0, <1>6, <3>1, SetPagesGood
  <2> QED BY <2>1, <2>2
<1>10. CASE a < \h5FFE /\ Unlocked /\ StoreSRAM(c, {RAM[Win(a)]})
  <2>1. BankGood(c, ROMType[c], Win(a) - 2, Unlocked, ROMMapper[<<c, Win(a) - 2>>], RAM[Win(a)])
    BY BankWindow DEF Before, BanksGood
  <2>2. RAM[Win(a)][1] \in {"rom", "sram"} /\ RAM[Win(a)][2] = c
    BY <2>1 DEF BankGood, MegaROMs
  <2> DEFINE S == {RAM[Win(a)]}
  <2>3. \A block \in S : /\ block[1] = "rom" => ROMType[block[2]] = "FMPAC"
                         /\ block[1] = "sram" => block[2] = c
    BY <2>2
  <2>4. StoreSRAM(c, S)
    BY <1>10
  <2> HIDE DEF S
  <2> QED BY <2>3, <2>4, StoreSRAMGood
<1>11. CASE Ignored
  BY <1>11, IgnoredGood
<1> QED BY <1>7, <1>8, <1>9, <1>10, <1>11 DEF FMPac

\* A cartridge is reached only through the slot its banks are mapped in.
LEMMA CartReached ==
  ASSUME TypeOK, SlotsCurrent(PSLReg, SSLReg, PSL, SSL, ppiA, ppiIn), NoSubslots(SSLReg),
         NEW a \in Address, CartMap[SlotOf(a)] \in Carts
  PROVE  SlotOf(a) = CartSlot[CartMap[SlotOf(a)]]
<1> DEFINE j == PageOf(a)
           p == PSL[j]
           s == SSL[j]
<1>1. j \in Pages
  BY WinType, PageType DEF PageOf
<1>2. p \in Pages /\ s \in Pages
  BY <1>1 DEF TypeOK, SlotsType
<1>3. p = Field(PSLReg, j) /\ s = Field(SSLReg[Field(PSLReg, j)], j)
  <2>1. <<p, s>> = SlotBy(PSLReg, SSLReg, j)
    BY <1>1 DEF SlotsCurrent
  <2> HIDE DEF p, s, j
  <2> QED BY <2>1 DEF SlotBy
<1>4. p \in {1, 2} => s = 0
  <2>1. p \in {1, 2} => s = Field(0, j)
    BY <1>3 DEF NoSubslots
  <2> HIDE DEF p, s, j
  <2> QED BY <1>1, <2>1, FieldZero
<1>5. SlotOf(a) = <<p, s>>
  BY DEF SlotOf
<1> HIDE DEF p, s, j
<1>6. CartMap[<<p, s>>] \in Carts => <<p, s>> = CartSlot[CartMap[<<p, s>>]]
  <2>1. p = 1 \/ p = 2 => CartMap[<<p, s>>] = p - 1
    BY <1>2 DEF CartMap, Slots, Pages
  <2>2. p = 3 => CartMap[<<p, s>>] \in {2, 255} /\ (CartMap[<<p, s>>] = 2 => s = 0)
    BY <1>2 DEF CartMap, Slots, Pages
  <2>3. p = 0 => CartMap[<<p, s>>] = IF s = 0 THEN 255 ELSE s + 2
    BY <1>2 DEF CartMap, Slots, Pages
  <2>4. /\ CartSlot[0] = <<1, 0>> /\ CartSlot[1] = <<2, 0>> /\ CartSlot[2] = <<3, 0>>
        /\ CartSlot[3] = <<0, 1>> /\ CartSlot[4] = <<0, 2>> /\ CartSlot[5] = <<0, 3>>
    BY DEF CartSlot, Carts
  <2>5. p \in {0, 1, 2, 3} /\ s \in {0, 1, 2, 3}
    BY <1>2 DEF Pages
  <2> SUFFICES ASSUME CartMap[<<p, s>>] \in Carts
               PROVE  <<p, s>> = CartSlot[CartMap[<<p, s>>]]
    OBVIOUS
  <2>6. CASE p = 1 \/ p = 2
    BY <1>4, <2>1, <2>4, <2>6
  <2>7. CASE p = 3
    BY <2>2, <2>4, <2>7 DEF Carts
  <2>8. CASE p = 0
    BY <2>3, <2>4, <2>5, <2>8 DEF Carts
  <2> QED BY <2>5, <2>6, <2>7, <2>8
<1> QED BY <1>5, <1>6

LEMMA MapperGood ==
  ASSUME RomPages < 256, Before, Coherent, NEW a \in CartAddress, NEW v \in Byte,
         NEW c \in Carts, SlotOf(a) = CartSlot[c], Mapper(c, CartSlot[c], a, v)
  PROVE  CartsGood'
BY KonamiGood, Gen16Good, Ascii8Good, Ascii16Good, GMaster2Good, FMPacGood DEF Mapper

LEMMA SccCartGood ==
  ASSUME Before, Coherent, NEW a \in CartAddress, NEW v \in Byte,
         NEW c \in Carts, SlotOf(a) = CartSlot[c], IsEmpty(c), SccCart(c, CartSlot[c], a, v)
  PROVE  CartsGood'
<1> DEFINE b == Win(a) - 2
           n == v % 16
<1>1. UNCHANGED FMPACKey
  BY DEF SccCart
<1>2. CASE Stores({})
  BY <1>1, <1>2, StoresGood
<1>3. CASE Stores({RAM[Win(a)]})
  <2>1. BankGood(c, ROMType[c], b, Unlocked, ROMMapper[<<c, b>>], RAM[Win(a)])
    BY BankWindow DEF Before, BanksGood
  <2>2. RAM[Win(a)][1] \notin {"rom", "sram"}
    BY <2>1 DEF BankGood, IsEmpty
  <2> DEFINE S == {RAM[Win(a)]}
  <2>3. \A block \in S : block[1] # "rom" /\ block[1] # "sram"
    BY <2>2
  <2>4. Stores(S)
    BY <1>3
  <2> HIDE DEF S
  <2> QED BY <1>1, <2>3, <2>4, StoresGood
<1>4. CASE SelectPage(c, CartSlot[c], b, n, SccRam(n))
  <2> DEFINE block == SccRam(n)
  <2>1. b \in Banks
    BY CartBank
  <2>2. BankGood(c, ROMType[c], b, Unlocked, n, block)
    BY DEF BankGood, SccRam, IsEmpty, MegaROMs
  <2>3. ROMType[c] \notin {"FMPAC", "ASCII16"}
    BY DEF IsEmpty
  <2>4. Stores({}) \/ SetBank(c, CartSlot[c], b, n, block)
    BY <1>4 DEF SelectPage
  <2> HIDE DEF b, n, block
  <2> QED BY <1>1, <1>2, <2>1, <2>2, <2>3, <2>4, SetBankGood
<1> QED BY <1>2, <1>3, <1>4 DEF SccCart

LEMMA SccRegsGood ==
  ASSUME Before, NEW a, NEW c \in Carts, SccRegs(c, a)
  PROVE  CartsGood'
<1>1. PICK S \in SUBSET {ToSCC, EmptyRAM} : Stores(S)
  BY DEF SccRegs
<1>2. \A block \in S : block[1] # "rom" /\ block[1] # "sram"
  BY DEF ToSCC, EmptyRAM
<1>3. UNCHANGED FMPACKey
  BY DEF SccRegs
<1> QED BY <1>1, <1>2, <1>3, StoresGood

LEMMA MapROMGood ==
  ASSUME RomPages < 256, Before, Coherent, NoSubslots(SSLReg),
         SlotsCurrent(PSLReg, SSLReg, PSL, SSL, ppiA, ppiIn),
         NEW a \in CartAddress, a \in Address, NEW v \in Byte, MapROM(a, v)
  PROVE  CartsGood'
<1> DEFINE slot == SlotOf(a)
           c    == CartMap[slot]
<1>1. c \in Carts => slot = CartSlot[c]
  BY CartReached DEF Before
<1>2. CASE Ignored
  BY <1>2, IgnoredGood
<1>3. CASE c \in Carts /\ IsEmpty(c) /\ SccCart(c, slot, a, v)
  <2> HIDE DEF c
  <2> QED BY <1>1, <1>3, SccCartGood
<1>4. CASE c \in Carts /\ SccRegs(c, a)
  <2> HIDE DEF c
  <2> QED BY <1>4, SccRegsGood
<1>5. CASE c \in Carts /\ Mapper(c, slot, a, v)
  <2> HIDE DEF c
  <2> QED BY <1>1, <1>5, MapperGood
<1> QED BY <1>2, <1>3, <1>4, <1>5 DEF MapROM, InSccCart

LEMMA WrZ80Banks ==
  ASSUME RomPages < 256, TypeOK, IInv, BanksInv, NEW a \in Address, a # \hFFFF,
         NEW v \in Byte, WrZ80(a, v)
  PROVE  BanksInv'
<1>1. UNCHANGED <<slotVars, ROMType, saved>>
  BY DEF WrZ80, saveVars
<1>2. Before /\ Coherent /\ NoSubslots(SSLReg)
      /\ SlotsCurrent(PSLReg, SSLReg, PSL, SSL, ppiA, ppiIn)
  BY <1>1 DEF Before, BanksInv, IInv
<1>3. ASSUME Stores({ToFDC}) /\ UNCHANGED FMPACKey
      PROVE  CartsGood'
  <2> DEFINE S == {ToFDC}
  <2>1. Stores(S) /\ \A block \in S : block[1] # "rom" /\ block[1] # "sram"
    BY <1>3 DEF ToFDC
  <2> HIDE DEF S
  <2> QED BY <1>2, <1>3, <2>1, StoresGood
<1>4. ASSUME EnWrite[PageOf(a)] /\ Stores({RAM[Win(a)]}) /\ UNCHANGED FMPACKey
      PROVE  CartsGood'
  <2>1. Win(a) \in Windows /\ PageOf(a) \in Pages
    BY WinType, PageType DEF PageOf
  <2>2. PSL[Win(a) \div 2] = 3 /\ SSL[Win(a) \div 2] = 2
    BY <1>4, <2>1 DEF IInv, EnWriteCurrent, PageOf
  <2>3. RAM[Win(a)] = MemMap[<<3, 2, Win(a)>>]
    BY <2>1, <2>2 DEF IInv, Coherent
  <2>4. RAM[Win(a)][1] = "ram"
    BY <2>1, <2>3 DEF IInv, MapperCurrent, RamBlock
  <2> DEFINE S == {RAM[Win(a)]}
  <2>5. Stores(S) /\ \A block \in S : block[1] # "rom" /\ block[1] # "sram"
    BY <1>4, <2>4
  <2> HIDE DEF S
  <2> QED BY <1>2, <1>4, <2>5, StoresGood
<1>5. ASSUME a \in CartAddress /\ MapROM(a, v)
      PROVE  CartsGood'
  BY <1>2, <1>5, MapROMGood
<1>6. ASSUME Ignored
      PROVE  CartsGood'
  BY <1>2, <1>6, IgnoredGood
<1>7. CartsGood'
  BY <1>3, <1>4, <1>5, <1>6 DEF WrZ80
<1> QED BY <1>1, <1>7 DEF CartsGood, BanksInv, slotVars, SavedBanks, NoSubslots, OneFMPAC

\* The pages that a reset puts in the banks.
LEMMA ResetBanks ==
  ASSUME RomPages < 256, NEW bank, NEW c \in Carts
  PROVE  /\ \A b \in Banks : IsMega(c) => ResetROMMapper(bank)[<<c, b>>] \in 0 .. 254
         /\ PairGood(c, ROMType[c], ResetROMMapper(bank))
<1>1. RomPages \in 8 .. 254 /\ RomPages % 2 = 0
  BY SizeAssumption
<1>2. \A b \in Banks : ResetROMMapper(bank)[<<c, b>>] = IF IsMega(c) THEN ResetBank(c, b) ELSE bank[<<c, b>>]
  BY DEF ResetROMMapper
<1>3. \A b \in Banks : ResetBank(c, b) \in 0 .. 254
  BY <1>1 DEF ResetBank, Banks
<1>4. 0 \in Banks /\ 1 \in Banks /\ 2 \in Banks /\ 3 \in Banks
  BY DEF Banks
<1>5. /\ ResetBank(c, 0) % 2 = 0 /\ ResetBank(c, 0) < RomPages /\ ResetBank(c, 1) = ResetBank(c, 0) + 1
      /\ ResetBank(c, 3) = Or1(ResetBank(c, 2))
  BY <1>1 DEF ResetBank, Or1
<1>6. ROMType[c] \in {"FMPAC", "ASCII16"} => IsMega(c)
  BY DEF IsMega, MegaROMs
<1>7. PairGood(c, ROMType[c], ResetROMMapper(bank))
  BY <1>2, <1>4, <1>5, <1>6 DEF PairGood
<1> QED BY <1>2, <1>3, <1>7

\* The slots of the cartridges hold nothing of the system.
LEMMA SystemCells ==
  ASSUME NEW c \in Carts, NEW b \in Banks, IsEmpty(c)
  PROVE  SystemMap[CartCell(c, b)] = EmptyRAM
<1>1. CartCell(c, b) \in Cells /\ <<CartCell(c, b)[1], CartCell(c, b)[2]>> = CartSlot[c]
  BY CellFacts
<1>2. CartSlot[c] # <<0, 0>> /\ CartSlot[c] # <<3, 1>>
  BY DEF CartSlot, Carts
<1>3. CartMap[CartSlot[c]] = c
  BY CartSlotType
<1>4. SystemBlock(CartSlot[c], CartCell(c, b)[3]) = EmptyRAM
  BY <1>2, <1>3 DEF SystemBlock, IsEmpty
<1> QED BY <1>1, <1>4 DEF SystemMap

LEMMA InitBanks ==
  ASSUME RomPages < 256, \A p \in Programs : OneFMPAC(p.carts), Init
  PROVE  BanksInv
<1> DEFINE zero == [x \in Carts \X Banks |-> 0]
<1>1. ROMMapper = ResetROMMapper(zero) /\ MemMap = Remapped(SystemMap, RAMMapper, ROMMapper)
  BY DEF Init
<1>2. OneFMPAC(ROMType)
  BY DEF Init
<1> HIDE DEF zero
<1>3. ASSUME NEW c \in Carts, NEW b \in Banks
      PROVE  BankGood(c, ROMType[c], b, Unlocked, ROMMapper[<<c, b>>], MemMap[CartCell(c, b)])
  <2>1. MemMap[CartCell(c, b)]
          = IF IsMega(c) THEN RomBlock(c, ROMMapper[<<c, b>>]) ELSE SystemMap[CartCell(c, b)]
    BY <1>1, RemappedBanks
  <2>2. CASE IsMega(c)
    <3>1. ROMMapper[<<c, b>>] \in 0 .. 254
      BY <1>1, <2>2, ResetBanks
    <3> QED BY <2>1, <2>2, <3>1, RomBank, MegaType
  <2>3. CASE IsEmpty(c)
    <3>1. MemMap[CartCell(c, b)] = EmptyRAM
      BY <2>1, <2>3, SystemCells DEF IsMega, IsEmpty, MegaROMs
    <3> QED BY <2>3, <3>1 DEF BankGood, EmptyRAM, IsEmpty, MegaROMs
  <2>4. CASE ~IsMega(c) /\ ~IsEmpty(c)
    BY <2>4 DEF BankGood, IsMega, IsEmpty
  <2> QED BY <2>2, <2>3, <2>4
<1>4. PairsGood
  BY <1>1, ResetBanks DEF PairsGood
<1>5. LandsRight /\ NoSubslots(SSLReg) /\ SavedBanks
  BY DEF Init, LandsRight, RomNeverStored, SRAMStoreIsSaved, NoSubslots, SavedBanks, Pages
<1> QED BY <1>2, <1>3, <1>4, <1>5 DEF BanksInv, BanksGood

\* A reset, over any memory that has nothing where the empty slots are.
LEMMA ResetOverBanks ==
  ASSUME RomPages < 256, BanksInv, UNCHANGED <<ROMType, saved>>, NEW map, NEW bank,
         ResetOver(map, bank),
         \A c \in Carts, b \in Banks : IsEmpty(c) => map[CartCell(c, b)][1] \notin {"rom", "sram"}
  PROVE  BanksInv'
<1> DEFINE new == ResetROMMapper(bank)
<1>1. /\ ROMMapper' = new /\ MemMap' = Remapped(map, RAMMapper', new)
      /\ stored' = {} /\ SSLReg' = [p \in Pages |-> 0]
  BY DEF ResetOver
<1>2. \A c \in Carts : /\ PairGood(c, ROMType[c], new)
                       /\ \A b \in Banks : IsMega(c) => new[<<c, b>>] \in 0 .. 254
  BY ResetBanks
<1> HIDE DEF new
<1>3. BanksGood'
  <2> DEFINE ram == RAMMapper'
  <2>1. MemMap' = Remapped(map, ram, new)
    BY <1>1
  <2> HIDE DEF ram
  <2> QED BY <1>1, <1>2, <2>1, RemappedGood
<1>4. PairsGood'
  BY <1>1, <1>2 DEF PairsGood
<1>5. NoSubslots(SSLReg')
  BY <1>1 DEF NoSubslots, Pages
<1> QED BY <1>1, <1>3, <1>4, <1>5, NothingStored DEF BanksInv, SavedBanks, OneFMPAC

LEMMA ResetStep ==
  ASSUME RomPages < 256, BanksInv, Reset
  PROVE  BanksInv'
<1>1. ResetOver(MemMap, ROMMapper) /\ UNCHANGED <<ROMType, saved>>
  BY DEF Reset, saveVars
<1>2. \A c \in Carts, b \in Banks : IsEmpty(c) => MemMap[CartCell(c, b)][1] \notin {"rom", "sram"}
  BY DEF BanksInv, BanksGood, BankGood, IsEmpty
<1> QED BY <1>1, <1>2, ResetOverBanks

LEMMA RestartStep ==
  ASSUME RomPages < 256, BanksInv, Restart
  PROVE  BanksInv'
<1>1. PICK bank : ResetOver(SystemMap, bank)
  BY DEF Restart
<1>2. UNCHANGED <<ROMType, saved>>
  BY DEF Restart, saveVars
<1>3. \A c \in Carts, b \in Banks : IsEmpty(c) => SystemMap[CartCell(c, b)][1] \notin {"rom", "sram"}
  BY SystemCells DEF EmptyRAM
<1> QED BY <1>1, <1>2, <1>3, ResetOverBanks

\* What a step that leaves the cartridges alone has to show.
LEMMA SameBanks ==
  ASSUME BanksInv, UNCHANGED <<ROMMapper, ROMType, FMPACKey>>, stored' = {},
         \A c \in Carts, b \in Banks : MemMap'[CartCell(c, b)] = MemMap[CartCell(c, b)],
         NoSubslots(SSLReg'), SavedBanks'
  PROVE  BanksInv'
<1>1. Unlocked' = Unlocked
  BY DEF Unlocked
<1>2. BanksGood' /\ PairsGood'
  BY <1>1 DEF BanksInv, BanksGood, PairsGood
<1> QED BY <1>2, NothingStored DEF BanksInv, OneFMPAC

LEMMA SlotBanks ==
  ASSUME TypeOK, BanksInv, NEW v,
         OutSlot(v) \/ OutPPIMode(v) \/ SSlot(v)
  PROVE  BanksInv'
<1>1. /\ UNCHANGED <<ROMMapper, ROMType, FMPACKey, MemMap, saved>> /\ stored' = {}
  BY DEF OutSlot, OutPPIMode, SSlot, saveVars
<1>2. NoSubslots(SSLReg')
  <2>1. CASE UNCHANGED SSLReg
    BY <2>1 DEF BanksInv
  <2>2. CASE SSlot(v)
    <3> DEFINE p == PSL[3]
               r == Subslots(p, v)
    <3>1. p \in Pages /\ SSLReg \in [Pages -> Byte]
      BY DEF TypeOK, SlotsType, Pages
    <3>2. SSLReg' = [SSLReg EXCEPT ![p] = r]
      BY <2>2 DEF SSlot
    <3>3. p \in {1, 2} => r = 0
      BY DEF Subslots
    <3> HIDE DEF p, r
    <3>4. SSLReg[1] = 0 /\ SSLReg[2] = 0
      BY DEF BanksInv, NoSubslots
    <3> QED BY <3>1, <3>2, <3>3, <3>4 DEF NoSubslots, Pages
  <2> QED BY <2>1, <2>2 DEF OutSlot, OutPPIMode
<1>3. SavedBanks'
  BY <1>1 DEF BanksInv, SavedBanks
<1> QED BY <1>1, <1>2, <1>3, SameBanks

LEMMA OutMapperBanks ==
  ASSUME TypeOK, BanksInv, NEW j \in Pages, NEW byte, OutMapper(j, byte)
  PROVE  BanksInv'
<1>1. /\ UNCHANGED <<ROMMapper, ROMType, FMPACKey, SSLReg, saved>> /\ stored' = {}
  BY DEF OutMapper, saveVars
<1>2. ASSUME NEW c \in Carts, NEW b \in Banks
      PROVE  MemMap'[CartCell(c, b)] = MemMap[CartCell(c, b)]
  <2> DEFINE x == CartCell(c, b)
             seg == byte % RamSegs
  <2>1. x \in Cells /\ <<x[1], x[2]>> # <<3, 2>>
    BY CellFacts
  <2>2. x # <<3, 2, 2 * j>> /\ x # <<3, 2, 2 * j + 1>>
    BY <2>1
  <2>3. MemMap \in [Cells -> Block]
    BY DEF TypeOK, MapType
  <2>4. \/ MemMap' = MemMap
        \/ MemMap' = [MemMap EXCEPT ![<<3, 2, 2 * j>>] = RamBlock(seg, 0),
                                    ![<<3, 2, 2 * j + 1>>] = RamBlock(seg, 1)]
    BY DEF OutMapper
  <2> HIDE DEF x
  <2>5. MemMap'[x] = MemMap[x]
    BY <2>1, <2>2, <2>3, <2>4
  <2> QED BY <2>5 DEF x
<1>3. SavedBanks' /\ NoSubslots(SSLReg')
  BY <1>1 DEF BanksInv, SavedBanks
<1> QED BY <1>1, <1>2, <1>3, SameBanks

LEMMA SaveStateBanks ==
  ASSUME BanksInv, NEW most, SaveState(most)
  PROVE  BanksInv'
<1>1. /\ UNCHANGED <<ROMMapper, ROMType, FMPACKey, MemMap, SSLReg>> /\ stored' = {}
  BY DEF SaveState, slotVars
<1>2. saved'.SSLReg = SSLReg /\ saved'.ROMMapper = ROMMapper
  BY DEF SaveState
<1>3. SavedBanks'
  BY <1>1, <1>2 DEF SavedBanks, BanksInv, PairsGood, PairGood
<1>4. NoSubslots(SSLReg')
  BY <1>1 DEF BanksInv
<1> QED BY <1>1, <1>3, <1>4, SameBanks

LEMMA Remainder ==
  ASSUME NEW m \in Nat \ {0}, NEW q \in Nat, NEW s \in Nat, s < m
  PROVE  (m * q + s) % m = s
  BY SMTT(60)

\* RomPages is even, so a mask keeps the lowest bit of a page number.
LEMMA MaskKeepsBit ==
  ASSUME NEW v \in Byte
  PROVE  /\ v % RomPages \in 0 .. RomPages - 1
         /\ Or1(v) % RomPages = Or1(v % RomPages)
         /\ v % 2 = 0 => (v % RomPages) % 2 = 0 /\ Or1(v) % RomPages = (v % RomPages) + 1
<1>1. RomPages \in 8 .. 256 /\ RomPages % 2 = 0
  BY SizeAssumption
<1> DEFINE q == v \div RomPages
           r == v % RomPages
           h == RomPages \div 2
           k == h * q
<1>2. h \in 4 .. 128 /\ RomPages = 2 * h
  BY <1>1
<1>3. r \in 0 .. RomPages - 1 /\ q \in Nat /\ v = RomPages * q + r
  BY <1>1 DEF Byte
<1>4. k \in Nat /\ v = 2 * k + r
  BY <1>2, <1>3
<1> HIDE DEF q, r, h
<1>5. RomPages * q = 2 * k
  BY <1>2, <1>3, <1>4
<1>6. \A s \in 0 .. RomPages - 1 : (RomPages * q + s) % RomPages = s
  <2> SUFFICES ASSUME NEW s \in 0 .. RomPages - 1
               PROVE  (RomPages * q + s) % RomPages = s
    OBVIOUS
  <2>1. RomPages \in Nat \ {0} /\ q \in Nat /\ s \in Nat /\ s < RomPages
    BY <1>1, <1>3
  <2> QED BY <2>1, Remainder
<1> HIDE DEF k
<1>7. v % 2 = r % 2
  BY <1>3, <1>4
<1>8. CASE r % 2 = 0
  <2>1. r + 1 \in 0 .. RomPages - 1
    BY <1>2, <1>3, <1>8
  <2>2. Or1(v) = RomPages * q + (r + 1)
    BY <1>3, <1>4, <1>5, <1>7, <1>8 DEF Or1
  <2>3. Or1(v) % RomPages = r + 1
    BY <1>6, <2>1, <2>2
  <2> QED BY <1>3, <1>8, <2>3 DEF r, Or1
<1>9. CASE r % 2 # 0
  <2>1. Or1(v) = v
    BY <1>7, <1>9 DEF Or1
  <2> QED BY <1>3, <1>7, <1>9, <2>1 DEF r, Or1
<1> QED BY <1>3, <1>8, <1>9

LEMMA LoadStateBanks ==
  ASSUME RomPages < 256, TypeOK, BanksInv, LoadState
  PROVE  BanksInv'
<1> DEFINE old == saved.ROMMapper
           bank == Masked(Corrected(old))
<1>1. saved # NoState /\ saved \in Registers
  BY DEF LoadState, TypeOK, SavedType
<1>2. old \in BankRegs
  BY <1>1 DEF Registers
<1>3. /\ ROMMapper' = bank /\ MemMap' = Remapped(MemMap, RAMMapper', bank)
      /\ stored' = {} /\ UNCHANGED <<ROMType, saved>> /\ SSLReg' = saved.SSLReg
  BY DEF LoadState, saveVars
<1>4. RomPages \in 8 .. 254
  BY SizeAssumption
<1>5. Corrected(old) \in BankRegs
  <2> SUFFICES ASSUME NEW x \in Carts \X Banks
               PROVE  Corrected(old)[x] \in Byte
    BY DEF Corrected, BankRegs
  <2>1. CASE Corrected(old)[x] = old[x]
    BY <1>2, <2>1 DEF BankRegs
  <2>2. CASE x[2] \in {1, 3} /\ Corrected(old)[x] = Or1(old[<<x[1], x[2] - 1>>])
    <3>1. <<x[1], x[2] - 1>> \in Carts \X Banks
      BY <2>2 DEF Banks
    <3>2. old[<<x[1], x[2] - 1>>] \in Byte
      BY <1>2, <3>1 DEF BankRegs
    <3> QED BY <2>2, <3>2, Or1Type
  <2> QED BY <2>1, <2>2 DEF Corrected
<1>6. ASSUME NEW c \in Carts, NEW b \in Banks
      PROVE  /\ Corrected(old)[<<c, b>>] \in Byte
             /\ bank[<<c, b>>] = IF IsMega(c) THEN Corrected(old)[<<c, b>>] % RomPages
                                              ELSE Corrected(old)[<<c, b>>]
  BY <1>5 DEF Masked, BankRegs
<1>7. ASSUME NEW c \in Carts, NEW b \in Banks, IsMega(c)
      PROVE  bank[<<c, b>>] \in 0 .. 254
  BY <1>4, <1>6, <1>7, MaskKeepsBit
<1>8. ASSUME NEW c \in Carts
      PROVE  PairGood(c, ROMType[c], bank)
  <2>1. 0 \in Banks /\ 1 \in Banks /\ 2 \in Banks /\ 3 \in Banks
    BY DEF Banks
  <2>2. old[<<c, 0>>] \in Byte /\ old[<<c, 2>>] \in Byte
    BY <1>2, <2>1 DEF BankRegs
  <2>3. CASE ROMType[c] = "FMPAC"
    <3>1. IsMega(c)
      BY <2>3 DEF IsMega, MegaROMs
    <3>2. Corrected(old)[<<c, 0>>] = old[<<c, 0>>]
      BY <2>1, <2>3 DEF Corrected
    <3>3. Corrected(old)[<<c, 1>>] = Or1(old[<<c, 0>>])
      BY <2>1, <2>3 DEF Corrected
    <3>4. old[<<c, 0>>] % 2 = 0
      BY <1>1, <2>3 DEF BanksInv, SavedBanks
    <3> HIDE DEF old, bank
    <3>5. bank[<<c, 0>>] = old[<<c, 0>>] % RomPages /\ bank[<<c, 1>>] = Or1(old[<<c, 0>>]) % RomPages
      BY <1>6, <2>1, <3>1, <3>2, <3>3
    <3>6. /\ old[<<c, 0>>] % RomPages \in 0 .. RomPages - 1
          /\ (old[<<c, 0>>] % RomPages) % 2 = 0
          /\ Or1(old[<<c, 0>>]) % RomPages = (old[<<c, 0>>] % RomPages) + 1
      BY <2>2, <3>4, MaskKeepsBit
    <3>7. bank[<<c, 0>>] % 2 = 0 /\ bank[<<c, 0>>] < RomPages /\ bank[<<c, 1>>] = bank[<<c, 0>>] + 1
      BY <1>4, <3>5, <3>6
    <3> QED BY <2>3, <3>7 DEF PairGood
  <2>4. CASE ROMType[c] = "ASCII16"
    <3>1. IsMega(c)
      BY <2>4 DEF IsMega, MegaROMs
    <3>2. Corrected(old)[<<c, 2>>] = old[<<c, 2>>]
      BY <2>1, <2>4 DEF Corrected
    <3>3. Corrected(old)[<<c, 3>>] = Or1(old[<<c, 2>>])
      BY <2>1, <2>4 DEF Corrected
    <3> HIDE DEF old, bank
    <3>4. bank[<<c, 2>>] = old[<<c, 2>>] % RomPages /\ bank[<<c, 3>>] = Or1(old[<<c, 2>>]) % RomPages
      BY <1>6, <2>1, <3>1, <3>2, <3>3
    <3>5. bank[<<c, 3>>] = Or1(bank[<<c, 2>>])
      BY <2>2, <3>4, MaskKeepsBit
    <3> QED BY <2>4, <3>5 DEF PairGood
  <2> QED BY <2>3, <2>4 DEF PairGood
<1>9. \A c \in Carts, b \in Banks : IsEmpty(c) => MemMap[CartCell(c, b)][1] \notin {"rom", "sram"}
  BY DEF BanksInv, BanksGood, BankGood, IsEmpty
<1> HIDE DEF bank
<1>10. BanksGood'
  <2> DEFINE ram == RAMMapper'
  <2>1. MemMap' = Remapped(MemMap, ram, bank)
    BY <1>3
  <2> HIDE DEF ram
  <2> QED BY <1>3, <1>7, <1>9, <2>1, RemappedGood
<1>11. PairsGood'
  BY <1>3, <1>8 DEF PairsGood
<1>12. NoSubslots(SSLReg') /\ SavedBanks'
  BY <1>1, <1>3 DEF BanksInv, SavedBanks
<1> QED BY <1>3, <1>10, <1>11, <1>12, NothingStored DEF BanksInv, OneFMPAC

LEMMA BanksStep ==
  ASSUME RomPages < 256, TypeOK, IInv, BanksInv, [Next]_vars
  PROVE  BanksInv'
<1>1. CASE Reset
  BY <1>1, ResetStep
<1>2. CASE Restart
  BY <1>2, RestartStep
<1>3. ASSUME NEW v \in Byte, OutSlot(v) \/ WrZ80(\hFFFF, v)
      PROVE  BanksInv'
  <2>1. OutSlot(v) \/ SSlot(v)
    BY <1>3 DEF WrZ80
  <2> QED BY <2>1, SlotBanks
<1>4. ASSUME NEW in \in BOOLEAN, OutPPIMode(in)
      PROVE  BanksInv'
  BY <1>4, SlotBanks
<1>5. ASSUME NEW j \in Pages, NEW byte \in Byte, OutMapper(j, byte)
      PROVE  BanksInv'
  BY <1>5, OutMapperBanks
<1>6. ASSUME NEW a \in Address \ {\hFFFF}, NEW v \in Byte, WrZ80(a, v)
      PROVE  BanksInv'
  <2>1. a # \hFFFF
    OBVIOUS
  <2> QED BY <1>6, <2>1, WrZ80Banks
<1>7. ASSUME NEW most \in Nat, SaveState(most)
      PROVE  BanksInv'
  BY <1>7, SaveStateBanks
<1>8. CASE LoadState
  BY <1>8, LoadStateBanks
<1>9. CASE UNCHANGED vars
  <2>1. UNCHANGED <<ROMMapper, ROMType, FMPACKey, MemMap, SSLReg, saved, stored>>
    BY <1>9 DEF vars, slotVars, saveVars
  <2>2. Unlocked' = Unlocked /\ (SaveSRAM' = SaveSRAM)
    BY <1>9, <2>1 DEF Unlocked, vars
  <2> QED BY <2>1, <2>2 DEF BanksInv, BanksGood, PairsGood, LandsRight, RomNeverStored,
                            SRAMStoreIsSaved, SavedBanks, OneFMPAC
<1> QED BY <1>1, <1>2, <1>3, <1>4, <1>5, <1>6, <1>7, <1>8, <1>9, AnyProgram

(***************************************************************************)
(* The blocks.  Every cell of MemMap holds one that exists, whatever bytes *)
(* the program stores: handlers mask page numbers, and the FMPAC, which    *)
(* shows again what its registers name, has a pair of pages in them.       *)
(***************************************************************************)
AllExist == \A x \in Cells : Exists(MemMap[x])

LEMMA BlockCounts ==
  /\ Blocks["ram"] = 2 * RamSegs /\ Blocks["rom"] = RomPages /\ Blocks["sram"] = 2
  /\ Blocks["scci"] = 16 /\ Blocks["bios"] = 4 /\ Blocks["disk"] = 4
  /\ Blocks["ext"] = 2 /\ Blocks["empty"] = 1
BY DEF Blocks, Kinds

LEMMA ThereAre ==
  /\ Exists(EmptyRAM)
  /\ \A seg \in 0 .. RamSegs - 1, h \in 0 .. 1 : Exists(RamBlock(seg, h))
  /\ \A c \in Carts, n \in Nat : n < RomPages => Exists(RomBlock(c, n))
  /\ \A c \in Carts, h \in 0 .. 1 : Exists(SramBlock(c, h))
  /\ \A n \in Nat : n < 16 => Exists(SccRam(n))
BY BlockCounts, SizeAssumption DEF Exists, EmptyRAM, RamBlock, RomBlock, SramBlock, SccRam

LEMMA SecondHalves ==
  ASSUME NEW c \in Carts, NEW n \in Nat
  PROVE  /\ NextBlock(RomBlock(c, n)) = RomBlock(c, n + 1)
         /\ NextBlock(SramBlock(c, 0)) = SramBlock(c, 1)
BY DEF NextBlock, RomBlock, SramBlock

LEMMA PagesExist ==
  ASSUME NEW v \in Byte, NEW c \in Carts
  PROVE  /\ Exists(RomBlock(c, v % RomPages))
         /\ Pair(v) \in Nat /\ Pair(v) + 1 < RomPages
         /\ Exists(RomBlock(c, Pair(v))) /\ Exists(NextBlock(RomBlock(c, Pair(v))))
<1> DEFINE half == RomPages \div 2
           k == v % half
           n == v % RomPages
           m == 2 * k
<1>1. half \in 4 .. 128 /\ RomPages = 2 * half
  BY SizeAssumption
<1>2. n \in Nat /\ n < RomPages
  BY SizeAssumption DEF Byte
<1>3. Pair(v) = m
  BY DEF Pair
<1> HIDE DEF half
<1>4. k \in 0 .. half - 1
  BY <1>1 DEF Byte
<1> HIDE DEF k
<1>5. m \in Nat /\ m + 1 \in Nat /\ m + 1 < RomPages /\ m < RomPages
  BY <1>1, <1>4
<1> HIDE DEF m, n
<1>6. Exists(RomBlock(c, n)) /\ Exists(RomBlock(c, m)) /\ Exists(RomBlock(c, m + 1))
  BY <1>2, <1>5, ThereAre
<1>7. NextBlock(RomBlock(c, m)) = RomBlock(c, m + 1)
  BY <1>5, SecondHalves
<1> QED BY <1>3, <1>5, <1>6, <1>7 DEF n

LEMMA MovedExists ==
  ASSUME AllExist, NEW slot, NEW W, NEW blk, Moved(slot, W, blk), \A w \in W : Exists(blk[w])
  PROVE  AllExist'
<1> SUFFICES ASSUME NEW x \in Cells PROVE Exists(MemMap'[x])
  BY DEF AllExist, Exists
<1> QED BY DEF Moved, AllExist

LEMMA SetBankExists ==
  ASSUME TypeOK, AllExist, NEW slot \in Slots, NEW c \in Carts, NEW b \in Banks, NEW n, NEW block,
         SetBank(c, slot, b, n, block), Exists(block)
  PROVE  AllExist'
<1>1. Moved(slot, {b + 2}, OneBlock(b, block))
  BY SetBankMoved
<1>2. \A w \in {b + 2} : Exists(OneBlock(b, block)[w])
  BY DEF OneBlock
<1> QED BY <1>1, <1>2, MovedExists

LEMMA SetTwoBanksExists ==
  ASSUME TypeOK, AllExist, NEW slot \in Slots, NEW c \in Carts, NEW b, b \in {0, 2},
         NEW n, NEW m, NEW block, SetTwoBanks(c, slot, b, n, m, block),
         Exists(block), Exists(NextBlock(block))
  PROVE  AllExist'
<1>1. Moved(slot, {b + 2, b + 3}, TwoBlocks(b, block))
  BY SetTwoBanksMoved
<1>2. \A w \in {b + 2, b + 3} : Exists(TwoBlocks(b, block)[w])
  BY DEF TwoBlocks
<1> QED BY <1>1, <1>2, MovedExists

LEMMA StoresKeepMap ==
  ASSUME AllExist, NEW S, Stores(S)
  PROVE  AllExist'
BY DEF Stores, AllExist, Exists

LEMMA SelectPageExists ==
  ASSUME TypeOK, AllExist, NEW slot \in Slots, NEW c \in Carts, NEW b \in Banks, NEW n, NEW block,
         SelectPage(c, slot, b, n, block), Exists(block)
  PROVE  AllExist'
BY SetBankExists, StoresKeepMap DEF SelectPage

LEMMA SwitchAsciiExists ==
  ASSUME AllExist, NEW c, NEW slot, NEW b \in Banks, NEW len \in {1, 2}, NEW n, NEW block,
         SwitchAscii(c, slot, b, len, n, block), Exists(block), len = 2 => Exists(NextBlock(block))
  PROVE  AllExist'
<1> DEFINE W   == (b + 2) .. (b + 1 + len)
           blk == [w \in W |-> IF w = b + 2 THEN block ELSE NextBlock(block)]
<1>1. CASE UNCHANGED MemMap
  BY <1>1 DEF AllExist, Exists
<1>2. CASE MemMap' = [x \in Cells |-> IF <<x[1], x[2]>> = slot /\ x[3] \in W
                                      THEN blk[x[3]] ELSE MemMap[x]]
  <2>1. \A w \in W : w = b + 2 \/ len = 2
    BY DEF Banks
  <2>2. \A w \in W : Exists(blk[w])
    BY <2>1
  <2> HIDE DEF W, blk
  <2>3. Moved(slot, W, blk)
    BY <1>2 DEF Moved
  <2> QED BY <2>2, <2>3, MovedExists
<1> QED BY <1>1, <1>2 DEF SwitchAscii

LEMMA MapperExists ==
  ASSUME Before, AllExist, NEW a \in CartAddress, NEW v \in Byte, NEW c \in Carts,
         Mapper(c, CartSlot[c], a, v)
  PROVE  AllExist'
<1> DEFINE slot == CartSlot[c]
           b == Win(a) - 2
<1>1. TypeOK /\ slot \in Slots /\ b \in Banks
  BY CartSlotType, CartBank DEF Before
<1>2. ASSUME NEW S, Stores(S)
      PROVE  AllExist'
  BY <1>2, StoresKeepMap
<1>3. ASSUME SelectRom(c, slot, b, v % RomPages)
      PROVE  AllExist'
  <2> DEFINE n == v % RomPages
  <2>1. Exists(RomBlock(c, n)) /\ SelectPage(c, slot, b, n, RomBlock(c, n))
    BY <1>3, PagesExist DEF SelectRom
  <2> HIDE DEF n, slot, b
  <2> QED BY <1>1, <2>1, SelectPageExists
<1>4. ASSUME NEW e \in {0, 2}, NEW n, NEW m, SetTwoBanks(c, slot, e, n, m, RomBlock(c, Pair(v)))
      PROVE  AllExist'
  <2> DEFINE block == RomBlock(c, Pair(v))
  <2>1. Exists(block) /\ Exists(NextBlock(block))
    BY PagesExist
  <2>2. SetTwoBanks(c, slot, e, n, m, block)
    BY <1>4
  <2> HIDE DEF block, slot
  <2> QED BY <1>1, <2>1, <2>2, SetTwoBanksExists
<1>5. ASSUME NEW e \in Banks, NEW len \in {1, 2}, NEW n, NEW block,
             SwitchAscii(c, slot, e, len, n, block),
             \/ block = SramBlock(c, 0)
             \/ block = RomBlock(c, Pair(v))
             \/ block = RomBlock(c, v % RomPages) /\ len = 1
      PROVE  AllExist'
  <2>1. Exists(SramBlock(c, 0)) /\ Exists(NextBlock(SramBlock(c, 0)))
    BY ThereAre, SecondHalves
  <2>2. Exists(block) /\ (len = 2 => Exists(NextBlock(block)))
    BY <1>5, <2>1, PagesExist
  <2> HIDE DEF slot
  <2> QED BY <1>5, <2>2, SwitchAsciiExists
<1>6. CASE ROMType[c] = "GEN8" /\ Gen8(c, slot, a, v)
  BY <1>3, <1>6 DEF Gen8
<1>7. CASE ROMType[c] = "GEN16" /\ Gen16(c, slot, a, v)
  <2>1. \/ Stores({})
        \/ \E e \in {0, 2} : \E n, m : SetTwoBanks(c, slot, e, n, m, RomBlock(c, Pair(v)))
    BY <1>7 DEF Gen16
  <2> QED BY <1>2, <1>4, <2>1
<1>8. CASE ROMType[c] = "KONAMI5" /\ Konami5(c, slot, a, v)
  BY <1>2, <1>3, <1>8 DEF Konami5, Ignored
<1>9. CASE ROMType[c] = "KONAMI4" /\ Konami4(c, slot, a, v)
  BY <1>2, <1>3, <1>9 DEF Konami4, Ignored
<1>10. CASE ROMType[c] = "ASCII8" /\ Ascii8(c, slot, a, v)
  <2>1. CASE a >= \h6000 /\ a < \h8000
    <3> DEFINE e == (a \div \h800) % 4
               n == IF SelectsSRAM(v) THEN SRAMBank ELSE v % RomPages
               block == IF SelectsSRAM(v) THEN SramBlock(c, 0) ELSE RomBlock(c, v % RomPages)
    <3>1. e \in Banks
      BY CartAddressIs DEF Banks
    <3>2. SwitchAscii(c, slot, e, 1, n, block)
      BY <1>10, <2>1 DEF Ascii8
    <3>3. block = SramBlock(c, 0) \/ block = RomBlock(c, v % RomPages)
      OBVIOUS
    <3> HIDE DEF slot, b, e, n, block
    <3> QED BY <1>5, <3>1, <3>2, <3>3
  <2>2. CASE ~(a >= \h6000 /\ a < \h8000)
    BY <1>2, <1>10, <2>2 DEF Ascii8, Ignored, StoreSRAM
  <2> QED BY <2>1, <2>2
<1>11. CASE ROMType[c] = "ASCII16" /\ Ascii16(c, slot, a, v)
  <2> DEFINE switch == a >= \h6000 /\ a < \h8000 /\ (v <= RomPages \/ a % \h1000 = 0)
  <2>1. CASE switch
    <3> DEFINE e == IF BitSet(a, \h1000) THEN 2 ELSE 0
               n == IF SelectsSRAM(v) THEN SRAMBank ELSE Pair(v)
               block == IF SelectsSRAM(v) THEN SramBlock(c, 0) ELSE RomBlock(c, Pair(v))
    <3>1. e \in Banks
      BY DEF Banks
    <3>2. SwitchAscii(c, slot, e, 2, n, block)
      BY <1>11, <2>1 DEF Ascii16
    <3>3. block = SramBlock(c, 0) \/ block = RomBlock(c, Pair(v))
      OBVIOUS
    <3> HIDE DEF slot, b, e, n, block
    <3> QED BY <1>5, <3>1, <3>2, <3>3
  <2>2. CASE ~switch
    BY <1>2, <1>11, <2>2 DEF Ascii16, Ignored, StoreSRAM
  <2> QED BY <2>1, <2>2
<1>12. CASE ROMType[c] = "GMASTER2" /\ GMaster2(c, slot, a, v)
  <2>1. ASSUME SetBank(c, slot, b, SRAMBank, SramBlock(c, IF BitSet(v, 32) THEN 1 ELSE 0))
        PROVE  AllExist'
    <3> DEFINE block == SramBlock(c, IF BitSet(v, 32) THEN 1 ELSE 0)
    <3>1. Exists(block)
      BY ThereAre
    <3>2. SetBank(c, slot, b, SRAMBank, block)
      BY <2>1
    <3> HIDE DEF slot, b, block
    <3> QED BY <1>1, <3>1, <3>2, SetBankExists
  <2> QED BY <1>2, <1>3, <1>12, <2>1 DEF GMaster2, Ignored, StoreSRAM
<1>13. CASE ROMType[c] = "FMPAC" /\ FMPac(c, slot, a, v)
  <2> DEFINE r0 == ROMMapper[<<c, 0>>]
             r1 == ROMMapper[<<c, 1>>]
  <2>1. CASE UNCHANGED MemMap
    BY <2>1 DEF AllExist, Exists
  <2>2. CASE SetTwoBanks(c, slot, 0, Pair(v), Pair(v) + 1, RomBlock(c, Pair(v)))
    BY <1>4, <2>2
  <2>3. CASE SetTwoBanks(c, slot, 0, r0, r1,
                         IF FMPACKey'[1] /\ FMPACKey'[2] THEN SramBlock(c, 0) ELSE RomBlock(c, r0))
    <3> DEFINE block == IF FMPACKey'[1] /\ FMPACKey'[2] THEN SramBlock(c, 0) ELSE RomBlock(c, r0)
    <3>1. r0 \in Nat /\ r0 % 2 = 0 /\ r0 < RomPages
      <4>1. <<c, 0>> \in Carts \X Banks
        BY DEF Banks
      <4>2. r0 \in Byte
        BY <1>1, <4>1 DEF TypeOK, MapType, BankRegs
      <4> QED BY <1>13, <4>2, ByteType DEF Before, PairsGood, PairGood
    <3>2. r0 + 1 \in Nat /\ r0 + 1 < RomPages
      <4> HIDE DEF r0
      <4> QED BY <3>1, SizeAssumption
    <3>3. Exists(RomBlock(c, r0)) /\ Exists(NextBlock(RomBlock(c, r0)))
      BY <3>1, <3>2, ThereAre, SecondHalves
    <3>4. Exists(SramBlock(c, 0)) /\ Exists(NextBlock(SramBlock(c, 0)))
      BY ThereAre, SecondHalves
    <3>5. Exists(block) /\ Exists(NextBlock(block))
      BY <3>3, <3>4
    <3>6. SetTwoBanks(c, slot, 0, r0, r1, block)
      BY <2>3
    <3> HIDE DEF slot, r0, r1, block
    <3> QED BY <1>1, <3>5, <3>6, SetTwoBanksExists
  <2>4. ASSUME NEW S, Stores(S)
        PROVE  UNCHANGED MemMap
    BY <2>4 DEF Stores
  <2> QED BY <1>13, <2>1, <2>2, <2>3, <2>4 DEF FMPac, Ignored, StoreSRAM
<1> QED BY <1>6, <1>7, <1>8, <1>9, <1>10, <1>11, <1>12, <1>13 DEF Mapper

LEMMA SystemExists ==
  ASSUME NEW x \in Cells
  PROVE  Exists(SystemMap[x])
<1> DEFINE s == <<x[1], x[2]>>
           w == x[3]
           c == CartMap[s]
           n == PlainPage(w)
<1>1. w \in 0 .. 7 /\ n \in 0 .. 3
  BY DEF Cells, Windows, PlainPage
<1> HIDE DEF w, n
<1>2. w < 4 => Exists(<<"bios", 0, w>>)
  BY BlockCounts DEF Exists
<1>3. w < 2 => Exists(<<"ext", 0, w>>)
  BY BlockCounts DEF Exists
<1>4. w \in {2, 3} => Exists(<<"disk", 0, w>>)
  BY BlockCounts DEF Exists
<1>5. c \in Carts => Exists(RomBlock(c, n))
  BY <1>1, ThereAre, SizeAssumption
<1>6. Exists(EmptyRAM)
  BY ThereAre
<1> HIDE DEF c
<1>7. Exists(SystemBlock(s, w))
  BY <1>2, <1>3, <1>4, <1>5, <1>6, Zenon DEF SystemBlock, c, n
<1> QED BY <1>7 DEF SystemMap, w

\* The memory map made anew from segments and pages that exist.
LEMMA RemappedExists ==
  ASSUME NEW map, \A x \in Cells : Exists(map[x]),
         NEW ram, \A j \in Pages : ram[j] \in 0 .. RamSegs - 1,
         NEW bank, \A c \in Carts, b \in Banks :
                     IsMega(c) => bank[<<c, b>>] \in Nat /\ bank[<<c, b>>] < RomPages,
         NEW x \in Cells
  PROVE  Exists(Remapped(map, ram, bank)[x])
<1> DEFINE s == <<x[1], x[2]>>
           w == x[3]
           c == CartMap[s]
<1>1. w \in Windows
  BY DEF Cells
<1>2. Exists(RamBlock(ram[w \div 2], w % 2))
  <2>1. w \div 2 \in Pages /\ w % 2 \in 0 .. 1
    BY <1>1, PageType
  <2> HIDE DEF w
  <2> QED BY <2>1, ThereAre
<1>3. w \in 2 .. 5 /\ c \in Carts /\ IsMega(c) => Exists(RomBlock(c, bank[<<c, w - 2>>]))
  <2>1. w \in 2 .. 5 => w - 2 \in Banks
    BY DEF Banks
  <2> HIDE DEF w, c
  <2> QED BY <2>1, ThereAre
<1>4. Exists(map[x])
  OBVIOUS
<1> QED BY <1>2, <1>3, <1>4 DEF Remapped

LEMMA ResetExists ==
  ASSUME NEW map, \A x \in Cells : Exists(map[x]), NEW bank, NEW x \in Cells
  PROVE  Exists(Remapped(map, ResetRAMMapper, ResetROMMapper(bank))[x])
<1>1. \A j \in Pages : ResetRAMMapper[j] \in 0 .. RamSegs - 1
  BY SizeAssumption DEF ResetRAMMapper, Pages
<1>2. \A c \in Carts, b \in Banks : IsMega(c) =>
        ResetROMMapper(bank)[<<c, b>>] \in Nat /\ ResetROMMapper(bank)[<<c, b>>] < RomPages
  <2> SUFFICES ASSUME NEW c \in Carts, NEW b \in Banks, IsMega(c)
               PROVE  ResetBank(c, b) \in Nat /\ ResetBank(c, b) < RomPages
    BY DEF ResetROMMapper
  <2> QED BY SizeAssumption DEF ResetBank, Banks
<1> QED BY <1>1, <1>2, RemappedExists

LEMMA LoadStateExists ==
  ASSUME TypeOK, AllExist, LoadState
  PROVE  AllExist'
<1> DEFINE bank == Masked(Corrected(saved.ROMMapper))
           ram  == saved.RAMMapper
<1>1. saved.ROMMapper \in BankRegs /\ ram \in [Pages -> 0 .. RamSegs - 1]
  <2>1. saved \in Registers
    BY DEF LoadState, TypeOK, SavedType
  <2> QED BY <2>1 DEF Registers
<1>2. MemMap' = Remapped(MemMap, ram, bank)
  BY DEF LoadState
<1>3. ASSUME NEW c \in Carts, NEW b \in Banks, IsMega(c)
      PROVE  bank[<<c, b>>] \in Nat /\ bank[<<c, b>>] < RomPages
  <2> DEFINE n == Corrected(saved.ROMMapper)[<<c, b>>]
  <2>1. n \in Byte
    BY <1>1, CorrectedType DEF BankRegs
  <2>2. bank[<<c, b>>] = n % RomPages
    BY <1>3 DEF Masked
  <2> HIDE DEF n, bank
  <2> QED BY <2>1, <2>2, SizeAssumption DEF Byte
<1> HIDE DEF bank
<1>4. \A j \in Pages : ram[j] \in 0 .. RamSegs - 1
  BY <1>1
<1> HIDE DEF ram
<1>5. \A x \in Cells : Exists(Remapped(MemMap, ram, bank)[x])
  BY <1>3, <1>4, RemappedExists DEF AllExist
<1> QED BY <1>2, <1>5 DEF AllExist, Exists

LEMMA OutMapperExists ==
  ASSUME TypeOK, AllExist, NEW j \in Pages, NEW byte \in Byte, OutMapper(j, byte)
  PROVE  AllExist'
<1> DEFINE seg == byte % RamSegs
<1>1. seg \in 0 .. RamSegs - 1
  BY SizeAssumption DEF Byte
<1>2. Exists(RamBlock(seg, 0)) /\ Exists(RamBlock(seg, 1))
  BY <1>1, ThereAre
<1>3. CASE UNCHANGED MemMap
  BY <1>3 DEF AllExist, Exists
<1>4. CASE MemMap' = [MemMap EXCEPT ![<<3, 2, 2 * j>>] = RamBlock(seg, 0),
                                    ![<<3, 2, 2 * j + 1>>] = RamBlock(seg, 1)]
  <2>1. DOMAIN MemMap = Cells
    BY DEF TypeOK, MapType
  <2> HIDE DEF seg
  <2>2. ASSUME NEW x \in Cells
        PROVE  MemMap'[x] \in {MemMap[x], RamBlock(seg, 0), RamBlock(seg, 1)}
    BY <1>4, <2>1
  <2> QED BY <1>2, <2>2 DEF AllExist, Exists
<1> QED BY <1>3, <1>4 DEF OutMapper

\* What the windows show exists as well.
LEMMA WindowsExist ==
  ASSUME TypeOK, Coherent, AllExist, NEW w \in Windows
  PROVE  RAM[w] \in Block /\ Exists(RAM[w])
<1>1. <<PSL[w \div 2], SSL[w \div 2], w>> \in Cells
  BY PageType DEF TypeOK, SlotsType, Cells
<1> QED BY <1>1 DEF Coherent, AllExist, TypeOK, MapType

LEMMA NothingLost ==
  ASSUME NEW S, Stores(S), \A block \in S \ {ToFDC, ToSCC} : Exists(block)
  PROVE  StoresExist'
BY DEF Stores, StoresExist, Exists

\* The one store past the end of a buffer.
LEMMA Ascii16Overrun ==
  ASSUME Before, Coherent, AllExist, NEW a \in CartAddress, NEW c \in Carts,
         SlotOf(a) = CartSlot[c], ROMType[c] = "ASCII16", a >= \h8000,
         ROMMapper[<<c, 2>>] = SRAMBank, Stores({RAM[Win(a)], NextBlock(RAM[Win(a)])})
  PROVE  StoresExist'
<1> DEFINE block == RAM[Win(a)]
<1>1. Win(a) - 2 \in {2, 3} /\ Win(a) \in Windows
  <2>1. a \in Int /\ a >= \h8000 /\ a <= \hBFFF
    BY CartAddressIs
  <2> QED BY <2>1 DEF Win, Windows
<1>2. ROMMapper[<<c, 3>>] = SRAMBank
  <2>1. ROMMapper[<<c, 3>>] = Or1(ROMMapper[<<c, 2>>])
    <3>1. PairGood(c, ROMType[c], ROMMapper)
      BY DEF Before, PairsGood
    <3> QED BY <3>1 DEF PairGood
  <2>2. Or1(SRAMBank) = SRAMBank
    BY DEF Or1, SRAMBank
  <2> QED BY <2>1, <2>2
<1>3. block[1] = "sram" /\ block[2] = c
  BY <1>1, <1>2, MarkedBank DEF IsMega, MegaROMs
<1>4. block \in Block /\ Exists(block)
  BY <1>1, WindowsExist DEF Before
<1>5. stored' = {block, NextBlock(block)} /\ ROMType' = ROMType
  BY DEF Stores, Before
<1> HIDE DEF block
<1>6. block[3] \in Nat /\ block[3] < 2
  BY <1>3, <1>4, BlockCounts DEF Block, Exists
<1>7. NextBlock(block) = <<"sram", c, block[3] + 1>>
  BY <1>3 DEF NextBlock
<1>8. Exists(NextBlock(block)) \/ NextBlock(block) = SramBlock(c, 2)
  BY <1>6, <1>7, BlockCounts DEF Exists, SramBlock
<1>9. NextBlock(block)[2] = c
  BY <1>7
<1> QED BY <1>4, <1>5, <1>8, <1>9 DEF StoresExist, Exists

LEMMA MapperStores ==
  ASSUME Before, Coherent, AllExist, NEW a \in CartAddress, NEW v \in Byte, NEW c \in Carts,
         SlotOf(a) = CartSlot[c], Mapper(c, CartSlot[c], a, v)
  PROVE  StoresExist'
<1> DEFINE slot == CartSlot[c]
<1>1. Win(a) \in Windows /\ 5 \in Windows
  BY CartWindow DEF Windows
<1>2. Exists(RAM[Win(a)]) /\ Exists(RAM[5])
  BY <1>1, WindowsExist DEF Before
<1>3. ASSUME \/ stored' = {}
             \/ stored' = {RAM[Win(a)]}
             \/ stored' = {RAM[5]}
      PROVE  StoresExist'
  BY <1>2, <1>3 DEF StoresExist, Exists
<1>4. CASE ROMType[c] = "GEN8" /\ Gen8(c, slot, a, v)
  BY <1>3, <1>4 DEF Gen8, SelectRom, SelectPage, SetBank, Stores
<1>5. CASE ROMType[c] = "GEN16" /\ Gen16(c, slot, a, v)
  BY <1>3, <1>5 DEF Gen16, SetTwoBanks, Stores
<1>6. CASE ROMType[c] = "KONAMI5" /\ Konami5(c, slot, a, v)
  BY <1>3, <1>6 DEF Konami5, SelectRom, SelectPage, SetBank, Stores, Ignored
<1>7. CASE ROMType[c] = "KONAMI4" /\ Konami4(c, slot, a, v)
  BY <1>3, <1>7 DEF Konami4, SelectRom, SelectPage, SetBank, Stores, Ignored
<1>8. CASE ROMType[c] = "ASCII8" /\ Ascii8(c, slot, a, v)
  BY <1>3, <1>8 DEF Ascii8, SwitchAscii, StoreSRAM, Stores, Ignored
<1>9. CASE ROMType[c] = "ASCII16" /\ Ascii16(c, slot, a, v)
  <2>1. CASE stored' = {}
    BY <1>3, <2>1
  <2>2. CASE a >= \h8000 /\ ROMMapper[<<c, 2>>] = SRAMBank
             /\ Stores({RAM[Win(a)], NextBlock(RAM[Win(a)])})
    BY <1>9, <2>2, Ascii16Overrun
  <2> QED BY <1>9, <2>1, <2>2 DEF Ascii16, SwitchAscii, StoreSRAM, Stores, Ignored
<1>10. CASE ROMType[c] = "GMASTER2" /\ GMaster2(c, slot, a, v)
  BY <1>3, <1>10 DEF GMaster2, SelectRom, SelectPage, SetBank, StoreSRAM, Stores, Ignored
<1>11. CASE ROMType[c] = "FMPAC" /\ FMPac(c, slot, a, v)
  BY <1>3, <1>11 DEF FMPac, SetTwoBanks, StoreSRAM, Stores, Ignored
<1> QED BY <1>4, <1>5, <1>6, <1>7, <1>8, <1>9, <1>10, <1>11 DEF Mapper

LEMMA MapROMExists ==
  ASSUME Before, Coherent, AllExist, NoSubslots(SSLReg),
         SlotsCurrent(PSLReg, SSLReg, PSL, SSL, ppiA, ppiIn),
         NEW a \in CartAddress, a \in Address, NEW v \in Byte, MapROM(a, v)
  PROVE  AllExist' /\ StoresExist'
<1> DEFINE slot == SlotOf(a)
           c    == CartMap[slot]
           b    == Win(a) - 2
           n    == v % 16
<1>1. c \in Carts => slot = CartSlot[c] /\ CartSlot[c] \in Slots
  BY CartReached, CartSlotType DEF Before
<1>2. CASE Ignored
  BY <1>2, StoresKeepMap, NothingLost DEF Ignored
<1>3. CASE c \in Carts /\ IsEmpty(c) /\ SccCart(c, slot, a, v)
  <2>1. Win(a) \in Windows /\ b \in Banks
    BY CartWindow, CartBank DEF Windows
  <2>2. Exists(RAM[Win(a)])
    BY <2>1, WindowsExist DEF Before
  <2>3. CASE Stores({}) \/ Stores({RAM[Win(a)]})
    BY <2>2, <2>3, StoresKeepMap, NothingLost
  <2>4. CASE SelectPage(c, slot, b, n, SccRam(n))
    <3>1. Exists(SccRam(n))
      BY ThereAre DEF Byte
    <3>2. stored' = {}
      BY <2>4 DEF SelectPage, SetBank, Stores
    <3>3. StoresExist'
      BY <3>2 DEF StoresExist
    <3> DEFINE block == SccRam(n)
    <3>4. SelectPage(c, CartSlot[c], b, n, block) /\ Exists(block)
      BY <1>1, <1>3, <2>4, <3>1
    <3>5. TypeOK /\ c \in Carts /\ CartSlot[c] \in Slots
      BY <1>1, <1>3 DEF Before
    <3> HIDE DEF slot, c, b, n, block
    <3>6. AllExist'
      BY <2>1, <3>4, <3>5, SelectPageExists
    <3> QED BY <3>3, <3>6
  <2> QED BY <1>3, <2>3, <2>4 DEF SccCart
<1>4. CASE c \in Carts /\ SccRegs(c, a)
  <2>1. PICK S \in SUBSET {ToSCC, EmptyRAM} : Stores(S)
    BY <1>4 DEF SccRegs
  <2>2. \A block \in S \ {ToFDC, ToSCC} : Exists(block)
    BY ThereAre
  <2> QED BY <2>1, <2>2, StoresKeepMap, NothingLost
<1>5. CASE c \in Carts /\ Mapper(c, slot, a, v)
  <2> HIDE DEF c
  <2> QED BY <1>1, <1>5, MapperExists, MapperStores
<1> QED BY <1>2, <1>3, <1>4, <1>5 DEF MapROM, InSccCart

LEMMA WrZ80Exists ==
  ASSUME TypeOK, IInv, BanksInv, AllExist, NEW a \in Address, a # \hFFFF,
         NEW v \in Byte, WrZ80(a, v)
  PROVE  AllExist' /\ StoresExist'
<1>1. Before /\ Coherent /\ NoSubslots(SSLReg)
      /\ SlotsCurrent(PSLReg, SSLReg, PSL, SSL, ppiA, ppiIn)
  BY DEF WrZ80, Before, BanksInv, IInv
<1>2. Exists(RAM[Win(a)])
  BY <1>1, WinType, WindowsExist
<1>3. CASE Stores({ToFDC}) \/ Stores({RAM[Win(a)]}) \/ Stores({})
  BY <1>2, <1>3, StoresKeepMap, NothingLost
<1>4. CASE a \in CartAddress /\ MapROM(a, v)
  BY <1>1, <1>4, MapROMExists
<1> QED BY <1>3, <1>4 DEF WrZ80, Ignored

LEMMA ExistStep ==
  ASSUME TypeOK, IInv, BanksInv, AllExist, StoresExist, [Next]_vars
  PROVE  AllExist' /\ StoresExist'
<1>1. ASSUME UNCHANGED MemMap
      PROVE  AllExist'
  BY <1>1 DEF AllExist, Exists
<1>2. ASSUME stored' = {}
      PROVE  StoresExist'
  BY <1>2 DEF StoresExist
<1>3. ASSUME NEW map, \A x \in Cells : Exists(map[x]), NEW bank, ResetOver(map, bank)
      PROVE  AllExist' /\ StoresExist'
  <2>1. MemMap' = Remapped(map, ResetRAMMapper, ResetROMMapper(bank)) /\ stored' = {}
    BY <1>3 DEF ResetOver
  <2>2. \A x \in Cells : Exists(MemMap'[x])
    BY <1>3, <2>1, ResetExists
  <2> QED BY <1>2, <2>1, <2>2 DEF AllExist, Exists
<1>4. CASE Reset
  BY <1>3, <1>4 DEF Reset, AllExist
<1>5. CASE Restart
  BY <1>3, <1>5, SystemExists DEF Restart
<1>6. CASE LoadState
  BY <1>2, <1>6, LoadStateExists DEF LoadState
<1>7. ASSUME NEW v, OutSlot(v) \/ WrZ80(\hFFFF, v) \/ OutPPIMode(v)
      PROVE  UNCHANGED MemMap /\ stored' = {}
  BY <1>7 DEF OutSlot, WrZ80, SSlot, OutPPIMode
<1>8. ASSUME NEW j \in Pages, NEW byte \in Byte, OutMapper(j, byte)
      PROVE  AllExist' /\ StoresExist'
  BY <1>2, <1>8, OutMapperExists DEF OutMapper
<1>9. ASSUME NEW a \in Address \ {\hFFFF}, NEW v \in Byte, WrZ80(a, v)
      PROVE  AllExist' /\ StoresExist'
  <2>1. a # \hFFFF
    OBVIOUS
  <2> QED BY <1>9, <2>1, WrZ80Exists
<1>10. ASSUME NEW most \in Nat, SaveState(most)
       PROVE  UNCHANGED MemMap /\ stored' = {}
  BY <1>10 DEF SaveState
<1>11. CASE UNCHANGED vars
  BY <1>1, <1>11 DEF vars, StoresExist, Exists
<1> QED BY <1>1, <1>2, <1>4, <1>5, <1>6, <1>7, <1>8, <1>9, <1>10, <1>11, AnyProgram

LEMMA InitExists ==
  ASSUME Init
  PROVE  AllExist /\ StoresExist
<1> DEFINE zero == [x \in Carts \X Banks |-> 0]
<1>1. /\ MemMap = Remapped(SystemMap, ResetRAMMapper, ResetROMMapper(zero))
      /\ stored = {}
  BY DEF Init
<1> HIDE DEF zero
<1>2. \A x \in Cells : Exists(MemMap[x])
  BY <1>1, SystemExists, ResetExists
<1> QED BY <1>1, <1>2 DEF StoresExist, AllExist

(***************************************************************************)
(* The bank registers tell what the banks show.  Stores of the program     *)
(* change no ROM and no SRAM that would not be saved, and land in a block  *)
(* that exists but for those of the ASCII16 mapper at A000h..BFFFh,        *)
(* whatever mappers the cartridges have, in any order of switches, resets, *)
(* saves and loads.  A ROM of 2 MB is left out: its last page has the      *)
(* number that the code takes for the mark of SRAM; and so are two FMPACs, *)
(* which would share one key.                                              *)
(***************************************************************************)
THEOREM BanksCorrect ==
  ASSUME RomPages < 256, \A p \in Programs : OneFMPAC(p.carts)
  PROVE  Spec => []BanksHonest
<1>1. Init => BanksInv
  BY InitBanks
<1>2. TypeOK /\ IInv /\ BanksInv /\ [Next]_vars => BanksInv'
  BY BanksStep
<1>3. Init => AllExist /\ StoresExist
  BY InitExists
<1>4. TypeOK /\ IInv /\ BanksInv /\ (AllExist /\ StoresExist) /\ [Next]_vars => (AllExist /\ StoresExist)'
  BY ExistStep
<1>5. BanksInv /\ StoresExist => BanksHonest
  <2> SUFFICES ASSUME BanksInv, StoresExist
               PROVE  BanksShowPages
    BY DEF BanksHonest, BanksInv, StoresLandRight, LandsRight
  <2> SUFFICES ASSUME NEW c \in Carts, NEW b \in Banks, IsMega(c),
                      ~(ROMType[c] = "FMPAC" /\ b < 2 /\ Unlocked)
               PROVE  IF ROMMapper[<<c, b>>] = SRAMBank
                      THEN MemMap[CartCell(c, b)][1] = "sram" /\ MemMap[CartCell(c, b)][2] = c
                      ELSE MemMap[CartCell(c, b)] = RomBlock(c, ROMMapper[<<c, b>>])
    BY DEF BanksShowPages, CartCell
  <2>1. BankGood(c, ROMType[c], b, Unlocked, ROMMapper[<<c, b>>], MemMap[CartCell(c, b)])
    BY DEF BanksInv, BanksGood
  <2> QED BY <2>1 DEF BankGood, IsMega
<1> QED
  BY <1>1, <1>2, <1>3, <1>4, <1>5, TypeCorrect, Inductive, PTL DEF Spec

(***************************************************************************)
(* Save states.  What a window showed when the state was saved depends on  *)
(* the saved registers and on what never changes: the state keeps enough   *)
(* of the registers, and their pages survive masking and correcting.       *)
(***************************************************************************)
\* Cells of the memory map that SetMegaROM() fills again from bank registers.
Switched(x) ==
  LET s == <<x[1], x[2]>> IN
  /\ x[3] \in 2 .. 5 /\ CartMap[s] \in Carts
  /\ s = CartSlot[CartMap[s]] /\ IsMega(CartMap[s])

\* The others keep what StartMSX() put there, but for SCC-I RAM in empty slots.
SettledBlock(x, block) ==
  block = SystemMap[x] \/ (SystemMap[x] = EmptyRAM /\ block[1] = "scci")
Settled ==
  \A x \in Cells : <<x[1], x[2]>> # <<3, 2>> /\ ~Switched(x) => SettledBlock(x, MemMap[x])

\* Registers hold pages of the ROM or the mark of SRAM, those of a 16kB page a pair.
Page == {n \in Nat : n < RomPages \/ n = SRAMBank}
RegGood(c, type, bank) ==
  /\ \A b \in Banks : bank[<<c, b>>] \in Page
  /\ type \in {"FMPAC", "ASCII16", "GEN16"} => bank[<<c, 1>>] = Or1(bank[<<c, 0>>])
  /\ type \in {"ASCII16", "GEN16"} => bank[<<c, 3>>] = Or1(bank[<<c, 2>>])
RegsGood(bank) == \A c \in Carts : IsMega(c) => RegGood(c, ROMType[c], bank)

\* A block that was behind a cell when the registers had the given values.
CellGood(x, block, ram, bank, unlocked) ==
  LET c == CartMap[<<x[1], x[2]>>] IN
  IF <<x[1], x[2]>> = <<3, 2>> THEN block = RamBlock(ram[x[3] \div 2], x[3] % 2)
  ELSE IF Switched(x)
  THEN BankGood(c, ROMType[c], x[3] - 2, unlocked, bank[<<c, x[3] - 2>>], block)
  ELSE SettledBlock(x, block)

ViewCell(w) == <<saved.PSL[w \div 2], saved.SSL[w \div 2], w>>
SavedView ==
  saved # NoState =>
    /\ RegsGood(saved.ROMMapper)
    /\ \A w \in Windows :
         CellGood(ViewCell(w), saved.view[w], saved.RAMMapper, saved.ROMMapper,
                  saved.FMPACKey[1] /\ saved.FMPACKey[2])

ViewInv == Settled /\ RegsGood(ROMMapper) /\ SavedView

\* What a switch of cartridge c leaves of the other cells and registers.
Around(c) ==
  /\ \A x \in Cells : ~(<<x[1], x[2]>> = CartSlot[c] /\ x[3] \in 2 .. 5) =>
       MemMap'[x] = MemMap[x]
  /\ \A d \in Carts, e \in Banks : d # c => ROMMapper'[<<d, e>>] = ROMMapper[<<d, e>>]

LEMMA MovedAround ==
  ASSUME NEW c \in Carts, NEW W, NEW blk, W \subseteq 2 .. 5, Moved(CartSlot[c], W, blk),
         \A d \in Carts, e \in Banks : d # c => ROMMapper'[<<d, e>>] = ROMMapper[<<d, e>>]
  PROVE  Around(c)
BY DEF Moved, Around

\* A MegaROM is switched: its registers stay good.
MegaStep(c) == Around(c) /\ RegGood(c, ROMType[c], ROMMapper')

LEMMA SameType ==
  ASSUME UNCHANGED ROMType
  PROVE  SystemMap' = SystemMap /\ \A x : Switched(x)' <=> Switched(x)
BY DEF SystemMap, SystemBlock, Switched, IsMega

LEMMA MegaStepView ==
  ASSUME Settled, RegsGood(ROMMapper), UNCHANGED ROMType, NEW c \in Carts, IsMega(c), MegaStep(c)
  PROVE  Settled' /\ RegsGood(ROMMapper)'
<1>1. Settled'
  <2> SUFFICES ASSUME NEW x \in Cells, <<x[1], x[2]>> # <<3, 2>>, ~Switched(x)
               PROVE  SettledBlock(x, MemMap'[x])
    BY SameType DEF Settled, SettledBlock
  <2>1. ~(<<x[1], x[2]>> = CartSlot[c] /\ x[3] \in 2 .. 5)
    <3>1. CartMap[CartSlot[c]] = c
      BY CartSlotType
    <3> QED BY <3>1 DEF Switched
  <2>2. MemMap'[x] = MemMap[x]
    BY <2>1 DEF MegaStep, Around
  <2> QED BY <2>2 DEF Settled
<1>2. RegsGood(ROMMapper)'
  <2> SUFFICES ASSUME NEW d \in Carts, IsMega(d)
               PROVE  RegGood(d, ROMType[d], ROMMapper')
    BY DEF RegsGood, IsMega
  <2>1. CASE d = c
    BY <2>1 DEF MegaStep
  <2>2. CASE d # c
    <3>1. \A e \in Banks : ROMMapper'[<<d, e>>] = ROMMapper[<<d, e>>]
      BY <2>2 DEF MegaStep, Around
    <3>2. 0 \in Banks /\ 1 \in Banks /\ 2 \in Banks /\ 3 \in Banks
      BY DEF Banks
    <3>3. RegGood(d, ROMType[d], ROMMapper)
      BY DEF RegsGood
    <3> QED BY <3>1, <3>2, <3>3 DEF RegGood
  <2> QED BY <2>1, <2>2
<1> QED BY <1>1, <1>2

\* Nothing is switched.
LEMMA SameView ==
  ASSUME Settled, RegsGood(ROMMapper), UNCHANGED <<ROMType, MemMap, ROMMapper>>
  PROVE  Settled' /\ RegsGood(ROMMapper)'
<1>1. Settled'
  BY SameType DEF Settled, SettledBlock
<1>2. RegsGood(ROMMapper)'
  BY DEF RegsGood, IsMega
<1> QED BY <1>1, <1>2

LEMMA SetBankMega ==
  ASSUME TypeOK, NEW c \in Carts, NEW b \in Banks, NEW n \in Page, NEW block,
         SetBank(c, CartSlot[c], b, n, block),
         RegGood(c, ROMType[c], ROMMapper), ROMType[c] \notin {"FMPAC", "ASCII16", "GEN16"}
  PROVE  MegaStep(c)
<1>1. /\ Moved(CartSlot[c], {b + 2}, OneBlock(b, block))
      /\ \A d \in Carts, e \in Banks :
           ROMMapper'[<<d, e>>] = IF d = c /\ e = b THEN n ELSE ROMMapper[<<d, e>>]
  <2>1. CartSlot[c] \in Slots
    BY CartSlotType
  <2> QED BY <2>1, SetBankMoved
<1>2. {b + 2} \subseteq 2 .. 5
  BY DEF Banks
<1>3. Around(c)
  BY <1>1, <1>2, MovedAround
<1>4. \A e \in Banks : ROMMapper'[<<c, e>>] \in Page
  BY <1>1 DEF RegGood
<1> QED BY <1>3, <1>4 DEF MegaStep, RegGood

\* Two registers hold a pair.
LEMMA TwoMega ==
  ASSUME NEW c \in Carts, Around(c), NEW b \in {0, 2}, NEW n \in Page, NEW m \in Page, m = Or1(n),
         TwoSet(c, b, n, m), RegGood(c, ROMType[c], ROMMapper)
  PROVE  MegaStep(c)
<1>1. 0 \in Banks /\ 1 \in Banks /\ 2 \in Banks /\ 3 \in Banks
  BY DEF Banks
<1>2. \A e \in Banks : ROMMapper'[<<c, e>>] = IF e = b THEN n
                                              ELSE IF e = b + 1 THEN m ELSE ROMMapper[<<c, e>>]
  BY DEF TwoSet
<1>3. \A e \in Banks : ROMMapper'[<<c, e>>] \in Page
  BY <1>2 DEF RegGood
<1>4. CASE b = 0
  <2>1. ROMMapper'[<<c, 0>>] = n /\ ROMMapper'[<<c, 1>>] = m
        /\ ROMMapper'[<<c, 2>>] = ROMMapper[<<c, 2>>] /\ ROMMapper'[<<c, 3>>] = ROMMapper[<<c, 3>>]
    BY <1>1, <1>2, <1>4
  <2> QED BY <1>3, <2>1 DEF MegaStep, RegGood
<1>5. CASE b = 2
  <2>1. ROMMapper'[<<c, 2>>] = n /\ ROMMapper'[<<c, 3>>] = m
        /\ ROMMapper'[<<c, 0>>] = ROMMapper[<<c, 0>>] /\ ROMMapper'[<<c, 1>>] = ROMMapper[<<c, 1>>]
    BY <1>1, <1>2, <1>5
  <2> QED BY <1>3, <2>1 DEF MegaStep, RegGood
<1> QED BY <1>4, <1>5

LEMMA SetTwoBanksMega ==
  ASSUME TypeOK, NEW c \in Carts, NEW b \in {0, 2}, NEW n \in Page, NEW m \in Page, m = Or1(n),
         NEW block, SetTwoBanks(c, CartSlot[c], b, n, m, block),
         RegGood(c, ROMType[c], ROMMapper)
  PROVE  MegaStep(c)
<1>1. /\ Moved(CartSlot[c], {b + 2, b + 3}, TwoBlocks(b, block))
      /\ TwoSet(c, b, n, m)
  BY CartSlotType, SetTwoBanksMoved
<1>2. {b + 2, b + 3} \subseteq 2 .. 5
  OBVIOUS
<1>3. \A d \in Carts, e \in Banks : d # c => ROMMapper'[<<d, e>>] = ROMMapper[<<d, e>>]
  BY <1>1 DEF TwoSet
<1>4. Around(c)
  BY <1>1, <1>2, <1>3, MovedAround
<1> QED BY <1>1, <1>4, TwoMega

LEMMA SameMega ==
  ASSUME NEW c \in Carts, RegGood(c, ROMType[c], ROMMapper), UNCHANGED <<MemMap, ROMMapper>>
  PROVE  MegaStep(c)
BY DEF MegaStep, Around

LEMMA PagesIn ==
  ASSUME RomPages < 256, NEW v \in Byte
  PROVE  /\ v % RomPages \in Page
         /\ Pair(v) \in Page /\ Pair(v) + 1 \in Page /\ Pair(v) + 1 = Or1(Pair(v))
<1>1. RomPages \in 8 .. 254 /\ RomPages % 2 = 0
  BY SizeAssumption
<1>2. v % RomPages \in Page
  BY <1>1, MaskKeepsBit DEF Page
<1> DEFINE n == Pair(v)
<1>3. n \in 0 .. 252 /\ n % 2 = 0 /\ n < RomPages /\ Or1(n) = n + 1
  BY PageNumbers
<1> HIDE DEF n
<1>4. n + 1 < RomPages
  BY <1>1, <1>3
<1> QED BY <1>2, <1>3, <1>4 DEF Page, n

LEMMA MarkIn == SRAMBank \in Page /\ Or1(SRAMBank) = SRAMBank
BY DEF Page, SRAMBank, Or1

LEMMA SwitchAsciiMega ==
  ASSUME TypeOK, NEW c \in Carts, NEW b \in Banks, NEW len, NEW n \in Page, NEW block,
         SwitchAscii(c, CartSlot[c], b, len, n, block), RegGood(c, ROMType[c], ROMMapper),
         \/ len = 1 /\ ROMType[c] = "ASCII8"
         \/ len = 2 /\ b \in {0, 2} /\ Or1(n) \in Page
  PROVE  MegaStep(c)
<1> DEFINE W   == (b + 2) .. (b + 1 + len)
           blk == [w \in W |-> IF w = b + 2 THEN block ELSE NextBlock(block)]
<1>1. CASE UNCHANGED <<ROMMapper, MemMap>>
  BY <1>1, SameMega
<1>2. CASE /\ ROMMapper' = [x \in Carts \X Banks |->
                              IF x[1] = c /\ x[2] + 2 \in W
                              THEN (IF x[2] = b THEN n ELSE Or1(n)) ELSE ROMMapper[x]]
           /\ MemMap' = [x \in Cells |-> IF <<x[1], x[2]>> = CartSlot[c] /\ x[3] \in W
                                         THEN blk[x[3]] ELSE MemMap[x]]
  <2>1. len \in {1, 2} /\ (len = 2 => b \in {0, 2}) /\ b \in {0, 1, 2, 3}
    BY DEF Banks
  <2>2. W \subseteq 2 .. 5
    BY <2>1
  <2>3. \A e \in Banks : e + 2 \in W <=> e = b \/ (len = 2 /\ e = b + 1)
    BY <2>1 DEF Banks
  <2>4. Moved(CartSlot[c], W, blk)
    <3> HIDE DEF blk, W
    <3> QED BY <1>2 DEF Moved
  <2> HIDE DEF blk, W
  <2>5. \A d \in Carts, e \in Banks :
          ROMMapper'[<<d, e>>] = IF d = c /\ e + 2 \in W THEN (IF e = b THEN n ELSE Or1(n))
                                 ELSE ROMMapper[<<d, e>>]
    BY <1>2
  <2>6. Around(c)
    BY <2>2, <2>4, <2>5, MovedAround
  <2>7. CASE len = 1 /\ ROMType[c] = "ASCII8"
    <3>1. \A e \in Banks : ROMMapper'[<<c, e>>] \in Page
      BY <2>3, <2>5, <2>7 DEF RegGood
    <3> QED BY <2>6, <2>7, <3>1 DEF MegaStep, RegGood
  <2>8. CASE len = 2 /\ b \in {0, 2} /\ Or1(n) \in Page
    <3>1. TwoSet(c, b, n, Or1(n))
      BY <2>3, <2>5, <2>8, Zenon DEF TwoSet
    <3> QED BY <2>6, <2>8, <3>1, TwoMega
  <2> QED BY <2>7, <2>8
<1> QED BY <1>1, <1>2 DEF SwitchAscii

\* Each mapper, one by one.
LEMMA SelectRomMega ==
  ASSUME RomPages < 256, TypeOK, NEW c \in Carts, NEW b \in Banks, NEW v \in Byte,
         SelectRom(c, CartSlot[c], b, v % RomPages), RegGood(c, ROMType[c], ROMMapper),
         ROMType[c] \notin {"FMPAC", "ASCII16", "GEN16"}
  PROVE  MegaStep(c)
<1> DEFINE n == v % RomPages
<1>1. n \in Page
  BY PagesIn
<1>2. Stores({}) \/ SetBank(c, CartSlot[c], b, n, RomBlock(c, n))
  BY DEF SelectRom, SelectPage
<1> HIDE DEF n
<1>3. CASE Stores({})
  BY <1>3, SameMega DEF Stores
<1>4. CASE SetBank(c, CartSlot[c], b, n, RomBlock(c, n))
  BY <1>1, <1>4, SetBankMega
<1> QED BY <1>2, <1>3, <1>4

LEMMA FMPacMega ==
  ASSUME RomPages < 256, TypeOK, NEW c \in Carts, NEW a, NEW v \in Byte,
         FMPac(c, CartSlot[c], a, v), ROMType[c] = "FMPAC", RegGood(c, ROMType[c], ROMMapper)
  PROVE  MegaStep(c)
<1> DEFINE r0 == ROMMapper[<<c, 0>>]
           r1 == ROMMapper[<<c, 1>>]
           n  == Pair(v)
           m  == Pair(v) + 1
<1>1. n \in Page /\ m \in Page /\ m = Or1(n)
  BY PagesIn
<1>2. r0 \in Page /\ r1 \in Page /\ r1 = Or1(r0)
  BY DEF RegGood, Banks
<1>3. ROMMapper \in [Carts \X Banks -> Byte] /\ 0 \in Banks /\ 1 \in Banks
  BY DEF TypeOK, MapType, BankRegs, Banks
<1>4. \/ UNCHANGED <<MemMap, ROMMapper>>
      \/ /\ ROMMapper' = [ROMMapper EXCEPT ![<<c, 0>>] = n, ![<<c, 1>>] = m]
         /\ UNCHANGED MemMap
      \/ \E block : SetTwoBanks(c, CartSlot[c], 0, n, m, block)
      \/ \E block : SetTwoBanks(c, CartSlot[c], 0, r0, r1, block)
  BY DEF FMPac, Ignored, Stores, StoreSRAM
<1> HIDE DEF n, m, r0, r1
<1>5. CASE UNCHANGED <<MemMap, ROMMapper>>
  BY <1>5, SameMega
<1>6. CASE /\ ROMMapper' = [ROMMapper EXCEPT ![<<c, 0>>] = n, ![<<c, 1>>] = m]
           /\ UNCHANGED MemMap
  <2>1. TwoSet(c, 0, n, m)
    BY <1>3, <1>6 DEF TwoSet
  <2>2. Around(c)
    BY <1>6, <2>1 DEF Around, TwoSet
  <2> QED BY <1>1, <2>1, <2>2, TwoMega
<1>7. ASSUME NEW block, SetTwoBanks(c, CartSlot[c], 0, n, m, block)
      PROVE  MegaStep(c)
  BY <1>1, <1>7, SetTwoBanksMega
<1>8. ASSUME NEW block, SetTwoBanks(c, CartSlot[c], 0, r0, r1, block)
      PROVE  MegaStep(c)
  BY <1>2, <1>8, SetTwoBanksMega
<1> QED BY <1>4, <1>5, <1>6, <1>7, <1>8

LEMMA KonamiMega ==
  ASSUME RomPages < 256, TypeOK, NEW c \in Carts, NEW a \in CartAddress, NEW v \in Byte,
         \/ ROMType[c] = "GEN8" /\ Gen8(c, CartSlot[c], a, v)
         \/ ROMType[c] = "KONAMI5" /\ Konami5(c, CartSlot[c], a, v)
         \/ ROMType[c] = "KONAMI4" /\ Konami4(c, CartSlot[c], a, v),
         RegGood(c, ROMType[c], ROMMapper)
  PROVE  MegaStep(c)
<1>1. ROMType[c] \notin {"FMPAC", "ASCII16", "GEN16"} /\ Win(a) - 2 \in Banks
  BY CartBank
<1>2. Ignored \/ SelectRom(c, CartSlot[c], Win(a) - 2, v % RomPages)
  BY DEF Gen8, Konami5, Konami4
<1>3. CASE Ignored
  BY <1>3, SameMega DEF Ignored, Stores
<1>4. CASE SelectRom(c, CartSlot[c], Win(a) - 2, v % RomPages)
  BY <1>1, <1>4, SelectRomMega
<1> QED BY <1>2, <1>3, <1>4

LEMMA Gen16Mega ==
  ASSUME RomPages < 256, TypeOK, NEW c \in Carts, NEW a, NEW v \in Byte,
         Gen16(c, CartSlot[c], a, v), RegGood(c, ROMType[c], ROMMapper)
  PROVE  MegaStep(c)
<1> DEFINE b == IF a >= \h8000 THEN 2 ELSE 0
           n == Pair(v)
           m == Pair(v) + 1
<1>1. Stores({}) \/ \E block : SetTwoBanks(c, CartSlot[c], b, n, m, block)
  BY DEF Gen16
<1>2. b \in {0, 2} /\ n \in Page /\ m \in Page /\ m = Or1(n)
  BY PagesIn
<1> HIDE DEF b, n, m
<1>3. CASE Stores({})
  BY <1>3, SameMega DEF Stores
<1>4. ASSUME NEW block, SetTwoBanks(c, CartSlot[c], b, n, m, block)
      PROVE  MegaStep(c)
  BY <1>2, <1>4, SetTwoBanksMega
<1> QED BY <1>1, <1>3, <1>4

LEMMA AsciiMega ==
  ASSUME RomPages < 256, TypeOK, NEW c \in Carts, NEW a \in CartAddress, NEW v \in Byte,
         \/ ROMType[c] = "ASCII8" /\ Ascii8(c, CartSlot[c], a, v)
         \/ ROMType[c] = "ASCII16" /\ Ascii16(c, CartSlot[c], a, v),
         RegGood(c, ROMType[c], ROMMapper)
  PROVE  MegaStep(c)
<1>1. CASE UNCHANGED <<MemMap, ROMMapper>>
  BY <1>1, SameMega
<1>2. CASE /\ ROMType[c] = "ASCII8" /\ Ascii8(c, CartSlot[c], a, v)
           /\ ~UNCHANGED <<MemMap, ROMMapper>>
  <2> DEFINE b == (a \div \h800) % 4
             n == IF SelectsSRAM(v) THEN SRAMBank ELSE v % RomPages
             block == IF SelectsSRAM(v) THEN SramBlock(c, 0) ELSE RomBlock(c, v % RomPages)
  <2>1. b \in Banks
    BY CartAddressIs DEF Banks
  <2>2. SwitchAscii(c, CartSlot[c], b, 1, n, block)
    BY <1>2 DEF Ascii8, StoreSRAM, Ignored, Stores
  <2>3. n \in Page
    BY PagesIn, MarkIn
  <2> HIDE DEF b, n, block
  <2> QED BY <1>2, <2>1, <2>2, <2>3, SwitchAsciiMega
<1>3. CASE /\ ROMType[c] = "ASCII16" /\ Ascii16(c, CartSlot[c], a, v)
           /\ ~UNCHANGED <<MemMap, ROMMapper>>
  <2> DEFINE b == IF BitSet(a, \h1000) THEN 2 ELSE 0
             n == IF SelectsSRAM(v) THEN SRAMBank ELSE Pair(v)
             block == IF SelectsSRAM(v) THEN SramBlock(c, 0) ELSE RomBlock(c, Pair(v))
  <2>1. b \in {0, 2} /\ b \in Banks
    BY DEF Banks
  <2>2. SwitchAscii(c, CartSlot[c], b, 2, n, block)
    BY <1>3 DEF Ascii16, StoreSRAM, Ignored, Stores
  <2>3. n \in Page /\ Or1(n) \in Page
    BY PagesIn, MarkIn
  <2> HIDE DEF b, n, block
  <2> QED BY <1>3, <2>1, <2>2, <2>3, SwitchAsciiMega
<1> QED BY <1>1, <1>2, <1>3

LEMMA GMaster2Mega ==
  ASSUME RomPages < 256, TypeOK, NEW c \in Carts, NEW a \in CartAddress, NEW v \in Byte,
         GMaster2(c, CartSlot[c], a, v), ROMType[c] = "GMASTER2",
         RegGood(c, ROMType[c], ROMMapper)
  PROVE  MegaStep(c)
<1>1. Win(a) - 2 \in Banks
  BY CartBank
<1>2. \/ UNCHANGED <<MemMap, ROMMapper>>
      \/ SelectRom(c, CartSlot[c], Win(a) - 2, v % RomPages)
      \/ \E block : SetBank(c, CartSlot[c], Win(a) - 2, SRAMBank, block)
  BY DEF GMaster2, StoreSRAM, Ignored, Stores
<1>3. CASE UNCHANGED <<MemMap, ROMMapper>>
  BY <1>3, SameMega
<1>4. CASE SelectRom(c, CartSlot[c], Win(a) - 2, v % RomPages)
  BY <1>1, <1>4, SelectRomMega
<1>5. ASSUME NEW block, SetBank(c, CartSlot[c], Win(a) - 2, SRAMBank, block)
      PROVE  MegaStep(c)
  BY <1>1, <1>5, MarkIn, SetBankMega
<1> QED BY <1>2, <1>3, <1>4, <1>5

LEMMA MapperMega ==
  ASSUME RomPages < 256, TypeOK, NEW c \in Carts, NEW a \in CartAddress, NEW v \in Byte,
         Mapper(c, CartSlot[c], a, v), RegGood(c, ROMType[c], ROMMapper)
  PROVE  MegaStep(c)
BY KonamiMega, Gen16Mega, AsciiMega, GMaster2Mega, FMPacMega DEF Mapper

\* SCC-I RAM comes into an empty slot.
LEMMA EmptySlotView ==
  ASSUME TypeOK, Settled, RegsGood(ROMMapper), UNCHANGED ROMType, NEW c \in Carts, IsEmpty(c),
         NEW b \in Banks, NEW n, SetBank(c, CartSlot[c], b, n, SccRam(n))
  PROVE  Settled' /\ RegsGood(ROMMapper)'
<1> DEFINE block == SccRam(n)
<1>1. block[1] = "scci" /\ SetBank(c, CartSlot[c], b, n, block)
  BY DEF SccRam
<1> HIDE DEF block
<1>2. /\ Moved(CartSlot[c], {b + 2}, OneBlock(b, block))
      /\ \A d \in Carts, e \in Banks :
           ROMMapper'[<<d, e>>] = IF d = c /\ e = b THEN n ELSE ROMMapper[<<d, e>>]
  BY <1>1, CartSlotType, SetBankMoved
<1>3. Settled'
  <2> SUFFICES ASSUME NEW x \in Cells, <<x[1], x[2]>> # <<3, 2>>, ~Switched(x)
               PROVE  SettledBlock(x, MemMap'[x])
    BY SameType DEF Settled, SettledBlock
  <2>1. CASE <<x[1], x[2]>> = CartSlot[c] /\ x[3] = b + 2
    <3>1. x = CartCell(c, b)
      <4>1. x = <<x[1], x[2], x[3]>>
        BY DEF Cells
      <4> QED BY <2>1, <4>1 DEF CartCell
    <3>2. SystemMap[x] = EmptyRAM
      BY <3>1, SystemCells
    <3>3. MemMap'[x] = block
      BY <1>2, <2>1 DEF Moved, OneBlock
    <3> QED BY <1>1, <3>2, <3>3 DEF SettledBlock
  <2>2. CASE ~(<<x[1], x[2]>> = CartSlot[c] /\ x[3] = b + 2)
    <3>1. MemMap'[x] = MemMap[x]
      BY <1>2, <2>2 DEF Moved
    <3> QED BY <3>1 DEF Settled
  <2> QED BY <2>1, <2>2
<1>4. RegsGood(ROMMapper)'
  <2> SUFFICES ASSUME NEW d \in Carts, IsMega(d)
               PROVE  RegGood(d, ROMType[d], ROMMapper')
    BY DEF RegsGood, IsMega
  <2>1. d # c
    BY MegaType DEF IsEmpty
  <2>2. \A e \in Banks : ROMMapper'[<<d, e>>] = ROMMapper[<<d, e>>]
    BY <1>2, <2>1
  <2>3. 0 \in Banks /\ 1 \in Banks /\ 2 \in Banks /\ 3 \in Banks
    BY DEF Banks
  <2>4. RegGood(d, ROMType[d], ROMMapper)
    BY DEF RegsGood
  <2> QED BY <2>2, <2>3, <2>4 DEF RegGood
<1> QED BY <1>3, <1>4

LEMMA SccCartView ==
  ASSUME TypeOK, Settled, RegsGood(ROMMapper), UNCHANGED ROMType, NEW c \in Carts, IsEmpty(c),
         NEW a \in CartAddress, NEW v, SccCart(c, CartSlot[c], a, v)
  PROVE  Settled' /\ RegsGood(ROMMapper)'
<1>1. Win(a) - 2 \in Banks
  BY CartBank
<1>2. UNCHANGED <<MemMap, ROMMapper>>
      \/ SetBank(c, CartSlot[c], Win(a) - 2, v % 16, SccRam(v % 16))
  BY DEF SccCart, SelectPage, Stores
<1>3. CASE UNCHANGED <<MemMap, ROMMapper>>
  BY <1>3, SameView
<1>4. CASE SetBank(c, CartSlot[c], Win(a) - 2, v % 16, SccRam(v % 16))
  BY <1>1, <1>4, EmptySlotView
<1> QED BY <1>2, <1>3, <1>4

LEMMA MapROMView ==
  ASSUME RomPages < 256, TypeOK, Settled, RegsGood(ROMMapper), UNCHANGED ROMType,
         NoSubslots(SSLReg), SlotsCurrent(PSLReg, SSLReg, PSL, SSL, ppiA, ppiIn),
         NEW a \in CartAddress, a \in Address, NEW v \in Byte, MapROM(a, v)
  PROVE  Settled' /\ RegsGood(ROMMapper)'
<1> DEFINE slot == SlotOf(a)
           c    == CartMap[slot]
<1>1. c \in Carts => slot = CartSlot[c]
  BY CartReached
<1>2. CASE UNCHANGED <<MemMap, ROMMapper>>
  BY <1>2, SameView
<1>3. CASE c \in Carts /\ IsEmpty(c) /\ SccCart(c, slot, a, v)
  <2> HIDE DEF c
  <2> QED BY <1>1, <1>3, SccCartView
<1>4. CASE c \in Carts /\ IsMega(c) /\ Mapper(c, slot, a, v)
  <2> HIDE DEF c
  <2>1. RegGood(c, ROMType[c], ROMMapper)
    BY <1>4 DEF RegsGood
  <2>2. MegaStep(c)
    BY <1>1, <1>4, <2>1, MapperMega
  <2> QED BY <1>4, <2>2, MegaStepView
<1> QED BY <1>2, <1>3, <1>4 DEF MapROM, InSccCart, SccRegs, Ignored, Stores

LEMMA WrZ80View ==
  ASSUME RomPages < 256, TypeOK, IInv, BanksInv, Settled, RegsGood(ROMMapper),
         NEW a \in Address, a # \hFFFF, NEW v \in Byte, WrZ80(a, v)
  PROVE  Settled' /\ RegsGood(ROMMapper)'
<1>1. UNCHANGED ROMType /\ NoSubslots(SSLReg)
      /\ SlotsCurrent(PSLReg, SSLReg, PSL, SSL, ppiA, ppiIn)
  BY DEF WrZ80, BanksInv, IInv
<1>2. CASE UNCHANGED <<MemMap, ROMMapper>>
  BY <1>1, <1>2, SameView
<1>3. CASE a \in CartAddress /\ MapROM(a, v)
  BY <1>1, <1>3, MapROMView
<1> QED BY <1>2, <1>3 DEF WrZ80, Ignored, Stores

\* The other actions.
LEMMA RemappedSettled ==
  ASSUME NEW map, NEW ram, NEW bank, MemMap' = Remapped(map, ram, bank), UNCHANGED ROMType,
         \A x \in Cells : <<x[1], x[2]>> # <<3, 2>> /\ ~Switched(x) => SettledBlock(x, map[x])
  PROVE  Settled'
<1> SUFFICES ASSUME NEW x \in Cells, <<x[1], x[2]>> # <<3, 2>>, ~Switched(x)
             PROVE  SettledBlock(x, MemMap'[x])
  BY SameType DEF Settled, SettledBlock
<1>1. Remapped(map, ram, bank)[x] = map[x]
  BY DEF Remapped, Switched
<1>2. MemMap'[x] = map[x]
  BY <1>1
<1> QED BY <1>2

LEMMA ResetRegs ==
  ASSUME RomPages < 256, NEW bank, NEW c \in Carts, IsMega(c), NEW type
  PROVE  RegGood(c, type, ResetROMMapper(bank))
<1>1. RomPages \in 8 .. 254 /\ RomPages % 2 = 0
  BY SizeAssumption
<1>2. \A b \in Banks : ResetROMMapper(bank)[<<c, b>>] = ResetBank(c, b)
  BY DEF ResetROMMapper
<1>3. \A b \in Banks : ResetBank(c, b) \in Page
  BY <1>1 DEF ResetBank, Banks, Page
<1>4. ResetBank(c, 1) = Or1(ResetBank(c, 0)) /\ ResetBank(c, 3) = Or1(ResetBank(c, 2))
  BY <1>1 DEF ResetBank, Or1
<1>5. 0 \in Banks /\ 1 \in Banks /\ 2 \in Banks /\ 3 \in Banks
  BY DEF Banks
<1> QED BY <1>2, <1>3, <1>4, <1>5 DEF RegGood

LEMMA ResetOverView ==
  ASSUME RomPages < 256, NEW map, NEW bank, ResetOver(map, bank), UNCHANGED ROMType,
         \A x \in Cells : <<x[1], x[2]>> # <<3, 2>> /\ ~Switched(x) => SettledBlock(x, map[x])
  PROVE  Settled' /\ RegsGood(ROMMapper)'
<1> DEFINE new == ResetROMMapper(bank)
           ram == RAMMapper'
<1>1. ROMMapper' = new /\ MemMap' = Remapped(map, ram, new)
  BY DEF ResetOver
<1>2. RegsGood(ROMMapper)'
  BY <1>1, ResetRegs DEF RegsGood, IsMega
<1> HIDE DEF new, ram
<1>3. Settled'
  BY <1>1, RemappedSettled
<1> QED BY <1>2, <1>3

LEMMA InitView ==
  ASSUME RomPages < 256, Init
  PROVE  ViewInv
<1> DEFINE zero == [x \in Carts \X Banks |-> 0]
<1>1. /\ ROMMapper = ResetROMMapper(zero)
      /\ MemMap = Remapped(SystemMap, RAMMapper, ROMMapper) /\ saved = NoState
  BY DEF Init
<1> HIDE DEF zero
<1>2. Settled
  <2> SUFFICES ASSUME NEW x \in Cells, <<x[1], x[2]>> # <<3, 2>>, ~Switched(x)
               PROVE  SettledBlock(x, MemMap[x])
    BY DEF Settled
  <2>1. Remapped(SystemMap, RAMMapper, ROMMapper)[x] = SystemMap[x]
    BY DEF Remapped, Switched
  <2>2. MemMap[x] = SystemMap[x]
    BY <1>1, <2>1
  <2> QED BY <2>2 DEF SettledBlock
<1>3. RegsGood(ROMMapper)
  BY <1>1, ResetRegs DEF RegsGood
<1> QED BY <1>1, <1>2, <1>3 DEF ViewInv, SavedView

LEMMA ResetsView ==
  ASSUME RomPages < 256, Settled, Reset \/ Restart
  PROVE  Settled' /\ RegsGood(ROMMapper)'
<1>1. CASE Reset
  <2>1. ResetOver(MemMap, ROMMapper) /\ UNCHANGED ROMType
    BY <1>1 DEF Reset
  <2> QED BY <2>1, ResetOverView DEF Settled
<1>2. CASE Restart
  <2>1. PICK bank : ResetOver(SystemMap, bank)
    BY <1>2 DEF Restart
  <2>2. UNCHANGED ROMType /\ \A x : SettledBlock(x, SystemMap[x])
    BY <1>2 DEF Restart, SettledBlock
  <2> QED BY <2>1, <2>2, ResetOverView
<1> QED BY <1>1, <1>2

LEMMA OutMapperView ==
  ASSUME TypeOK, Settled, RegsGood(ROMMapper), NEW j \in Pages, NEW byte, OutMapper(j, byte)
  PROVE  Settled' /\ RegsGood(ROMMapper)'
<1>1. UNCHANGED <<ROMMapper, ROMType>>
  BY DEF OutMapper
<1>2. Settled'
  <2> SUFFICES ASSUME NEW x \in Cells, <<x[1], x[2]>> # <<3, 2>>, ~Switched(x)
               PROVE  SettledBlock(x, MemMap'[x])
    BY <1>1, SameType DEF Settled, SettledBlock
  <2> DEFINE seg == byte % RamSegs
  <2>1. x # <<3, 2, 2 * j>> /\ x # <<3, 2, 2 * j + 1>>
    OBVIOUS
  <2>2. MemMap \in [Cells -> Block]
    BY DEF TypeOK, MapType
  <2>3. \/ MemMap' = MemMap
        \/ MemMap' = [MemMap EXCEPT ![<<3, 2, 2 * j>>] = RamBlock(seg, 0),
                                    ![<<3, 2, 2 * j + 1>>] = RamBlock(seg, 1)]
    BY DEF OutMapper
  <2>4. MemMap'[x] = MemMap[x]
    BY <2>1, <2>2, <2>3
  <2> QED BY <2>4 DEF Settled
<1>3. RegsGood(ROMMapper)'
  BY <1>1 DEF RegsGood, IsMega
<1> QED BY <1>2, <1>3

\* What a load puts in the registers of a MegaROM.
LEMMA LoadedRegs ==
  ASSUME NEW old \in BankRegs, NEW c \in Carts, IsMega(c)
  PROVE  RegGood(c, ROMType[c], Masked(Corrected(old)))
<1> DEFINE bank == Masked(Corrected(old))
<1>1. 0 \in Banks /\ 1 \in Banks /\ 2 \in Banks /\ 3 \in Banks
  BY DEF Banks
<1>2. \A b \in Banks : /\ Corrected(old)[<<c, b>>] = old[<<c, b>>]
                          \/ \E e \in Banks : Corrected(old)[<<c, b>>] = Or1(old[<<c, e>>])
                       /\ bank[<<c, b>>] = Corrected(old)[<<c, b>>] % RomPages
  <2> SUFFICES ASSUME NEW b \in Banks
               PROVE  /\ Corrected(old)[<<c, b>>] = old[<<c, b>>]
                         \/ \E e \in Banks : Corrected(old)[<<c, b>>] = Or1(old[<<c, e>>])
                      /\ bank[<<c, b>>] = Corrected(old)[<<c, b>>] % RomPages
    OBVIOUS
  <2>1. bank[<<c, b>>] = Corrected(old)[<<c, b>>] % RomPages
    BY DEF Masked
  <2>2. \/ Corrected(old)[<<c, b>>] = old[<<c, b>>]
        \/ b \in {1, 3} /\ Corrected(old)[<<c, b>>] = Or1(old[<<c, b - 1>>])
    BY DEF Corrected
  <2>3. b \in {1, 3} => b - 1 \in Banks
    BY DEF Banks
  <2> QED BY <2>1, <2>2, <2>3
<1>3. \A b \in Banks : old[<<c, b>>] \in Byte
  BY DEF BankRegs
<1>4. \A b \in Banks : Corrected(old)[<<c, b>>] \in Byte
  BY <1>2, <1>3, Or1Type
<1> HIDE DEF bank
<1>5. ASSUME NEW b \in Banks
      PROVE  bank[<<c, b>>] \in Page
  <2>1. Corrected(old)[<<c, b>>] % RomPages \in 0 .. RomPages - 1
    BY <1>4, MaskKeepsBit
  <2> QED BY <1>2, <2>1, SizeAssumption DEF Page
<1>6. ASSUME ROMType[c] \in {"FMPAC", "ASCII16", "GEN16"}
      PROVE  bank[<<c, 1>>] = Or1(bank[<<c, 0>>])
  <2>1. Corrected(old)[<<c, 0>>] = old[<<c, 0>>] /\ Corrected(old)[<<c, 1>>] = Or1(old[<<c, 0>>])
    BY <1>1, <1>6 DEF Corrected
  <2>2. bank[<<c, 0>>] = old[<<c, 0>>] % RomPages /\ bank[<<c, 1>>] = Or1(old[<<c, 0>>]) % RomPages
    BY <1>1, <1>2, <2>1
  <2> QED BY <1>1, <1>3, <2>2, MaskKeepsBit
<1>7. ASSUME ROMType[c] \in {"ASCII16", "GEN16"}
      PROVE  bank[<<c, 3>>] = Or1(bank[<<c, 2>>])
  <2>1. Corrected(old)[<<c, 2>>] = old[<<c, 2>>] /\ Corrected(old)[<<c, 3>>] = Or1(old[<<c, 2>>])
    BY <1>1, <1>7 DEF Corrected
  <2>2. bank[<<c, 2>>] = old[<<c, 2>>] % RomPages /\ bank[<<c, 3>>] = Or1(old[<<c, 2>>]) % RomPages
    BY <1>1, <1>2, <2>1
  <2> QED BY <1>1, <1>3, <2>2, MaskKeepsBit
<1> QED BY <1>5, <1>6, <1>7 DEF RegGood, bank

LEMMA LoadView ==
  ASSUME TypeOK, Settled, LoadState
  PROVE  Settled' /\ RegsGood(ROMMapper)'
<1> DEFINE old  == saved.ROMMapper
           bank == Masked(Corrected(old))
           ram  == RAMMapper'
<1>1. saved \in Registers
  BY DEF LoadState, TypeOK, SavedType
<1>2. old \in BankRegs
  BY <1>1 DEF Registers
<1>3. ROMMapper' = bank /\ MemMap' = Remapped(MemMap, ram, bank) /\ UNCHANGED ROMType
  BY DEF LoadState
<1>4. RegsGood(ROMMapper)'
  <2> HIDE DEF old
  <2> QED BY <1>2, <1>3, LoadedRegs DEF RegsGood, IsMega
<1> HIDE DEF bank, ram
<1>5. Settled'
  BY <1>3, RemappedSettled DEF Settled
<1> QED BY <1>4, <1>5

\* What is behind every cell, according to the registers.
LEMMA CellNow ==
  ASSUME MapperCurrent, BanksGood, Settled, NEW x \in Cells
  PROVE  CellGood(x, MemMap[x], RAMMapper, ROMMapper, Unlocked)
<1> DEFINE s == <<x[1], x[2]>>
           c == CartMap[s]
           b == x[3] - 2
<1>1. CASE s = <<3, 2>>
  <2>1. x = <<3, 2, x[3]>> /\ x[3] \in Windows
    BY <1>1 DEF Cells
  <2>2. MemMap[x] = RamBlock(RAMMapper[x[3] \div 2], x[3] % 2)
    BY <2>1 DEF MapperCurrent
  <2> QED BY <1>1, <2>2 DEF CellGood
<1>2. CASE s # <<3, 2>> /\ Switched(x)
  <2>1. c \in Carts /\ s = CartSlot[c] /\ x[3] \in 2 .. 5
    BY <1>2 DEF Switched
  <2>2. b \in Banks /\ x[3] = b + 2
    BY <2>1 DEF Banks
  <2>3. x = CartCell(c, b)
    <3>1. x = <<x[1], x[2], x[3]>>
      BY DEF Cells
    <3>2. CartSlot[c][1] = x[1] /\ CartSlot[c][2] = x[2]
      BY <2>1
    <3> HIDE DEF c, b
    <3> QED BY <2>2, <3>1, <3>2 DEF CartCell
  <2>4. BankGood(c, ROMType[c], b, Unlocked, ROMMapper[<<c, b>>], MemMap[x])
    <3> HIDE DEF c, b
    <3> QED BY <2>1, <2>2, <2>3 DEF BanksGood
  <2> QED BY <1>2, <2>4 DEF CellGood
<1>3. CASE s # <<3, 2>> /\ ~Switched(x)
  BY <1>3 DEF CellGood, Settled
<1> QED BY <1>1, <1>2, <1>3

LEMMA SavedViewKept ==
  ASSUME SavedView, UNCHANGED <<ROMType, saved>>
  PROVE  SavedView'
<1> SUFFICES ASSUME saved # NoState PROVE SavedView'
  BY DEF SavedView, NoState
<1>1. RegsGood(saved.ROMMapper)'
  BY DEF SavedView, RegsGood, IsMega
<1>2. ASSUME NEW w \in Windows
      PROVE  CellGood(ViewCell(w), saved.view[w], saved.RAMMapper, saved.ROMMapper,
                      saved.FMPACKey[1] /\ saved.FMPACKey[2])'
  BY SameType DEF SavedView, CellGood, ViewCell, SettledBlock
<1> QED BY <1>1, <1>2 DEF SavedView

LEMMA SaveView ==
  ASSUME TypeOK, IInv, BanksInv, Settled, RegsGood(ROMMapper), NEW most, SaveState(most)
  PROVE  SavedView'
<1>1. UNCHANGED ROMType
  BY DEF SaveState
<1>2. /\ saved'.PSL = PSL /\ saved'.SSL = SSL /\ saved'.RAMMapper = RAMMapper
      /\ saved'.ROMMapper = ROMMapper /\ saved'.FMPACKey = FMPACKey /\ saved'.view = RAM
  BY DEF SaveState
<1>3. RegsGood(saved.ROMMapper)'
  BY <1>1, <1>2 DEF RegsGood, IsMega
<1>4. ASSUME NEW w \in Windows
      PROVE  CellGood(ViewCell(w), saved.view[w], saved.RAMMapper, saved.ROMMapper,
                      saved.FMPACKey[1] /\ saved.FMPACKey[2])'
  <2> DEFINE x == <<PSL[w \div 2], SSL[w \div 2], w>>
  <2>1. x \in Cells
    <3>1. w \div 2 \in Pages
      BY PageType
    <3> QED BY <3>1 DEF Cells, TypeOK, SlotsType
  <2>2. RAM[w] = MemMap[x]
    BY DEF IInv, Coherent
  <2> HIDE DEF x
  <2>3. CellGood(x, RAM[w], RAMMapper, ROMMapper, Unlocked)
    BY <2>1, <2>2, CellNow DEF IInv, BanksInv
  <2>4. ViewCell(w)' = x
    BY <1>2 DEF ViewCell, x
  <2> QED BY <1>1, <1>2, <2>3, <2>4, SameType DEF CellGood, SettledBlock, Unlocked
<1> QED BY <1>3, <1>4 DEF SavedView

LEMMA ViewStep ==
  ASSUME RomPages < 256, TypeOK, IInv, BanksInv, ViewInv, [Next]_vars
  PROVE  ViewInv'
<1>1. Settled /\ RegsGood(ROMMapper) /\ SavedView
  BY DEF ViewInv
<1>2. Settled' /\ RegsGood(ROMMapper)'
  <2>1. CASE Reset \/ Restart
    BY <1>1, <2>1, ResetsView
  <2>2. CASE UNCHANGED <<ROMType, MemMap, ROMMapper>>
    BY <1>1, <2>2, SameView
  <2>3. ASSUME NEW v, OutSlot(v) \/ WrZ80(\hFFFF, v) \/ OutPPIMode(v)
        PROVE  UNCHANGED <<ROMType, MemMap, ROMMapper>>
    BY <2>3 DEF OutSlot, WrZ80, SSlot, OutPPIMode
  <2>4. ASSUME NEW j \in Pages, NEW byte \in Byte, OutMapper(j, byte)
        PROVE  Settled' /\ RegsGood(ROMMapper)'
    BY <1>1, <2>4, OutMapperView
  <2>5. ASSUME NEW a \in Address \ {\hFFFF}, NEW v \in Byte, WrZ80(a, v)
        PROVE  Settled' /\ RegsGood(ROMMapper)'
    <3>1. a # \hFFFF
      OBVIOUS
    <3> QED BY <1>1, <2>5, <3>1, WrZ80View
  <2>6. ASSUME NEW most \in Nat, SaveState(most)
        PROVE  Settled' /\ RegsGood(ROMMapper)'
    <3>1. UNCHANGED <<ROMType, MemMap, ROMMapper>>
      BY <2>6 DEF SaveState
    <3> QED BY <2>2, <3>1
  <2>7. CASE LoadState
    BY <1>1, <2>7, LoadView
  <2>8. CASE UNCHANGED vars
    <3>1. UNCHANGED <<ROMType, MemMap, ROMMapper>>
      BY <2>8 DEF vars
    <3> QED BY <2>2, <3>1
  <2> QED BY <2>1, <2>2, <2>3, <2>4, <2>5, <2>6, <2>7, <2>8, AnyProgram
<1>3. SavedView'
  <2>1. ASSUME NEW most \in Nat, SaveState(most)
        PROVE  SavedView'
    BY <1>1, <2>1, SaveView
  <2>2. ASSUME ~ \E most \in Nat : SaveState(most)
        PROVE  SavedView'
    <3>1. ASSUME NEW a, NEW v, WrZ80(a, v)
          PROVE  UNCHANGED <<ROMType, saved>>
      BY <3>1 DEF WrZ80, SSlot, saveVars
    <3>2. ASSUME NEW j, NEW v, OutSlot(v) \/ OutPPIMode(v) \/ OutMapper(j, v)
          PROVE  UNCHANGED <<ROMType, saved>>
      BY <3>2 DEF OutSlot, OutPPIMode, OutMapper, saveVars
    <3>3. ASSUME Reset \/ Restart \/ LoadState \/ UNCHANGED vars
          PROVE  UNCHANGED <<ROMType, saved>>
      BY <3>3 DEF Reset, Restart, LoadState, vars, saveVars
    <3>4. UNCHANGED <<ROMType, saved>>
      BY <2>2, <3>1, <3>2, <3>3, AnyProgram
    <3> QED BY <1>1, <3>4, SavedViewKept
  <2> QED BY <2>1, <2>2
<1> QED BY <1>2, <1>3 DEF ViewInv

\* A load leaves registers that held pages of the ROM as they were saved.
LEMMA LoadedPage ==
  ASSUME NEW old \in BankRegs, NEW c \in Carts, IsMega(c), RegGood(c, ROMType[c], old),
         NEW b \in Banks, old[<<c, b>>] # SRAMBank
  PROVE  Masked(Corrected(old))[<<c, b>>] = old[<<c, b>>]
<1>1. 0 \in Banks /\ 1 \in Banks /\ 2 \in Banks /\ 3 \in Banks
  BY DEF Banks
<1>2. Corrected(old)[<<c, b>>] = old[<<c, b>>]
  <2>1. CASE \/ ROMType[c] = "FMPAC" /\ b = 1
             \/ ROMType[c] \in {"ASCII16", "GEN16"} /\ b \in {1, 3}
    <3>1. Corrected(old)[<<c, b>>] = Or1(old[<<c, b - 1>>])
      BY <2>1 DEF Corrected
    <3>2. CASE b = 1
      BY <2>1, <3>1, <3>2 DEF RegGood
    <3>3. CASE b = 3
      BY <2>1, <3>1, <3>3 DEF RegGood
    <3> QED BY <2>1, <3>2, <3>3
  <2>2. CASE ~(\/ ROMType[c] = "FMPAC" /\ b = 1
               \/ ROMType[c] \in {"ASCII16", "GEN16"} /\ b \in {1, 3})
    BY <2>2 DEF Corrected
  <2> QED BY <2>1, <2>2
<1>3. Masked(Corrected(old))[<<c, b>>] = Corrected(old)[<<c, b>>] % RomPages
  BY DEF Masked
<1>4. old[<<c, b>>] \in Nat /\ old[<<c, b>>] < RomPages
  BY DEF RegGood, Page
<1>5. old[<<c, b>>] % RomPages = old[<<c, b>>]
  <2> DEFINE n == old[<<c, b>>]
  <2> HIDE DEF n
  <2>1. n \in Nat /\ n < RomPages /\ RomPages \in Nat
    BY <1>4, SizeAssumption DEF n
  <2>2. n % RomPages = n
    BY <2>1
  <2> QED BY <2>2 DEF n
<1> QED BY <1>2, <1>3, <1>5

\* One window after a load.
LEMMA LoadRestores ==
  ASSUME TypeOK, Settled, SavedView, LoadState, NEW w \in Windows
  PROVE  \/ saved.view[w][1] \in {"sram", "scci", "empty"}
         \/ saved.view[w][1] = "rom" /\ ROMType[saved.view[w][2]] = "FMPAC" /\ Unlocked'
         \/ RAM'[w] = saved.view[w]
<1> DEFINE x     == ViewCell(w)
           s     == <<x[1], x[2]>>
           c     == CartMap[s]
           b     == x[3] - 2
           old   == saved.ROMMapper
           bank  == Masked(Corrected(old))
           block == saved.view[w]
<1>1. saved # NoState /\ saved \in Registers
  BY DEF LoadState, TypeOK, SavedType
<1>2. /\ saved.PSL \in [Pages -> Pages] /\ saved.SSL \in [Pages -> Pages] /\ old \in BankRegs
  BY <1>1 DEF Registers
<1>3. x \in Cells /\ x[3] = w
  <2>1. w \div 2 \in Pages
    BY PageType
  <2> QED BY <1>2, <2>1 DEF ViewCell, Cells
<1>4. RAM'[w] = Remapped(MemMap, saved.RAMMapper, bank)[x]
  <2>1. RAM'[w] = MemMap'[<<PSL'[w \div 2], SSL'[w \div 2], w>>]
    BY DEF LoadState, RefreshWindows
  <2>2. <<PSL'[w \div 2], SSL'[w \div 2], w>> = x
    BY DEF LoadState, ViewCell
  <2>3. MemMap' = Remapped(MemMap, saved.RAMMapper, bank)
    BY DEF LoadState
  <2> QED BY <2>1, <2>2, <2>3
<1>5. CellGood(x, block, saved.RAMMapper, old, saved.FMPACKey[1] /\ saved.FMPACKey[2])
  BY <1>1 DEF SavedView
<1>6. CASE s = <<3, 2>>
  <2>1. block = RamBlock(saved.RAMMapper[x[3] \div 2], x[3] % 2)
    BY <1>5, <1>6 DEF CellGood
  <2>2. Remapped(MemMap, saved.RAMMapper, bank)[x] = RamBlock(saved.RAMMapper[x[3] \div 2], x[3] % 2)
    <3> HIDE DEF x, bank
    <3> QED BY <1>3, <1>6 DEF Remapped
  <2> QED BY <1>4, <2>1, <2>2
<1>7. CASE s # <<3, 2>> /\ Switched(x)
  <2>1. c \in Carts /\ s = CartSlot[c] /\ IsMega(c) /\ x[3] \in 2 .. 5
    BY <1>7 DEF Switched
  <2>2. b \in Banks
    <3> HIDE DEF x
    <3> QED BY <2>1 DEF Banks
  <2>3. BankGood(c, ROMType[c], b, saved.FMPACKey[1] /\ saved.FMPACKey[2], old[<<c, b>>], block)
    BY <1>5, <1>7 DEF CellGood
  <2>4. Remapped(MemMap, saved.RAMMapper, bank)[x] = RomBlock(c, bank[<<c, b>>])
    <3> HIDE DEF x, bank
    <3> QED BY <1>3, <1>7, <2>1 DEF Remapped
  <2>5. RegGood(c, ROMType[c], old)
    BY <1>1, <2>1 DEF SavedView, RegsGood
  <2> HIDE DEF block, c, b, x, s, bank
  <2>6. /\ block[1] \in {"rom", "sram"} /\ block[2] = c
        /\ \/ ROMType[c] = "FMPAC" /\ b < 2 /\ saved.FMPACKey[1] /\ saved.FMPACKey[2]
           \/ old[<<c, b>>] = SRAMBank /\ block[1] = "sram"
           \/ old[<<c, b>>] # SRAMBank /\ block = RomBlock(c, old[<<c, b>>])
    BY <2>1, <2>3 DEF BankGood, IsMega
  <2>7. CASE ROMType[c] = "FMPAC" /\ b < 2 /\ saved.FMPACKey[1] /\ saved.FMPACKey[2]
    <3>1. Unlocked'
      BY <2>7 DEF Unlocked, LoadState
    <3> QED BY <2>6, <2>7, <3>1 DEF block
  <2>8. CASE block[1] = "sram"
    BY <2>8 DEF block
  <2>9. CASE old[<<c, b>>] # SRAMBank /\ block = RomBlock(c, old[<<c, b>>])
    <3> HIDE DEF old
    <3>1. bank[<<c, b>>] = old[<<c, b>>]
      BY <1>2, <2>1, <2>2, <2>5, <2>9, LoadedPage DEF bank
    <3>2. RAM'[w] = block
      BY <1>4, <2>4, <2>9, <3>1
    <3> QED BY <3>2 DEF block
  <2> QED BY <2>6, <2>7, <2>8, <2>9
<1>8. CASE s # <<3, 2>> /\ ~Switched(x)
  <2>1. SettledBlock(x, block)
    BY <1>5, <1>8 DEF CellGood
  <2>2. SettledBlock(x, MemMap[x])
    <3> HIDE DEF x
    <3> QED BY <1>3, <1>8 DEF Settled
  <2>3. Remapped(MemMap, saved.RAMMapper, bank)[x] = MemMap[x]
    <3> HIDE DEF x, bank
    <3> QED BY <1>3, <1>8 DEF Remapped, Switched
  <2> HIDE DEF block, c, b, x, s, bank
  <2>4. block[1] \in {"scci", "empty"} \/ MemMap[x] = block
    BY <2>1, <2>2 DEF SettledBlock, EmptyRAM
  <2>5. RAM'[w] = MemMap[x]
    BY <1>4, <2>3
  <2> QED BY <2>4, <2>5 DEF block
<1> QED BY <1>6, <1>7, <1>8

(***************************************************************************)
(* Loading a state shows again, through every window, what was shown when  *)
(* it was saved, whatever the cartridges and whatever was done between the *)
(* save and the load, a new start of the game included: SaveState() writes *)
(* no pointers, and what LoadState() computes from the registers is what   *)
(* they were.  The exceptions are those of the property; ROMs of 2 MB and  *)
(* two FMPACs are left out as in BanksCorrect.                             *)
(***************************************************************************)
THEOREM ViewRestored ==
  ASSUME RomPages < 256, \A p \in Programs : OneFMPAC(p.carts)
  PROVE  Spec => LoadRestoresView
<1>1. Init => BanksInv /\ ViewInv
  BY InitBanks, InitView
<1>2. TypeOK /\ IInv /\ BanksInv /\ [Next]_vars => BanksInv'
  BY BanksStep
<1>3. TypeOK /\ IInv /\ BanksInv /\ ViewInv /\ [Next]_vars => ViewInv'
  BY ViewStep
<1>4. TypeOK /\ ViewInv =>
        [LoadState =>
           \A w \in Windows :
             LET block == saved.view[w] IN
             \/ block[1] \in {"sram", "scci", "empty"}
             \/ block[1] = "rom" /\ ROMType[block[2]] = "FMPAC" /\ Unlocked'
             \/ RAM'[w] = block]_vars
  BY LoadRestores DEF ViewInv
<1> QED
  BY <1>1, <1>2, <1>3, <1>4, TypeCorrect, Inductive, PTL DEF Spec, LoadRestoresView
=============================================================================
