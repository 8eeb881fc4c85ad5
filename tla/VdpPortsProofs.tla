--------------------------- MODULE VdpPortsProofs ---------------------------
(***************************************************************************)
(* Theorems about VdpPorts: its types, that the places and masks of tables *)
(* follow the registers, and that the ports implement VideoMemory.  They   *)
(* hold for the sizes of video memory whose pages are as many as           *)
(* VRAMPageMask lets through, so not for 192 KB.                           *)
(***************************************************************************)
EXTENDS VdpPorts, TLAPS

-----------------------------------------------------------------------------
\* Values

LEMMA ModType ==
  ASSUME NEW n \in Nat, n > 0, NEW v \in Nat
  PROVE  v % n \in 0 .. n - 1 /\ v % n \in Nat /\ v % n \in Int
OBVIOUS

LEMMA ByteIs ==
  ASSUME NEW v
  PROVE  v \in Byte <=> v \in Nat /\ v <= 255
BY DEF Byte

LEMMA NumberIs ==
  ASSUME NEW r
  PROVE  r \in Number <=> r \in Nat /\ r <= 63
BY DEF Number

LEMMA SpecialNumbers ==
  /\ 0 \in Number /\ 1 \in Number /\ 2 \in Number /\ 3 \in Number /\ 4 \in Number
  /\ 5 \in Number /\ 6 \in Number /\ 10 \in Number /\ 11 \in Number
  /\ 14 \in Number /\ 16 \in Number /\ 17 \in Number
BY DEF Number

LEMMA Sizes ==
  /\ Pages \in Nat /\ Pages > 0 /\ Pages < 16
  /\ PageSize \in Nat /\ PageSize > 0
  /\ NoRAM \in Bytes
  /\ Regs \subseteq Number
  /\ \A r \in Number : Values[r] \subseteq Byte
BY PortsAssumption

\* The sizes that fill what VRAMPageMask lets through.
LEMMA MaskedPagesValue ==
  MaskedPages = IF Pages = 12 THEN 16 ELSE Pages
<1>1. CASE Pages = 2
  BY <1>1 DEF MaskedPages
<1>2. CASE Pages = 4
  BY <1>2 DEF MaskedPages
<1>3. CASE Pages = 8
  BY <1>3 DEF MaskedPages
<1>4. CASE Pages = 12
  BY <1>4 DEF MaskedPages
<1> QED BY <1>1, <1>2, <1>3, <1>4, PortsAssumption

LEMMA ScreenType ==
  ASSUME NEW v0, NEW v1, NEW mode \in Modes
  PROVE  ScreenFor(v0, v1, mode) \in Modes
<1>1. ASSUME NEW b \in DOMAIN ScreenOf PROVE ScreenOf[b] \in Modes
  BY <1>1 DEF ScreenOf, Modes, Text80, MAXSCREEN
<1> QED BY <1>1 DEF ScreenFor

Fields == [low : Nat \ {0}, high : Nat \ {0}]
MaskTypes == [R2 : Fields, R3 : Fields, R4 : Fields, R5 : Fields,
              M2 : Nat \ {0}, M3 : Nat \ {0}, M4 : Nat \ {0}, M5 : Nat \ {0}]

LEMMA MSKType ==
  ASSUME NEW mode \in Modes
  PROVE  MSK[mode] \in MaskTypes
<1> USE DEF MSK, MaskTypes, Fields, Bits, None, Text80, MAXSCREEN
<1>1. CASE mode = 0
  BY <1>1
<1>2. CASE mode = 1
  BY <1>2
<1>3. CASE mode = 2
  BY <1>3
<1>4. CASE mode = 3
  BY <1>4
<1>5. CASE mode = 4
  BY <1>5
<1>6. CASE mode \in {5, 6}
  BY <1>6
<1>7. CASE mode \in {7, 8}
  BY <1>7
<1>8. CASE mode = Text80
  BY <1>8
<1>9. mode \in {0, 1, 2, 3, 4, 5, 6, 7, 8, 13}
  BY DEF Modes
<1> HIDE DEF MSK, MaskTypes
<1> QED BY <1>1, <1>2, <1>3, <1>4, <1>5, <1>6, <1>7, <1>8, <1>9

LEMMA PlaceType ==
  ASSUME NEW v \in Nat, NEW b \in Fields, NEW unit \in Nat
  PROVE  Place(v, b, unit) \in Int
<1>1. b.low \in Nat /\ b.low > 0 /\ b.high \in Nat /\ b.high > 0
  BY DEF Fields
<1>2. v % b.high \in Int /\ v % b.low \in Int
  BY <1>1, ModType
<1> QED BY <1>2 DEF Place

LEMMA MaskType ==
  ASSUME NEW v \in Nat, NEW m \in Nat \ {0}, NEW unit \in Nat
  PROVE  Mask(v, m, unit) \in Int
<1>1. v % m \in Int
  BY ModType
<1>2. AllOnes \in Int
  BY DEF AllOnes
<1>3. (m - 1 - (v % m)) * unit \in Int
  BY <1>1
<1> QED BY <1>2, <1>3 DEF Mask

Registers == [Number -> Byte]

LEMMA TableTypes ==
  ASSUME NEW r \in Registers, NEW mode \in Modes
  PROVE  /\ TablesOf(r, mode) \in [Tables -> Int]
         /\ DOMAIN TablesOf(r, mode) = Tables
<1>1. /\ r[2] \in Nat /\ r[3] \in Nat /\ r[4] \in Nat /\ r[5] \in Nat /\ r[6] \in Nat
      /\ r[10] \in Nat /\ r[11] \in Nat
  <2>1. \A i \in Number : r[i] \in Nat
    <3> TAKE i \in Number
    <3>1. r[i] \in Byte
      BY DEF Registers
    <3> QED BY <3>1, ByteIs
  <2> QED BY <2>1, SpecialNumbers
<1>2. /\ MSK[mode].R2 \in Fields /\ MSK[mode].R3 \in Fields /\ MSK[mode].R4 \in Fields
      /\ MSK[mode].R5 \in Fields /\ MSK[mode].M2 \in Nat \ {0} /\ MSK[mode].M3 \in Nat \ {0}
      /\ MSK[mode].M4 \in Nat \ {0} /\ MSK[mode].M5 \in Nat \ {0}
  BY MSKType DEF MaskTypes
<1>3. Unit(mode) \in Nat
  BY DEF Unit
<1>4. ChrTabAt(r[2], mode) \in Int /\ ChrTabMask(r[2], mode) \in Int
  BY <1>1, <1>2, <1>3, PlaceType, MaskType DEF ChrTabAt, ChrTabMask
<1>5. ColTabAt(r[3], r[10], mode) \in Int /\ ColTabMask(r[3], mode) \in Int
  <2>1. Place(r[3], MSK[mode].R3, 64) \in Int
    BY <1>1, <1>2, PlaceType
  <2>2. r[10] * 2 ^ 14 \in Int
    BY <1>1
  <2>3. ColTabAt(r[3], r[10], mode) \in Int
    BY <2>1, <2>2 DEF ColTabAt
  <2> QED BY <1>1, <1>2, <2>3, MaskType DEF ColTabMask
<1>6. ChrGenAt(r[4], mode) \in Int /\ ChrGenMask(r[4], mode) \in Int
  <2>1. Place(r[4], MSK[mode].R4, 2048) \in Int
    BY <1>1, <1>2, PlaceType
  <2>2. Mask(r[4], MSK[mode].M4, 2048) \in Int
    <3>1. r[4] \in Nat /\ MSK[mode].M4 \in Nat \ {0} /\ 2048 \in Nat
      BY <1>1, <1>2
    <3> QED BY <3>1, MaskType
  <2> QED BY <2>1, <2>2 DEF ChrGenAt, ChrGenMask
<1>7. SprTabAt(r[5], r[11], mode) \in Int /\ SprTabMask(r[5], mode) \in Int
  <2>1. Place(r[5], MSK[mode].R5, 128) \in Int
    BY <1>1, <1>2, PlaceType
  <2>2. r[11] * 2 ^ 15 \in Int
    BY <1>1
  <2>3. SprTabAt(r[5], r[11], mode) \in Int
    BY <2>1, <2>2 DEF SprTabAt
  <2> QED BY <1>1, <1>2, <2>3, MaskType DEF SprTabMask
<1>8. SprGenAt(r[6]) \in Int
  BY <1>1 DEF SprGenAt
<1> QED BY <1>4, <1>5, <1>6, <1>7, <1>8 DEF TablesOf, Tables

-----------------------------------------------------------------------------
\* Types

\* Beside its type: VPAGE is always the page of register 14, from which Advance()
\* counts on.
PageShown == VPAGE = VDP[14]
Typed == TypeOK /\ PageShown

LEMMA KeptType ==
  ASSUME Pages = MaskedPages, NEW r \in Number, NEW v \in Byte
  PROVE  /\ Kept(r, v) \in Byte
         /\ r = 14 => Kept(r, v) \in 0 .. Pages - 1
         /\ r = 16 => Kept(r, v) \in 0 .. 15
<1>1. CASE r = 14
  <2>1. v % Pages \in 0 .. Pages - 1
    BY Sizes, ModType, ByteIs
  <2> QED BY <1>1, <2>1, Sizes, ByteIs DEF Kept
<1>2. CASE r = 17
  <2>1. 128 * (v \div 128) + (v % 64) \in Byte
    BY ByteIs
  <2> QED BY <1>2, <2>1 DEF Kept
<1>3. CASE r \notin {14, 17}
  BY <1>3, ByteIs DEF Kept
<1> QED BY <1>1, <1>2, <1>3

LEMMA StoredType ==
  ASSUME Pages = MaskedPages, TypeOK, NEW r \in Number, NEW v \in Byte
  PROVE  /\ Stored(r, v) \in Registers
         /\ Stored(r, v)[16] \in 0 .. 15
         /\ \A i \in Number : Stored(r, v)[i] = IF i = r THEN Kept(r, v) ELSE VDP[i]
<1>1. VDP \in [Number -> Byte] /\ VDP[16] \in 0 .. 15
  BY DEF TypeOK
<1>2. Kept(r, v) \in Byte /\ (r = 16 => Kept(r, v) \in 0 .. 15)
  BY KeptType
<1>3. Stored(r, v) \in Registers
  BY <1>1, <1>2 DEF Stored, Registers
<1>4. \A i \in Number : Stored(r, v)[i] = IF i = r THEN Kept(r, v) ELSE VDP[i]
  BY <1>1 DEF Stored
<1>5. Stored(r, v)[16] \in 0 .. 15
  <2>1. Stored(r, v)[16] = IF 16 = r THEN Kept(r, v) ELSE VDP[16]
    BY <1>4, SpecialNumbers
  <2> QED BY <1>1, <1>2, <2>1
<1> QED BY <1>3, <1>4, <1>5

LEMMA CountedType ==
  ASSUME TypeOK, NEW regs \in Registers
  PROVE  /\ Counted(regs) \in Registers
         /\ \A i \in Number : i # 17 => Counted(regs)[i] = regs[i]
         /\ Named \in Number
<1>1. VDP[17] \in Byte
  BY SpecialNumbers DEF TypeOK
<1>2. Named \in Number
  BY <1>1, ByteIs, NumberIs DEF Named
<1>3. (Named + 1) % 64 \in Byte
  BY <1>2, ByteIs, NumberIs
<1> HIDE DEF Named
<1> QED BY <1>2, <1>3 DEF Counted, Registers

LEMMA AdvanceType ==
  ASSUME Pages = MaskedPages, Typed, NEW place \in Nat, Advance(place)
  PROVE  /\ VAddr' \in 0 .. PageSize - 1
         /\ VDP' \in Registers
         /\ \A i \in Number : i # 14 => VDP'[i] = VDP[i]
         /\ PageInMemory' /\ PageShown'
<1>1. VAddr' \in 0 .. PageSize - 1
  BY Sizes, ModType DEF Advance
<1>2. VDP \in [Number -> Byte] /\ VPAGE = VDP[14] /\ VPAGE \in 0 .. Pages - 1
  BY DEF Typed, TypeOK, PageShown, PageInMemory
<1> DEFINE page == (VDP[14] + 1) % Pages
<1>3. page \in 0 .. Pages - 1 /\ page \in Byte
  <2>1. VDP[14] \in Byte
    BY <1>2, SpecialNumbers
  <2>2. VDP[14] + 1 \in Nat
    BY <2>1, ByteIs
  <2>3. page \in 0 .. Pages - 1
    BY <2>2, Sizes, ModType
  <2> HIDE DEF page
  <2> QED BY <2>3, Sizes, ByteIs
<1>4. \/ VDP' = [VDP EXCEPT ![14] = page] /\ VPAGE' = page
      \/ VDP' = VDP /\ VPAGE' = VPAGE
  BY DEF Advance
<1> HIDE DEF page
<1>5. CASE VDP' = [VDP EXCEPT ![14] = page] /\ VPAGE' = page
  <2>1. VDP' \in Registers /\ VDP'[14] = page /\ \A i \in Number : i # 14 => VDP'[i] = VDP[i]
    <3>1. VDP' \in Registers
      BY <1>2, <1>3, <1>5 DEF Registers
    <3>2. VDP'[14] = page
      BY <1>2, <1>5, SpecialNumbers
    <3>3. \A i \in Number : i # 14 => VDP'[i] = VDP[i]
      BY <1>2, <1>5
    <3> QED BY <3>1, <3>2, <3>3
  <2> QED BY <1>1, <1>3, <1>5, <2>1 DEF PageInMemory, PageShown
<1>6. CASE VDP' = VDP /\ VPAGE' = VPAGE
  BY <1>1, <1>2, <1>6 DEF Registers, PageInMemory, PageShown
<1> QED BY <1>4, <1>5, <1>6

\* What SetScreen() and the repairs leave.
ScreenTyped == ScrMode \in Modes /\ tables \in [Tables -> Int] /\ current \subseteq Tables

LEMMA SetScreenType ==
  ASSUME TypeOK, NEW regs \in Registers, SetScreen(regs)
  PROVE  ScreenTyped'
<1>1. ScreenFor(regs[0], regs[1], ScrMode) \in Modes
  BY ScreenType DEF TypeOK
<1> QED BY <1>1, TableTypes DEF SetScreen, ScreenTyped

LEMMA RepairedType ==
  ASSUME TypeOK, NEW new, DOMAIN new \subseteq Tables, \A t \in DOMAIN new : new[t] \in Int,
         Repaired(new)
  PROVE  ScreenTyped'
BY DEF Repaired, TypeOK, ScreenTyped

\* The tables in D are made anew as the registers regs have them, others are the same
\* with those registers.
MadeAnew(regs, D) ==
  /\ Repaired([t \in D |-> TablesOf(regs, ScrMode)[t]])
  /\ \A t \in Tables \ D : TablesOf(regs, ScrMode)[t] = TablesOf(VDP, ScrMode)[t]
NoneStale(regs) ==
  /\ UNCHANGED screen
  /\ \A t \in Tables : TablesOf(regs, ScrMode)[t] = TablesOf(VDP, ScrMode)[t]

\* Each table VDPOut() makes anew is the one that SetScreen() would make of the
\* registers regs after the write, and those it leaves do not depend on it.
LEMMA RepairedTables ==
  ASSUME TypeOK, NEW r \in Number, NEW v \in Byte, NEW regs \in Registers,
         r \notin {0, 1, 25},
         \A i \in Number : i # 17 => regs[i] = IF i = r THEN Kept(r, v) ELSE VDP[i],
         TablesRepaired(r, v)
  PROVE  (\E D \in SUBSET Tables : MadeAnew(regs, D)) \/ NoneStale(regs)
<1> USE DEF TablesOf, Tables
<1>1. CASE r = 2
  <2> DEFINE D == {"ChrTab", "ChrTabM"}
  <2>1. regs[2] = v /\ \A i \in {3, 4, 5, 6, 10, 11} : regs[i] = VDP[i]
    BY <1>1, SpecialNumbers DEF Kept
  <2>2. [t \in D |-> TablesOf(regs, ScrMode)[t]]
           = [ChrTab |-> ChrTabAt(v, ScrMode), ChrTabM |-> ChrTabMask(v, ScrMode)]
    BY <2>1
  <2>3. Repaired([t \in D |-> TablesOf(regs, ScrMode)[t]])
    BY <1>1, <2>2 DEF TablesRepaired
  <2>4. \A t \in Tables \ D : TablesOf(regs, ScrMode)[t] = TablesOf(VDP, ScrMode)[t]
    BY <2>1
  <2>5. D \in SUBSET Tables /\ MadeAnew(regs, D)
    BY <2>3, <2>4 DEF MadeAnew
  <2> QED BY <2>5
<1>2. CASE r = 3
  <2> DEFINE D == {"ColTab", "ColTabM"}
  <2>1. regs[3] = v /\ \A i \in {2, 4, 5, 6, 10, 11} : regs[i] = VDP[i]
    BY <1>2, SpecialNumbers DEF Kept
  <2>2. [t \in D |-> TablesOf(regs, ScrMode)[t]]
           = [ColTab |-> ColTabAt(v, VDP[10], ScrMode), ColTabM |-> ColTabMask(v, ScrMode)]
    BY <2>1
  <2>3. Repaired([t \in D |-> TablesOf(regs, ScrMode)[t]])
    BY <1>2, <2>2 DEF TablesRepaired
  <2>4. \A t \in Tables \ D : TablesOf(regs, ScrMode)[t] = TablesOf(VDP, ScrMode)[t]
    BY <2>1
  <2>5. D \in SUBSET Tables /\ MadeAnew(regs, D)
    BY <2>3, <2>4 DEF MadeAnew
  <2> QED BY <2>5
<1>3. CASE r = 4
  <2> DEFINE D == {"ChrGen", "ChrGenM"}
  <2>1. regs[4] = v /\ \A i \in {2, 3, 5, 6, 10, 11} : regs[i] = VDP[i]
    BY <1>3, SpecialNumbers DEF Kept
  <2>2. [t \in D |-> TablesOf(regs, ScrMode)[t]]
           = [ChrGen |-> ChrGenAt(v, ScrMode), ChrGenM |-> ChrGenMask(v, ScrMode)]
    BY <2>1
  <2>3. Repaired([t \in D |-> TablesOf(regs, ScrMode)[t]])
    BY <1>3, <2>2 DEF TablesRepaired
  <2>4. \A t \in Tables \ D : TablesOf(regs, ScrMode)[t] = TablesOf(VDP, ScrMode)[t]
    BY <2>1
  <2>5. D \in SUBSET Tables /\ MadeAnew(regs, D)
    BY <2>3, <2>4 DEF MadeAnew
  <2> QED BY <2>5
<1>4. CASE r = 5
  <2> DEFINE D == {"SprTab", "SprTabM"}
  <2>1. regs[5] = v /\ \A i \in {2, 3, 4, 6, 10, 11} : regs[i] = VDP[i]
    BY <1>4, SpecialNumbers DEF Kept
  <2>2. [t \in D |-> TablesOf(regs, ScrMode)[t]]
           = [SprTab |-> SprTabAt(v, VDP[11], ScrMode), SprTabM |-> SprTabMask(v, ScrMode)]
    BY <2>1
  <2>3. Repaired([t \in D |-> TablesOf(regs, ScrMode)[t]])
    BY <1>4, <2>2 DEF TablesRepaired
  <2>4. \A t \in Tables \ D : TablesOf(regs, ScrMode)[t] = TablesOf(VDP, ScrMode)[t]
    BY <2>1
  <2>5. D \in SUBSET Tables /\ MadeAnew(regs, D)
    BY <2>3, <2>4 DEF MadeAnew
  <2> QED BY <2>5
<1>5. CASE r = 6
  <2> DEFINE D == {"SprGen"}
  <2>1. regs[6] = Kept(6, v) /\ \A i \in {2, 3, 4, 5, 10, 11} : regs[i] = VDP[i]
    BY <1>5, SpecialNumbers
  <2>2. [t \in D |-> TablesOf(regs, ScrMode)[t]]
           = [SprGen |-> SprGenAt(Kept(6, v))]
    BY <2>1
  <2>3. Repaired([t \in D |-> TablesOf(regs, ScrMode)[t]])
    BY <1>5, <2>2 DEF TablesRepaired
  <2>4. \A t \in Tables \ D : TablesOf(regs, ScrMode)[t] = TablesOf(VDP, ScrMode)[t]
    BY <2>1
  <2>5. D \in SUBSET Tables /\ MadeAnew(regs, D)
    BY <2>3, <2>4 DEF MadeAnew
  <2> QED BY <2>5
<1>6. CASE r = 10
  <2> DEFINE D == {"ColTab"}
  <2>1. regs[10] = Kept(10, v) /\ \A i \in {2, 3, 4, 5, 6, 11} : regs[i] = VDP[i]
    BY <1>6, SpecialNumbers
  <2>2. [t \in D |-> TablesOf(regs, ScrMode)[t]]
           = [ColTab |-> ColTabAt(VDP[3], Kept(10, v), ScrMode)]
    BY <2>1
  <2>3. Repaired([t \in D |-> TablesOf(regs, ScrMode)[t]])
    BY <1>6, <2>2 DEF TablesRepaired
  <2>4. \A t \in Tables \ D : TablesOf(regs, ScrMode)[t] = TablesOf(VDP, ScrMode)[t]
    BY <2>1
  <2>5. D \in SUBSET Tables /\ MadeAnew(regs, D)
    BY <2>3, <2>4 DEF MadeAnew
  <2> QED BY <2>5
<1>7. CASE r = 11
  <2> DEFINE D == {"SprTab"}
  <2>1. regs[11] = Kept(11, v) /\ \A i \in {2, 3, 4, 5, 6, 10} : regs[i] = VDP[i]
    BY <1>7, SpecialNumbers
  <2>2. [t \in D |-> TablesOf(regs, ScrMode)[t]]
           = [SprTab |-> SprTabAt(VDP[5], Kept(11, v), ScrMode)]
    BY <2>1
  <2>3. Repaired([t \in D |-> TablesOf(regs, ScrMode)[t]])
    BY <1>7, <2>2 DEF TablesRepaired
  <2>4. \A t \in Tables \ D : TablesOf(regs, ScrMode)[t] = TablesOf(VDP, ScrMode)[t]
    BY <2>1
  <2>5. D \in SUBSET Tables /\ MadeAnew(regs, D)
    BY <2>3, <2>4 DEF MadeAnew
  <2> QED BY <2>5
<1>8. CASE r \notin {2, 3, 4, 5, 6, 10, 11}
  <2>1. UNCHANGED screen
    BY <1>8 DEF TablesRepaired, screen
  <2>2. \A i \in {2, 3, 4, 5, 6, 10, 11} : regs[i] = VDP[i]
    BY <1>8, SpecialNumbers
  <2> QED BY <2>1, <2>2 DEF NoneStale
<1> QED BY <1>1, <1>2, <1>3, <1>4, <1>5, <1>6, <1>7, <1>8

LEMMA TablesSame ==
  ASSUME NEW p, NEW q, \A i \in {2, 3, 4, 5, 6, 10, 11} : p[i] = q[i], NEW mode
  PROVE  TablesOf(p, mode) = TablesOf(q, mode)
BY DEF TablesOf

\* SetScreen() finds the same mode when it is asked again.
LEMMA ScreenAgain ==
  ASSUME NEW v0, NEW v1, NEW mode
  PROVE  ScreenFor(v0, v1, ScreenFor(v0, v1, mode)) = ScreenFor(v0, v1, mode)
BY DEF ScreenFor

LEMMA SetScreenFollows ==
  ASSUME NEW regs, SetScreen(regs),
         \A i \in {0, 1, 2, 3, 4, 5, 6, 10, 11} : VDP'[i] = regs[i]
  PROVE  TablesFollow'
<1>1. ScrMode' = ScreenFor(regs[0], regs[1], ScrMode) /\ tables' = TablesOf(regs, ScrMode')
  BY DEF SetScreen
<1>2. TablesOf(VDP', ScrMode') = TablesOf(regs, ScrMode')
  BY TablesSame
<1>3. ScrMode' = ScreenFor(VDP'[0], VDP'[1], ScrMode')
  BY <1>1, ScreenAgain
<1> QED BY <1>1, <1>2, <1>3 DEF TablesFollow

LEMMA KeptFollows ==
  ASSUME TablesFollow, UNCHANGED screen,
         \A i \in {0, 1, 2, 3, 4, 5, 6, 10, 11} : VDP'[i] = VDP[i]
  PROVE  TablesFollow'
<1>1. UNCHANGED <<ScrMode, tables, current>>
  BY DEF screen
<1>2. TablesOf(VDP', ScrMode) = TablesOf(VDP, ScrMode)
  BY TablesSame
<1> QED BY <1>1, <1>2 DEF TablesFollow

\* What VDPOut() does to the screen, for whatever sets VDP[] as Stored() does but for
\* register 17.
LEMMA OutFollows ==
  ASSUME TypeOK, TablesFollow, NEW r \in Number, NEW v \in Byte,
         TablesRepaired(r, v), VDP' \in Registers,
         \A i \in Number : i # 17 => VDP'[i] = IF i = r THEN Kept(r, v) ELSE VDP[i]
  PROVE  ScreenTyped' /\ TablesFollow'
<1>1. CASE (r \in {0, 1} /\ VDP[r] # v) \/ r = 25
  <2> DEFINE regs == [VDP EXCEPT ![r] = v]
  <2>1. SetScreen(regs)
    BY <1>1 DEF TablesRepaired
  <2>2. VDP \in [Number -> Byte]
    BY DEF TypeOK
  <2>3. regs \in Registers
    BY <2>2 DEF Registers
  <2>4. \A i \in {0, 1, 2, 3, 4, 5, 6, 10, 11} : VDP'[i] = regs[i]
    BY <1>1, <2>2, SpecialNumbers DEF Kept
  <2> HIDE DEF regs
  <2> QED BY <2>1, <2>3, <2>4, SetScreenType, SetScreenFollows
<1>2. CASE r \in {0, 1} /\ VDP[r] = v
  <2>1. UNCHANGED screen
    BY <1>2 DEF TablesRepaired, screen
  <2>2. \A i \in {0, 1, 2, 3, 4, 5, 6, 10, 11} : VDP'[i] = VDP[i]
    BY <1>2, SpecialNumbers DEF Kept
  <2>3. ScreenTyped'
    BY <2>1 DEF screen, ScreenTyped, TypeOK
  <2> QED BY <2>1, <2>2, <2>3, KeptFollows
<1>3. CASE r \notin {0, 1, 25}
  <2>0. VDP'[0] = VDP[0] /\ VDP'[1] = VDP[1]
    BY <1>3, SpecialNumbers
  <2>1. CASE \E D \in SUBSET Tables : MadeAnew(VDP', D)
    <3>0. PICK D \in SUBSET Tables : MadeAnew(VDP', D)
      BY <2>1
    <3>1. /\ Repaired([t \in D |-> TablesOf(VDP', ScrMode)[t]])
          /\ \A t \in Tables \ D : TablesOf(VDP', ScrMode)[t] = TablesOf(VDP, ScrMode)[t]
      BY <3>0 DEF MadeAnew
    <3> DEFINE new == [t \in D |-> TablesOf(VDP', ScrMode)[t]]
    <3>2. TablesOf(VDP', ScrMode) \in [Tables -> Int]
      BY TableTypes DEF TypeOK
    <3>3. DOMAIN new \subseteq Tables /\ \A t \in DOMAIN new : new[t] \in Int
      BY <3>2
    <3>4. ScreenTyped'
      BY <3>1, <3>3, RepairedType
    <3>5. /\ tables' = [t \in Tables |-> IF t \in D THEN TablesOf(VDP', ScrMode)[t] ELSE tables[t]]
          /\ current' = current \cup D /\ ScrMode' = ScrMode
      BY <3>1 DEF Repaired
    <3>6. ASSUME NEW t \in current' PROVE tables'[t] = TablesOf(VDP', ScrMode)[t]
      <4>1. t \in Tables
        BY <3>5 DEF TypeOK
      <4>2. CASE t \in D
        BY <3>5, <4>1, <4>2
      <4>3. CASE t \notin D
        <5>1. t \in current /\ tables'[t] = tables[t]
          BY <3>5, <4>1, <4>3
        <5>2. tables[t] = TablesOf(VDP, ScrMode)[t]
          BY <5>1 DEF TablesFollow
        <5> QED BY <3>1, <4>1, <4>3, <5>1, <5>2
      <4> QED BY <4>2, <4>3
    <3> QED BY <2>0, <3>4, <3>5, <3>6 DEF TablesFollow
  <2>2. CASE NoneStale(VDP')
    <3>1. UNCHANGED <<ScrMode, tables, current>> /\ current \subseteq Tables
      BY <2>2 DEF screen, TypeOK, NoneStale
    <3>2. ScreenTyped'
      BY <3>1 DEF ScreenTyped, TypeOK
    <3> QED BY <2>0, <2>2, <3>1, <3>2 DEF TablesFollow, NoneStale
  <2> QED BY <1>3, <2>1, <2>2, RepairedTables
<1> QED BY <1>1, <1>2, <1>3

-----------------------------------------------------------------------------
(***************************************************************************)
(* The invariant.  TablesFollow needs the types, because it is about the   *)
(* known tables and registers; the types need PageShown, because Advance() *)
(* puts the page after the one of register 14 into VPAGE.                  *)
(***************************************************************************)
Inv == Typed /\ TablesFollow

LEMMA InvInit == Init => Inv
<1> SUFFICES ASSUME Init PROVE Inv
  OBVIOUS
<1>1. VDP \in [Number -> Byte] /\ VDP[16] \in 0 .. 15 /\ VDP[14] = 0
      /\ VDP[0] = 0 /\ VDP[1] = 16
  BY ByteIs, SpecialNumbers DEF Init, VDPInit
<1>2. VRAM \in [0 .. Pages - 1 -> [0 .. PageSize - 1 -> Bytes]]
  BY Sizes DEF Init
<1>3. VPAGE = 0 /\ PageInMemory /\ VAddr \in 0 .. PageSize - 1 /\ VDPData \in Bytes
  BY Sizes DEF Init, PageInMemory
<1>4. VKey \in BOOLEAN /\ PKey \in BOOLEAN /\ ALatch \in Byte /\ port = "reset"
  BY ByteIs DEF Init
<1>5. tables \in [Tables -> Int] /\ current \subseteq Tables /\ ScrMode = 0
  BY DEF Init, NoTables, AllOnes
<1>6. ScreenFor(VDP[0], VDP[1], ScrMode) = 0
  BY <1>1 DEF ScreenFor, ScreenOf, ModeBits
<1>7. TablesFollow
  BY <1>5, <1>6 DEF TablesFollow, Init
<1>8. ScrMode \in Modes /\ PageShown
  BY <1>1, <1>3, <1>5 DEF Modes, PageShown
<1> QED BY <1>1, <1>2, <1>3, <1>4, <1>5, <1>7, <1>8 DEF Inv, Typed, TypeOK

\* What a port access leaves when it does not write a register.
LEMMA AccessKeeps ==
  ASSUME Pages = MaskedPages, Inv, NEW place \in Nat, Advance(place), UNCHANGED screen,
         VRAM' \in [0 .. Pages - 1 -> [0 .. PageSize - 1 -> Bytes]], VDPData' \in Bytes,
         VKey' \in BOOLEAN, UNCHANGED ALatch, UNCHANGED colourVars,
         port' \in {"data", "address"}
  PROVE  Inv'
<1>1. /\ VAddr' \in 0 .. PageSize - 1
      /\ VDP' \in Registers
      /\ \A i \in Number : i # 14 => VDP'[i] = VDP[i]
      /\ PageInMemory' /\ PageShown'
  BY AdvanceType DEF Inv
<1>2. VDP'[16] \in 0 .. 15
  <2>1. VDP'[16] = VDP[16]
    BY <1>1, SpecialNumbers
  <2> QED BY <2>1 DEF Inv, Typed, TypeOK
<1>3. TablesFollow'
  BY <1>1, KeptFollows, SpecialNumbers DEF Inv
<1>4. ScrMode' \in Modes /\ tables' \in [Tables -> Int] /\ current' \subseteq Tables
  BY DEF Inv, Typed, TypeOK, screen
<1>5. PKey' \in BOOLEAN /\ ALatch' \in Byte
  BY DEF Inv, Typed, TypeOK, colourVars
<1> QED BY <1>1, <1>2, <1>3, <1>4, <1>5 DEF Inv, Typed, TypeOK, Registers

\* A write of a register, directly or through register 17.
LEMMA OutKeeps ==
  ASSUME Pages = MaskedPages, Inv, NEW r \in Number, NEW v \in Byte, VDPOut(r, v),
         VDP' \in Registers,
         \A i \in Number : i # 17 => VDP'[i] = IF i = r THEN Kept(r, v) ELSE VDP[i],
         VKey' \in BOOLEAN, UNCHANGED <<VRAM, VAddr, VDPData, ALatch>>, port' = "register"
  PROVE  Inv'
<1>1. TypeOK /\ TablesFollow /\ VPAGE = VDP[14]
  BY DEF Inv, Typed, PageShown
<1>2. ScreenTyped' /\ TablesFollow'
  BY <1>1, OutFollows DEF VDPOut
<1>3. VDP'[16] \in 0 .. 15
  <2>1. VDP'[16] = IF 16 = r THEN Kept(r, v) ELSE VDP[16]
    BY SpecialNumbers
  <2>2. VDP[16] \in 0 .. 15
    BY <1>1 DEF TypeOK
  <2>3. CASE r = 16
    BY <2>1, <2>3, KeptType
  <2>4. CASE r # 16
    BY <2>1, <2>2, <2>4
  <2> QED BY <2>3, <2>4
<1>4. VPAGE' = IF r = 14 THEN Kept(14, v) ELSE VPAGE
  BY DEF VDPOut
<1>5. PageShown'
  <2>1. VDP'[14] = IF 14 = r THEN Kept(r, v) ELSE VDP[14]
    BY SpecialNumbers
  <2> QED BY <1>1, <1>4, <2>1 DEF PageShown
<1>6. PageInMemory'
  <2>1. VPAGE \in 0 .. Pages - 1
    BY <1>1 DEF TypeOK, PageInMemory
  <2>2. CASE r = 14
    <3>1. Kept(r, v) \in 0 .. Pages - 1
      BY <2>2, KeptType
    <3> QED BY <1>4, <2>2, <3>1 DEF PageInMemory
  <2>3. CASE r # 14
    BY <1>4, <2>1, <2>3 DEF PageInMemory
  <2> QED BY <2>2, <2>3
<1>7. PKey' \in BOOLEAN
  BY <1>1 DEF VDPOut, TypeOK
<1>8. /\ VRAM' \in [0 .. Pages - 1 -> [0 .. PageSize - 1 -> Bytes]]
      /\ VAddr' \in 0 .. PageSize - 1 /\ VDPData' \in Bytes /\ ALatch' \in Byte
  BY <1>1 DEF TypeOK
<1> QED BY <1>2, <1>3, <1>5, <1>6, <1>7, <1>8 DEF Inv, Typed, TypeOK, ScreenTyped, Registers

LEMMA DataOutKeeps ==
  ASSUME Pages = MaskedPages, Inv, NEW b \in Bytes, DataOut(b)
  PROVE  Inv'
<1>1. VRAM \in [0 .. Pages - 1 -> [0 .. PageSize - 1 -> Bytes]] /\ VAddr \in 0 .. PageSize - 1
  BY DEF Inv, Typed, TypeOK
<1>2. VRAM' = [VRAM EXCEPT ![VPAGE][VAddr] = b]
  BY DEF DataOut
<1>3. VRAM' \in [0 .. Pages - 1 -> [0 .. PageSize - 1 -> Bytes]]
  BY <1>1, <1>2
<1>4. VAddr \in Nat
  BY <1>1, Sizes
<1>5. VKey' \in BOOLEAN
  BY DEF DataOut
<1>6. Advance(VAddr) /\ VDPData' = b /\ port' = "data" /\ UNCHANGED <<ALatch, colourVars, screen>>
  BY DEF DataOut
<1> QED BY <1>3, <1>4, <1>5, <1>6, AccessKeeps

\* Reads of video memory.
LEMMA ByteType ==
  ASSUME Inv, NEW place \in 0 .. PageSize - 1
  PROVE  VRAM[VPAGE][place] \in Bytes
<1>1. VRAM \in [0 .. Pages - 1 -> [0 .. PageSize - 1 -> Bytes]] /\ VPAGE \in 0 .. Pages - 1
  BY DEF Inv, Typed, TypeOK, PageInMemory
<1> QED BY <1>1

LEMMA DataInKeeps ==
  ASSUME Pages = MaskedPages, Inv, DataIn
  PROVE  Inv'
<1>1. VAddr \in 0 .. PageSize - 1
  BY DEF Inv, Typed, TypeOK
<1>2. VDPData' \in Bytes
  BY <1>1, ByteType DEF DataIn
<1>3. VKey' \in BOOLEAN
  BY DEF DataIn
<1>4. Advance(VAddr) /\ port' = "data" /\ UNCHANGED <<VRAM, ALatch, colourVars, screen>>
  BY DEF DataIn
<1>5. VRAM' \in [0 .. Pages - 1 -> [0 .. PageSize - 1 -> Bytes]]
  BY <1>4 DEF Inv, Typed, TypeOK
<1>6. VAddr \in Nat
  BY <1>1, Sizes
<1> QED BY <1>2, <1>3, <1>4, <1>5, <1>6, AccessKeeps

\* The address that two bytes to port 99h make.
AddressOf(h) == (256 * h + ALatch) % PageSize

LEMMA AddressType ==
  ASSUME Inv, NEW h \in HighBytes
  PROVE  AddressOf(h) \in 0 .. PageSize - 1 /\ AddressOf(h) \in Nat
<1>1. h \in Nat /\ ALatch \in Nat
  BY ByteIs, NumberIs, PortsAssumption DEF Inv, Typed, TypeOK
<1>2. 256 * h + ALatch \in Nat
  BY <1>1
<1> QED BY <1>2, Sizes, ModType DEF AddressOf

LEMMA ReadAddressKeeps ==
  ASSUME Pages = MaskedPages, Inv, NEW h \in HighBytes, ReadAddress(h)
  PROVE  Inv'
<1>1. AddressOf(h) \in 0 .. PageSize - 1 /\ AddressOf(h) \in Nat
  BY AddressType
<1>2. /\ VDPData' = VRAM[VPAGE][AddressOf(h)] /\ Advance(AddressOf(h))
      /\ port' = "address" /\ UNCHANGED <<VRAM, ALatch, colourVars, screen>>
  BY DEF ReadAddress, AddressOf
<1>3. VKey' \in BOOLEAN
  BY DEF ReadAddress
<1>4. VDPData' \in Bytes
  BY <1>1, <1>2, ByteType
<1>5. VRAM' \in [0 .. Pages - 1 -> [0 .. PageSize - 1 -> Bytes]]
  BY <1>2 DEF Inv, Typed, TypeOK
<1> QED BY <1>1, <1>2, <1>3, <1>4, <1>5, AccessKeeps

\* Steps that change neither the registers nor the screen.
LEMMA QuietKeeps ==
  ASSUME Inv, UNCHANGED <<VRAM, VPAGE, VDPData>>, UNCHANGED screen,
         VDP' \in Registers, \A i \in Number : i # 16 => VDP'[i] = VDP[i],
         VDP'[16] \in 0 .. 15, VAddr' \in 0 .. PageSize - 1, VKey' \in BOOLEAN,
         ALatch' \in Byte, PKey' \in BOOLEAN, port' \in {port, "address"}
  PROVE  Inv'
<1>1. TablesFollow'
  <2>1. \A i \in {0, 1, 2, 3, 4, 5, 6, 10, 11} : VDP'[i] = VDP[i]
    BY SpecialNumbers
  <2> QED BY <2>1, KeptFollows DEF Inv
<1>2. ScrMode' \in Modes /\ tables' \in [Tables -> Int] /\ current' \subseteq Tables
  BY DEF Inv, Typed, TypeOK, screen
<1>3. PageShown'
  <2>1. VDP'[14] = VDP[14]
    BY SpecialNumbers
  <2> QED BY <2>1 DEF Inv, Typed, PageShown
<1>4. PageInMemory' /\ port' \in {"data", "address", "register", "reset", "load"}
      /\ VRAM' \in [0 .. Pages - 1 -> [0 .. PageSize - 1 -> Bytes]] /\ VDPData' \in Bytes
  BY DEF Inv, Typed, TypeOK, PageInMemory
<1> QED BY <1>1, <1>2, <1>3, <1>4 DEF Inv, Typed, TypeOK, Registers

LEMMA LatchBytes ==
  /\ LowBytes \cup UNION {Values[r] : r \in Regs} \subseteq Byte
  /\ UNION {Values[r] : r \in Number} \subseteq Byte
<1>1. LowBytes \subseteq Byte
  BY PortsAssumption
<1>2. \A r \in Number : Values[r] \subseteq Byte
  BY Sizes
<1>3. Regs \subseteq Number
  BY Sizes
<1>4. \A v \in UNION {Values[r] : r \in Regs} : v \in Byte
  <2> TAKE v \in UNION {Values[r] : r \in Regs}
  <2>1. PICK r \in Regs : v \in Values[r]
    OBVIOUS
  <2> QED BY <1>2, <1>3, <2>1
<1>5. \A v \in UNION {Values[r] : r \in Number} : v \in Byte
  <2> TAKE v \in UNION {Values[r] : r \in Number}
  <2>1. PICK r \in Number : v \in Values[r]
    OBVIOUS
  <2> QED BY <1>2, <2>1
<1> QED BY <1>1, <1>4, <1>5

LEMMA LatchesKeep ==
  ASSUME Inv,
         \/ \E v \in LowBytes \cup UNION {Values[r] : r \in Regs} : Latch(v)
         \/ \E h \in HighBytes : WriteAddress(h)
         \/ NoAddress
  PROVE  Inv'
<1>0. /\ VDP \in Registers /\ VDP[16] \in 0 .. 15 /\ VAddr \in 0 .. PageSize - 1
      /\ VKey \in BOOLEAN /\ ALatch \in Byte /\ PKey \in BOOLEAN
  BY DEF Inv, Typed, TypeOK, Registers
<1>1. ASSUME NEW v \in Byte, Latch(v) PROVE Inv'
  <2>1. VKey' \in BOOLEAN
    BY <1>1 DEF Latch
  <2> QED BY <1>0, <1>1, <2>1, QuietKeeps DEF Latch, colourVars
<1>2. ASSUME NEW h \in HighBytes, WriteAddress(h) PROVE Inv'
  <2>1. VKey' \in BOOLEAN
    BY <1>2 DEF WriteAddress
  <2>2. VAddr' \in 0 .. PageSize - 1
    BY <1>2, AddressType DEF WriteAddress, AddressOf
  <2> QED BY <1>0, <1>2, <2>1, <2>2, QuietKeeps DEF WriteAddress, colourVars
<1>3. CASE NoAddress
  <2>1. VKey' \in BOOLEAN
    BY <1>3 DEF NoAddress
  <2> QED BY <1>0, <1>3, <2>1, QuietKeeps DEF NoAddress, colourVars
<1> QED BY <1>1, <1>2, <1>3, LatchBytes

LEMMA PaletteKeeps ==
  ASSUME Inv, NEW v \in Colours, PaletteOut(v)
  PROVE  Inv'
<1>0. /\ VDP \in [Number -> Byte] /\ VDP[16] \in 0 .. 15 /\ VAddr \in 0 .. PageSize - 1
      /\ VKey \in BOOLEAN /\ ALatch \in Byte /\ PKey \in BOOLEAN
  BY DEF Inv, Typed, TypeOK
<1>1. PKey' \in BOOLEAN
  BY DEF PaletteOut
<1>2. UNCHANGED <<VRAM, VPAGE, VAddr, VDPData, VKey, ALatch>> /\ UNCHANGED <<screen, port>>
  BY DEF PaletteOut, portVars
<1>3. VDP' \in Registers /\ VDP'[16] \in 0 .. 15 /\ \A i \in Number : i # 16 => VDP'[i] = VDP[i]
  <2> DEFINE next == (VDP[16] + 1) % 16
  <2>1. next \in 0 .. 15
    BY <1>0
  <2>2. VDP' = VDP \/ VDP' = [VDP EXCEPT ![16] = next]
    BY DEF PaletteOut
  <2>3. next \in Byte
    BY <2>1, ByteIs
  <2> HIDE DEF next
  <2>4. CASE VDP' = VDP
    BY <1>0, <2>4 DEF Registers
  <2>5. CASE VDP' = [VDP EXCEPT ![16] = next]
    <3>1. VDP' \in Registers
      BY <1>0, <2>3, <2>5 DEF Registers
    <3>2. VDP'[16] = next
      BY <1>0, <2>5, SpecialNumbers
    <3>3. \A i \in Number : i # 16 => VDP'[i] = VDP[i]
      BY <1>0, <2>5
    <3> QED BY <2>1, <3>1, <3>2, <3>3
  <2> QED BY <2>2, <2>4, <2>5
<1> QED BY <1>0, <1>1, <1>2, <1>3, QuietKeeps

LEMMA RegisterKeeps ==
  ASSUME Pages = MaskedPages, Inv, NEW r \in Regs, RegisterOut(r)
  PROVE  Inv'
<1>1. r \in Number /\ ALatch \in Byte /\ TypeOK
  BY Sizes DEF Inv, Typed, TypeOK
<1>2. VDPOut(r, ALatch) /\ VDP' = Stored(r, ALatch) /\ port' = "register"
      /\ UNCHANGED <<VRAM, VAddr, VDPData, ALatch>>
  BY DEF RegisterOut
<1>3. VKey' \in BOOLEAN
  BY DEF RegisterOut
<1>4. /\ VDP' \in Registers
      /\ \A i \in Number : VDP'[i] = IF i = r THEN Kept(r, ALatch) ELSE VDP[i]
  BY <1>1, <1>2, StoredType
<1> HIDE DEF Stored
<1> QED BY <1>1, <1>2, <1>3, <1>4, OutKeeps

LEMMA IndirectKeeps ==
  ASSUME Pages = MaskedPages, Inv, NEW v \in Byte, IndirectOut(v)
  PROVE  Inv'
<1>1. TypeOK /\ TablesFollow /\ Named \in Number /\ VDP \in Registers
  <2>1. TypeOK /\ TablesFollow /\ VDP \in Registers
    BY DEF Inv, Typed, TypeOK, Registers
  <2> QED BY <2>1, CountedType
<1>2. /\ port' = "register" /\ UNCHANGED <<VRAM, VAddr, VDPData, ALatch>>
  BY DEF IndirectOut
<1>3. VKey' \in BOOLEAN
  BY DEF IndirectOut, Inv, Typed, TypeOK
<1>4. CASE Named # 17 /\ VDPOut(Named, v) /\ VDP' = Counted(Stored(Named, v))
  <2>1. /\ Stored(Named, v) \in Registers
        /\ \A i \in Number : Stored(Named, v)[i] = IF i = Named THEN Kept(Named, v) ELSE VDP[i]
    BY <1>1, StoredType
  <2>2. /\ VDP' \in Registers
        /\ \A i \in Number : i # 17 => VDP'[i] = Stored(Named, v)[i]
    BY <1>1, <1>4, <2>1, CountedType
  <2>3. \A i \in Number : i # 17 => VDP'[i] = IF i = Named THEN Kept(Named, v) ELSE VDP[i]
    BY <2>1, <2>2
  <2> QED BY <1>1, <1>2, <1>3, <1>4, <2>2, <2>3, OutKeeps
<1>5. CASE VDP' = Counted(VDP) /\ UNCHANGED <<VPAGE, PKey, screen>>
  <2>1. VDP' \in Registers /\ \A i \in Number : i # 17 => VDP'[i] = VDP[i]
    BY <1>1, <1>5, CountedType
  <2>2. TablesFollow'
    BY <1>1, <1>5, <2>1, KeptFollows, SpecialNumbers
  <2>3. ScrMode' \in Modes /\ tables' \in [Tables -> Int] /\ current' \subseteq Tables
    BY <1>1, <1>5 DEF TypeOK, screen
  <2>4. VDP'[14] = VDP[14] /\ VDP'[16] = VDP[16]
    BY <2>1, SpecialNumbers
  <2>5. PageShown' /\ VDP'[16] \in 0 .. 15
    BY <1>5, <2>4 DEF PageShown, Inv, Typed, TypeOK
  <2>6. PageInMemory' /\ PKey' \in BOOLEAN
    BY <1>1, <1>5 DEF PageInMemory, TypeOK
  <2>7. /\ VRAM' \in [0 .. Pages - 1 -> [0 .. PageSize - 1 -> Bytes]]
        /\ VAddr' \in 0 .. PageSize - 1 /\ VDPData' \in Bytes /\ ALatch' \in Byte
    BY <1>1, <1>2 DEF TypeOK
  <2> QED BY <1>2, <1>3, <2>1, <2>2, <2>3, <2>5, <2>6, <2>7 DEF Inv, Typed, TypeOK, Registers
<1> QED BY <1>4, <1>5 DEF IndirectOut

LEMMA ResetKeeps ==
  ASSUME Inv, ResetMSX
  PROVE  Inv'
<1>1. VDP' \in [Number -> Byte] /\ VDP'[16] = 0 /\ VDP'[14] = 0
      /\ VDP'[0] = 0 /\ VDP'[1] = 16
  BY ByteIs, SpecialNumbers DEF ResetMSX, VDPInit
<1>2. VRAM' \in [0 .. Pages - 1 -> [0 .. PageSize - 1 -> Bytes]] /\ ALatch' \in Byte
  BY DEF ResetMSX, Inv, Typed, TypeOK
<1>3. VPAGE' = 0 /\ VAddr' \in 0 .. PageSize - 1 /\ VDPData' \in Bytes /\ port' = "reset"
  BY Sizes DEF ResetMSX
<1>4. VKey' \in BOOLEAN /\ PKey' \in BOOLEAN
  BY DEF ResetMSX
<1>5. tables' \in [Tables -> Int]
  BY DEF ResetMSX, NoTables, AllOnes
<1>6. current' = {} /\ ScrMode' = 0
  BY DEF ResetMSX
<1>7. ScreenFor(VDP'[0], VDP'[1], ScrMode') = 0
  BY <1>1 DEF ScreenFor, ScreenOf, ModeBits
<1>8. TablesFollow'
  BY <1>6, <1>7 DEF TablesFollow
<1>9. ScrMode' \in Modes /\ VDP'[16] \in 0 .. 15
  BY <1>1, <1>6 DEF Modes
<1>10. PageShown' /\ PageInMemory'
  <2>1. 0 \in 0 .. Pages - 1
    BY Sizes
  <2>2. PageShown'
    BY <1>1, <1>3 DEF PageShown
  <2> QED BY <1>3, <2>1, <2>2 DEF PageInMemory
<1> QED BY <1>1, <1>2, <1>3, <1>4, <1>5, <1>6, <1>8, <1>9, <1>10 DEF Inv, Typed, TypeOK

LEMMA LoadKeeps ==
  ASSUME Inv, NEW s \in SavedStates, LoadState(s)
  PROVE  Inv'
<1>1. s \in [VDP : {r \in [Number -> Byte] : r[14] < Pages /\ r[16] < 16},
             VRAM : [0 .. Pages - 1 -> [0 .. PageSize - 1 -> Bytes]],
             VAddr : 0 .. PageSize - 1, VDPData : Bytes, VKey : BOOLEAN, ALatch : Byte,
             PKey : BOOLEAN, PLatch : Byte, Palette : [0 .. 15 -> Seq(Byte)]]
  BY StatesAssumption
<1>2. /\ s.VDP \in [Number -> Byte] /\ s.VDP[14] < Pages /\ s.VDP[16] < 16
      /\ s.VRAM \in [0 .. Pages - 1 -> [0 .. PageSize - 1 -> Bytes]]
      /\ s.VAddr \in 0 .. PageSize - 1 /\ s.VDPData \in Bytes /\ s.ALatch \in Byte
  BY <1>1
<1>3. s.VKey \in BOOLEAN /\ s.PKey \in BOOLEAN
  BY <1>1
<1>4. VKey' \in BOOLEAN /\ PKey' \in BOOLEAN
  BY <1>3 DEF LoadState
<1>5. /\ VDP' = s.VDP /\ VRAM' = s.VRAM /\ VAddr' = s.VAddr /\ VDPData' = s.VDPData
      /\ ALatch' = s.ALatch /\ SetScreen(s.VDP) /\ VPAGE' = s.VDP[14] /\ port' = "load"
  BY DEF LoadState
<1>6. ScreenTyped'
  BY <1>2, <1>5, SetScreenType DEF Inv, Typed, Registers
<1>7. TablesFollow'
  BY <1>5, SetScreenFollows
<1>8. \A i \in {14, 16} : s.VDP[i] \in Byte
  <2> DEFINE regs == s.VDP
  <2>1. regs \in [Number -> Byte]
    BY <1>2
  <2> HIDE DEF regs
  <2>2. regs[14] \in Byte /\ regs[16] \in Byte
    BY <2>1, SpecialNumbers
  <2> QED BY <2>2 DEF regs
<1>9. PageShown' /\ PageInMemory' /\ VDP'[16] \in 0 .. 15
  <2>1. s.VDP[14] \in 0 .. Pages - 1 /\ s.VDP[16] \in 0 .. 15
    <3> DEFINE p == s.VDP[14]
               c == s.VDP[16]
    <3>1. p \in Byte /\ c \in Byte /\ p < Pages /\ c < 16
      BY <1>2, <1>8
    <3> HIDE DEF p, c
    <3>2. p \in 0 .. Pages - 1 /\ c \in 0 .. 15
      BY <3>1, Sizes, ByteIs
    <3> QED BY <3>2 DEF p, c
  <2> QED BY <1>5, <2>1 DEF PageShown, PageInMemory
<1> QED BY <1>2, <1>4, <1>5, <1>6, <1>7, <1>9 DEF Inv, Typed, TypeOK, ScreenTyped

LEMMA InvStep ==
  ASSUME Pages = MaskedPages, Inv, [Next]_vars
  PROVE  Inv'
<1>1. CASE Next
  BY <1>1, DataOutKeeps, DataInKeeps, LatchesKeep, RegisterKeeps, ReadAddressKeeps, PaletteKeeps,
     IndirectKeeps, ResetKeeps, LoadKeeps, LatchBytes DEF Next
<1>2. CASE UNCHANGED vars
  BY <1>2 DEF vars, portVars, colourVars, Inv, Typed, TypeOK, PageShown, PageInMemory, TablesFollow
<1> QED BY <1>1, <1>2

\* Every variable of the ports keeps its type, VPAGE and VAddr a place in video memory,
\* whatever a program writes to the ports, also through Advance() and loaded states.
THEOREM TypeCorrect ==
  ASSUME Pages = MaskedPages
  PROVE  Spec => []TypeOK
<1>1. Init => Inv
  BY InvInit
<1>2. Inv /\ [Next]_vars => Inv'
  BY InvStep
<1>3. Inv => TypeOK
  BY DEF Inv, Typed
<1> QED BY <1>1, <1>2, <1>3, PTL DEF Spec

\* VDPOut() repairs all that its write makes stale, and nothing that it does not make new
\* depends on the register: the tables are those that SetScreen() would compute.
THEOREM TablesCorrect ==
  ASSUME Pages = MaskedPages
  PROVE  Spec => []TablesFollow
<1>1. Init => Inv
  BY InvInit
<1>2. Inv /\ [Next]_vars => Inv'
  BY InvStep
<1>3. Inv => TablesFollow
  BY DEF Inv
<1> QED BY <1>1, <1>2, <1>3, PTL DEF Spec

-----------------------------------------------------------------------------
(***************************************************************************)
(* The ports implement VideoMemory: its address is the page and the place  *)
(* in it as one number, its memory the pages one after the other.          *)
(***************************************************************************)
At(p, place) == p * PageSize + place
AllOf(vram) == [a \in 0 .. Pages * PageSize - 1 |-> vram[a \div PageSize][a % PageSize]]

LEMMA DivMod ==
  ASSUME NEW n \in Nat, n > 0, NEW p \in Nat
  PROVE  /\ p \div n \in Nat /\ p % n \in 0 .. n - 1
         /\ p = n * (p \div n) + (p % n)
OBVIOUS

LEMMA DivUnique ==
  ASSUME NEW n \in Nat, n > 0, NEW q \in Nat, NEW r \in 0 .. n - 1
  PROVE  (n * q + r) \div n = q /\ (n * q + r) % n = r
OBVIOUS

\* n pages of size bytes hold those addresses whose page is one of them.
LEMMA PageBound ==
  ASSUME NEW size \in Nat, size > 0, NEW n \in Nat, NEW q \in Nat, NEW r \in 0 .. size - 1
  PROVE  q < n <=> size * q + r < n * size
<1>1. ASSUME q < n PROVE size * q + r < n * size
  <2>1. n >= q + 1
    BY <1>1
  <2>2. n * size >= (q + 1) * size
    BY <2>1
  <2>3. (q + 1) * size = size * q + size
    OBVIOUS
  <2> QED BY <2>2, <2>3
<1>2. ASSUME ~(q < n) PROVE ~(size * q + r < n * size)
  <2>1. q >= n
    BY <1>2
  <2>2. q * size >= n * size
    BY <2>1
  <2> QED BY <2>2
<1> QED BY <1>1, <1>2

LEMMA AtPlace ==
  ASSUME NEW p \in 0 .. Pages - 1, NEW place \in 0 .. PageSize - 1
  PROVE  /\ At(p, place) \in Nat /\ At(p, place) < Pages * PageSize
         /\ At(p, place) \in 0 .. Pages * PageSize - 1
         /\ At(p, place) \div PageSize = p /\ At(p, place) % PageSize = place
<1>1. p \in Nat /\ place \in Nat /\ p < Pages
  BY Sizes
<1>2. At(p, place) = PageSize * p + place
  BY <1>1, Sizes DEF At
<1>3. PageSize * p + place < Pages * PageSize
  BY <1>1, PageBound, Sizes
<1>4. PageSize * p + place \in Nat /\ Pages * PageSize \in Nat
  BY <1>1, Sizes
<1>5. (PageSize * p + place) \div PageSize = p /\ (PageSize * p + place) % PageSize = place
  BY <1>1, DivUnique, Sizes
<1> QED BY <1>2, <1>3, <1>4, <1>5

LEMMA PlaceOf ==
  ASSUME NEW a \in 0 .. Pages * PageSize - 1
  PROVE  /\ a \div PageSize \in 0 .. Pages - 1 /\ a % PageSize \in 0 .. PageSize - 1
         /\ a = At(a \div PageSize, a % PageSize)
<1> DEFINE q == a \div PageSize
           r == a % PageSize
<1>1. a \in Nat /\ a < Pages * PageSize
  <2>1. Pages * PageSize \in Nat
    BY Sizes
  <2> QED BY <2>1
<1>2. q \in Nat /\ r \in 0 .. PageSize - 1 /\ a = PageSize * q + r
  BY <1>1, DivMod, Sizes
<1> HIDE DEF q, r
<1>3. q < Pages
  BY <1>1, <1>2, PageBound, Sizes
<1>4. q \in 0 .. Pages - 1
  BY <1>2, <1>3, Sizes
<1>5. a = At(q, r)
  BY <1>2, Sizes DEF At
<1> QED BY <1>2, <1>4, <1>5 DEF q, r

LEMMA AllType ==
  ASSUME NEW vram \in [0 .. Pages - 1 -> [0 .. PageSize - 1 -> Bytes]]
  PROVE  /\ AllOf(vram) \in [0 .. Pages * PageSize - 1 -> Bytes]
         /\ \A p \in 0 .. Pages - 1, place \in 0 .. PageSize - 1 :
              AllOf(vram)[At(p, place)] = vram[p][place]
<1>1. ASSUME NEW a \in 0 .. Pages * PageSize - 1
      PROVE  vram[a \div PageSize][a % PageSize] \in Bytes
  BY PlaceOf
<1>2. ASSUME NEW p \in 0 .. Pages - 1, NEW place \in 0 .. PageSize - 1
      PROVE  AllOf(vram)[At(p, place)] = vram[p][place]
  BY AtPlace DEF AllOf
<1> QED BY <1>1, <1>2 DEF AllOf

PutAt(vram, p, place, b) == [vram EXCEPT ![p][place] = b]

LEMMA AllStore ==
  ASSUME NEW vram \in [0 .. Pages - 1 -> [0 .. PageSize - 1 -> Bytes]],
         NEW p \in 0 .. Pages - 1, NEW place \in 0 .. PageSize - 1, NEW b \in Bytes
  PROVE  AllOf(PutAt(vram, p, place, b)) = [AllOf(vram) EXCEPT ![At(p, place)] = b]
<1> DEFINE D == 0 .. Pages * PageSize - 1
           new == PutAt(vram, p, place, b)
<1>1. ASSUME NEW q \in 0 .. Pages - 1, NEW r \in 0 .. PageSize - 1
      PROVE  new[q][r] = IF q = p /\ r = place THEN b ELSE vram[q][r]
  BY DEF PutAt
<1> HIDE DEF new
<1>2. ASSUME NEW a \in D
      PROVE  new[a \div PageSize][a % PageSize]
               = IF a = At(p, place) THEN b ELSE vram[a \div PageSize][a % PageSize]
  <2> DEFINE q == a \div PageSize
             r == a % PageSize
  <2>1. q \in 0 .. Pages - 1 /\ r \in 0 .. PageSize - 1 /\ a = At(q, r)
    BY PlaceOf
  <2>2. At(p, place) \div PageSize = p /\ At(p, place) % PageSize = place
    BY AtPlace
  <2>3. a = At(p, place) <=> q = p /\ r = place
    BY <2>1, <2>2
  <2> HIDE DEF q, r
  <2>4. new[q][r] = IF q = p /\ r = place THEN b ELSE vram[q][r]
    BY <1>1, <2>1
  <2>5. new[q][r] = IF a = At(p, place) THEN b ELSE vram[q][r]
    BY <2>3, <2>4
  <2> QED BY <2>5 DEF q, r
<1>3. AllOf(new) = [a \in D |-> IF a = At(p, place) THEN b ELSE vram[a \div PageSize][a % PageSize]]
  BY <1>2 DEF AllOf
<1>4. [AllOf(vram) EXCEPT ![At(p, place)] = b]
        = [a \in D |-> IF a = At(p, place) THEN b ELSE vram[a \div PageSize][a % PageSize]]
  BY DEF AllOf
<1> QED BY <1>3, <1>4 DEF new

\* Advance() goes on to the address after.
After(a, linear) ==
  IF linear THEN (a + 1) % (Pages * PageSize)
  ELSE (a \div PageSize) * PageSize + ((a + 1) % PageSize)

LEMMA SmallMod ==
  ASSUME NEW n \in Nat, NEW a \in 0 .. n - 1
  PROVE  a % n = a
OBVIOUS

LEMMA SelfMod ==
  ASSUME NEW n \in Nat, n > 0
  PROVE  n % n = 0
OBVIOUS

LEMMA AdvanceAddress ==
  ASSUME Pages = MaskedPages, Typed, NEW place \in 0 .. PageSize - 1, Advance(place)
  PROVE  At(VPAGE', VAddr') = After(At(VPAGE, place), ScrMode > 3)
<1>0. VPAGE = VDP[14] /\ VPAGE \in 0 .. Pages - 1 /\ VPAGE \in Nat /\ place \in Nat
      /\ VPAGE < Pages
  <2>1. VPAGE = VDP[14] /\ VPAGE \in 0 .. Pages - 1
    BY DEF Typed, TypeOK, PageShown, PageInMemory
  <2> QED BY <2>1, Sizes
<1> DEFINE a == At(VPAGE, place)
<1>1. a \in Nat /\ a < Pages * PageSize /\ a \div PageSize = VPAGE /\ a % PageSize = place
  BY <1>0, AtPlace
<1>2. CASE place + 1 < PageSize
  <2>1. place + 1 \in 0 .. PageSize - 1
    BY <1>0, <1>2, Sizes
  <2>2. (place + 1) % PageSize = place + 1
    BY <2>1, SmallMod, Sizes
  <2>3. VAddr' = place + 1 /\ VPAGE' = VPAGE
    BY <1>0, <2>2 DEF Advance
  <2>4. a + 1 = At(VPAGE, place + 1)
    BY <1>0, Sizes DEF At
  <2>5. (a + 1) % PageSize = place + 1 /\ a + 1 \in 0 .. Pages * PageSize - 1
    BY <1>0, <2>1, <2>4, AtPlace
  <2>6. (a + 1) % (Pages * PageSize) = a + 1
    <3>1. Pages * PageSize \in Nat
      BY Sizes
    <3> QED BY <2>5, <3>1, SmallMod
  <2>7. VPAGE * PageSize + (place + 1) = a + 1
    BY <2>4 DEF At
  <2> HIDE DEF a
  <2>8. At(VPAGE, place + 1) = After(a, ScrMode > 3)
    BY <1>1, <2>4, <2>5, <2>6, <2>7 DEF After
  <2> QED BY <2>3, <2>8 DEF a
<1>3. CASE place + 1 = PageSize
  <2>1. (place + 1) % PageSize = 0
    BY <1>3, SelfMod, Sizes
  <2>2. VAddr' = 0 /\ VPAGE' = IF ScrMode > 3 THEN (VPAGE + 1) % Pages ELSE VPAGE
    BY <1>0, <2>1 DEF Advance
  <2>3. a + 1 = PageSize * (VPAGE + 1) + 0
    BY <1>0, <1>3, Sizes DEF At
  <2>4. (a + 1) % PageSize = 0
    BY <1>0, <2>3, DivUnique, Sizes
  <2>5. CASE ScrMode > 3
    <3>1. At(VPAGE', VAddr') = ((VPAGE + 1) % Pages) * PageSize + 0
      BY <2>2, <2>5 DEF At
    <3>2. CASE VPAGE + 1 < Pages
      <4>1. (VPAGE + 1) % Pages = VPAGE + 1 /\ VPAGE + 1 \in 0 .. Pages - 1
        BY <1>0, <3>2, Sizes, SmallMod
      <4>2. At(VPAGE + 1, 0) \in 0 .. Pages * PageSize - 1
        <5>1. 0 \in 0 .. PageSize - 1
          BY Sizes
        <5> QED BY <4>1, <5>1, AtPlace
      <4>3. At(VPAGE + 1, 0) = a + 1
        BY <1>0, <2>3, Sizes DEF At
      <4>4. (a + 1) % (Pages * PageSize) = a + 1
        <5>1. Pages * PageSize \in Nat
          BY Sizes
        <5> QED BY <4>2, <4>3, <5>1, SmallMod
      <4>5. At(VPAGE', VAddr') = At(VPAGE + 1, 0)
        BY <3>1, <4>1 DEF At
      <4> HIDE DEF a
      <4> QED BY <2>5, <4>3, <4>4, <4>5 DEF After, a
    <3>3. CASE VPAGE + 1 = Pages
      <4>1. (VPAGE + 1) % Pages = 0
        BY <3>3, SelfMod, Sizes
      <4>2. a + 1 = Pages * PageSize
        BY <1>0, <2>3, <3>3, Sizes
      <4>3. (a + 1) % (Pages * PageSize) = 0
        <5>1. Pages * PageSize \in Nat /\ Pages * PageSize > 0
          BY Sizes
        <5> QED BY <4>2, <5>1, SelfMod
      <4>4. At(VPAGE', VAddr') = 0
        BY <3>1, <4>1, Sizes
      <4> HIDE DEF a
      <4> QED BY <2>5, <4>3, <4>4 DEF After, a
    <3> QED BY <1>0, <3>2, <3>3, Sizes
  <2>6. CASE ~(ScrMode > 3)
    <3>1. At(VPAGE', VAddr') = VPAGE * PageSize + 0
      BY <2>2, <2>6 DEF At
    <3> HIDE DEF a
    <3>2. After(a, ScrMode > 3) = VPAGE * PageSize + 0
      BY <1>1, <2>4, <2>6 DEF After
    <3> QED BY <3>1, <3>2 DEF a
  <2> QED BY <2>5, <2>6
<1> QED BY <1>0, <1>2, <1>3, Sizes

\* What the registers and latches say to the abstract memory, value by value.
LEMMA MappedType ==
  ASSUME NEW vram \in [0 .. Pages - 1 -> [0 .. PageSize - 1 -> Bytes]],
         NEW p \in 0 .. Pages - 1, NEW place \in 0 .. PageSize - 1
  PROVE  /\ AllOf(vram) \in [Memory!Addresses -> Bytes]
         /\ At(p, place) \in Memory!Addresses
         /\ Memory!PageOf(At(p, place)) = p
         /\ Memory!Following(At(p, place)) = After(At(p, place), ScrMode > 3)
<1>1. AllOf(vram) \in [0 .. Pages * PageSize - 1 -> Bytes]
  BY AllType
<1>2. At(p, place) \in 0 .. Pages * PageSize - 1 /\ At(p, place) \div PageSize = p
  BY AtPlace
<1> QED BY <1>1, <1>2 DEF Memory!Addresses, Memory!PageOf, Memory!Following, After

\* The parts of Inv that the abstract memory speaks of.
LEMMA InvPlaces ==
  ASSUME Inv
  PROVE  /\ VRAM \in [0 .. Pages - 1 -> [0 .. PageSize - 1 -> Bytes]]
         /\ VPAGE \in 0 .. Pages - 1 /\ VAddr \in 0 .. PageSize - 1
         /\ VDPData \in Bytes
         /\ port \in {"data", "address", "register", "reset", "load"}
BY DEF Inv, Typed, TypeOK, PageInMemory

LEMMA MemoryTyped ==
  ASSUME Inv
  PROVE  Memory!TypeOK
<1>1. AllOf(VRAM) \in [Memory!Addresses -> Bytes] /\ At(VPAGE, VAddr) \in Memory!Addresses
  BY InvPlaces, MappedType
<1>2. (ScrMode > 3) \in BOOLEAN
  OBVIOUS
<1> QED BY <1>1, <1>2, InvPlaces DEF Memory!TypeOK, AllOf, At

LEMMA MemoryTypedNext ==
  ASSUME Inv'
  PROVE  Memory!TypeOK'
<1>0. /\ VRAM' \in [0 .. Pages - 1 -> [0 .. PageSize - 1 -> Bytes]]
      /\ VPAGE' \in 0 .. Pages - 1 /\ VAddr' \in 0 .. PageSize - 1
      /\ VDPData' \in Bytes
      /\ port' \in {"data", "address", "register", "reset", "load"}
  BY DEF Inv, Typed, TypeOK, PageInMemory
<1>1. AllOf(VRAM') \in [Memory!Addresses -> Bytes] /\ At(VPAGE', VAddr') \in Memory!Addresses
  BY <1>0, MappedType
<1>2. (ScrMode' > 3) \in BOOLEAN
  OBVIOUS
<1> QED BY <1>0, <1>1, <1>2 DEF Memory!TypeOK, Memory!Addresses, AllOf, At

\* Port 98h is the abstract access to the address.
LEMMA DataOutMaps ==
  ASSUME Pages = MaskedPages, Inv, NEW b \in Bytes, DataOut(b)
  PROVE  Memory!Data
<1>1. port' = "data" /\ VDPData' = b /\ ScrMode' = ScrMode /\ Advance(VAddr)
      /\ VRAM' = PutAt(VRAM, VPAGE, VAddr, b)
  BY DEF DataOut, screen, PutAt
<1>2. AllOf(VRAM') = [AllOf(VRAM) EXCEPT ![At(VPAGE, VAddr)] = b]
  BY <1>1, InvPlaces, AllStore
<1>3. At(VPAGE', VAddr') = Memory!Following(At(VPAGE, VAddr))
  BY <1>1, InvPlaces, AdvanceAddress, MappedType DEF Inv
<1> QED BY <1>1, <1>2, <1>3 DEF Memory!Data, AllOf, At

\* A read ahead from a place in the page is the abstract fetch from its address.
LEMMA FetchMaps ==
  ASSUME Pages = MaskedPages, Inv, NEW place \in 0 .. PageSize - 1, Advance(place),
         VDPData' = VRAM[VPAGE][place], VRAM' = VRAM
  PROVE  Memory!FetchAt(At(VPAGE, place))
<1>1. At(VPAGE', VAddr') = Memory!Following(At(VPAGE, place))
  BY InvPlaces, AdvanceAddress, MappedType DEF Inv
<1>2. VDPData' = AllOf(VRAM)[At(VPAGE, place)]
  BY InvPlaces, AllType
<1>3. AllOf(VRAM') = AllOf(VRAM)
  OBVIOUS
<1> QED BY <1>1, <1>2, <1>3 DEF Memory!FetchAt, AllOf, At

LEMMA DataInMaps ==
  ASSUME Pages = MaskedPages, Inv, DataIn
  PROVE  Memory!Data
<1>1. port' = "data" /\ ScrMode' = ScrMode /\ Advance(VAddr) /\ VRAM' = VRAM
      /\ VDPData' = VRAM[VPAGE][VAddr]
  BY DEF DataIn, screen
<1>2. Memory!FetchAt(At(VPAGE, VAddr))
  BY <1>1, InvPlaces, FetchMaps
<1> QED BY <1>1, <1>2 DEF Memory!Data, At

\* The second byte to port 99h moves the address within its page.
LEMMA AddressMaps ==
  ASSUME Pages = MaskedPages, Inv, NEW h \in HighBytes, WriteAddress(h) \/ ReadAddress(h)
  PROVE  Memory!Address
<1> DEFINE place == AddressOf(h)
           a == At(VPAGE, place)
<1>1. place \in 0 .. PageSize - 1
  BY AddressType
<1>2. port' = "address" /\ ScrMode' = ScrMode
  BY DEF WriteAddress, ReadAddress, screen
<1>3. a \in Memory!Addresses /\ Memory!PageOf(a) = Memory!PageOf(At(VPAGE, VAddr))
  BY <1>1, InvPlaces, MappedType
<1>4. CASE WriteAddress(h)
  <2>1. VAddr' = place /\ UNCHANGED <<VPAGE, VRAM, VDPData>>
    BY <1>4 DEF WriteAddress, AddressOf
  <2>2. At(VPAGE', VAddr') = a /\ AllOf(VRAM') = AllOf(VRAM)
    BY <2>1
  <2> HIDE DEF a
  <2> QED BY <1>2, <1>3, <2>1, <2>2 DEF Memory!Address, AllOf, At
<1>5. CASE ReadAddress(h)
  <2>1. Advance(place) /\ VDPData' = VRAM[VPAGE][place] /\ VRAM' = VRAM
    BY <1>5 DEF ReadAddress, AddressOf
  <2> HIDE DEF place
  <2>2. Memory!FetchAt(a)
    BY <1>1, <2>1, FetchMaps
  <2> HIDE DEF a
  <2> QED BY <1>2, <1>3, <2>2 DEF Memory!Address, At
<1> QED BY <1>4, <1>5

\* A register: number 14 keeps the place and the mode, others keep the address.
LEMMA OutMaps ==
  ASSUME Inv, Inv', NEW r \in Number, NEW v \in Byte, VDPOut(r, v),
         UNCHANGED <<VRAM, VAddr, VDPData>>, port' = "register"
  PROVE  Memory!Register
<1>1. AllOf(VRAM') = AllOf(VRAM)
  OBVIOUS
<1>2. (ScrMode' > 3) \in BOOLEAN
  OBVIOUS
<1>3. CASE r = 14
  <2>1. ScrMode' = ScrMode
    BY <1>3 DEF VDPOut, TablesRepaired
  <2>2. VPAGE' \in 0 .. Pages - 1
    BY DEF Inv, Typed, TypeOK, PageInMemory
  <2> DEFINE a == At(VPAGE', VAddr)
  <2>3. a \in Memory!Addresses
    BY <2>2, InvPlaces, MappedType
  <2>4. a % PageSize = At(VPAGE, VAddr) % PageSize
    BY <2>2, InvPlaces, AtPlace
  <2>5. At(VPAGE', VAddr') = a
    OBVIOUS
  <2> HIDE DEF a
  <2> QED BY <1>1, <2>1, <2>3, <2>4, <2>5 DEF Memory!Register, AllOf, At
<1>4. CASE r # 14
  <2>1. At(VPAGE', VAddr') = At(VPAGE, VAddr)
    BY <1>4 DEF VDPOut
  <2> QED BY <1>1, <1>2, <2>1 DEF Memory!Register, AllOf, At
<1> QED BY <1>3, <1>4

LEMMA RegisterMaps ==
  ASSUME Inv, Inv', NEW r \in Regs, RegisterOut(r)
  PROVE  Memory!Register
<1>1. r \in Number /\ ALatch \in Byte
  BY Sizes DEF Inv, Typed, TypeOK
<1>2. VDPOut(r, ALatch) /\ UNCHANGED <<VRAM, VAddr, VDPData>> /\ port' = "register"
  BY DEF RegisterOut
<1> QED BY <1>1, <1>2, OutMaps

LEMMA IndirectMaps ==
  ASSUME Inv, Inv', NEW v \in Byte, IndirectOut(v)
  PROVE  Memory!Register
<1>1. UNCHANGED <<VRAM, VAddr, VDPData>> /\ port' = "register"
  BY DEF IndirectOut
<1>2. CASE VDPOut(Named, v)
  <2>1. Named \in Number
    BY CountedType DEF Inv, Typed, TypeOK, Registers
  <2> QED BY <1>1, <1>2, <2>1, OutMaps
<1>3. CASE UNCHANGED <<VPAGE, PKey, screen>>
  <2>1. /\ AllOf(VRAM') = AllOf(VRAM) /\ At(VPAGE', VAddr') = At(VPAGE, VAddr)
        /\ (ScrMode' > 3) \in BOOLEAN
    BY <1>1, <1>3
  <2> QED BY <1>1, <2>1 DEF Memory!Register, AllOf, At
<1> QED BY <1>2, <1>3 DEF IndirectOut

\* A first byte, no address, a colour: nothing for the memory.
LEMMA QuietMaps ==
  ASSUME UNCHANGED <<VRAM, VPAGE, VAddr, VDPData, ScrMode, port>>
  PROVE  UNCHANGED Memory!vars
BY DEF Memory!vars

LEMMA StepMaps ==
  ASSUME Pages = MaskedPages, Inv, Inv', [Next]_vars
  PROVE  [Memory!Next]_(Memory!vars)
<1>0. /\ UNION {Values[r] : r \in Number} \subseteq Byte
  BY LatchBytes
<1>1. CASE (\E b \in Bytes : DataOut(b)) \/ DataIn
  BY <1>1, DataOutMaps, DataInMaps DEF Memory!Next
<1>2. CASE \E h \in HighBytes : WriteAddress(h) \/ ReadAddress(h)
  BY <1>2, AddressMaps DEF Memory!Next
<1>3. CASE \/ \E r \in Regs : RegisterOut(r)
           \/ \E v \in UNION {Values[r] : r \in Number} : IndirectOut(v)
  BY <1>0, <1>3, RegisterMaps, IndirectMaps DEF Memory!Next
<1>4. CASE ResetMSX
  <2>1. port' = "reset" /\ AllOf(VRAM') = AllOf(VRAM)
    BY <1>4 DEF ResetMSX
  <2>2. Memory!Reset
    BY <2>1, MemoryTypedNext DEF Memory!Reset, AllOf
  <2> QED BY <2>2 DEF Memory!Next
<1>5. CASE \E s \in SavedStates : LoadState(s)
  <2>1. port' = "load"
    BY <1>5 DEF LoadState
  <2>2. Memory!Load
    BY <2>1, MemoryTypedNext DEF Memory!Load
  <2> QED BY <2>2 DEF Memory!Next
<1>6. CASE \/ \E v \in LowBytes \cup UNION {Values[r] : r \in Regs} : Latch(v)
           \/ NoAddress
           \/ \E v \in Colours : PaletteOut(v)
           \/ UNCHANGED vars
  <2>1. UNCHANGED <<VRAM, VPAGE, VAddr, VDPData, ScrMode, port>>
    BY <1>6 DEF Latch, NoAddress, PaletteOut, vars, portVars, screen
  <2> QED BY <2>1, QuietMaps
<1> QED BY <1>1, <1>2, <1>3, <1>4, <1>5, <1>6 DEF Next

\* Programs that use the ports see video memory behind one address: every step of the
\* ports is one of VideoMemory or invisible there, whatever the sizes and the bytes.
THEOREM Refinement ==
  ASSUME Pages = MaskedPages
  PROVE  Spec => LinearVRAM
<1>1. Init => Memory!Init
  BY InvInit, MemoryTyped DEF Memory!Init
<1>2. Init => Inv
  BY InvInit
<1>3. Inv /\ [Next]_vars => Inv'
  BY InvStep
<1>4. Inv /\ Inv' /\ [Next]_vars => [Memory!Next]_(Memory!vars)
  BY StepMaps
<1> QED BY <1>1, <1>2, <1>3, <1>4, PTL DEF Spec, LinearVRAM, Memory!Spec
=============================================================================
