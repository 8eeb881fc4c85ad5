---------------------------- MODULE WD1793Proofs ----------------------------
(***************************************************************************)
(* Theorems about WD1793: its types, the agreement of what the controller  *)
(* reports with where its pointer is and how much of a transfer is left,   *)
(* the flush mark of disks written to, and that it implements              *)
(* SectorTransfer, for every geometry of the disks that GeometryAssumption *)
(* allows and every sequence of the commands InputAssumption allows.       *)
(***************************************************************************)
EXTENDS WD1793, TLAPS

-----------------------------------------------------------------------------
\* Sectors of a track: where a byte is, and when the next sector begins.

LEMMA DivMod ==
  ASSUME NEW n \in Nat, n > 0, NEW p \in Nat
  PROVE  /\ p \div n \in Nat /\ p % n \in 0 .. n - 1
         /\ p = n * (p \div n) + (p % n)
OBVIOUS

LEMMA DivUnique ==
  ASSUME NEW n \in Nat, n > 0, NEW q \in Nat, NEW r \in 0 .. n - 1
  PROVE  (n * q + r) \div n = q /\ (n * q + r) % n = r
OBVIOUS

\* The byte after p of a run that ends with the e-th sector is in the next
\* sector exactly when what is left of the run is whole sectors.
LEMMA NextByte ==
  ASSUME NEW n \in Nat, n > 0, NEW e \in Nat, NEW p \in Nat, NEW left \in Nat,
         p + 1 + left = e * n
  PROVE  (p + 1) \div n = IF left % n = 0 THEN (p \div n) + 1 ELSE p \div n
<1> DEFINE q == p \div n
           r == p % n
<1>1. q \in Nat /\ r \in 0 .. n - 1 /\ p = n * q + r
  BY DivMod
<1> HIDE DEF q, r
<1>2. CASE r = n - 1
  <2>1. p + 1 = n * (q + 1) + 0
    BY <1>1, <1>2
  <2>2. (p + 1) \div n = q + 1
    BY <1>1, <2>1, DivUnique
  <2>3. left = n * (e - (q + 1)) + 0 /\ e - (q + 1) \in Nat
    BY <1>1, <2>1
  <2>4. left % n = 0
    BY <1>1, <2>3, DivUnique
  <2> QED BY <2>2, <2>4 DEF q
<1>3. CASE r < n - 1
  <2>1. p + 1 = n * q + (r + 1) /\ r + 1 \in 0 .. n - 1
    BY <1>1, <1>3
  <2>2. (p + 1) \div n = q
    BY <1>1, <2>1, DivUnique
  <2>3. left = n * (e - (q + 1)) + (n - (r + 1)) /\ n - (r + 1) \in 1 .. n - 1
    BY <1>1, <1>3, <2>1
  <2>4. e - (q + 1) \in Nat
    <3>1. e * n >= n * q + (r + 1)
      BY <1>1, <2>1
    <3>2. ~(e <= q)
      <4>1. ASSUME e <= q PROVE FALSE
        <5>1. e * n <= q * n
          BY <4>1, <1>1
        <5> QED BY <5>1, <3>1, <1>1
      <4> QED BY <4>1
    <3> QED BY <3>2, <1>1
  <2>5. left % n = n - (r + 1)
    <3> DEFINE k == e - (q + 1)
               m == n - (r + 1)
    <3>1. k \in Nat /\ m \in 0 .. n - 1 /\ left = n * k + m
      BY <2>3, <2>4
    <3> HIDE DEF k, m
    <3>2. left % n = m
      BY <3>1, DivUnique
    <3> QED BY <3>2 DEF m
  <2> QED BY <2>2, <2>3, <2>5 DEF q
<1> QED BY <1>1, <1>2, <1>3

\* Where a sector begins.
LEMMA SectorBegins ==
  ASSUME NEW n \in Nat, n > 0, NEW s \in Nat, s > 0
  PROVE  ((s - 1) * n) \div n + 1 = s
<1>1. (s - 1) * n = n * (s - 1) + 0
  OBVIOUS
<1> QED BY <1>1, DivUnique

-----------------------------------------------------------------------------
\* Types.

LEMMA Geometry ==
  /\ RegSize \in Nat /\ RegSize > 0 /\ 0 \in Reg /\ Head \subseteq Reg /\ Reg \subseteq Nat
  /\ SecSize \in Nat /\ SecSize > 0 /\ Sectors \in Nat /\ Sectors > 0 /\ Sectors < RegSize
  /\ HeaderSize \in Nat /\ HeaderSize > 0
  /\ Heads \in Nat /\ Heads > 0 /\ Tracks \in Nat /\ Tracks < Heads /\ 0 \in Head
  /\ Watchdog \in Nat /\ Watchdog > 0
  /\ 0 \in Drives /\ Drives \subseteq Nat
  /\ Commands \subseteq Byte /\ Values \subseteq Reg /\ WildLengths \subseteq Int
  /\ \A sel \in Selects : sel[1] \in Drives /\ sel[2] \in 0 .. 1
BY GeometryAssumption, InputAssumption DEF Byte, Reg, Head

\* The place that SeekFDI() finds and the length of a transfer from there.
LEMMA TargetType ==
  ASSUME TypeOK, Present(Drive), sectorReg \in 1 .. Sectors, NEW v \in Commands
  PROVE  /\ Target \in Place /\ Target.area = "track" /\ Target.drive = Drive
         /\ Target.track = Track[Drive]
         /\ Target.pos = (sectorReg - 1) * SecSize
         /\ Extent(v, sectorReg) \in Nat /\ Extent(v, sectorReg) > 0
         /\ \E e \in 1 .. Sectors : Target.pos + Extent(v, sectorReg) = e * SecSize
         /\ Target.pos + Extent(v, sectorReg) \in {sectorReg * SecSize, Sectors * SecSize}
<1>1. OnSide(Drive, Side) \in 0 .. 1
  <2>1. disk[Drive] \in 1 .. 2 /\ Side \in 0 .. 1
    BY DEF TypeOK, Present
  <2>2. CASE disk[Drive] = 1
    BY <2>1, <2>2 DEF OnSide
  <2>3. CASE disk[Drive] = 2
    BY <2>1, <2>3 DEF OnSide
  <2> QED BY <2>1, <2>2, <2>3
<1>2. (sectorReg - 1) * SecSize \in Nat
  BY Geometry
<1>3. Target \in Place
  BY <1>1, <1>2, Geometry DEF Target, SeekFDI, Place, TypeOK
<1>4. Target.area = "track" /\ Target.drive = Drive /\ Target.track = Track[Drive]
      /\ Target.pos = (sectorReg - 1) * SecSize
  BY DEF Target, SeekFDI
<1>5. CASE BitSet(v, C_MULTIREC)
  <2>1. Extent(v, sectorReg) = SecSize * (Sectors - sectorReg + 1)
    BY <1>5 DEF Extent
  <2>2. SecSize * (Sectors - sectorReg + 1) \in Nat
        /\ SecSize * (Sectors - sectorReg + 1) > 0
        /\ (sectorReg - 1) * SecSize + SecSize * (Sectors - sectorReg + 1)
              = Sectors * SecSize
    BY Geometry
  <2> QED BY <1>3, <1>4, <2>1, <2>2, Geometry
<1>6. CASE ~BitSet(v, C_MULTIREC)
  <2>1. Extent(v, sectorReg) = SecSize
    BY <1>6, Geometry DEF Extent
  <2>2. (sectorReg - 1) * SecSize + SecSize = sectorReg * SecSize
    BY Geometry
  <2> QED BY <1>3, <1>4, <2>1, <2>2, Geometry
<1> QED BY <1>5, <1>6

LEMMA NowhereType == Nowhere \in Place
BY Geometry DEF Place, Nowhere

\* The pointer one byte on.
LEMMA PtrMoves ==
  ASSUME NEW p \in Place, NEW q, q = Onward(p)
  PROVE  /\ q \in Place /\ p.pos \in Nat /\ p.drive \in Drives
         /\ q.area = p.area /\ q.drive = p.drive /\ q.track = p.track /\ q.side = p.side
         /\ p.area # "wild" => q.pos = p.pos + 1
         /\ p.area = "wild" => q = p
<1>1. CASE p.area = "wild"
  BY <1>1 DEF Place, Onward
<1>2. CASE p.area # "wild"
  BY <1>2 DEF Place, Onward
<1> QED BY <1>1, <1>2

LEMMA WildType ==
  ASSUME TypeOK, OffDisk
  PROVE  Wild \in Place /\ Wild.area = "wild" /\ Wild.track >= Tracks
<1>1. OnSide(Drive, Side) \in 0 .. 1
  <2>1. disk[Drive] \in 1 .. 2 /\ Side \in 0 .. 1
    BY DEF TypeOK, OffDisk, Present
  <2>2. CASE disk[Drive] = 1
    BY <2>1, <2>2 DEF OnSide
  <2>3. CASE disk[Drive] = 2
    BY <2>1, <2>3 DEF OnSide
  <2> QED BY <2>1, <2>2, <2>3
<1> QED BY <1>1 DEF TypeOK, OffDisk, Wild, Place

\* Where the sector register can go on to, and what is left of a length.
LEMMA NextSectorType ==
  ASSUME TypeOK, NEW left \in Int
  PROVE  NextSector(left) \subseteq Reg
BY Geometry DEF NextSector, TypeOK, Reg

LEMMA RestType ==
  ASSUME NEW n \in Int
  PROVE  Rest(n) \in Int /\ (n > 0 => Rest(n) = n - 1)
BY DEF Rest

LEMMA TypeInit == Init => TypeOK
<1> SUFFICES ASSUME Init PROVE TypeOK
  OBVIOUS
<1>1. disk \in [Drives -> 0 .. 2]
  <2>1. Disks \cup {0} \subseteq 0 .. 2
    BY GeometryAssumption
  <2> QED BY <2>1 DEF Init
<1>2. Track \in [Drives -> Head] /\ Dirty \in [Drives -> BOOLEAN]
  BY Geometry DEF Init
<1>3. typeI \in BOOLEAN /\ LastS \in BOOLEAN /\ strayed \in BOOLEAN /\ lost \in BOOLEAN
  BY DEF Init
<1>4. Wait \in 0 .. Watchdog /\ Side \in 0 .. 1 /\ Drive \in Drives
  BY Geometry DEF Init
<1>5. trackReg \in Reg /\ sectorReg \in Reg /\ dataReg \in Reg
  BY Geometry DEF Init
<1> QED BY <1>1, <1>2, <1>3, <1>4, <1>5, NowhereType DEF Init, TypeOK

LEMMA ReadsKeepTypes == TypeOK /\ Read1793 /\ UNCHANGED lost => TypeOK'
<1> SUFFICES ASSUME TypeOK, Read1793, UNCHANGED lost PROVE TypeOK'
  OBVIOUS
<1> USE Geometry, NowhereType DEF TypeOK
<1>1. CASE ReadStatus
  BY <1>1 DEF ReadStatus, regs, select, lengths, media,
     F_BUSY, F_DRQ, F_INDEX, F_LOSTDATA, F_TRACK0, F_NOTFOUND
<1>2. CASE ReadData
  <2> DEFINE left == Rest(RDLength)
  <2>1. left \in Int
    BY RestType
  <2>2. /\ RDLength' = left /\ Moved(left) /\ dataReg' \in Values
        /\ UNCHANGED <<trackReg, typeI, select, Track, LastS, WRLength, media>>
    BY <1>2 DEF ReadData
  <2> HIDE DEF left
  <2>3. CASE left # 0
    <3>1. sectorReg' \in Reg
      BY <2>1, <2>2, <2>3, NextSectorType DEF Moved
    <3>2. Ptr' \in Place
      BY <2>2, <2>3, PtrMoves DEF Moved
    <3> QED BY <2>1, <2>2, <2>3, <3>1, <3>2 DEF Moved, select, media
  <2>4. CASE left = 0
    <3>1. status' \subseteq status /\ strayed' \in BOOLEAN
      BY <2>2, <2>4 DEF Moved
    <3> QED BY <2>1, <2>2, <2>4, <3>1 DEF Moved, select, media
  <2> QED BY <2>3, <2>4
<1>3. CASE ReadReady
  <2>1. CASE Wait = 1
    <3>1. strayed' \in BOOLEAN
      BY <1>3, <2>1 DEF ReadReady, Expire
    <3> QED BY <1>3, <2>1, <3>1 DEF ReadReady, Expire, regs, select, media
  <2>2. CASE Wait # 1
    BY <1>3, <2>2 DEF ReadReady, regs, select, lengths, media
  <2> QED BY <2>1, <2>2
<1> QED BY <1>1, <1>2, <1>3 DEF Read1793

LEMMA HeadCommandsKeepTypes ==
  ASSUME TypeOK, NEW v \in Commands, HeadCommand(v), UNCHANGED lost
  PROVE  TypeOK'
<1> USE Geometry, NowhereType DEF TypeOK
<1>1. CASE ForceIRQ(v)
  <2>1. strayed' \in BOOLEAN /\ typeI' \in BOOLEAN
    BY <1>1 DEF ForceIRQ
  <2>2. status' \subseteq {F_BUSY, F_DRQ, F_LOSTDATA, F_NOTFOUND}
    BY <1>1 DEF ForceIRQ, Track0, Busy, F_BUSY, F_DRQ, F_INDEX, F_LOSTDATA, F_TRACK0, F_NOTFOUND
  <2>3. IRQ' \in {"none", "IRQ"}
    BY <1>1 DEF ForceIRQ
  <2> QED BY <1>1, <2>1, <2>2, <2>3 DEF ForceIRQ, regs, select, media
<1>2. CASE CommandLost(v)
  BY <1>2 DEF CommandLost, regs, select, lengths, media
<1>3. ASSUME NEW t \in Head, HeadOver(t)
      PROVE  /\ status' \subseteq {F_BUSY, F_DRQ, F_LOSTDATA, F_NOTFOUND}
             /\ typeI' \in BOOLEAN /\ strayed' \in BOOLEAN
             /\ Track' \in [Drives -> Head] /\ IRQ' = "IRQ"
             /\ UNCHANGED <<sectorReg, dataReg, Drive, Side, Wait, Ptr, disk, Dirty, unsaved, astray,
                            garbled>>
  <2>1. typeI' \in BOOLEAN /\ strayed' \in BOOLEAN
    BY <1>3 DEF HeadOver
  <2>2. status' \subseteq {F_BUSY, F_DRQ, F_LOSTDATA, F_NOTFOUND}
    BY <1>3 DEF HeadOver, F_BUSY, F_DRQ, F_INDEX, F_LOSTDATA, F_TRACK0, F_NOTFOUND
  <2> QED BY <1>3, <2>1, <2>2 DEF HeadOver, select, media
<1>4. CASE Restore(v)
  <2>1. HeadOver(0) /\ trackReg' = 0 /\ UNCHANGED <<LastS, lengths>>
    BY <1>4 DEF Restore
  <2>2. 0 \in Head /\ trackReg' \in Reg
    BY <2>1
  <2> QED BY <1>3, <2>1, <2>2 DEF lengths
<1>5. CASE Seek(v)
  <2> DEFINE to == dataReg % Heads
  <2>1. to \in Head
    BY DEF Reg, Head
  <2>2. HeadOver(to) /\ trackReg' = to /\ RDLength' = 0 /\ WRLength' = 0 /\ UNCHANGED LastS
    BY <1>5 DEF Seek
  <2> HIDE DEF to
  <2>3. trackReg' \in Reg /\ RDLength' \in Int /\ WRLength' \in Int
    BY <2>1, <2>2
  <2>4. /\ status' \subseteq {F_BUSY, F_DRQ, F_LOSTDATA, F_NOTFOUND}
        /\ typeI' \in BOOLEAN /\ strayed' \in BOOLEAN
        /\ Track' \in [Drives -> Head] /\ IRQ' = "IRQ"
        /\ UNCHANGED <<sectorReg, dataReg, Drive, Side, Wait, Ptr, disk, Dirty, unsaved, astray,
                       garbled>>
    BY <1>3, <2>1, <2>2
  <2> QED BY <2>2, <2>3, <2>4
<1>6. CASE Step(v)
  <2> DEFINE out == IF BitSet(v, STEP_KEEPS) THEN BitSet(v, STEP_OUT) ELSE LastS
             to  == StepTo(out, Track[Drive])
  <2>1. out \in BOOLEAN
    BY DEF BitSet
  <2>2. Track[Drive] \in Head
    OBVIOUS
  <2>3. HeadOver(to) /\ LastS' = out
        /\ trackReg' = (IF BitSet(v, C_SETTRACK) THEN to ELSE trackReg) /\ UNCHANGED lengths
    BY <1>6 DEF Step
  <2> HIDE DEF out
  <2>4. to \in Head
    BY <2>1, <2>2 DEF StepTo, Head
  <2> HIDE DEF to
  <2>5. LastS' \in BOOLEAN
    BY <2>1, <2>3
  <2>6. trackReg' \in Reg
    BY <2>3, <2>4
  <2> QED BY <1>3, <2>3, <2>4, <2>5, <2>6 DEF lengths
<1> QED BY <1>1, <1>2, <1>4, <1>5, <1>6 DEF HeadCommand

LEMMA StartType ==
  ASSUME NEW p \in Place, Start(p)
  PROVE  /\ status' = {F_BUSY, F_DRQ} /\ typeI' = FALSE /\ IRQ' = "DRQ"
         /\ Wait' = Watchdog /\ Ptr' = p /\ strayed' = FALSE
BY DEF Start

LEMMA StartKeepsTypes ==
  ASSUME TypeOK, NEW p \in Place, Start(p), RDLength' \in Int, WRLength' \in Int,
         Dirty' \in [Drives -> BOOLEAN], garbled' \subseteq Drives,
         UNCHANGED <<regs, select, Track, LastS, disk, unsaved, astray, lost>>
  PROVE  TypeOK'
<1>1. typeI' \in BOOLEAN /\ strayed' \in BOOLEAN /\ lost' \in BOOLEAN
  BY DEF Start, TypeOK
<1>2. /\ status' \subseteq {F_BUSY, F_DRQ, F_LOSTDATA, F_NOTFOUND} /\ IRQ' = "DRQ"
      /\ Ptr' \in Place /\ Wait' \in 0 .. Watchdog
  BY Geometry DEF Start
<1>3. trackReg' \in Reg /\ sectorReg' \in Reg /\ dataReg' \in Reg
  BY DEF TypeOK, regs
<1>4. Drive' \in Drives /\ Side' \in 0 .. 1
  BY DEF TypeOK, select
<1>5. LastS' \in BOOLEAN /\ Track' \in [Drives -> Head]
  BY DEF TypeOK
<1>6. disk' \in [Drives -> 0 .. 2] /\ unsaved' \subseteq Drives /\ astray' \subseteq Drives
  BY DEF TypeOK
<1> QED BY <1>1, <1>2, <1>3, <1>4, <1>5, <1>6 DEF TypeOK

LEMMA NotFoundKeepsTypes ==
  ASSUME TypeOK, NotFound, UNCHANGED regs, UNCHANGED select, UNCHANGED Track,
         UNCHANGED LastS, UNCHANGED lost
  PROVE  TypeOK'
<1>1. typeI' \in BOOLEAN
  BY DEF NotFound
<1>2. status' \subseteq {F_BUSY, F_DRQ, F_LOSTDATA, F_NOTFOUND}
  BY DEF NotFound
<1>3. IRQ' = "IRQ" /\ UNCHANGED <<Wait, lengths, Ptr, media, strayed>>
  BY DEF NotFound
<1> QED BY <1>1, <1>2, <1>3 DEF TypeOK, regs, select, lengths, media

\* What the lengths and the flush mark are when a transfer starts.
LEMMA ReadStarts ==
  ASSUME TypeOK, NEW p \in Place, Start(p), RDLength' \in Int, garbled' \subseteq Drives,
         UNCHANGED <<WRLength, disk, Dirty, unsaved, astray>>,
         UNCHANGED <<regs, select, Track, LastS>>, UNCHANGED lost
  PROVE  TypeOK'
<1>1. WRLength' \in Int /\ Dirty' \in [Drives -> BOOLEAN]
  BY DEF TypeOK
<1> QED BY <1>1, StartKeepsTypes

LEMMA WriteStarts ==
  ASSUME TypeOK, NEW p \in Place, Start(p), WRLength' \in Int, garbled' \subseteq Drives,
         Dirty' = [Dirty EXCEPT ![Drive] = TRUE],
         UNCHANGED <<RDLength, disk, unsaved, astray>>,
         UNCHANGED <<regs, select, Track, LastS>>, UNCHANGED lost
  PROVE  TypeOK'
<1>1. RDLength' \in Int /\ Dirty' \in [Drives -> BOOLEAN]
  BY DEF TypeOK
<1> QED BY <1>1, StartKeepsTypes

HeaderPlace ==
  [SeekFDI(Drive, Side, Track[Drive], 1) EXCEPT !.area = "header", !.pos = 0]

LEMMA HeaderType ==
  ASSUME TypeOK, CanReadAddress \/ OffDisk
  PROVE  /\ HeaderPlace \in Place /\ HeaderPlace.area = "header"
         /\ HeaderPlace.drive = Drive /\ HeaderPlace.pos = 0 /\ Present(Drive)
<1>1. Present(Drive)
  BY DEF CanReadAddress, OffDisk
<1>2. OnSide(Drive, Side) \in 0 .. 1
  <2>1. disk[Drive] \in 1 .. 2 /\ Side \in 0 .. 1
    BY <1>1 DEF TypeOK, Present
  <2>2. CASE disk[Drive] = 1
    BY <2>1, <2>2 DEF OnSide
  <2>3. CASE disk[Drive] = 2
    BY <2>1, <2>3 DEF OnSide
  <2> QED BY <2>1, <2>2, <2>3
<1> QED BY <1>1, <1>2 DEF TypeOK, SeekFDI, Place, HeaderPlace

LEMMA DataCommandsKeepTypes ==
  ASSUME TypeOK, NEW v \in Commands, DataCommand(v), UNCHANGED lost
  PROVE  TypeOK'
<1> USE Geometry, NowhereType
<1>1. /\ garbled \cup {Drive} \subseteq Drives
      /\ garbled \ {Drive} \subseteq Drives
  BY DEF TypeOK
<1>2. CASE ReadSectors(v)
  <2>1. UNCHANGED <<regs, select, Track, LastS>>
    BY <1>2 DEF ReadSectors
  <2>2. CASE /\ StartFound(v) /\ RDLength' = Extent(v, sectorReg)
             /\ UNCHANGED <<WRLength, disk, Dirty, unsaved, astray>>
    <3>1. Present(Drive) /\ sectorReg \in 1 .. Sectors
      BY <2>2 DEF StartFound, CanSeek, Found
    <3>2. Target \in Place /\ Extent(v, sectorReg) \in Int
      BY <3>1, TargetType
    <3>3. Start(Target) /\ garbled' = garbled \ {Drive}
      BY <2>2 DEF StartFound
    <3> QED BY <1>1, <2>1, <2>2, <3>2, <3>3, ReadStarts
  <2>3. CASE /\ StartWild /\ RDLength' \in WildLengths
             /\ UNCHANGED <<WRLength, disk, Dirty, unsaved, astray>>
    <3>1. Wild \in Place /\ Start(Wild) /\ garbled' = garbled \cup {Drive}
      BY <2>3, WildType DEF StartWild
    <3> QED BY <1>1, <2>1, <2>3, <3>1, ReadStarts
  <2>4. CASE NotFound
    BY <2>1, <2>4, NotFoundKeepsTypes
  <2> QED BY <1>2, <2>2, <2>3, <2>4 DEF ReadSectors
<1>3. CASE WriteSectors(v)
  <2>1. UNCHANGED <<regs, select, Track, LastS>>
    BY <1>3 DEF WriteSectors
  <2>2. CASE /\ StartFound(v) /\ WRLength' = Extent(v, sectorReg)
             /\ Dirty' = [Dirty EXCEPT ![Drive] = TRUE]
             /\ UNCHANGED <<RDLength, disk, unsaved, astray>>
    <3>1. Present(Drive) /\ sectorReg \in 1 .. Sectors
      BY <2>2 DEF StartFound, CanSeek, Found
    <3>2. Target \in Place /\ Extent(v, sectorReg) \in Int
      BY <3>1, TargetType
    <3>3. Start(Target) /\ garbled' = garbled \ {Drive}
      BY <2>2 DEF StartFound
    <3> QED BY <1>1, <2>1, <2>2, <3>2, <3>3, WriteStarts
  <2>3. CASE /\ StartWild /\ WRLength' \in WildLengths
             /\ Dirty' = [Dirty EXCEPT ![Drive] = TRUE]
             /\ UNCHANGED <<RDLength, disk, unsaved, astray>>
    <3>1. Wild \in Place /\ Start(Wild) /\ garbled' = garbled \cup {Drive}
      BY <2>3, WildType DEF StartWild
    <3> QED BY <1>1, <2>1, <2>3, <3>1, WriteStarts
  <2>4. CASE NotFound
    BY <2>1, <2>4, NotFoundKeepsTypes
  <2> QED BY <1>3, <2>2, <2>3, <2>4 DEF WriteSectors
<1>4. CASE ReadAddress(v)
  <2>1. UNCHANGED <<regs, select, Track, LastS>>
    BY <1>4 DEF ReadAddress
  <2>2. CASE /\ CanReadAddress \/ OffDisk
             /\ Start(HeaderPlace) /\ RDLength' = HeaderSize
             /\ garbled' = IF OffDisk THEN garbled \cup {Drive} ELSE garbled \ {Drive}
             /\ UNCHANGED <<WRLength, disk, Dirty, unsaved, astray>>
    <3>1. HeaderPlace \in Place
      BY <2>2, HeaderType
    <3>2. garbled' \subseteq Drives /\ RDLength' \in Int
      BY <1>1, <2>2
    <3> QED BY <2>1, <2>2, <3>1, <3>2, ReadStarts
  <2>3. CASE NotFound
    BY <2>1, <2>3, NotFoundKeepsTypes
  <2> QED BY <1>4, <2>2, <2>3 DEF ReadAddress, HeaderPlace
<1>7. CASE ReadTrack(v)
  <2>1. typeI' \in BOOLEAN
    BY <1>7 DEF ReadTrack
  <2>2. status' \subseteq status /\ IRQ' = "none"
    BY <1>7 DEF ReadTrack
  <2>3. UNCHANGED <<regs, select, Track, LastS, Wait, lengths, Ptr, media, strayed>>
    BY <1>7 DEF ReadTrack
  <2> QED BY <2>1, <2>2, <2>3 DEF TypeOK, regs, select, lengths, media
<1>8. CASE WriteTrack(v)
  <2>1. typeI' \in BOOLEAN
    BY <1>8 DEF WriteTrack
  <2>2. Dirty' \in [Drives -> BOOLEAN] /\ unsaved' \subseteq Drives /\ garbled' \subseteq Drives
    BY <1>8 DEF WriteTrack, TypeOK
  <2>3. status' \subseteq status /\ IRQ' = "none"
    BY <1>8 DEF WriteTrack
  <2>4. UNCHANGED <<regs, select, Track, LastS, Wait, lengths, Ptr, disk, strayed, astray>>
    BY <1>8 DEF WriteTrack
  <2> QED BY <2>1, <2>2, <2>3, <2>4 DEF TypeOK, regs, select, lengths
<1> QED BY <1>2, <1>3, <1>4, <1>7, <1>8 DEF DataCommand

LEMMA RegistersKeepTypes ==
  ASSUME TypeOK, NEW v \in Values, WriteTrackReg(v) \/ WriteSectorReg(v) \/ WriteData(v),
         UNCHANGED lost
  PROVE  TypeOK'
<1>1. CASE WriteTrackReg(v)
  BY <1>1, Geometry DEF WriteTrackReg, TypeOK, select, lengths, media
<1>2. CASE WriteSectorReg(v)
  BY <1>2, Geometry DEF WriteSectorReg, TypeOK, select, lengths, media
<1>3. CASE WriteData(v) /\ WRLength # 0
  <2> DEFINE left == Rest(WRLength)
  <2>1. left \in Int
    BY RestType DEF TypeOK
  <2>2. WRLength' = left /\ Moved(left)
    BY <1>3 DEF WriteData
  <2> HIDE DEF left
  <2>3. Ptr' \in Place /\ sectorReg' \in Reg
    <3>1. CASE left # 0
      <4>1. Ptr' = Onward(Ptr) /\ sectorReg' \in NextSector(left) /\ Ptr \in Place
        BY <2>2, <3>1 DEF Moved, TypeOK
      <4> QED BY <2>1, <4>1, PtrMoves, NextSectorType
    <3>2. CASE left = 0
      BY <2>2, <3>2, NowhereType DEF Moved, TypeOK
    <3> QED BY <3>1, <3>2
  <2>4. status' \subseteq status /\ IRQ' \in {IRQ, "IRQ"} /\ Wait' \in {Wait, Watchdog}
    BY <2>2 DEF Moved
  <2>5. strayed' \in BOOLEAN
    BY <2>2 DEF Moved, TypeOK
  <2>6. Ptr.drive \in Drives
    BY DEF TypeOK, Place
  <2>7. Dirty' \in [Drives -> BOOLEAN]
    BY <1>3 DEF WriteData, TypeOK
  <2>8. unsaved' \subseteq Drives /\ astray' \subseteq Drives
    BY <1>3, <2>6 DEF WriteData, TypeOK
  <2>9. dataReg' \in Reg
    BY <1>3, Geometry DEF WriteData
  <2>10. UNCHANGED <<trackReg, typeI, select, Track, LastS, RDLength, disk, garbled>>
    BY <1>3 DEF WriteData
  <2> QED BY <2>1, <2>2, <2>3, <2>4, <2>5, <2>7, <2>8, <2>9, <2>10, Geometry
      DEF TypeOK, select
<1>4. CASE WriteData(v) /\ ~(WRLength # 0)
  BY <1>4, Geometry DEF WriteData, TypeOK, select
<1> QED BY <1>1, <1>2, <1>3, <1>4

LEMMA SelectKeepsTypes ==
  ASSUME TypeOK, NEW sel \in Selects, WriteSystem(sel[1], sel[2]), UNCHANGED lost
  PROVE  TypeOK'
<1>1. strayed' \in BOOLEAN
  <2>1. CASE Busy /\ sel[1] # Drive
    BY <2>1 DEF WriteSystem
  <2>2. CASE ~(Busy /\ sel[1] # Drive)
    BY <2>2 DEF WriteSystem, TypeOK
  <2> QED BY <2>1, <2>2
<1>2. Drive' \in Drives /\ Side' \in 0 .. 1
  BY Geometry DEF WriteSystem
<1> QED BY <1>1, <1>2 DEF WriteSystem, TypeOK, regs, lengths, media

LEMMA ResetType ==
  ASSUME Reset1793
  PROVE  /\ status' = {} /\ IRQ' = "none" /\ RDLength' = 0 /\ WRLength' = 0
         /\ Ptr' = Nowhere /\ strayed' = FALSE
BY DEF Reset1793

LEMMA ResetKeepsTypes ==
  ASSUME TypeOK, Reset1793, disk' \in [Drives -> 0 .. 2], Dirty' \in [Drives -> BOOLEAN],
         unsaved' \subseteq Drives, astray' \subseteq Drives, garbled' \subseteq Drives,
         UNCHANGED lost
  PROVE  TypeOK'
<1>1. typeI' \in BOOLEAN /\ LastS' \in BOOLEAN /\ strayed' \in BOOLEAN /\ lost' \in BOOLEAN
  BY DEF Reset1793, TypeOK
<1>2. trackReg' \in Reg /\ sectorReg' \in Reg /\ dataReg' \in Reg
  BY Geometry DEF Reset1793
<1>3. Drive' \in Drives /\ Side' \in 0 .. 1 /\ Track' \in [Drives -> Head]
  BY Geometry DEF Reset1793
<1>4. status' = {} /\ IRQ' = "none" /\ Wait' \in 0 .. Watchdog /\ RDLength' \in Int
      /\ WRLength' \in Int /\ Ptr' \in Place
  BY Geometry, NowhereType DEF Reset1793
<1> QED BY <1>1, <1>2, <1>3, <1>4 DEF TypeOK

\* The disks that are put in.
LEMMA ChangeType ==
  ASSUME NEW c \in Changes
  PROVE  c[1] \in 0 .. 2 /\ c[2] \in BOOLEAN
<1>1. Disks \cup {0} \subseteq 0 .. 2
  BY GeometryAssumption
<1>2. CASE c \in (Disks \cup {0}) \X {FALSE}
  <2>1. c[1] \in Disks \cup {0}
    BY <1>2
  <2>2. c[2] = FALSE
    BY <1>2
  <2>3. c[2] \in BOOLEAN
    BY <2>2
  <2> QED BY <1>1, <2>1, <2>3
<1>3. CASE c = <<2, TRUE>>
  <2>1. c[1] = 2
    BY <1>3
  <2>2. c[2] = TRUE
    BY <1>3
  <2>3. c[2] \in BOOLEAN
    BY <2>2
  <2> QED BY <2>1, <2>3
<1> QED BY <1>2, <1>3 DEF Changes

LEMMA EmulatorKeepsTypes ==
  ASSUME TypeOK,
         \/ ResetMSX
         \/ \E d \in Drives, c \in Changes : ChangeDisk(d, c[1], c[2])
         \/ flush_disk,
         UNCHANGED lost
  PROVE  TypeOK'
<1>1. CASE ResetMSX
  BY <1>1, ResetKeepsTypes DEF ResetMSX, media, TypeOK
<1>2. ASSUME NEW d \in Drives, NEW c \in Changes, ChangeDisk(d, c[1], c[2])
      PROVE  TypeOK'
  <2>1. c[1] \in 0 .. 2 /\ c[2] \in BOOLEAN
    BY ChangeType
  <2>2. disk' \in [Drives -> 0 .. 2]
    BY <1>2, <2>1 DEF ChangeDisk, TypeOK
  <2>3. Dirty' \in [Drives -> BOOLEAN]
    BY <1>2, <2>1 DEF ChangeDisk, TypeOK
  <2>4. unsaved' \subseteq Drives /\ astray' \subseteq Drives /\ garbled' \subseteq Drives
        /\ Reset1793
    BY <1>2 DEF ChangeDisk, TypeOK
  <2> QED BY <2>2, <2>3, <2>4, ResetKeepsTypes
<1>3. CASE flush_disk
  <2>1. Dirty' \in [Drives -> BOOLEAN]
    BY <1>3 DEF flush_disk, TypeOK
  <2>2. unsaved' \subseteq Drives /\ astray' \subseteq Drives /\ garbled' \subseteq Drives
    <3>1. unsaved \subseteq Drives /\ astray \subseteq Drives /\ garbled \subseteq Drives
      BY DEF TypeOK
    <3>2. /\ unsaved' \in {unsaved \cup {0}, unsaved \ {0}}
          /\ astray' \in {astray \cup {0}, astray \ {0}}
          /\ garbled' = garbled \ {0}
      BY <1>3 DEF flush_disk
    <3> QED BY <3>1, <3>2, Geometry
  <2>3. UNCHANGED <<status, regs, typeI, select, Track, LastS, IRQ, Wait, lengths, Ptr,
                    disk, strayed>>
    BY <1>3 DEF flush_disk
  <2> QED BY <2>1, <2>2, <2>3 DEF TypeOK, regs, select, lengths
<1> QED BY <1>1, <1>2, <1>3

LEMMA TypeStep == TypeOK /\ [Next]_vars => TypeOK'
<1> SUFFICES ASSUME TypeOK, [Next]_vars PROVE TypeOK'
  OBVIOUS
<1>1. CASE Operation /\ UNCHANGED lost
  BY <1>1, ReadsKeepTypes, HeadCommandsKeepTypes, DataCommandsKeepTypes,
     RegistersKeepTypes, SelectKeepsTypes, EmulatorKeepsTypes DEF Operation, Write1793
<1>3. CASE /\ lost' = TRUE
           /\ UNCHANGED <<status, regs, typeI, select, Track, LastS, IRQ, Wait,
                          lengths, Ptr, media, strayed>>
  BY <1>3 DEF TypeOK, regs, select, lengths, media
<1>2. CASE UNCHANGED vars
  BY <1>2 DEF vars, TypeOK, regs, select, lengths, media
<1> QED BY <1>1, <1>2, <1>3 DEF Next

\* Every field of the controller and of the drives keeps a value of its type,
\* whatever Read1793(), Write1793(), Reset1793() and changes of disks do and
\* wherever the head is: any byte, on a track of the disk or past the last one.
THEOREM TypeCorrect == Spec => []TypeOK
<1>1. Init => TypeOK
  BY TypeInit
<1>2. TypeOK /\ [Next]_vars => TypeOK'
  BY TypeStep
<1> QED BY <1>1, <1>2, PTL DEF Spec

-----------------------------------------------------------------------------
(***************************************************************************)
(* The controller and its transfer.  SectorRegFollows only survives the    *)
(* byte that ends a sector because NextSector() looks at what is left, not *)
(* at where the pointer is: the two agree as long as what is left ends     *)
(* with a sector of the track, which is what RunEnds adds, and as long as  *)
(* the disk has its own SecSize, which is what OwnSize adds.               *)
(***************************************************************************)
RunEnds ==
  (Left > 0 /\ Ptr.area = "track") =>
    \E e \in 1 .. Sectors : Ptr.pos + Left = e * SecSize
OwnSize == (Left > 0 /\ Ptr.area = "track" /\ ~strayed) => Ptr.drive \notin garbled
InStep == ControllerInStep /\ RunEnds /\ OwnSize

(***************************************************************************)
(* What a step can do to the transfer: end it, leave it alone, move one of *)
(* its bytes, or begin one of sectors or of a header.  One of what is no   *)
(* sector begins and goes on too.                                          *)
(***************************************************************************)
Ends ==
  /\ RDLength' = 0 /\ WRLength' = 0 /\ F_BUSY \notin status'
  /\ IRQ' \in {"none", "IRQ"}
  /\ Ptr'.area # "wild"

Keeps ==
  /\ UNCHANGED <<RDLength, WRLength, Ptr>>
  /\ UNCHANGED disk
  /\ IRQ' \in {IRQ, "none"}
  /\ Busy' <=> Busy
  /\ Busy => /\ F_DRQ \in status' /\ Wait' > 0 /\ sectorReg' = sectorReg
             /\ typeI' => typeI
             /\ ~strayed' => ~strayed /\ Drive' = Drive
             /\ garbled' \subseteq garbled

Moves(left) ==
  /\ left > 0 /\ Left = left + 1 /\ Left' = left
  /\ Ptr.area # "wild"
  /\ RDLength' \in Nat /\ WRLength' \in Nat
  /\ RDLength' = 0 \/ WRLength' = 0
  /\ RDLength > 0 <=> RDLength' > 0
  /\ Moved(left)
  /\ UNCHANGED <<Drive, typeI, disk, garbled>>

SectorsBegin(v) ==
  /\ ~Busy /\ StartFound(v)
  /\ \/ RDLength' = Extent(v, sectorReg) /\ UNCHANGED WRLength
     \/ WRLength' = Extent(v, sectorReg) /\ UNCHANGED RDLength
  /\ UNCHANGED <<sectorReg, Drive, disk>>

HeaderBegins ==
  /\ ~Busy /\ (CanReadAddress \/ OffDisk)
  /\ Start(HeaderPlace)
  /\ RDLength' = HeaderSize
  /\ UNCHANGED <<WRLength, disk>>

WildBegins ==
  /\ ~Busy /\ OffDisk
  /\ Start(Wild)
  /\ UNCHANGED RDLength \/ UNCHANGED WRLength

WildMoves ==
  /\ Ptr.area = "wild"
  /\ UNCHANGED <<Ptr, status, IRQ, typeI, WRLength>>
  /\ WRLength = 0
  /\ Wait' = Watchdog

\* Nothing is left of a transfer: the other parts of InStep say nothing.
LEMMA TransferOver ==
  ASSUME Ends
  PROVE  InStep'
<1>1. /\ Left' = 0 /\ ~Busy' /\ RDLength' = 0 /\ WRLength' = 0 /\ IRQ' # "DRQ"
      /\ Ptr'.area # "wild"
  BY DEF Ends, Left, Busy
<1> QED BY <1>1 DEF InStep, ControllerInStep, BusyWhileTransfer, PtrInBounds,
         SectorRegFollows, RunEnds, OwnSize

\* The transfer is the same, whatever else changes.
LEMMA TransferKept ==
  ASSUME InStep, Keeps
  PROVE  InStep'
<1> USE DEF Keeps
<1>1. Left' = Left
  BY DEF Left
<1>2. BusyWhileTransfer'
  BY <1>1 DEF InStep, ControllerInStep, BusyWhileTransfer
<1>3. PtrInBounds'
  BY <1>1 DEF InStep, ControllerInStep, PtrInBounds, Present
<1>4. SectorRegFollows'
  BY <1>1 DEF InStep, ControllerInStep, SectorRegFollows, BusyWhileTransfer
<1>5. RunEnds'
  BY <1>1 DEF InStep, RunEnds
<1>6. OwnSize'
  BY <1>1 DEF InStep, ControllerInStep, OwnSize, BusyWhileTransfer
<1> QED BY <1>2, <1>3, <1>4, <1>5, <1>6 DEF InStep, ControllerInStep

\* One byte of what is no sector.
LEMMA WildKept ==
  ASSUME InStep, WildMoves
  PROVE  InStep'
<1>1. /\ Ptr'.area = "wild" /\ Ptr.area = "wild" /\ WRLength' = 0 /\ Ptr' = Ptr
      /\ Wait' > 0 /\ UNCHANGED status /\ UNCHANGED IRQ /\ UNCHANGED typeI
  BY Geometry DEF WildMoves
<1>2. Busy' <=> Busy
  BY <1>1 DEF Busy
<1>3. BusyWhileTransfer'
  BY <1>1, <1>2 DEF InStep, ControllerInStep, BusyWhileTransfer
<1>4. PtrInBounds'
  BY <1>1 DEF InStep, ControllerInStep, PtrInBounds
<1> QED BY <1>1, <1>3, <1>4 DEF InStep, ControllerInStep, SectorRegFollows, RunEnds, OwnSize

\* The register of the sector after the one that byte p is in.
LEMMA NextRegister ==
  ASSUME NEW p \in Nat, p + 1 < Sectors * SecSize, NEW s \in Nat,
         s = p \div SecSize + 1, (p + 1) \div SecSize # p \div SecSize
  PROVE  (s + 1) % RegSize = s + 1
<1> DEFINE q == p \div SecSize
           n == (p + 1) \div SecSize
<1>1. /\ q \in Nat /\ p >= SecSize * q /\ n \in Nat /\ p + 1 >= SecSize * n
      /\ p + 1 < SecSize * (n + 1) /\ p < SecSize * (q + 1)
  BY Geometry, DivMod
<1> HIDE DEF q, n
<1>2. q <= n /\ n < Sectors
  <2>1. ASSUME n >= Sectors PROVE FALSE
    <3>1. SecSize * n >= Sectors * SecSize
      BY <1>1, <2>1, Geometry
    <3> QED BY <1>1, <3>1, Geometry
  <2>2. ASSUME q > n PROVE FALSE
    <3>1. SecSize * q >= SecSize * (n + 1)
      BY <1>1, <2>2, Geometry
    <3> QED BY <1>1, <3>1, Geometry
  <2> QED BY <1>1, <2>1, <2>2, Geometry
<1>3. s + 1 <= Sectors
  BY <1>1, <1>2, Geometry DEF q, n
<1>4. s + 1 < RegSize
  BY <1>3, Geometry
<1> QED BY <1>4, Geometry

\* One byte on, with left bytes to go.
LEMMA ByteMoved ==
  ASSUME TypeOK, TypeOK', InStep, NEW left \in Nat, Moves(left)
  PROVE  InStep'
<1>1. /\ left > 0 /\ Left = left + 1 /\ Left' = left /\ Moved(left)
      /\ RDLength' \in Nat /\ WRLength' \in Nat /\ Ptr.area # "wild"
      /\ RDLength' = 0 \/ WRLength' = 0
      /\ UNCHANGED <<Drive, typeI, disk, garbled>>
  BY DEF Moves
<1> USE <1>1
<1>2. /\ Ptr' = Onward(Ptr) /\ Wait' = Watchdog
      /\ sectorReg' \in NextSector(left) /\ UNCHANGED <<status, IRQ, strayed>>
  BY DEF Moved
<1>3. /\ Ptr'.pos = Ptr.pos + 1 /\ Ptr.pos \in Nat /\ Ptr.drive \in Drives
      /\ Ptr'.area = Ptr.area /\ Ptr'.drive = Ptr.drive /\ Ptr'.track = Ptr.track
  BY <1>2, PtrMoves DEF TypeOK
<1>4. BusyWhileTransfer'
  <2>1. Busy' <=> Busy
    BY <1>2 DEF Busy
  <2>2. Busy
    BY DEF InStep, ControllerInStep, BusyWhileTransfer
  <2> QED BY <1>2, <1>3, <2>1, <2>2, Geometry DEF InStep, ControllerInStep, BusyWhileTransfer
<1>5. Ptr'.pos + Left' = Ptr.pos + Left
  BY <1>3
<1>6. WRLength = 0 => WRLength' = 0
  <2>1. RDLength \in Nat /\ WRLength \in Nat
    BY DEF TypeOK, InStep, ControllerInStep, BusyWhileTransfer
  <2>2. RDLength > 0 <=> RDLength' > 0
    BY DEF Moves
  <2> QED BY <2>1, <2>2 DEF Left
<1>7. PtrInBounds'
  BY <1>3, <1>5, <1>6 DEF InStep, ControllerInStep, PtrInBounds, Present
<1>8. RunEnds'
  BY <1>3, <1>5 DEF InStep, RunEnds
<1>9. OwnSize'
  BY <1>2, <1>3 DEF InStep, OwnSize
<1>10. SectorRegFollows'
  <2> SUFFICES ASSUME Ptr'.area = "track", ~strayed'
               PROVE  sectorReg' = Ptr'.pos \div SecSize + 1 /\ Ptr'.drive = Drive'
    BY DEF SectorRegFollows
  <2>1. Ptr.area = "track" /\ ~strayed /\ Left > 0
    BY <1>2, <1>3
  <2>2. /\ sectorReg = Ptr.pos \div SecSize + 1 /\ Ptr.drive = Drive /\ Present(Drive)
        /\ Drive \notin garbled
    BY <2>1 DEF InStep, ControllerInStep, SectorRegFollows, PtrInBounds, OwnSize
  <2>3. PICK e \in 1 .. Sectors : Ptr.pos + 1 + left = e * SecSize
    BY <1>3, <2>1 DEF InStep, RunEnds
  <2>4. (Ptr.pos + 1) \div SecSize
           = IF left % SecSize = 0 THEN (Ptr.pos \div SecSize) + 1 ELSE Ptr.pos \div SecSize
    <3> DEFINE p == Ptr.pos
    <3>1. p \in Nat /\ p + 1 + left = e * SecSize
      BY <1>3, <2>3
    <3>2. SecSize \in Nat /\ SecSize > 0 /\ e \in Nat
      BY Geometry
    <3> HIDE DEF p
    <3>3. (p + 1) \div SecSize = IF left % SecSize = 0 THEN (p \div SecSize) + 1 ELSE p \div SecSize
      BY <3>1, <3>2, NextByte
    <3> QED BY <3>3 DEF p
  <2>5. sectorReg' = IF left % SecSize = 0 THEN (sectorReg + 1) % RegSize ELSE sectorReg
    BY <1>2, <2>2 DEF NextSector
  <2>6. left % SecSize = 0 => (sectorReg + 1) % RegSize = sectorReg + 1
    <3> SUFFICES ASSUME left % SecSize = 0 PROVE (sectorReg + 1) % RegSize = sectorReg + 1
      OBVIOUS
    <3> DEFINE p == Ptr.pos
    <3>1. p \in Nat /\ p + 1 < Sectors * SecSize
      BY <1>3, <2>1, Geometry DEF InStep, ControllerInStep, PtrInBounds
    <3>2. sectorReg \in Nat /\ sectorReg = p \div SecSize + 1
      BY <2>2, Geometry DEF TypeOK
    <3>3. (p + 1) \div SecSize # p \div SecSize
      <4>1. (p + 1) \div SecSize = (p \div SecSize) + 1 /\ p \div SecSize \in Nat
        BY <2>4, <3>1, Geometry, DivMod
      <4> QED BY <4>1
    <3> HIDE DEF p
    <3> QED BY <3>1, <3>2, <3>3, NextRegister
  <2> QED BY <1>2, <1>3, <2>2, <2>4, <2>5, <2>6
<1> QED BY <1>4, <1>7, <1>8, <1>9, <1>10 DEF InStep, ControllerInStep

LEMMA StartsBusy ==
  ASSUME NEW p \in Place, p.area # "wild", Start(p), RDLength' \in Nat, WRLength' \in Nat,
         RDLength' = 0 \/ WRLength' = 0, Left' > 0
  PROVE  BusyWhileTransfer'
<1>1. /\ ~typeI' /\ IRQ' = "DRQ" /\ Wait' > 0 /\ F_DRQ \in status' /\ F_BUSY \in status'
      /\ Ptr' = p
  BY Geometry DEF Start
<1>2. RDLength' >= 0 /\ WRLength' >= 0
  OBVIOUS
<1>3. /\ RDLength' = 0 \/ WRLength' = 0
      /\ Ptr'.area # "wild" => RDLength' >= 0 /\ WRLength' >= 0
      /\ Busy' <=> Left' > 0 \/ Ptr'.area = "wild"
  BY <1>1, <1>2 DEF Busy
<1>4. /\ Busy' => Wait' > 0 /\ F_DRQ \in status' /\ ~typeI'
      /\ IRQ' = "DRQ" => Busy'
  BY <1>1 DEF Busy
<1> QED BY ONLY <1>3, <1>4 DEF BusyWhileTransfer

\* What InStep says of the lengths when the controller is busy and when not.
LEMMA Lengths ==
  ASSUME TypeOK, InStep
  PROVE  /\ RDLength \in Int /\ WRLength \in Int /\ Wait \in Nat
         /\ RDLength = 0 \/ WRLength = 0
         /\ Ptr.area # "wild" => RDLength \in Nat /\ WRLength \in Nat
         /\ ~Busy => RDLength = 0 /\ WRLength = 0 /\ IRQ # "DRQ" /\ Ptr.area # "wild"
         /\ Busy => F_DRQ \in status /\ ~typeI /\ Wait > 0
         /\ IRQ \in {"none", "DRQ", "IRQ"}
BY Geometry DEF InStep, ControllerInStep, BusyWhileTransfer, TypeOK, Left

\* READ-SECTOR and WRITE-SECTOR, with n bytes to transfer.
LEMMA SectorsStart ==
  ASSUME TypeOK, TypeOK', InStep, NEW v \in Commands, SectorsBegin(v)
  PROVE  /\ InStep' /\ Left' = Extent(v, sectorReg) /\ Left = 0
         /\ Ptr.area # "wild" /\ Target.track < Tracks
<1>1. /\ ~Busy /\ CanSeek(v) /\ Start(Target) /\ garbled' = garbled \ {Drive}
      /\ \/ RDLength' = Extent(v, sectorReg) /\ UNCHANGED WRLength
         \/ WRLength' = Extent(v, sectorReg) /\ UNCHANGED RDLength
      /\ UNCHANGED <<sectorReg, Drive, disk>>
  BY DEF SectorsBegin, StartFound
<1> USE <1>1
<1>2. Present(Drive) /\ sectorReg \in 1 .. Sectors /\ Track[Drive] < Tracks
  BY DEF CanSeek, Found
<1>3. /\ Target \in Place /\ Target.area = "track" /\ Target.drive = Drive
      /\ Target.track < Tracks
      /\ Target.pos = (sectorReg - 1) * SecSize
      /\ Extent(v, sectorReg) \in Nat /\ Extent(v, sectorReg) > 0
      /\ \E e \in 1 .. Sectors : Target.pos + Extent(v, sectorReg) = e * SecSize
  BY <1>2, TargetType
<1>4. Left = 0 /\ RDLength = 0 /\ WRLength = 0 /\ Ptr.area # "wild"
  BY Lengths DEF Left
<1>5. Left' = Extent(v, sectorReg) /\ (RDLength' = 0 \/ WRLength' = 0)
      /\ RDLength' \in Nat /\ WRLength' \in Nat
  BY <1>3, <1>4 DEF Left
<1>6. Ptr' = Target
  BY DEF Start
<1> HIDE DEF Target, Extent
<1>7. BusyWhileTransfer'
  BY <1>3, <1>5, StartsBusy DEF Left
<1>8. RunEnds'
  BY <1>3, <1>5, <1>6 DEF RunEnds
<1>9. PtrInBounds'
  <2>1. PICK e \in 1 .. Sectors : Ptr'.pos + Left' = e * SecSize
    BY <1>3, <1>5, <1>6
  <2>2. e * SecSize <= Sectors * SecSize
    BY Geometry
  <2> QED BY <1>2, <1>3, <1>6, <2>1, <2>2 DEF PtrInBounds, Present
<1>10. SectorRegFollows'
  <2>1. ((sectorReg - 1) * SecSize) \div SecSize + 1 = sectorReg
    BY <1>2, Geometry, SectorBegins
  <2>2. Ptr'.pos = (sectorReg - 1) * SecSize /\ Ptr'.drive = Drive
    BY <1>3, <1>6
  <2>3. sectorReg' = Ptr'.pos \div SecSize + 1
    BY <2>1, <2>2
  <2> QED BY <2>2, <2>3 DEF SectorRegFollows
<1>11. OwnSize'
  BY <1>3, <1>6 DEF OwnSize
<1> QED BY <1>3, <1>4, <1>5, <1>7, <1>8, <1>9, <1>10, <1>11 DEF InStep, ControllerInStep

LEMMA HeaderStarts ==
  ASSUME TypeOK, TypeOK', InStep, HeaderBegins
  PROVE  InStep' /\ Left' = HeaderSize /\ Left = 0 /\ Ptr.area # "wild"
<1> USE DEF HeaderBegins
<1>1. Left = 0 /\ RDLength = 0 /\ WRLength = 0 /\ Ptr.area # "wild"
  BY Lengths DEF Left
<1>2. Left' = HeaderSize /\ WRLength' = 0 /\ RDLength' \in Nat /\ WRLength' \in Nat
  BY <1>1, Geometry DEF Left
<1>3. /\ HeaderPlace \in Place /\ HeaderPlace.area = "header" /\ Present(Drive)
      /\ HeaderPlace.drive = Drive /\ HeaderPlace.pos = 0
  BY HeaderType
<1>4. Ptr' = HeaderPlace
  BY DEF Start
<1>5. BusyWhileTransfer'
  BY <1>2, <1>3, StartsBusy, Geometry DEF Left
<1>6. PtrInBounds'
  BY <1>2, <1>3, <1>4, Geometry DEF PtrInBounds, Present
<1> QED BY <1>1, <1>2, <1>3, <1>4, <1>5, <1>6
    DEF InStep, ControllerInStep, SectorRegFollows, RunEnds, OwnSize

LEMMA WildStarts ==
  ASSUME TypeOK, InStep, WildBegins
  PROVE  InStep' /\ Left = 0 /\ Ptr.area # "wild" /\ Ptr' = Wild
<1>1. Left = 0 /\ RDLength = 0 /\ WRLength = 0 /\ Ptr.area # "wild"
  BY Lengths DEF WildBegins, Left
<1>2. Wild.area = "wild" /\ Wild.track >= Tracks
  BY WildType DEF WildBegins
<1>3. /\ Ptr' = Wild /\ ~typeI' /\ IRQ' = "DRQ" /\ Wait' > 0
      /\ F_DRQ \in status' /\ F_BUSY \in status'
      /\ RDLength' = 0 \/ WRLength' = 0
  BY <1>1, Geometry DEF WildBegins, Start
<1> HIDE DEF Wild
<1>4. BusyWhileTransfer'
  BY <1>2, <1>3 DEF BusyWhileTransfer, Busy
<1> QED BY <1>1, <1>2, <1>3, <1>4
    DEF InStep, ControllerInStep, PtrInBounds, SectorRegFollows, RunEnds, OwnSize

\* Every step does one of these.
Outcome ==
  \/ Ends
  \/ Keeps
  \/ \E left \in Nat : Moves(left)
  \/ \E v \in Commands : SectorsBegin(v)
  \/ HeaderBegins
  \/ WildBegins
  \/ WildMoves

LEMMA LastByte ==
  ASSUME Moved(0), RDLength' = 0, WRLength' = 0
  PROVE  Ends
BY DEF Moved, Ends, Nowhere

LEMMA ReadsOutcome ==
  ASSUME TypeOK, InStep, Read1793
  PROVE  Outcome
<1>1. CASE ReadStatus
  <2>1. Busy' <=> Busy
    BY <1>1 DEF ReadStatus, Busy, F_BUSY, F_DRQ, F_INDEX, F_TRACK0
  <2>2. Busy => F_DRQ \in status'
    BY <1>1, Lengths DEF ReadStatus, F_BUSY, F_DRQ
  <2> QED BY <1>1, <2>1, <2>2, Lengths
      DEF ReadStatus, Outcome, Keeps, regs, select, lengths, media
<1>2. CASE ReadData
  <2> DEFINE left == Rest(RDLength)
  <2>1. /\ RDLength # 0 /\ RDLength' = left /\ WRLength = 0 /\ WRLength' = 0
        /\ Moved(left) /\ UNCHANGED <<typeI, Drive, Side, WRLength>>
        /\ UNCHANGED <<disk, garbled>>
    BY <1>2, Lengths DEF ReadData, select, media
  <2>2. left \in Int /\ (RDLength > 0 => left = RDLength - 1)
    BY Lengths, RestType
  <2> HIDE DEF left
  <2>3. CASE left = 0
    BY <2>1, <2>3, LastByte DEF Outcome
  <2>4. CASE left # 0 /\ Ptr.area = "wild"
    <3>1. WildMoves
      BY <2>1, <2>4 DEF Moved, Onward, WildMoves
    <3> QED BY <3>1 DEF Outcome
  <2>5. CASE left # 0 /\ Ptr.area # "wild"
    <3>1. left \in Nat /\ left > 0 /\ RDLength = left + 1 /\ RDLength \in Nat
      BY <2>1, <2>2, <2>5, Lengths
    <3>2. Moves(left)
      BY <2>1, <2>5, <3>1 DEF Moves, Left
    <3> QED BY <3>1, <3>2 DEF Outcome
  <2> QED BY <2>3, <2>4, <2>5
<1>3. CASE ReadReady
  <2>1. CASE Wait = 1
    <3>1. Ends
      BY <1>3, <2>1 DEF ReadReady, Expire, Ends, Nowhere, F_BUSY, F_DRQ, F_LOSTDATA
    <3> QED BY <3>1 DEF Outcome
  <2>2. CASE Wait # 1
    <3>1. /\ Wait' > 0
          /\ UNCHANGED <<lengths, status, IRQ, Ptr, strayed>>
          /\ UNCHANGED <<regs, typeI, select, media>>
      BY <1>3, <2>2, Lengths DEF ReadReady
    <3> QED BY <3>1, Lengths DEF Outcome, Keeps, Busy, regs, select, lengths, media
  <2> QED BY <2>1, <2>2
<1> QED BY <1>1, <1>2, <1>3 DEF Read1793

LEMMA HeadCommandsOutcome ==
  ASSUME TypeOK, InStep, NEW v \in Commands, HeadCommand(v)
  PROVE  Outcome
<1>1. CASE ForceIRQ(v)
  <2>1. F_BUSY \notin status'
    BY <1>1 DEF ForceIRQ, Track0, Busy, F_BUSY, F_INDEX, F_TRACK0
  <2> QED BY <1>1, <2>1 DEF ForceIRQ, Ends, Outcome, Nowhere
<1>2. CASE CommandLost(v)
  BY <1>2, Lengths DEF CommandLost, Outcome, Keeps, Busy, regs, select, lengths, media
<1>3. ASSUME NEW t, HeadOver(t), ~Busy, RDLength' = 0, WRLength' = 0
      PROVE  Outcome
  <2>1. F_BUSY \notin status' /\ IRQ' = "IRQ" /\ Ptr' = Ptr
    BY <1>3 DEF HeadOver, F_BUSY, F_INDEX, F_TRACK0
  <2> QED BY <1>3, <2>1, Lengths DEF Ends, Outcome
<1>4. CASE Restore(v)
  BY <1>3, <1>4, Lengths DEF Restore, lengths
<1>5. CASE Seek(v)
  BY <1>3, <1>5, Lengths DEF Seek
<1>6. CASE Step(v)
  <2>1. PICK t : HeadOver(t)
    BY <1>6 DEF Step
  <2>2. ~Busy /\ UNCHANGED lengths
    BY <1>6 DEF Step
  <2> QED BY <1>3, <2>1, <2>2, Lengths DEF lengths
<1> QED BY <1>1, <1>2, <1>4, <1>5, <1>6 DEF HeadCommand

LEMMA DataCommandsOutcome ==
  ASSUME TypeOK, InStep, NEW v \in Commands, DataCommand(v)
  PROVE  Outcome
<1>1. ~Busy
  BY DEF DataCommand, ReadSectors, WriteSectors, ReadAddress, ReadTrack, WriteTrack
<1>2. ASSUME NotFound PROVE Outcome
  BY <1>1, <1>2, Lengths DEF NotFound, lengths, Ends, Outcome, F_BUSY, F_NOTFOUND
<1>3. ASSUME StartFound(v), UNCHANGED <<regs, select, disk>>,
             \/ RDLength' = Extent(v, sectorReg) /\ UNCHANGED WRLength
             \/ WRLength' = Extent(v, sectorReg) /\ UNCHANGED RDLength
      PROVE  Outcome
  BY <1>1, <1>3 DEF SectorsBegin, regs, select, Outcome
<1>4. ASSUME StartWild, UNCHANGED RDLength \/ UNCHANGED WRLength
      PROVE  Outcome
  BY <1>1, <1>4 DEF StartWild, WildBegins, Outcome
<1>5. CASE ReadSectors(v)
  BY <1>2, <1>3, <1>4, <1>5 DEF ReadSectors
<1>6. CASE WriteSectors(v)
  BY <1>2, <1>3, <1>4, <1>6 DEF WriteSectors
<1>7. CASE ReadAddress(v)
  BY <1>1, <1>2, <1>7 DEF ReadAddress, HeaderBegins, HeaderPlace, Outcome
<1>8. ASSUME status' = {}, IRQ' = "none", UNCHANGED lengths, UNCHANGED Ptr PROVE Outcome
  BY <1>1, <1>8, Lengths DEF lengths, Ends, Outcome
<1>9. CASE ReadTrack(v)
  BY <1>8, <1>9 DEF ReadTrack
<1>10. CASE WriteTrack(v)
  BY <1>8, <1>10 DEF WriteTrack
<1> QED BY <1>5, <1>6, <1>7, <1>9, <1>10 DEF DataCommand

LEMMA RegistersOutcome ==
  ASSUME TypeOK, InStep, NEW v \in Values, WriteTrackReg(v) \/ WriteSectorReg(v) \/ WriteData(v)
  PROVE  Outcome
<1>1. CASE WriteTrackReg(v)
  BY <1>1, Lengths DEF WriteTrackReg, Outcome, Keeps, Busy, select, lengths, media
<1>2. CASE WriteSectorReg(v)
  BY <1>2, Lengths DEF WriteSectorReg, Outcome, Keeps, Busy, select, lengths, media
<1>3. CASE WriteData(v) /\ WRLength # 0
  <2> DEFINE left == Rest(WRLength)
  <2>1. /\ WRLength' = left /\ RDLength = 0 /\ RDLength' = 0 /\ Ptr.area # "wild"
        /\ Moved(left) /\ UNCHANGED <<typeI, Drive, Side, RDLength, disk, garbled>>
    BY <1>3, Lengths DEF WriteData, select
  <2>2. left \in Nat /\ WRLength = left + 1 /\ WRLength \in Nat
    BY <1>3, <2>1, Lengths, RestType
  <2> HIDE DEF left
  <2>3. CASE left = 0
    BY <2>1, <2>3, LastByte DEF Outcome
  <2>4. CASE left > 0
    <3>1. Moves(left)
      BY <2>1, <2>2, <2>4 DEF Moves, Left
    <3> QED BY <2>2, <3>1 DEF Outcome
  <2> QED BY <2>2, <2>3, <2>4
<1>4. CASE WriteData(v) /\ ~(WRLength # 0)
  <2>1. /\ UNCHANGED <<WRLength, status, IRQ, Wait, sectorReg, Ptr, strayed>>
        /\ UNCHANGED <<typeI, select, RDLength, disk, garbled>>
    BY <1>4 DEF WriteData
  <2> QED BY <2>1, Lengths DEF Outcome, Keeps, Busy, select
<1> QED BY <1>1, <1>2, <1>3, <1>4

LEMMA SelectOutcome ==
  ASSUME TypeOK, InStep, NEW sel \in Selects, WriteSystem(sel[1], sel[2])
  PROVE  Outcome
<1>1. Busy /\ ~strayed' => ~strayed /\ Drive' = Drive
  BY DEF WriteSystem
<1> QED BY <1>1, Lengths DEF WriteSystem, Outcome, Keeps, Busy, regs, lengths, media

LEMMA EmulatorOutcome ==
  ASSUME TypeOK, InStep,
         \/ ResetMSX
         \/ \E d \in Drives, c \in Changes : ChangeDisk(d, c[1], c[2])
         \/ flush_disk
  PROVE  Outcome
<1>1. CASE Reset1793
  BY <1>1 DEF Reset1793, Ends, Outcome, Nowhere
<1>2. CASE flush_disk
  BY <1>2, Lengths DEF flush_disk, Outcome, Keeps, Busy, regs, select, lengths
<1> QED BY <1>1, <1>2 DEF ResetMSX, ChangeDisk

LEMMA StepOutcome ==
  ASSUME TypeOK, InStep, [Next]_vars
  PROVE  Outcome
<1>1. CASE Operation
  BY <1>1, ReadsOutcome, HeadCommandsOutcome, DataCommandsOutcome, RegistersOutcome,
     SelectOutcome, EmulatorOutcome DEF Operation, Write1793
<1>2. ASSUME UNCHANGED <<status, regs, typeI, select, Track, LastS, IRQ, Wait,
                         lengths, Ptr, media, strayed>>
      PROVE  Outcome
  BY <1>2, Lengths DEF Outcome, Keeps, Busy, regs, select, lengths, media
<1>3. CASE UNCHANGED vars
  BY <1>2, <1>3 DEF vars
<1> QED BY <1>1, <1>2, <1>3 DEF Next

LEMMA InStepInit == Init => InStep
BY Geometry DEF Init, InStep, ControllerInStep, BusyWhileTransfer, PtrInBounds,
   SectorRegFollows, RunEnds, OwnSize, Busy, Left, Nowhere

LEMMA InStepStep == TypeOK /\ TypeOK' /\ InStep /\ [Next]_vars => InStep'
BY StepOutcome, TransferOver, TransferKept, ByteMoved, SectorsStart, HeaderStarts,
   WildStarts, WildKept DEF Outcome

LEMMA InStepAlways == Spec => [](TypeOK /\ InStep)
<1>1. Init => TypeOK /\ InStep
  BY TypeInit, InStepInit
<1>2. TypeOK /\ InStep /\ [Next]_vars => (TypeOK /\ InStep)'
  BY TypeStep, InStepStep
<1> QED BY <1>1, <1>2, PTL DEF Spec

\* What the status register and the interrupt line report, where the pointer
\* is, how much is left of the transfer and, while the drive is not changed,
\* the sector register agree at all times, for every geometry: a pointer runs
\* off the track it was put on only if the command that put it there came with
\* the head past the last track of the disk.
THEOREM ControllerCorrect == Spec => []ControllerInStep
<1>1. InStep => ControllerInStep
  BY DEF InStep
<1> QED BY <1>1, InStepAlways, PTL

-----------------------------------------------------------------------------
\* The flush mark of the disks.

LEMMA FlushInit == Init => WritesAreFlushed
BY DEF Init, WritesAreFlushed

LEMMA FlushStep == TypeOK /\ WritesAreFlushed /\ [Next]_vars => WritesAreFlushed'
<1> SUFFICES ASSUME TypeOK, WritesAreFlushed, [Next]_vars PROVE WritesAreFlushed'
  OBVIOUS
<1> USE DEF WritesAreFlushed
<1>1. ASSUME UNCHANGED media PROVE WritesAreFlushed'
  BY <1>1 DEF media
<1>2. CASE Read1793
  BY <1>1, <1>2 DEF Read1793, ReadStatus, ReadData, ReadReady
<1>3. ASSUME NEW v \in Commands, HeadCommand(v) PROVE WritesAreFlushed'
  BY <1>1, <1>3 DEF HeadCommand, ForceIRQ, CommandLost, Restore, Seek, Step, HeadOver
<1>4. ASSUME NEW v \in Commands, DataCommand(v) PROVE WritesAreFlushed'
  <2>1. ASSUME Dirty' = [Dirty EXCEPT ![Drive] = TRUE], unsaved' \subseteq unsaved \cup {Drive},
               UNCHANGED astray
        PROVE  WritesAreFlushed'
    BY <2>1 DEF TypeOK
  <2>2. ASSUME NotFound PROVE WritesAreFlushed'
    BY <1>1, <2>2 DEF NotFound
  <2>3. ASSUME UNCHANGED <<disk, Dirty, unsaved, astray>> PROVE WritesAreFlushed'
    BY <2>3
  <2>4. CASE ReadSectors(v) \/ ReadAddress(v) \/ ReadTrack(v)
    BY <1>1, <2>2, <2>3, <2>4 DEF ReadSectors, ReadAddress, ReadTrack
  <2>5. CASE WriteSectors(v)
    BY <2>1, <2>2, <2>5 DEF WriteSectors
  <2>6. CASE WriteTrack(v)
    BY <2>1, <2>6 DEF WriteTrack
  <2> QED BY <1>4, <2>4, <2>5, <2>6 DEF DataCommand
<1>5. ASSUME NEW v \in Values, WriteTrackReg(v) \/ WriteSectorReg(v) \/ WriteData(v)
      PROVE  WritesAreFlushed'
  <2>1. CASE WriteTrackReg(v) \/ WriteSectorReg(v)
    BY <1>1, <2>1 DEF WriteTrackReg, WriteSectorReg
  <2>2. CASE WriteData(v) /\ WRLength # 0
    <3>1. /\ Dirty' = [Dirty EXCEPT ![Drive] = TRUE] /\ unsaved' = unsaved \cup {Ptr.drive}
          /\ astray' = astray \cup ({Ptr.drive} \ {Drive})
      BY <2>2 DEF WriteData
    <3> QED BY <3>1 DEF TypeOK
  <2>3. CASE WriteData(v) /\ ~(WRLength # 0)
    BY <2>3 DEF WriteData
  <2> QED BY <1>5, <2>1, <2>2, <2>3
<1>6. ASSUME NEW sel \in Selects, WriteSystem(sel[1], sel[2]) PROVE WritesAreFlushed'
  BY <1>1, <1>6 DEF WriteSystem
<1>7. CASE ResetMSX
  BY <1>1, <1>7 DEF ResetMSX
<1>8. ASSUME NEW d \in Drives, NEW sides, NEW new \in BOOLEAN, ChangeDisk(d, sides, new)
      PROVE  WritesAreFlushed'
  BY <1>8 DEF ChangeDisk, TypeOK
<1>9. CASE \E d \in Drives, c \in Changes : ChangeDisk(d, c[1], c[2])
  <2>1. PICK d \in Drives, c \in Changes : ChangeDisk(d, c[1], c[2])
    BY <1>9
  <2>2. c[2] \in BOOLEAN
    BY ChangeType
  <2> QED BY <1>8, <2>1, <2>2
<1>10. CASE flush_disk
  BY <1>10 DEF flush_disk, TypeOK
<1>11. CASE UNCHANGED <<media, lost>> \/ UNCHANGED media \/ UNCHANGED vars
  BY <1>1, <1>11 DEF vars
<1> QED BY <1>2, <1>3, <1>4, <1>5, <1>6, <1>7, <1>9, <1>10, <1>11
    DEF Next, Operation, Write1793

\* A disk that differs from what was saved of it is marked for flush_disk() and
\* the other savers, but where the program wrote to it while another drive was
\* selected, as the mark follows the drive and the byte follows the pointer, or
\* where it was saved after a transfer with the head past the last track.
THEOREM FlushCorrect == Spec => []WritesAreFlushed
<1>1. TypeOK /\ WritesAreFlushed /\ [Next]_vars => (TypeOK /\ WritesAreFlushed)'
  BY TypeStep, FlushStep
<1> QED BY <1>1, TypeInit, FlushInit, PTL DEF Spec

-----------------------------------------------------------------------------
\* The controller implements SectorTransfer.

\* What Pending is, by what Ptr and Left are.
LEMMA PendingIdle ==
  /\ Left = 0 /\ Ptr.area # "wild" => Pending = Abstract!Idle
  /\ Left' = 0 /\ Ptr'.area # "wild" => Pending' = Abstract!Idle
BY DEF Pending, Abstract!Idle

WildAt(t) == [mode |-> "wild", track |-> t]

LEMMA WildTransfer ==
  ASSUME NEW t \in Head, t >= Tracks
  PROVE  /\ WildAt(t) \in Abstract!Wild /\ WildAt(t) # Abstract!Idle
BY Geometry DEF WildAt, Head, Abstract!Wild, Abstract!Idle

LEMMA PendingWild ==
  /\ (TypeOK /\ InStep /\ Ptr.area = "wild") =>
       Pending \in Abstract!Wild /\ Pending # Abstract!Idle
  /\ (TypeOK' /\ InStep' /\ Ptr'.area = "wild") =>
       Pending' \in Abstract!Wild /\ Pending' # Abstract!Idle
<1>1. ASSUME TypeOK, InStep, Ptr.area = "wild"
      PROVE  Pending \in Abstract!Wild /\ Pending # Abstract!Idle
  <2>1. Pending = WildAt(Ptr.track)
    BY <1>1 DEF Pending, WildAt
  <2>2. Ptr.track \in Head /\ Ptr.track >= Tracks
    BY <1>1 DEF TypeOK, Place, InStep, ControllerInStep, PtrInBounds
  <2> QED BY <2>1, <2>2, WildTransfer
<1>2. ASSUME TypeOK', InStep', Ptr'.area = "wild"
      PROVE  Pending' \in Abstract!Wild /\ Pending' # Abstract!Idle
  <2>1. Pending' = WildAt(Ptr'.track)
    BY <1>2 DEF Pending, WildAt
  <2>2. Ptr'.track \in Head /\ Ptr'.track >= Tracks
    BY <1>2 DEF TypeOK, Place, InStep, ControllerInStep, PtrInBounds
  <2> QED BY <2>1, <2>2, WildTransfer
<1> QED BY <1>1, <1>2

TransferOf(rd, p, left) ==
  [mode |-> IF rd > 0 THEN "read" ELSE "write", area |-> p.area, drive |-> p.drive,
   track |-> p.track, side |-> p.side, next |-> p.pos, end |-> p.pos + left]

LEMMA TransferType ==
  ASSUME NEW rd \in Int, NEW p \in Place, p.area # "wild", NEW left \in Nat
  PROVE  /\ TransferOf(rd, p, left) \in Abstract!Transfer
         /\ TransferOf(rd, p, left) \notin Abstract!Wild \cup {Abstract!Idle}
<1>1. TransferOf(rd, p, left) \in Abstract!Transfer
  BY DEF TransferOf, Abstract!Transfer, Place, Head
<1>2. TransferOf(rd, p, left).mode # "wild"
  BY DEF TransferOf
<1>3. "area" \in DOMAIN TransferOf(rd, p, left) /\ "area" \notin DOMAIN Abstract!Idle
  BY DEF TransferOf, Abstract!Idle
<1>4. ASSUME NEW w \in Abstract!Wild PROVE w.mode = "wild"
  BY <1>4 DEF Abstract!Wild
<1> QED BY <1>1, <1>2, <1>3, <1>4

LEMMA PendingBusy ==
  /\ (TypeOK /\ Left > 0 /\ Ptr.area # "wild") =>
       /\ Pending = TransferOf(RDLength, Ptr, Left)
       /\ Pending \in Abstract!Transfer
       /\ Pending \notin Abstract!Wild \cup {Abstract!Idle}
  /\ (TypeOK' /\ Left' > 0 /\ Ptr'.area # "wild") =>
       /\ Pending' = TransferOf(RDLength', Ptr', Left')
       /\ Pending' \in Abstract!Transfer
       /\ Pending' \notin Abstract!Wild \cup {Abstract!Idle}
<1>1. ASSUME TypeOK, Left > 0, Ptr.area # "wild"
      PROVE  /\ Pending = TransferOf(RDLength, Ptr, Left)
             /\ Pending \in Abstract!Transfer
             /\ Pending \notin Abstract!Wild \cup {Abstract!Idle}
  <2>1. RDLength \in Int /\ Ptr \in Place /\ Left \in Nat /\ Left # 0
    BY <1>1 DEF TypeOK, Left
  <2>2. Pending = TransferOf(RDLength, Ptr, Left)
    BY <1>1, <2>1 DEF Pending, TransferOf
  <2> QED BY <1>1, <2>1, <2>2, TransferType
<1>2. ASSUME TypeOK', Left' > 0, Ptr'.area # "wild"
      PROVE  /\ Pending' = TransferOf(RDLength', Ptr', Left')
             /\ Pending' \in Abstract!Transfer
             /\ Pending' \notin Abstract!Wild \cup {Abstract!Idle}
  <2>1. RDLength' \in Int /\ WRLength' \in Int /\ Ptr' \in Place
    BY <1>2 DEF TypeOK
  <2>2. Left' \in Nat /\ Left' # 0
    <3>1. Left' = RDLength' + WRLength'
      BY DEF Left
    <3>2. Left' \in Int
      BY <2>1, <3>1
    <3> QED BY <1>2, <3>2
  <2>3. Pending' = TransferOf(RDLength', Ptr', Left')
    BY <1>2, <2>2 DEF Pending, TransferOf
  <2> QED BY <1>2, <2>1, <2>2, <2>3, TransferType
<1> QED BY <1>1, <1>2

LEMMA EndsStops ==
  ASSUME Ends
  PROVE  Abstract!Stop
<1>1. Left' = 0 /\ IRQ' \in {"none", "IRQ"} /\ Ptr'.area # "wild"
  BY DEF Ends, Left
<1> QED BY <1>1, PendingIdle DEF Abstract!Stop

LEMMA KeepsIgnores ==
  ASSUME TypeOK, InStep, Keeps
  PROVE  Abstract!Ignore \/ Abstract!Stop \/ UNCHANGED Abstract!vars
<1>1. UNCHANGED <<RDLength, WRLength, Ptr>> /\ IRQ' \in {IRQ, "none"}
  BY DEF Keeps
<1>2. Pending' = Pending
  BY <1>1 DEF Pending, Left
<1>3. CASE IRQ' = IRQ
  BY <1>2, <1>3 DEF Abstract!vars
<1>4. CASE IRQ' = "none" /\ (Left > 0 \/ Ptr.area = "wild")
  <2>1. Pending # Abstract!Idle
    BY <1>4, PendingBusy, PendingWild
  <2> QED BY <1>2, <1>4, <2>1 DEF Abstract!Ignore
<1>5. CASE IRQ' = "none" /\ Left = 0 /\ Ptr.area # "wild"
  BY <1>2, <1>5, PendingIdle DEF Abstract!Stop
<1>6. Ptr.area = "wild" \/ Left > 0 \/ Left = 0
  BY Lengths DEF Left
<1> QED BY <1>1, <1>3, <1>4, <1>5, <1>6

LEMMA MovesByte ==
  ASSUME TypeOK, TypeOK', NEW left \in Nat, Moves(left)
  PROVE  Abstract!Byte
<1>1. /\ left > 0 /\ Left = left + 1 /\ Left' = left /\ Moved(left)
      /\ RDLength > 0 <=> RDLength' > 0
      /\ Ptr.area # "wild"
  BY DEF Moves
<1>2. Ptr' = Onward(Ptr) /\ IRQ' = IRQ
  BY <1>1 DEF Moved
<1>3. /\ Ptr \in Place /\ Ptr.pos \in Nat
      /\ Ptr'.pos = Ptr.pos + 1 /\ Ptr'.area = Ptr.area /\ Ptr'.drive = Ptr.drive
      /\ Ptr'.track = Ptr.track /\ Ptr'.side = Ptr.side
  BY <1>1, <1>2, PtrMoves DEF TypeOK
<1>4. /\ Pending = TransferOf(RDLength, Ptr, Left)
      /\ Pending \notin Abstract!Wild \cup {Abstract!Idle}
      /\ Pending' = TransferOf(RDLength', Ptr', Left')
  BY <1>1, <1>3, PendingBusy
<1>5. TransferOf(RDLength', Ptr', Left') = [TransferOf(RDLength, Ptr, Left) EXCEPT !.next = @ + 1]
  <2>1. Ptr'.pos + Left' = Ptr.pos + Left
    BY <1>1, <1>3
  <2>2. (IF RDLength' > 0 THEN "read" ELSE "write") = (IF RDLength > 0 THEN "read" ELSE "write")
    BY <1>1
  <2> QED BY <1>3, <2>1, <2>2 DEF TransferOf
<1>6. Pending.next + 1 < Pending.end
  <2>1. Pending.next = Ptr.pos /\ Pending.end = Ptr.pos + Left
    BY <1>4 DEF TransferOf
  <2> QED BY <1>1, <1>3, <2>1
<1> QED BY <1>2, <1>4, <1>5, <1>6 DEF Abstract!Byte

LEMMA SectorsBeginTransfer ==
  ASSUME TypeOK, TypeOK', InStep, NEW v \in Commands, SectorsBegin(v)
  PROVE  Abstract!Begin
<1>1. /\ Left = 0 /\ Left' = Extent(v, sectorReg)
      /\ Ptr.area # "wild" /\ Target.track < Tracks
  BY SectorsStart
<1>2. Ptr' = Target /\ IRQ' = "DRQ"
  BY DEF SectorsBegin, StartFound, Start
<1>3. Present(Drive) /\ sectorReg \in 1 .. Sectors
  BY DEF SectorsBegin, StartFound, CanSeek, Found
<1>4. /\ Target.area = "track" /\ Target.pos = (sectorReg - 1) * SecSize
      /\ Extent(v, sectorReg) > 0
      /\ Target.pos + Extent(v, sectorReg) \in {sectorReg * SecSize, Sectors * SecSize}
  BY <1>3, TargetType
<1> HIDE DEF Target, Extent
<1>5. Pending = Abstract!Idle
  BY <1>1, PendingIdle
<1>6. Pending' = TransferOf(RDLength', Ptr', Left') /\ Pending' \in Abstract!Transfer
  BY <1>1, <1>2, <1>4, PendingBusy
<1>7. /\ Pending'.area = "track" /\ Pending'.next = (sectorReg - 1) * SecSize
      /\ Pending'.end \in {sectorReg * SecSize, Sectors * SecSize}
      /\ Pending'.track < Tracks
  BY <1>1, <1>2, <1>4, <1>6 DEF TransferOf
<1>8. Abstract!WholeSectors(Pending')
  BY <1>3, <1>7 DEF Abstract!WholeSectors
<1> QED BY <1>2, <1>5, <1>6, <1>8 DEF Abstract!Begin

LEMMA HeaderBeginsTransfer ==
  ASSUME TypeOK, TypeOK', InStep, HeaderBegins
  PROVE  Abstract!Begin
<1>1. Left = 0 /\ Left' = HeaderSize /\ Ptr.area # "wild"
  BY HeaderStarts
<1>2. Ptr' = HeaderPlace /\ IRQ' = "DRQ" /\ RDLength' > 0
  BY Geometry DEF HeaderBegins, Start
<1>3. HeaderPlace.area = "header" /\ HeaderPlace.pos = 0
  BY HeaderType DEF HeaderBegins
<1>4. Pending = Abstract!Idle
  BY <1>1, PendingIdle
<1>5. Pending' = TransferOf(RDLength', Ptr', Left') /\ Pending' \in Abstract!Transfer
  BY <1>1, <1>2, <1>3, Geometry, PendingBusy
<1>6. /\ Pending'.area = "header" /\ Pending'.mode = "read"
      /\ Pending'.next = 0 /\ Pending'.end = HeaderSize
  BY <1>1, <1>2, <1>3, <1>5, Geometry DEF TransferOf
<1>7. Abstract!WholeHeader(Pending')
  BY <1>6 DEF Abstract!WholeHeader
<1> QED BY <1>2, <1>4, <1>5, <1>7 DEF Abstract!Begin

LEMMA WildBeginsTransfer ==
  ASSUME TypeOK, TypeOK', InStep, WildBegins
  PROVE  Abstract!BeginWild
<1>1. InStep' /\ Left = 0 /\ Ptr.area # "wild" /\ Ptr' = Wild
  BY WildStarts
<1>2. IRQ' = "DRQ" /\ Wild.area = "wild"
  BY WildType DEF WildBegins, Start
<1> HIDE DEF Wild
<1>3. Pending = Abstract!Idle
  BY <1>1, PendingIdle
<1>4. Pending' \in Abstract!Wild
  BY <1>1, <1>2, PendingWild
<1> QED BY <1>2, <1>3, <1>4 DEF Abstract!BeginWild

LEMMA WildMovesStutter ==
  ASSUME WildMoves
  PROVE  UNCHANGED Abstract!vars
<1>1. Ptr.area = "wild" /\ Ptr' = Ptr /\ IRQ' = IRQ
  BY DEF WildMoves
<1>2. Pending' = Pending
  BY <1>1 DEF Pending
<1> QED BY <1>1, <1>2 DEF Abstract!vars

LEMMA TransferInit == Init => Abstract!Init
<1> SUFFICES ASSUME Init PROVE Abstract!Init
  OBVIOUS
<1>1. Left = 0 /\ IRQ = "none" /\ Ptr.area # "wild"
  BY DEF Init, Left, Nowhere
<1> QED BY <1>1, PendingIdle DEF Abstract!Init

LEMMA TransferStep ==
  TypeOK /\ TypeOK' /\ InStep /\ [Next]_vars => [Abstract!Next]_(Abstract!vars)
<1> SUFFICES ASSUME TypeOK, TypeOK', InStep, [Next]_vars
             PROVE  [Abstract!Next]_(Abstract!vars)
  OBVIOUS
<1>1. Outcome
  BY StepOutcome
<1>2. CASE Ends
  BY <1>2, EndsStops DEF Abstract!Next
<1>3. CASE Keeps
  BY <1>3, KeepsIgnores DEF Abstract!Next
<1>4. CASE \E left \in Nat : Moves(left)
  BY <1>4, MovesByte DEF Abstract!Next
<1>5. CASE \E v \in Commands : SectorsBegin(v)
  BY <1>5, SectorsBeginTransfer DEF Abstract!Next
<1>6. CASE HeaderBegins
  BY <1>6, HeaderBeginsTransfer DEF Abstract!Next
<1>7. CASE WildBegins
  BY <1>7, WildBeginsTransfer DEF Abstract!Next
<1>8. CASE WildMoves
  BY <1>8, WildMovesStutter
<1> QED BY <1>1, <1>2, <1>3, <1>4, <1>5, <1>6, <1>7, <1>8 DEF Outcome

\* Whatever registers a program writes, wherever it moves the head, and whenever
\* the emulator resets the controller or changes disks, transfers are what
\* SectorTransfer promises: a transfer of sectors or of a header, byte by byte,
\* or, and only if the command was given with the head past the last track of
\* the disk, one of which it says no more than that it is announced.  Nothing
\* is said once a pointer from such a transfer was written through.
THEOREM Refinement == Spec => TransfersSectors
<1>1. Init => Abstract!Init
  BY TransferInit
<1>2. (TypeOK /\ InStep) /\ (TypeOK /\ InStep)' /\ [Next]_vars => [Abstract!Next]_(Abstract!vars)
  BY TransferStep
<1> QED BY <1>1, <1>2, InStepAlways, PTL DEF Spec, TransfersSectors, Abstract!Spec
=============================================================================
