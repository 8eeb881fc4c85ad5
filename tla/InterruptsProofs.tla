-------------------------- MODULE InterruptsProofs --------------------------
(***************************************************************************)
(* Theorems about Interrupts: its types, the request line, the cycle       *)
(* counter, the VBlank of each frame and the delay of EI, for every        *)
(* geometry of a frame and every timing that LineAssumption and            *)
(* TimeAssumption allow.  Each operator on the machine has a lemma with    *)
(* what it keeps; the invariants follow from those.                        *)
(***************************************************************************)
EXTENDS Interrupts, TLAPS

\* Two machines with the same CPU, and at the same place in the frame.
SameCpu(t, s) == /\ t.IFF1 = s.IFF1 /\ t.IFF2 = s.IFF2 /\ t.EI = s.EI /\ t.HALT = s.HALT
                 /\ t.ICount = s.ICount /\ t.IBackup = s.IBackup
SameFrame(t, s) == /\ t.HRefresh = s.HRefresh /\ t.VRefresh = s.VRefresh
                   /\ t.ScanLine = s.ScanLine

LEMMA LineTypes ==
  /\ \A v \in Videos : Border[v] \in Nat /\ VBlankLine[v] \in Nat /\ CoincEnd[v] \in Nat
                       /\ LastLine[v] \in Nat
  /\ Lines \subseteq Nat
BY LineAssumption DEF Lines

\* The places of a frame in their order.
LEMMA Geometry ==
  ASSUME NEW e \in Machine
  PROVE  /\ Border[e.video] \in Nat /\ VBlankLine[e.video] \in Nat /\ LastLine[e.video] \in Nat
         /\ Border[e.video] > 0 /\ Border[e.video] < VBlankLine[e.video]
         /\ VBlankLine[e.video] < LastLine[e.video]
         /\ e.ScanLine \in Nat /\ e.VRefresh \in BOOLEAN /\ e.HRefresh \in BOOLEAN
<1>1. e.video \in Videos /\ e.ScanLine \in Nat /\ e.VRefresh \in BOOLEAN /\ e.HRefresh \in BOOLEAN
  BY LineTypes DEF Machine
<1> HIDE DEF Machine
<1> QED BY <1>1, LineAssumption

-----------------------------------------------------------------------------
\* The handlers of the VDP keep types, the line and the CPU.

LEMMA WriteIE1Keeps ==
  ASSUME NEW s \in Machine, LineOf(s), NEW on \in BOOLEAN
  PROVE  /\ WriteIE1(s, on) \in Machine /\ LineOf(WriteIE1(s, on))
         /\ SameCpu(WriteIE1(s, on), s) /\ SameFrame(WriteIE1(s, on), s)
         /\ WriteIE1(s, on).video = s.video
<1>1. CASE s.FH /\ ~on
  BY <1>1, ZenonT(60) DEF WriteIE1, Lower, WithPending, Machine, LineOf, SameCpu, SameFrame
<1>2. CASE ~(s.FH /\ ~on)
  BY <1>2 DEF WriteIE1, Machine, LineOf, SameCpu, SameFrame
<1> QED BY <1>1, <1>2

LEMMA WriteIE0Keeps ==
  ASSUME NEW s \in Machine, LineOf(s), NEW on \in BOOLEAN
  PROVE  /\ WriteIE0(s, on) \in Machine /\ LineOf(WriteIE0(s, on))
         /\ SameCpu(WriteIE0(s, on), s) /\ SameFrame(WriteIE0(s, on), s)
         /\ WriteIE0(s, on).video = s.video
<1>1. CASE ~s.F
  BY <1>1 DEF WriteIE0, Machine, LineOf, SameCpu, SameFrame
<1>2. CASE s.F /\ on
  BY <1>2 DEF WriteIE0, Raise, WithPending, Machine, LineOf, SameCpu, SameFrame
<1>3. CASE s.F /\ ~on
  BY <1>3, ZenonT(60) DEF WriteIE0, Lower, WithPending, Machine, LineOf, SameCpu, SameFrame
<1> QED BY <1>1, <1>2, <1>3

LEMMA ReadS0Keeps ==
  ASSUME NEW s \in Machine, LineOf(s)
  PROVE  /\ ReadS0(s) \in Machine /\ LineOf(ReadS0(s))
         /\ SameCpu(ReadS0(s), s) /\ SameFrame(ReadS0(s), s) /\ ReadS0(s).video = s.video
BY DEF ReadS0, Lower, WithPending, Machine, LineOf, SameCpu, SameFrame

LEMMA ReadS1Keeps ==
  ASSUME NEW s \in Machine, LineOf(s)
  PROVE  /\ ReadS1(s) \in Machine /\ LineOf(ReadS1(s))
         /\ SameCpu(ReadS1(s), s) /\ SameFrame(ReadS1(s), s) /\ ReadS1(s).video = s.video
BY DEF ReadS1, Lower, WithPending, Machine, LineOf, SameCpu, SameFrame

LEMMA RaiseKeeps ==
  ASSUME NEW s \in Machine, NEW i \in {"IE0", "IE1"}
  PROVE  /\ Raise(s, i) \in Machine
         /\ SameCpu(Raise(s, i), s) /\ SameFrame(Raise(s, i), s)
         /\ Raise(s, i).video = s.video
         /\ Raise(s, i).F = s.F /\ Raise(s, i).FH = s.FH
         /\ Raise(s, i).IE0 = s.IE0 /\ Raise(s, i).IE1 = s.IE1
         /\ Raise(s, i).IRequest = "irq" /\ Raise(s, i).IRQPending = s.IRQPending \cup {i}
BY DEF Raise, WithPending, Machine, SameCpu, SameFrame

\* An interrupt whose flag and enable bit are set may be raised.
LEMMA RaiseLine ==
  ASSUME NEW s \in Machine, NEW i \in {"IE0", "IE1"},
         "IE1" \in s.IRQPending => s.FH /\ s.IE1,
         i = "IE0" => s.F /\ s.IE0,
         i = "IE1" => s.FH /\ s.IE1 /\ ("IE0" \in s.IRQPending <=> s.F /\ s.IE0)
  PROVE  LineOf(Raise(s, i))
<1>1. Raise(s, i).IRQPending = s.IRQPending \cup {i} /\ Raise(s, i).IRequest = "irq"
      /\ Raise(s, i).F = s.F /\ Raise(s, i).FH = s.FH
      /\ Raise(s, i).IE0 = s.IE0 /\ Raise(s, i).IE1 = s.IE1
  BY RaiseKeeps
<1>2. CASE i = "IE0"
  BY <1>1, <1>2 DEF LineOf
<1>3. CASE i = "IE1"
  BY <1>1, <1>3 DEF LineOf
<1> QED BY <1>2, <1>3

LEMMA CoincidenceKeeps ==
  ASSUME NEW s \in Machine, LineOf(s)
  PROVE  /\ Coincidence(s) \in Machine /\ LineOf(Coincidence(s))
         /\ SameCpu(Coincidence(s), s) /\ SameFrame(Coincidence(s), s)
         /\ Coincidence(s).video = s.video
<1> DEFINE hit == (s.ScanLine - s.HLine) % Ring = 2
<1>1. CASE s.ScanLine >= CoincEnd[s.video]
  <2>1. Coincidence(s) = s
    BY <1>1 DEF Coincidence
  <2> QED BY <2>1 DEF SameCpu, SameFrame
<1>2. CASE ~(s.ScanLine >= CoincEnd[s.video]) /\ ~hit
  <2>1. Coincidence(s) = [s EXCEPT !.FH = s.FH /\ s.IE1]
    BY <1>2 DEF Coincidence
  <2> QED BY <2>1 DEF Machine, LineOf, SameCpu, SameFrame
<1> DEFINE t == [s EXCEPT !.FH = TRUE]
<1>3. t \in Machine /\ SameCpu(t, s) /\ SameFrame(t, s) /\ t.video = s.video /\ LineOf(t)
  BY DEF Machine, LineOf, SameCpu, SameFrame
<1>4. CASE ~(s.ScanLine >= CoincEnd[s.video]) /\ hit /\ s.IE1
  <2>1. Coincidence(s) = Raise(t, "IE1")
    BY <1>4 DEF Coincidence
  <2>2. t.FH /\ t.IE1 /\ t.F = s.F /\ t.IE0 = s.IE0 /\ t.IRQPending = s.IRQPending
    BY <1>4 DEF Machine
  <2> HIDE DEF t
  <2>3. /\ Raise(t, "IE1") \in Machine
        /\ SameCpu(Raise(t, "IE1"), t) /\ SameFrame(Raise(t, "IE1"), t)
        /\ Raise(t, "IE1").video = t.video
    BY <1>3, RaiseKeeps
  <2>4. LineOf(Raise(t, "IE1"))
    BY <1>3, <2>2, RaiseLine DEF LineOf
  <2> QED BY <2>1, <2>3, <2>4, <1>3 DEF SameCpu, SameFrame
<1>5. CASE ~(s.ScanLine >= CoincEnd[s.video]) /\ hit /\ ~s.IE1
  <2>1. Coincidence(s) = t
    BY <1>5 DEF Coincidence
  <2> QED BY <2>1, <1>3
<1> QED BY <1>1, <1>2, <1>4, <1>5

-----------------------------------------------------------------------------
\* LoopZ80(): one part of a scanline later, with the CPU the same but for its counter.

\* What a step of LoopZ80() does to the place in the frame.
NewLine(t, s) ==
  /\ t.HRefresh = FALSE
  /\ t.ScanLine = IF s.ScanLine < LastLine[s.video] THEN s.ScanLine + 1 ELSE 0
  /\ t.VRefresh = (s.VRefresh /\ t.ScanLine # 0)
NewBlank(t, s, drawing) ==
  /\ t.HRefresh = TRUE
  /\ t.ScanLine = s.ScanLine
  /\ t.VRefresh = (s.VRefresh \/ (~drawing /\ s.ScanLine = VBlankLine[s.video]))
\* The CPU after n cycles more.
CpuPlus(t, s, n) == /\ t.IFF1 = s.IFF1 /\ t.IFF2 = s.IFF2 /\ t.EI = s.EI /\ t.HALT = s.HALT
                    /\ t.IBackup = s.IBackup /\ t.ICount = s.ICount + n

LEMMA StartLineKeeps ==
  ASSUME NEW s \in Machine, LineOf(s), NEW h \in HRefreshes
  PROVE  LET t == StartLine(s, h)
         IN  /\ t \in Machine /\ LineOf(t) /\ CpuPlus(t, s, h) /\ NewLine(t, s)
             /\ t.video = s.video
<1> DEFINE line == IF s.ScanLine < LastLine[s.video] THEN s.ScanLine + 1 ELSE 0
           t == [s EXCEPT !.HRefresh = FALSE, !.ScanLine = line, !.VRefresh = @ /\ line # 0,
                          !.ICount = @ + h]
           u == IF line = CoincEnd[t.video] THEN ReadS1(t) ELSE t
<1>1. line \in Lines /\ h \in Int
  <2>1. s.video \in Videos /\ s.ScanLine \in Nat /\ LastLine[s.video] \in Nat
    BY LineTypes DEF Machine
  <2>2. line \in 0 .. LastLine[s.video]
    BY <2>1
  <2> QED BY <2>1, <2>2, TimeAssumption DEF Lines
<1>2. t \in Machine /\ LineOf(t) /\ CpuPlus(t, s, h) /\ NewLine(t, s) /\ t.video = s.video
  <2> HIDE DEF line
  <2>1. t \in Machine /\ LineOf(t) /\ CpuPlus(t, s, h)
    <3>1. s.ICount + h \in Int /\ (s.VRefresh /\ line # 0) \in BOOLEAN
      BY <1>1 DEF Machine
    <3>2. t \in Machine
      BY <1>1, <3>1, ZenonT(60) DEF Machine
    <3>3. LineOf(t)
      BY DEF Machine, LineOf
    <3>4. CpuPlus(t, s, h)
      BY DEF Machine, CpuPlus
    <3> QED BY <3>2, <3>3, <3>4
  <2>2. t.HRefresh = FALSE /\ t.ScanLine = line /\ t.VRefresh = (s.VRefresh /\ line # 0)
        /\ t.video = s.video
    BY DEF Machine
  <2> QED BY <2>1, <2>2 DEF NewLine, line
<1> HIDE DEF t, line
<1>3. u \in Machine /\ LineOf(u) /\ SameCpu(u, t) /\ SameFrame(u, t) /\ u.video = t.video
  BY <1>2, ReadS1Keeps DEF SameCpu, SameFrame
<1>4. StartLine(s, h) = Coincidence(u)
  BY DEF StartLine, t, line
<1> HIDE DEF u
<1>5. /\ Coincidence(u) \in Machine /\ LineOf(Coincidence(u))
      /\ SameCpu(Coincidence(u), u) /\ SameFrame(Coincidence(u), u)
      /\ Coincidence(u).video = u.video
  BY <1>3, CoincidenceKeeps
<1> QED BY <1>2, <1>3, <1>4, <1>5 DEF SameCpu, SameFrame, CpuPlus, NewLine

LEMMA EndLineKeeps ==
  ASSUME NEW s \in Machine, LineOf(s), NEW h \in HRefreshes, NEW p \in VPeriods,
         NEW drawing \in BOOLEAN
  PROVE  LET t == EndLine(s, h, p, drawing)
             n == HPeriod - h + Overtime(s, p)
         IN  /\ t \in Machine /\ LineOf(t) /\ CpuPlus(t, s, n) /\ NewBlank(t, s, drawing)
             /\ t.video = s.video /\ n \in Int /\ n >= HPeriod - h
<1> DEFINE n == HPeriod - h + Overtime(s, p)
           t == [s EXCEPT !.HRefresh = TRUE, !.ICount = @ + HPeriod - h + Overtime(s, p)]
           u == [t EXCEPT !.F = TRUE, !.VRefresh = TRUE]
<1>1. Overtime(s, p) \in Nat /\ h \in Int /\ HPeriod \in Int
  <2>1. s.video \in Videos /\ LastLine[s.video] \in Nat /\ p \in Nat /\ HPeriod \in Nat
        /\ h \in Int
    BY LineTypes, TimeAssumption DEF Machine
  <2>2. (LastLine[s.video] + 1) * HPeriod \in Nat
    BY <2>1
  <2> QED BY <2>1, <2>2 DEF Overtime
<1>2. n \in Int /\ n >= HPeriod - h
  BY <1>1
<1>3. t \in Machine /\ LineOf(t) /\ CpuPlus(t, s, n)
  <2>1. s.ICount + HPeriod - h + Overtime(s, p) \in Int
        /\ s.ICount + HPeriod - h + Overtime(s, p) = s.ICount + n
    BY <1>1 DEF Machine
  <2>2. t \in Machine
    BY <2>1 DEF Machine
  <2>3. LineOf(t)
    BY DEF Machine, LineOf
  <2>4. CpuPlus(t, s, n)
    BY <2>1 DEF Machine, CpuPlus
  <2> QED BY <2>2, <2>3, <2>4
<1>4. /\ t.HRefresh = TRUE /\ t.ScanLine = s.ScanLine /\ t.VRefresh = s.VRefresh
      /\ t.video = s.video /\ t.IE0 = s.IE0 /\ t.IE1 = s.IE1 /\ t.FH = s.FH
  BY DEF Machine
<1>5. s.VRefresh \in BOOLEAN
  BY DEF Machine
<1> HIDE DEF n, t
<1>6. /\ u \in Machine /\ CpuPlus(u, s, n) /\ u.HRefresh = TRUE /\ u.ScanLine = s.ScanLine
      /\ u.VRefresh = TRUE /\ u.video = s.video /\ u.F = TRUE /\ u.IE0 = s.IE0
      /\ u.IE1 = s.IE1 /\ u.FH = s.FH /\ u.IRQPending = t.IRQPending
      /\ u.IRequest = t.IRequest
  BY <1>3, <1>4 DEF Machine, CpuPlus
<1> HIDE DEF u
<1> SUFFICES LET r == EndLine(s, h, p, drawing)
             IN  /\ r \in Machine /\ LineOf(r) /\ CpuPlus(r, s, n) /\ NewBlank(r, s, drawing)
                 /\ r.video = s.video
  BY <1>2 DEF n
<1>7. CASE drawing \/ s.ScanLine # VBlankLine[s.video]
  <2>1. EndLine(s, h, p, drawing) = t
    BY <1>7 DEF EndLine, t
  <2> QED BY <2>1, <1>3, <1>4, <1>5, <1>7 DEF NewBlank
<1>8. CASE ~(drawing \/ s.ScanLine # VBlankLine[s.video]) /\ s.IE0
  <2>1. EndLine(s, h, p, drawing) = Raise(u, "IE0")
    BY <1>8 DEF EndLine, t, u
  <2>2. /\ Raise(u, "IE0") \in Machine
        /\ SameCpu(Raise(u, "IE0"), u) /\ SameFrame(Raise(u, "IE0"), u)
        /\ Raise(u, "IE0").video = u.video
    BY <1>6, RaiseKeeps
  <2>3. LineOf(Raise(u, "IE0"))
    BY <1>3, <1>4, <1>6, <1>8, RaiseLine DEF LineOf
  <2>4. CpuPlus(Raise(u, "IE0"), s, n)
    BY <2>2, <1>6 DEF CpuPlus, SameCpu
  <2>5. NewBlank(Raise(u, "IE0"), s, drawing)
    BY <2>2, <1>6, <1>8 DEF NewBlank, SameFrame
  <2> QED BY <2>1, <2>2, <2>3, <2>4, <2>5, <1>6
<1>9. CASE ~(drawing \/ s.ScanLine # VBlankLine[s.video]) /\ ~s.IE0
  <2>1. EndLine(s, h, p, drawing) = u
    BY <1>9 DEF EndLine, t, u
  <2>2. LineOf(u)
    BY <1>3, <1>4, <1>6, <1>9 DEF LineOf
  <2> QED BY <2>1, <2>2, <1>5, <1>6, <1>9 DEF NewBlank
<1> QED BY <1>7, <1>8, <1>9

-----------------------------------------------------------------------------
\* The instruction itself.

CpuOps == {"EI", "DI", "HALT", "RETN"}

\* The CPU's fields, one at a time.
LEMMA SetField ==
  ASSUME NEW m \in Machine
  PROVE  /\ \A b \in BOOLEAN : /\ [m EXCEPT !.IFF1 = b] \in Machine
                               /\ [m EXCEPT !.IFF2 = b] \in Machine
                               /\ [m EXCEPT !.EI = b] \in Machine
                               /\ [m EXCEPT !.HALT = b] \in Machine
         /\ \A n \in Int : /\ [m EXCEPT !.ICount = n] \in Machine
                           /\ [m EXCEPT !.IBackup = n] \in Machine
         /\ [m EXCEPT !.ICount = 0] \in Machine /\ [m EXCEPT !.ICount = 1] \in Machine
         /\ [m EXCEPT !.IBackup = 0] \in Machine
BY DEF Machine

\* An instruction leaves the frame alone, but for the geometry that R9 chooses.
LEMMA EffectKeeps ==
  ASSUME NEW m \in Machine, LineOf(m), NEW op \in Ops, NEW x \in Operands(op),
         NEW s, s = Effect(m, op, x)
  PROVE  /\ s \in Machine /\ LineOf(s) /\ SameFrame(s, m)
         /\ op \notin CpuOps => SameCpu(s, m)
         /\ op # "R9" => s.video = m.video
<1>1. CASE op = "R0"
  <2>1. x \in BOOLEAN /\ s = WriteIE1(m, x)
    BY <1>1 DEF Operands, Effect
  <2> QED BY <2>1, <1>1, WriteIE1Keeps
<1>2. CASE op = "R1"
  <2>1. x \in BOOLEAN /\ s = WriteIE0(m, x)
    BY <1>2 DEF Operands, Effect
  <2> QED BY <2>1, <1>2, WriteIE0Keeps
<1>3. CASE op = "S0"
  <2>1. s = ReadS0(m)
    BY <1>3 DEF Effect
  <2> QED BY <2>1, ReadS0Keeps
<1>4. CASE op = "S1"
  <2>1. s = ReadS1(m)
    BY <1>4 DEF Effect
  <2> QED BY <2>1, ReadS1Keeps
<1>5. CASE op = "R9"
  <2>1. x \in Videos /\ s = [m EXCEPT !.video = x]
    BY <1>5 DEF Operands, Effect
  <2>2. s \in Machine
    BY <2>1 DEF Machine
  <2>3. LineOf(s) /\ SameFrame(s, m)
    BY <2>1 DEF Machine, LineOf, SameFrame
  <2>4. SameCpu(s, m)
    BY <2>1 DEF Machine, SameCpu
  <2> QED BY <1>5, <2>2, <2>3, <2>4
<1>6. CASE op = "R19"
  <2>1. x \in HLines /\ s = [m EXCEPT !.HLine = x]
    BY <1>6 DEF Operands, Effect
  <2> QED BY <2>1 DEF Machine, LineOf, SameCpu, SameFrame
<1>7. CASE op = "other"
  <2>1. s = m
    BY <1>7 DEF Effect
  <2> QED BY <2>1 DEF SameCpu, SameFrame
<1>8. CASE op = "EI"
  <2>1. s = DoEI(m)
    BY <1>8 DEF Effect
  <2>2. s \in Machine
    <3>1. m.ICount \in Int
      BY DEF Machine
    <3> DEFINE m1 == [m EXCEPT !.IFF2 = TRUE]
               m2 == [m1 EXCEPT !.EI = TRUE]
               m3 == [m2 EXCEPT !.IBackup = m.ICount]
               m4 == [m3 EXCEPT !.ICount = 1]
    <3>2. s = IF TakesEI(m) THEN m4 ELSE m
      BY <2>1 DEF DoEI
    <3> HIDE DEF m1, m2, m3, m4
    <3>3. m1 \in Machine
      BY SetField DEF m1
    <3>4. m2 \in Machine
      BY <3>3, SetField DEF m2
    <3>5. m3 \in Machine
      BY <3>4, <3>1, SetField DEF m3
    <3>6. m4 \in Machine
      BY <3>5, SetField DEF m4
    <3> QED BY <3>2, <3>6
  <2>3. LineOf(s)
    BY <2>1 DEF DoEI, Machine, LineOf
  <2>4. SameFrame(s, m) /\ s.video = m.video
    BY <2>1 DEF DoEI, Machine, SameFrame
  <2> QED BY <2>2, <2>3, <2>4, <1>8 DEF CpuOps
<1>9. CASE op = "DI"
  <2>1. s = DoDI(m)
    BY <1>9 DEF Effect
  <2>2. CASE m.EI
    <3>1. s = [m EXCEPT !.ICount = @ + m.IBackup - 1, !.IFF1 = FALSE, !.IFF2 = FALSE,
                        !.EI = FALSE, !.IBackup = 0]
      BY <2>1, <2>2 DEF DoDI, Machine
    <3>2. m.ICount + m.IBackup - 1 \in Int
      BY DEF Machine
    <3>3. s \in Machine
      <4> DEFINE m1 == [m EXCEPT !.ICount = m.ICount + m.IBackup - 1]
                 m2 == [m1 EXCEPT !.IFF1 = FALSE]
                 m3 == [m2 EXCEPT !.IFF2 = FALSE]
                 m4 == [m3 EXCEPT !.EI = FALSE]
                 m5 == [m4 EXCEPT !.IBackup = 0]
      <4>1. s = m5
        BY <3>1
      <4> HIDE DEF m1, m2, m3, m4, m5
      <4>2. m1 \in Machine
        BY <3>2, SetField DEF m1
      <4>3. m2 \in Machine
        BY <4>2, SetField DEF m2
      <4>4. m3 \in Machine
        BY <4>3, SetField DEF m3
      <4>5. m4 \in Machine
        BY <4>4, SetField DEF m4
      <4>6. m5 \in Machine
        BY <4>5, SetField DEF m5
      <4> QED BY <4>1, <4>6
    <3>4. LineOf(s)
      BY <3>1, <3>2 DEF Machine, LineOf
    <3>5. SameFrame(s, m) /\ s.video = m.video
      BY <3>1, <3>2 DEF Machine, SameFrame
    <3> QED BY <3>3, <3>4, <3>5, <1>9 DEF CpuOps
  <2>3. CASE ~m.EI
    <3>1. s = [m EXCEPT !.IFF1 = FALSE, !.IFF2 = FALSE, !.EI = FALSE, !.IBackup = 0]
      BY <2>1, <2>3 DEF DoDI
    <3>3. s \in Machine
      <4> DEFINE m1 == [m EXCEPT !.IFF1 = FALSE]
                 m2 == [m1 EXCEPT !.IFF2 = FALSE]
                 m3 == [m2 EXCEPT !.EI = FALSE]
                 m4 == [m3 EXCEPT !.IBackup = 0]
      <4>1. s = m4
        BY <3>1
      <4> HIDE DEF m1, m2, m3, m4
      <4>2. m1 \in Machine
        BY SetField DEF m1
      <4>3. m2 \in Machine
        BY <4>2, SetField DEF m2
      <4>4. m3 \in Machine
        BY <4>3, SetField DEF m3
      <4>5. m4 \in Machine
        BY <4>4, SetField DEF m4
      <4> QED BY <4>1, <4>5
    <3>4. LineOf(s)
      BY <3>1 DEF Machine, LineOf
    <3>5. SameFrame(s, m) /\ s.video = m.video
      BY <3>1 DEF Machine, SameFrame
    <3> QED BY <3>3, <3>4, <3>5, <1>9 DEF CpuOps
  <2> QED BY <2>2, <2>3
<1>10. CASE op = "HALT"
  <2>1. s = DoHALT(m)
    BY <1>10 DEF Effect
  <2>2. s \in Machine
    <3> DEFINE m1 == [m EXCEPT !.HALT = TRUE]
               m2 == [m1 EXCEPT !.IBackup = 0]
               m3 == [m2 EXCEPT !.ICount = 0]
    <3>1. s = m3
      BY <2>1 DEF DoHALT
    <3> HIDE DEF m1, m2, m3
    <3>2. m1 \in Machine
      BY SetField DEF m1
    <3>3. m2 \in Machine
      BY <3>2, SetField DEF m2
    <3>4. m3 \in Machine
      BY <3>3, SetField DEF m3
    <3> QED BY <3>1, <3>4
  <2>3. LineOf(s)
    BY <2>1 DEF DoHALT, Machine, LineOf
  <2>4. SameFrame(s, m) /\ s.video = m.video
    BY <2>1 DEF DoHALT, Machine, SameFrame
  <2> QED BY <2>2, <2>3, <2>4, <1>10 DEF CpuOps
<1>11. CASE op = "RETN"
  <2>1. s = DoRETN(m)
    BY <1>11 DEF Effect
  <2>2. s \in Machine
    BY <2>1 DEF DoRETN, Machine, TakesEI
  <2>3. LineOf(s)
    BY <2>1 DEF DoRETN, Machine, LineOf
  <2>4. SameFrame(s, m) /\ s.video = m.video
    BY <2>1 DEF DoRETN, Machine, SameFrame
  <2> QED BY <2>2, <2>3, <2>4, <1>11 DEF CpuOps
<1> QED BY <1>1, <1>2, <1>3, <1>4, <1>5, <1>6, <1>7, <1>8, <1>9, <1>10, <1>11
        DEF Ops, Writes

-----------------------------------------------------------------------------
\* The inductive invariant.

\* EI's detour lasts for one instruction, entered with cycles left.
Shadow(m) == /\ ~m.EI => m.ICount > 0
             /\ m.EI => /\ m.ICount = 1
                        /\ \E o \in Ops : \E d \in Cycles[o] : m.IBackup + d > 0
Timely == left = Budget(msx) /\ Shadow(msx)

\* IFF2 is a copy of IFF1, except between EI and the end of its shadow.
Copies(m) == m.IFF2 => m.IFF1 \/ m.EI

\* LoopZ80() draws from the first scanline up to the end of the first one of the border.
DrawsPart(m, drawing) ==
  drawing <=> \/ m.ScanLine < Border[m.video]
              \/ m.ScanLine = Border[m.video] /\ ~m.HRefresh
Blanks(m) == m.VRefresh <=> \/ m.ScanLine > VBlankLine[m.video]
                            \/ m.ScanLine = VBlankLine[m.video] /\ m.HRefresh
InFrame(m, drawing) ==
  m.ScanLine <= LastLine[m.video] /\ DrawsPart(m, drawing) /\ Blanks(m)

IInv == /\ TypeOK
        /\ LineOf(msx)
        /\ Timely
        /\ Copies(msx)
        /\ steady => InFrame(msx, Drawing)

\* The clock after an instruction of c cycles, before LoopZ80().
ClockAfter(m, op, c) ==
  IF op # "HALT" THEN Budget(m) - c ELSE IF m.EI THEN -1 ELSE 0

\* The part of a scanline that LoopZ80() adds makes up for the longest overrun.
CountsUp(m) == \A h \in HRefreshes : m.ICount + h > 0 /\ m.ICount + HPeriod - h > 0

LEMMA CycleTypes ==
  ASSUME NEW o \in Ops, NEW c \in Cycles[o]
  PROVE  c \in Int /\ c >= 1
BY CyclesAssumption

LEMMA TwoInstructions ==
  ASSUME NEW m \in Machine, NEW o \in Ops, NEW c \in Cycles[o],
         NEW q \in Ops, NEW d \in Cycles[q], m.ICount > 0 - c - d
  PROVE  CountsUp(m)
<1> SUFFICES ASSUME NEW h \in HRefreshes
             PROVE  m.ICount + h > 0 /\ m.ICount + HPeriod - h > 0
  BY DEF CountsUp
<1>1. c \in Int /\ d \in Int /\ h \in Int /\ HPeriod \in Int /\ m.ICount \in Int
  BY CycleTypes, TimeAssumption DEF Machine
<1>2. c + d <= h /\ c + d <= HPeriod - h
  BY CyclesAssumption
<1> QED BY <1>1, <1>2

\* The flip-flops and the counter after an instruction and the end of EI's shadow.
AfterOp(e, m, op, c) ==
  /\ Budget(e) = ClockAfter(m, op, c)
  /\ Copies(e)
  /\ e.IFF1 => m.IFF1 \/ m.EI
  /\ m.EI => ~e.EI
  /\ e.EI => e.ICount = 1 /\ e.IBackup + c > 0
  /\ ~e.EI => CountsUp(e)

LEMMA EndShadowKeeps ==
  ASSUME NEW s \in Machine, LineOf(s)
  PROVE  EndShadow(s) \in Machine /\ LineOf(EndShadow(s)) /\ SameFrame(EndShadow(s), s)
         /\ EndShadow(s).video = s.video
<1>1. CASE Expired(s) /\ s.EI
  <2>1. s.ICount + s.IBackup - 1 \in Int
    BY DEF Machine
  <2>2. EndShadow(s) = [s EXCEPT !.EI = FALSE, !.IFF1 = TRUE,
                                 !.ICount = s.ICount + s.IBackup - 1, !.IBackup = 0]
    BY <1>1 DEF EndShadow, AfterEI
  <2>3. EndShadow(s) \in Machine
    <3> DEFINE m1 == [s EXCEPT !.EI = FALSE]
               m2 == [m1 EXCEPT !.IFF1 = TRUE]
               m3 == [m2 EXCEPT !.ICount = s.ICount + s.IBackup - 1]
               m4 == [m3 EXCEPT !.IBackup = 0]
    <3>1. EndShadow(s) = m4
      BY <2>2
    <3> HIDE DEF m1, m2, m3, m4
    <3>2. m1 \in Machine
      BY SetField DEF m1
    <3>3. m2 \in Machine
      BY <3>2, SetField DEF m2
    <3>4. m3 \in Machine
      BY <3>3, <2>1, SetField DEF m3
    <3>5. m4 \in Machine
      BY <3>4, SetField DEF m4
    <3> QED BY <3>1, <3>5
  <2> QED BY <2>2, <2>3 DEF LineOf, SameFrame, Machine
<1>2. CASE ~(Expired(s) /\ s.EI)
  BY <1>2 DEF EndShadow, SameFrame
<1> QED BY <1>1, <1>2

\* What an instruction does to the CPU, and the end of EI's shadow.
CpuAfter(s, m, op, c) ==
  /\ op = "EI" /\ TakesEI(m) => s.IFF1 = m.IFF1 /\ s.IFF2 /\ s.EI /\ s.ICount = 1
                                /\ s.IBackup = m.ICount - c
  /\ op = "DI" => /\ ~s.IFF1 /\ ~s.IFF2 /\ ~s.EI
                  /\ s.ICount = IF m.EI THEN m.ICount - c + m.IBackup - 1 ELSE m.ICount - c
  /\ op = "HALT" => s.IFF1 = m.IFF1 /\ s.IFF2 = m.IFF2 /\ s.EI = m.EI
                    /\ s.ICount = 0 /\ s.IBackup = 0
  /\ op = "RETN" => s.IFF1 = m.IFF2 /\ s.IFF2 = m.IFF2 /\ s.EI = m.EI
                    /\ s.ICount = m.ICount - c /\ s.IBackup = m.IBackup
  /\ op \notin CpuOps \/ (op = "EI" /\ ~TakesEI(m)) =>
       s.IFF1 = m.IFF1 /\ s.IFF2 = m.IFF2 /\ s.EI = m.EI
       /\ s.ICount = m.ICount - c /\ s.IBackup = m.IBackup

CpuBehind(e, s) ==
  IF s.ICount <= 0 /\ s.EI
  THEN e.IFF1 /\ e.IFF2 = s.IFF2 /\ ~e.EI /\ e.ICount = s.ICount + s.IBackup - 1
  ELSE e.IFF1 = s.IFF1 /\ e.IFF2 = s.IFF2 /\ e.EI = s.EI /\ e.ICount = s.ICount
       /\ e.IBackup = s.IBackup

LEMMA ShadowEnds ==
  ASSUME NEW s \in Machine
  PROVE  CpuBehind(EndShadow(s), s)
BY DEF EndShadow, AfterEI, Expired, CpuBehind, Machine

LEMMA OpKeeps ==
  ASSUME NEW m \in Machine, LineOf(m), NEW op \in Ops, NEW x \in Operands(op),
         NEW c \in Cycles[op], NEW s, s = Effect([m EXCEPT !.ICount = @ - c], op, x)
  PROVE  /\ s \in Machine /\ LineOf(s) /\ SameFrame(s, m)
         /\ op # "R9" => s.video = m.video
         /\ CpuAfter(s, m, op, c)
<1> DEFINE m0 == [m EXCEPT !.ICount = m.ICount - c]
<1>1. m0 \in Machine /\ LineOf(m0) /\ SameFrame(m0, m) /\ m0.video = m.video
  <2>1. m.ICount - c \in Int
    BY CycleTypes DEF Machine
  <2>2. m0 \in Machine
    BY <2>1, SetField
  <2> QED BY <2>2 DEF Machine, LineOf, SameFrame
<1>2. /\ m0.IFF1 = m.IFF1 /\ m0.IFF2 = m.IFF2 /\ m0.EI = m.EI
      /\ m0.ICount = m.ICount - c /\ m0.IBackup = m.IBackup
  BY DEF Machine
<1>3. s = Effect(m0, op, x)
  OBVIOUS
<1> HIDE DEF m0
<1>4. /\ s \in Machine /\ LineOf(s) /\ SameFrame(s, m0)
      /\ op \notin CpuOps => SameCpu(s, m0)
      /\ op # "R9" => s.video = m0.video
  BY <1>1, <1>3, EffectKeeps
<1>5. CpuAfter(s, m, op, c)
  <2>1. CASE op = "EI" /\ TakesEI(m)
    <3>1. s = [m0 EXCEPT !.IFF2 = TRUE, !.EI = TRUE, !.IBackup = m0.ICount, !.ICount = 1]
      BY <1>2, <1>3, <2>1 DEF Effect, DoEI, TakesEI
    <3>2. s.IFF1 = m0.IFF1 /\ s.IFF2 /\ s.EI /\ s.ICount = 1 /\ s.IBackup = m0.ICount
      BY <1>1, <3>1 DEF Machine
    <3> QED BY <1>2, <2>1, <3>2 DEF CpuAfter, CpuOps
  <2>2. CASE op = "EI" /\ ~TakesEI(m)
    <3>1. s = m0
      BY <1>2, <1>3, <2>2 DEF Effect, DoEI, TakesEI
    <3> QED BY <1>2, <2>2, <3>1 DEF CpuAfter, CpuOps
  <2>3. CASE op = "DI"
    <3>1. s = DoDI(m0)
      BY <1>3, <2>3 DEF Effect
    <3>2. /\ ~s.IFF1 /\ ~s.IFF2 /\ ~s.EI
          /\ s.ICount = IF m0.EI THEN m0.ICount + m0.IBackup - 1 ELSE m0.ICount
      BY <1>1, <3>1 DEF DoDI, Machine
    <3> QED BY <1>2, <2>3, <3>2 DEF CpuAfter, CpuOps
  <2>4. CASE op = "HALT"
    <3>1. s = DoHALT(m0)
      BY <1>3, <2>4 DEF Effect
    <3>2. /\ s.IFF1 = m0.IFF1 /\ s.IFF2 = m0.IFF2 /\ s.EI = m0.EI
          /\ s.ICount = 0 /\ s.IBackup = 0
      BY <1>1, <3>1 DEF DoHALT, Machine
    <3> QED BY <1>2, <2>4, <3>2 DEF CpuAfter, CpuOps
  <2>5. CASE op = "RETN"
    <3>1. s = DoRETN(m0)
      BY <1>3, <2>5 DEF Effect
    <3>2. /\ s.IFF1 = m0.IFF2 /\ s.IFF2 = m0.IFF2 /\ s.EI = m0.EI
          /\ s.ICount = m0.ICount /\ s.IBackup = m0.IBackup
      BY <1>1, <3>1 DEF DoRETN, Machine
    <3> QED BY <1>2, <2>5, <3>2 DEF CpuAfter, CpuOps
  <2>6. CASE op \notin CpuOps
    BY <1>2, <1>4, <2>6 DEF CpuAfter, CpuOps, SameCpu
  <2> QED BY <2>1, <2>2, <2>3, <2>4, <2>5, <2>6 DEF CpuOps
<1> QED BY <1>1, <1>4, <1>5 DEF SameFrame

LEMMA ShadowAfter ==
  ASSUME NEW m \in Machine, Shadow(m), Copies(m), NEW op \in Ops, NEW c \in Cycles[op],
         NEW s \in Machine, CpuAfter(s, m, op, c),
         NEW e \in Machine, CpuBehind(e, s)
  PROVE  /\ AfterOp(e, m, op, c)
         /\ m.EI /\ e.IFF1 => Expired(s)
         /\ s.EI /\ ~m.EI => ~Expired(s)
<1>1. /\ c \in Int /\ c >= 1
      /\ m.ICount \in Int /\ m.IBackup \in Int /\ m.EI \in BOOLEAN /\ m.IFF1 \in BOOLEAN
      /\ s.ICount \in Int /\ s.IBackup \in Int /\ s.EI \in BOOLEAN
      /\ e.ICount \in Int /\ e.IBackup \in Int /\ e.EI \in BOOLEAN
  BY CycleTypes DEF Machine
<1>2. CASE m.EI
  <2>1. PICK o \in Ops : \E d \in Cycles[o] : m.IBackup + d > 0
    BY <1>2 DEF Shadow
  <2>2. PICK d \in Cycles[o] : m.IBackup + d > 0
    BY <2>1
  <2>3. d \in Int /\ d >= 1 /\ m.ICount = 1
    BY <1>2, CycleTypes DEF Shadow
  <2>4. ~TakesEI(m)
    BY <1>2 DEF TakesEI
  <2>5. /\ ~e.EI
        /\ e.ICount = (IF op = "HALT" THEN -1 ELSE m.IBackup - c)
        /\ op # "DI" => Expired(s)
        /\ op = "DI" => ~e.IFF1 /\ ~e.IFF2
        /\ op # "DI" => e.IFF1
    <3>1. CASE op = "DI"
      <4>1. ~s.IFF1 /\ ~s.IFF2 /\ ~s.EI /\ s.ICount = m.ICount - c + m.IBackup - 1
        BY <1>2, <3>1 DEF CpuAfter
      <4>2. ~e.IFF1 /\ ~e.IFF2 /\ ~e.EI /\ e.ICount = s.ICount
        BY <4>1 DEF CpuBehind
      <4>3. s.ICount = m.IBackup - c
        BY <1>1, <2>3, <4>1
      <4> QED BY <3>1, <4>2, <4>3
    <3>2. CASE op = "HALT"
      <4>1. s.EI /\ s.ICount = 0 /\ s.IBackup = 0
        BY <1>2, <3>2 DEF CpuAfter
      <4>2. e.IFF1 /\ ~e.EI /\ e.ICount = 0 + 0 - 1 /\ Expired(s)
        BY <4>1 DEF CpuBehind, Expired
      <4> QED BY <3>2, <4>2
    <3>3. CASE op # "DI" /\ op # "HALT"
      <4>1. s.EI /\ s.ICount = 1 - c /\ s.IBackup = m.IBackup
        BY <1>1, <1>2, <2>3, <2>4, <3>3 DEF CpuAfter, CpuOps
      <4>2. s.ICount <= 0 /\ Expired(s)
        BY <1>1, <4>1 DEF Expired
      <4>3. e.IFF1 /\ ~e.EI /\ e.ICount = s.ICount + s.IBackup - 1
        BY <4>1, <4>2 DEF CpuBehind
      <4>4. s.ICount + s.IBackup - 1 = m.IBackup - c
        BY <1>1, <4>1
      <4> QED BY <3>3, <4>2, <4>3, <4>4
    <3> QED BY <3>1, <3>2, <3>3
  <2>6. e.ICount > 0 - c - d
    BY <1>1, <2>2, <2>3, <2>5
  <2>7. CountsUp(e)
    BY <2>6, TwoInstructions
  <2>8. Budget(e) = ClockAfter(m, op, c)
    BY <1>1, <1>2, <2>3, <2>5 DEF Budget, ClockAfter
  <2> QED BY <1>2, <2>5, <2>7, <2>8 DEF AfterOp, Copies
<1>3. CASE ~m.EI
  <2>1. m.ICount > 0
    BY <1>3 DEF Shadow
  <2>2. CASE op = "EI" /\ TakesEI(m)
    <3>1. /\ s.EI /\ s.ICount = 1 /\ s.IBackup = m.ICount - c /\ e.EI /\ e.ICount = 1
          /\ e.IBackup = m.ICount - c /\ ~Expired(s) /\ e.IFF1 = m.IFF1
      BY <1>1, <2>2 DEF CpuAfter, CpuBehind, Expired
    <3> QED BY <1>1, <1>3, <2>1, <2>2, <3>1 DEF AfterOp, Budget, ClockAfter, Copies
  <2>3. CASE ~(op = "EI" /\ TakesEI(m))
    <3>1. /\ ~s.EI /\ ~e.EI
          /\ e.ICount = (IF op = "HALT" THEN 0 ELSE m.ICount - c)
          /\ e.IFF2 => m.IFF2
          /\ e.IFF1 => m.IFF1
          /\ e.IFF2 => e.IFF1
      <4>1. CASE op = "DI"
        BY <1>1, <1>3, <4>1 DEF CpuAfter, CpuBehind
      <4>2. CASE op = "HALT"
        BY <1>1, <1>3, <4>2 DEF CpuAfter, CpuBehind, Copies
      <4>3. CASE op = "RETN"
        BY <1>1, <1>3, <4>3 DEF CpuAfter, CpuBehind, Copies
      <4>4. CASE op \notin {"DI", "HALT", "RETN"}
        BY <1>1, <1>3, <2>3, <4>4 DEF CpuAfter, CpuBehind, CpuOps, Copies
      <4> QED BY <4>1, <4>2, <4>3, <4>4
    <3>2. e.ICount > 0 - c - c
      BY <1>1, <2>1, <3>1
    <3>3. CountsUp(e)
      BY <3>2, TwoInstructions
    <3>4. Budget(e) = ClockAfter(m, op, c)
      BY <1>1, <1>3, <3>1 DEF Budget, ClockAfter
    <3> QED BY <1>3, <3>1, <3>3, <3>4 DEF AfterOp, Copies
  <2> QED BY <2>2, <2>3
<1> QED BY <1>1, <1>2, <1>3

-----------------------------------------------------------------------------
\* LoopZ80() and IntZ80() after the instruction.

\* The cycles that a call of LoopZ80() adds.
LEMMA LoopKeeps ==
  ASSUME NEW e \in Machine, LineOf(e), CountsUp(e), NEW h \in HRefreshes, NEW p \in VPeriods,
         Drawing \in BOOLEAN, NEW t, t = LoopZ80(e, h, p)
  PROVE  /\ t \in Machine /\ LineOf(t) /\ t.video = e.video
         /\ \E n \in Int : CpuPlus(t, e, n) /\ e.ICount + n > 0
         /\ IF e.HRefresh THEN NewLine(t, e) ELSE NewBlank(t, e, DrawingAfter(e, Drawing))
<1>1. h \in Int /\ HPeriod \in Int /\ e.ICount \in Int /\ e.HRefresh \in BOOLEAN
  BY TimeAssumption DEF Machine
<1>2. CASE e.HRefresh
  <2>1. t = StartLine(e, h)
    BY <1>2 DEF LoopZ80
  <2>2. t \in Machine /\ LineOf(t) /\ CpuPlus(t, e, h) /\ NewLine(t, e) /\ t.video = e.video
    BY <2>1, StartLineKeeps
  <2>3. e.ICount + h > 0
    BY DEF CountsUp
  <2> QED BY <1>1, <1>2, <2>2, <2>3
<1>3. CASE ~e.HRefresh
  <2> DEFINE n == HPeriod - h + Overtime(e, p)
  <2>1. t = EndLine(e, h, p, DrawingAfter(e, Drawing))
    BY <1>3 DEF LoopZ80
  <2>2. DrawingAfter(e, Drawing) \in BOOLEAN
    BY <1>3 DEF DrawingAfter
  <2>3. /\ t \in Machine /\ LineOf(t) /\ CpuPlus(t, e, n)
        /\ NewBlank(t, e, DrawingAfter(e, Drawing))
        /\ t.video = e.video /\ n \in Int /\ n >= HPeriod - h
    BY <2>1, <2>2, EndLineKeeps
  <2> HIDE DEF n
  <2>4. e.ICount + n > 0
    <3>1. e.ICount + HPeriod - h > 0
      BY DEF CountsUp
    <3> QED BY <1>1, <2>3, <3>1
  <2> QED BY <1>3, <2>3, <2>4
<1> QED BY <1>1, <1>2, <1>3

\* The program counter aside, IntZ80() changes flip-flops only.
Vectored(u, t) ==
  /\ u.ICount = t.ICount /\ u.IBackup = t.IBackup
  /\ u.IRequest = t.IRequest /\ u.ScanLine = t.ScanLine /\ u.video = t.video
  /\ u.HRefresh = t.HRefresh /\ u.VRefresh = t.VRefresh
  /\ u.EI => t.EI
  /\ u.IFF1 => t.IFF1 /\ t.IRequest = "none" /\ u.IFF2 = t.IFF2
  /\ u.IFF2 => t.IFF2
  /\ u.IFF1 = t.IFF1 \/ ~u.IFF2
  /\ t.EI /\ ~t.IFF1 => u.EI

LEMMA IntKeeps ==
  ASSUME NEW t \in Machine, LineOf(t)
  PROVE  IntZ80(t) \in Machine /\ LineOf(IntZ80(t)) /\ Vectored(IntZ80(t), t)
<1>1. CASE t.IRequest = "none"
  BY <1>1 DEF IntZ80, Vectored, Machine
<1>2. CASE t.IRequest # "none" /\ t.IFF1
  <2>1. IntZ80(t) = [t EXCEPT !.HALT = FALSE, !.IFF1 = FALSE, !.IFF2 = FALSE, !.EI = FALSE]
    BY <1>2 DEF IntZ80
  <2>2. IntZ80(t) \in Machine
    <3> DEFINE m1 == [t EXCEPT !.HALT = FALSE]
               m2 == [m1 EXCEPT !.IFF1 = FALSE]
               m3 == [m2 EXCEPT !.IFF2 = FALSE]
               m4 == [m3 EXCEPT !.EI = FALSE]
    <3>1. IntZ80(t) = m4
      BY <2>1
    <3> HIDE DEF m1, m2, m3, m4
    <3>2. m1 \in Machine
      BY SetField DEF m1
    <3>3. m2 \in Machine
      BY <3>2, SetField DEF m2
    <3>4. m3 \in Machine
      BY <3>3, SetField DEF m3
    <3>5. m4 \in Machine
      BY <3>4, SetField DEF m4
    <3> QED BY <3>1, <3>5
  <2>3. LineOf(IntZ80(t))
    BY <2>1 DEF LineOf, Machine
  <2>4. Vectored(IntZ80(t), t)
    BY <1>2, <2>1 DEF Vectored, Machine
  <2> QED BY <2>2, <2>3, <2>4
<1>3. CASE t.IRequest # "none" /\ ~t.IFF1
  <2>1. IntZ80(t) = [t EXCEPT !.HALT = FALSE]
    BY <1>3 DEF IntZ80
  <2>2. IntZ80(t) \in Machine
    BY <2>1, SetField
  <2>3. LineOf(IntZ80(t))
    BY <2>1 DEF LineOf, Machine
  <2>4. Vectored(IntZ80(t), t)
    BY <1>3, <2>1 DEF Vectored, Machine
  <2> QED BY <2>2, <2>3, <2>4
<1> QED BY <1>1, <1>2, <1>3

-----------------------------------------------------------------------------
\* IInv holds at first and every step keeps it.

LEMMA PowerOnKeeps ==
  PowerOn \in Machine /\ LineOf(PowerOn) /\ ~PowerOn.EI /\ PowerOn.ICount > 0 /\ ~PowerOn.IFF2
<1> DEFINE n == CHOOSE h \in HRefreshes : TRUE
<1>1. n \in HRefreshes
  BY TimeAssumption
<1> HIDE DEF n
<1>2. n \in Int /\ n > 0
  BY <1>1, TimeAssumption
<1>3. PowerOn.ICount = n
  BY DEF PowerOn, n
<1>4. 0 \in Lines /\ PowerOnVideo \in Videos /\ 0 \in HLines
  BY LineTypes, LineAssumption, TimeAssumption DEF Lines
<1>5. PowerOn \in Machine
  BY <1>2, <1>4 DEF PowerOn, Machine, n
<1>6. LineOf(PowerOn) /\ ~PowerOn.EI /\ ~PowerOn.IFF2
  BY DEF PowerOn, LineOf
<1> QED BY <1>2, <1>3, <1>5, <1>6

LEMMA InitKeeps == Init => IInv
<1> SUFFICES ASSUME Init PROVE IInv
  OBVIOUS
<1>1. /\ PowerOn \in Machine /\ LineOf(PowerOn) /\ ~PowerOn.EI /\ PowerOn.ICount > 0
      /\ ~PowerOn.IFF2
  BY PowerOnKeeps
<1>2. TypeOK
  BY <1>1 DEF Init, TypeOK, Machine
<1>3. Timely
  BY <1>1 DEF Init, Timely, Budget, Shadow
<1> QED BY <1>1, <1>2, <1>3 DEF Init, IInv, Copies

LEMMA LoadedKeeps ==
  ASSUME IInv, NEW s \in Machine, LineOf(s), ~s.EI, s.IFF2 => s.IFF1, s.ICount > 0, Loaded(s)
  PROVE  IInv'
<1>1. /\ msx' = s /\ left' = Budget(s) /\ served' = FALSE /\ steady' = FALSE
      /\ Drawing' = Drawing /\ running' = running
  BY DEF Loaded
<1>2. Budget(s) \in Int
  BY DEF Budget, Machine
<1>3. TypeOK'
  BY <1>1, <1>2 DEF IInv, TypeOK
<1>4. Timely'
  BY <1>1 DEF Timely, Budget, Shadow
<1> QED BY <1>1, <1>3, <1>4 DEF IInv, Copies

\* The frame from one call of LoopZ80() to the next.
LEMMA FrameKeeps ==
  ASSUME NEW e \in Machine, NEW t \in Machine, t.video = e.video, Drawing \in BOOLEAN,
         InFrame(e, Drawing),
         IF e.HRefresh THEN NewLine(t, e) ELSE NewBlank(t, e, DrawingAfter(e, Drawing))
  PROVE  InFrame(t, DrawingAfter(e, Drawing))
<1>1. CASE e.HRefresh
  <2>1. DrawingAfter(e, Drawing) = (Drawing \/ e.ScanLine >= LastLine[e.video])
    BY <1>1 DEF DrawingAfter
  <2>2. CASE e.ScanLine < LastLine[e.video]
    <3>1. t.ScanLine = e.ScanLine + 1 /\ t.VRefresh = e.VRefresh /\ ~t.HRefresh
      BY <1>1, <2>2, Geometry DEF NewLine
    <3> QED BY <1>1, <2>1, <2>2, <3>1, Geometry DEF InFrame, DrawsPart, Blanks
  <2>3. CASE ~(e.ScanLine < LastLine[e.video])
    <3>1. t.ScanLine = 0 /\ ~t.VRefresh /\ ~t.HRefresh
      BY <1>1, <2>3, Geometry DEF NewLine
    <3> QED BY <1>1, <2>1, <2>3, <3>1, Geometry DEF InFrame, DrawsPart, Blanks
  <2> QED BY <2>2, <2>3
<1>2. CASE ~e.HRefresh
  <2>1. DrawingAfter(e, Drawing) = (Drawing /\ e.ScanLine # Border[e.video])
    BY <1>2 DEF DrawingAfter
  <2>2. /\ t.HRefresh /\ t.ScanLine = e.ScanLine
        /\ t.VRefresh = (e.VRefresh \/ (~DrawingAfter(e, Drawing)
                                        /\ e.ScanLine = VBlankLine[e.video]))
    BY <1>2 DEF NewBlank
  <2> QED BY <1>2, <2>1, <2>2, Geometry DEF InFrame, DrawsPart, Blanks
<1> QED BY <1>1, <1>2

\* The first scanline begins a frame whatever was before it.
LEMMA FrameBegins ==
  ASSUME NEW e \in Machine, NEW t \in Machine, t.video = e.video, Drawing \in BOOLEAN,
         IF e.HRefresh THEN NewLine(t, e) ELSE NewBlank(t, e, DrawingAfter(e, Drawing)),
         t.ScanLine = 0, e.ScanLine # 0
  PROVE  InFrame(t, DrawingAfter(e, Drawing))
<1>1. e.HRefresh
  BY DEF NewBlank
<1>2. e.ScanLine >= LastLine[e.video] /\ ~t.HRefresh /\ ~t.VRefresh
  BY <1>1, Geometry DEF NewLine
<1>3. DrawingAfter(e, Drawing) = TRUE
  BY <1>1, <1>2 DEF DrawingAfter
<1> QED BY <1>2, <1>3, Geometry DEF InFrame, DrawsPart, Blanks

LEMMA InstructionKeeps ==
  ASSUME IInv, NEW op \in Ops, NEW x \in Operands(op), NEW c \in Cycles[op],
         NEW h \in HRefreshes, NEW p \in VPeriods, Instruction(op, x, c, h, p)
  PROVE  /\ IInv'
         /\ running /\ served' => msx.IFF1 \/ msx.EI
         /\ msx.EI /\ msx'.IFF1 /\ running' => msx'.IRequest = "none"
<1> DEFINE s == Effect([msx EXCEPT !.ICount = @ - c], op, x)
           e == EndShadow(s)
           t == AfterLoop(s, h, p)
           quit == LoopsNow(s) /\ Quits(t)
           clock == IF op # "HALT" THEN left - c ELSE IF msx.EI THEN -1 ELSE 0
<1>1. /\ msx' = IF Looks(s) /\ ~quit THEN IntZ80(t) ELSE t
      /\ Drawing' = IF LoopsNow(s) THEN DrawingAfter(e, Drawing) ELSE Drawing
      /\ running' = ~quit
      /\ left' = clock + (IF LoopsNow(s) THEN t.ICount - e.ICount ELSE 0)
      /\ served' = (Looks(s) /\ ~quit /\ Accepts(t))
      /\ steady' = ((steady \/ (t.ScanLine = 0 /\ t.ScanLine # s.ScanLine))
                    /\ t.video = msx.video)
  BY DEF Instruction
<1>2. /\ msx \in Machine /\ LineOf(msx) /\ left = Budget(msx) /\ Shadow(msx) /\ Copies(msx)
      /\ Drawing \in BOOLEAN /\ running \in BOOLEAN /\ left \in Int /\ steady \in BOOLEAN
      /\ steady => InFrame(msx, Drawing)
  BY DEF IInv, TypeOK, Timely
<1>3. /\ s \in Machine /\ LineOf(s) /\ SameFrame(s, msx)
      /\ op # "R9" => s.video = msx.video
      /\ CpuAfter(s, msx, op, c)
  BY <1>2, OpKeeps
<1> HIDE DEF s
<1>4. /\ e \in Machine /\ LineOf(e) /\ SameFrame(e, s) /\ e.video = s.video /\ CpuBehind(e, s)
  BY <1>3, EndShadowKeeps, ShadowEnds
<1>5. LoopsNow(s) <=> e.ICount <= 0
  BY DEF LoopsNow, Expired
<1>6. t = IF LoopsNow(s) THEN LoopZ80(e, h, p) ELSE e
  BY DEF AfterLoop
<1> HIDE DEF e, t
<1>7. /\ AfterOp(e, msx, op, c)
      /\ msx.EI /\ e.IFF1 => Expired(s)
      /\ s.EI /\ ~msx.EI => ~Expired(s)
  BY <1>2, <1>3, <1>4, ShadowAfter
<1>8. /\ t \in Machine /\ LineOf(t) /\ t.video = e.video
      /\ t.IFF1 = e.IFF1 /\ t.IFF2 = e.IFF2 /\ t.EI = e.EI /\ t.IBackup = e.IBackup
      /\ Budget(t) = clock + (IF LoopsNow(s) THEN t.ICount - e.ICount ELSE 0)
      /\ t.EI => t.ICount = 1 /\ ~LoopsNow(s)
      /\ ~t.EI => t.ICount > 0
  <2>1. clock = ClockAfter(msx, op, c) /\ Budget(e) = clock /\ e.ICount \in Int
    BY <1>2, <1>4, <1>7 DEF ClockAfter, AfterOp, Machine
  <2>2. CASE LoopsNow(s)
    <3>1. ~e.EI /\ CountsUp(e)
      <4>1. e.ICount <= 0
        BY <1>5, <2>2
      <4>2. e.EI => e.ICount = 1
        BY <1>7 DEF AfterOp
      <4>3. ~e.EI
        BY <2>1, <4>1, <4>2
      <4> QED BY <1>7, <4>3 DEF AfterOp
    <3>2. /\ t \in Machine /\ LineOf(t) /\ t.video = e.video
          /\ \E n \in Int : CpuPlus(t, e, n) /\ e.ICount + n > 0
      BY <1>2, <1>4, <1>6, <2>2, <3>1, LoopKeeps
    <3>3. PICK n \in Int : CpuPlus(t, e, n) /\ e.ICount + n > 0
      BY <3>2
    <3>4. t.ICount - e.ICount = n
      BY <2>1, <3>3 DEF CpuPlus
    <3>5. Budget(e) = e.ICount /\ Budget(t) = t.ICount
      BY <3>1, <3>3 DEF Budget, CpuPlus
    <3> HIDE DEF clock
    <3> QED BY <2>1, <2>2, <3>1, <3>2, <3>3, <3>4, <3>5 DEF CpuPlus
  <2>3. CASE ~LoopsNow(s)
    <3>1. t = e
      BY <1>6, <2>3
    <3>2. Budget(e) \in Int
      BY <1>4 DEF Budget, Machine
    <3>3. e.EI => e.ICount = 1
      BY <1>7 DEF AfterOp
    <3>4. e.ICount > 0
      BY <1>5, <2>1, <2>3
    <3> HIDE DEF clock
    <3>5. Budget(t) = clock + 0
      BY <2>1, <3>1, <3>2
    <3> QED BY <1>4, <2>3, <3>1, <3>3, <3>4, <3>5
  <2> QED BY <2>2, <2>3
<1> HIDE DEF clock
<1>9. IntZ80(t) \in Machine /\ LineOf(IntZ80(t)) /\ Vectored(IntZ80(t), t)
  BY <1>8, IntKeeps
<1>10. ASSUME t.EI PROVE ~Looks(s) /\ t.ICount = 1 /\ t.IBackup + c > 0
  <2>1. e.EI /\ ~msx.EI /\ t.IBackup = e.IBackup
    BY <1>2, <1>7, <1>8, <1>10 DEF AfterOp, Machine
  <2>2. s.EI
    BY <1>4, <2>1 DEF CpuBehind
  <2> QED BY <1>7, <1>8, <1>10, <2>1, <2>2 DEF AfterOp, Looks
<1>11. msx' \in Machine /\ LineOf(msx')
  BY <1>1, <1>8, <1>9
<1>12. Timely'
  <2>1. msx'.ICount = t.ICount /\ msx'.IBackup = t.IBackup /\ msx'.EI = t.EI
    <3>1. CASE t.EI
      <4>1. msx' = t
        BY <1>1, <1>10, <3>1
      <4> QED BY <4>1
    <3>2. CASE ~t.EI
      BY <1>1, <1>8, <1>9, <1>11, <3>2 DEF Vectored, Machine
    <3> QED BY <3>1, <3>2
  <2>2. left' = Budget(msx')
    BY <1>1, <1>8, <2>1 DEF Budget
  <2>3. Shadow(msx')
    BY <1>8, <1>10, <2>1 DEF Shadow
  <2> QED BY <2>2, <2>3 DEF Timely
<1>13. Copies(msx')
  <2>1. t.IFF2 => t.IFF1 \/ t.EI
    BY <1>7, <1>8 DEF AfterOp, Copies
  <2>2. CASE Looks(s) /\ ~quit
    <3>1. msx' = IntZ80(t) /\ ~t.EI
      BY <1>1, <1>10, <2>2
    <3> QED BY <1>9, <2>1, <3>1 DEF Vectored, Copies
  <2>3. CASE ~(Looks(s) /\ ~quit)
    <3>1. msx' = t
      BY <1>1, <2>3
    <3> QED BY <2>1, <3>1 DEF Copies
  <2> QED BY <2>2, <2>3
<1>14. ASSUME steady' PROVE InFrame(msx', Drawing')
  <2>1. t.video = msx.video /\ (steady \/ (t.ScanLine = 0 /\ t.ScanLine # s.ScanLine))
    BY <1>1, <1>14
  <2>2. SameFrame(e, msx) /\ e.video = msx.video /\ e.ScanLine = s.ScanLine
    BY <1>3, <1>4, <1>8, <2>1 DEF SameFrame
  <2>3. steady => InFrame(e, Drawing)
    BY <1>2, <2>2 DEF SameFrame, InFrame, DrawsPart, Blanks
  <2>4. InFrame(t, Drawing')
    <3>1. CASE LoopsNow(s)
      <4>1. ~e.EI /\ CountsUp(e)
        BY <1>8, <3>1, <1>7 DEF AfterOp
      <4>2. IF e.HRefresh THEN NewLine(t, e) ELSE NewBlank(t, e, DrawingAfter(e, Drawing))
        BY <1>2, <1>4, <1>6, <3>1, <4>1, LoopKeeps
      <4>3. Drawing' = DrawingAfter(e, Drawing)
        BY <1>1, <3>1
      <4>4. CASE steady
        BY <1>2, <1>4, <1>8, <2>3, <4>2, <4>3, <4>4, FrameKeeps
      <4>5. CASE t.ScanLine = 0 /\ t.ScanLine # s.ScanLine
        BY <1>2, <1>4, <1>8, <2>2, <4>2, <4>3, <4>5, FrameBegins
      <4> QED BY <2>1, <4>4, <4>5
    <3>2. CASE ~LoopsNow(s)
      <4>1. t = e /\ Drawing' = Drawing
        BY <1>1, <1>6, <3>2
      <4> QED BY <2>1, <2>2, <2>3, <4>1
    <3> QED BY <3>1, <3>2
  <2>5. /\ msx'.video = t.video /\ msx'.ScanLine = t.ScanLine /\ msx'.HRefresh = t.HRefresh
        /\ msx'.VRefresh = t.VRefresh
    BY <1>1, <1>9 DEF Vectored
  <2> QED BY <2>4, <2>5 DEF InFrame, DrawsPart, Blanks
<1>15. TypeOK'
  <2>1. Drawing' \in BOOLEAN
    BY <1>1, <1>2, <1>4 DEF DrawingAfter, Machine
  <2>2. running' \in BOOLEAN /\ served' \in BOOLEAN /\ steady' \in BOOLEAN
    BY <1>1, <1>2
  <2>3. left' \in Int
    BY <1>11, <1>12 DEF Timely, Budget, Machine
  <2> QED BY <1>11, <2>1, <2>2, <2>3 DEF TypeOK
<1>16. served' => msx.IFF1 \/ msx.EI
  BY <1>1, <1>7, <1>8 DEF AfterOp, Accepts
<1>17. ASSUME msx.EI, msx'.IFF1, running' PROVE msx'.IRequest = "none"
  <2>1. e.IFF1
    BY <1>1, <1>8, <1>9, <1>17 DEF Vectored
  <2>2. Looks(s) /\ ~quit
    BY <1>1, <1>7, <1>17, <2>1 DEF Looks
  <2>3. msx' = IntZ80(t)
    BY <1>1, <2>2
  <2> QED BY <1>9, <1>17, <2>3 DEF Vectored
<1>18. running
  BY DEF Instruction
<1> QED BY <1>11, <1>12, <1>13, <1>14, <1>15, <1>16, <1>17, <1>18 DEF IInv

THEOREM Invariance == Spec => []IInv
<1>1. Init => IInv
  BY InitKeeps
<1>2. IInv /\ [Next]_vars => IInv'
  <2> SUFFICES ASSUME IInv, [Next]_vars PROVE IInv'
    OBVIOUS
  <2>1. CASE RunZ80
    BY <2>1, InstructionKeeps DEF RunZ80, Executes
  <2>2. CASE retro_run
    BY <2>2 DEF retro_run, IInv, TypeOK, Timely
  <2>3. CASE ResetMSX
    BY <2>3, PowerOnKeeps, LoadedKeeps DEF ResetMSX
  <2>4. CASE LoadState
    BY <2>4, SavedAssumption, LoadedKeeps DEF LoadState
  <2>5. CASE UNCHANGED vars
    BY <2>5 DEF vars, IInv, TypeOK, Timely
  <2> QED BY <2>1, <2>2, <2>3, <2>4, <2>5 DEF Next
<1> QED BY <1>1, <1>2, PTL DEF Spec

\* Every reachable machine has fields of their types and its scanline within a frame.
THEOREM TypeCorrect == Spec => []TypeOK
<1>1. IInv => TypeOK
  BY DEF IInv
<1> QED BY <1>1, Invariance, PTL

\* No interrupt from nothing, no VBlank lost: see LineFollowsFlags.
THEOREM LineCorrect == Spec => []LineFollowsFlags
<1>1. IInv => LineFollowsFlags
  BY DEF IInv, LineFollowsFlags
<1> QED BY <1>1, Invariance, PTL

\* Scanlines keep their length: see CyclesKept.
THEOREM CyclesCorrect == Spec => []CyclesKept
<1>1. IInv => CyclesKept
  BY DEF IInv, CyclesKept, Timely, Shadow, Budget
<1> QED BY <1>1, Invariance, PTL

\* One VBlank in a frame: see OneVBlank.
THEOREM VBlankCorrect == Spec => []OneVBlank
<1>1. IInv => OneVBlank
  BY DEF IInv, OneVBlank, InFrame, Blanks
<1> QED BY <1>1, Invariance, PTL

\* No interrupt right after EI, and none that waits longer: see EIDelay.
THEOREM EIDelayCorrect == Spec => EIDelay
<1> DEFINE A == running => /\ served' => msx.IFF1 \/ msx.EI
                           /\ (msx.EI /\ msx'.IFF1 /\ running') => msx'.IRequest = "none"
<1>1. IInv /\ [Next]_vars => [A]_vars
  <2> SUFFICES ASSUME IInv, Next PROVE A
    BY DEF vars
  <2>1. CASE RunZ80
    BY <2>1, InstructionKeeps DEF RunZ80, Executes
  <2>2. CASE retro_run \/ ResetMSX \/ LoadState
    BY <2>2 DEF retro_run, ResetMSX, LoadState, Loaded
  <2> QED BY <2>1, <2>2 DEF Next
<1> QED BY <1>1, Invariance, PTL DEF Spec, EIDelay
=============================================================================
