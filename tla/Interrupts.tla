----------------------------- MODULE Interrupts -----------------------------
(***************************************************************************)
(* Time and interrupts of the machine: RunZ80() and IntZ80() of Z80.c, the *)
(* instructions that touch the interrupt flip-flops, the scanlines that    *)
(* LoopZ80() of MSX.c counts, and the VDP registers a program uses to      *)
(* enable, acknowledge and place interrupts.                               *)
(*                                                                         *)
(* All of it is one record msx, which an instruction takes to another one  *)
(* in the order of the code: the instruction, the cycle counter, LoopZ80() *)
(* when that has expired, IntZ80() when something is requested.  A program *)
(* is any sequence of instructions.  Those that have nothing to do with    *)
(* interrupts are the one instruction "other".                             *)
(***************************************************************************)
EXTENDS Integers

CONSTANTS
  Videos,       \* values of the PAL and 212 lines bits of VDP[9]
  Border,       \* by video: first scanline of the bottom border, 192 or 212
  VBlankLine,   \* by video: scanline of the VBlank interrupt
  CoincEnd,     \* by video: line coincidence is active before this scanline
  LastLine,     \* by video: last scanline, 261 or 312
  PowerOnVideo, \* what VDPInit has in VDP[9]
  ExitLine,     \* scanline after which RunZ80() returns, 192
  Ring,         \* scanlines are compared modulo this, 256
  HPeriod,      \* CPU cycles of a scanline
  HRefreshes,   \* CPU cycles of its visible part, in the screen modes
  VPeriods,     \* CPU cycles of a frame on the host's side
  HLines,       \* values of VDP[19] - VScroll that programs set
  Cycles,       \* by instruction: numbers of cycles it takes
  SavedStates   \* what LoadState() may find

ASSUME LineAssumption ==
  /\ PowerOnVideo \in Videos
  /\ Border \in [Videos -> Nat \ {0}]
  /\ VBlankLine \in [Videos -> Nat]
  /\ CoincEnd \in [Videos -> Nat]
  /\ LastLine \in [Videos -> Nat]
  /\ \A v \in Videos : Border[v] < VBlankLine[v] /\ VBlankLine[v] < LastLine[v]
  /\ Ring \in Nat \ {0}
ASSUME TimeAssumption ==
  /\ HPeriod \in Nat \ {0}
  /\ HRefreshes \subseteq 1 .. HPeriod - 1
  /\ HRefreshes # {}
  /\ VPeriods \subseteq Nat
  /\ HLines \subseteq 0 .. Ring - 1
  /\ 0 \in HLines

\* Ports 98h..9Bh reach the VDP's registers; "S0" and "S1" read the status.
Writes == {"R0", "R1", "R9", "R19"}
Ops    == {"other", "EI", "DI", "HALT", "RETN", "S0", "S1"} \cup Writes
\* No two instructions take as long as either part of a scanline.
ASSUME CyclesAssumption ==
  /\ Cycles \in [Ops -> SUBSET (Nat \ {0})]
  /\ \A i, j \in Ops : \A c \in Cycles[i], d \in Cycles[j], h \in HRefreshes :
       c + d <= h /\ c + d <= HPeriod - h

\* What a program writes to a register.
Operands(op) == CASE op \in {"R0", "R1"} -> BOOLEAN
                  [] op = "R9"           -> Videos
                  [] op = "R19"          -> HLines
                  [] OTHER               -> {0}

VARIABLES
  msx,     \* the machine: see Machine
  Drawing, \* between the first scanline and the bottom border; LoopZ80() keeps it to itself
  running, \* within RunZ80()
  left,    \* history: cycles left until LoopZ80() is due, as a clock counts them
  served,  \* history: the last step accepted an interrupt
  steady   \* history: VDP[9] has not been changed since the first scanline

vars == <<msx, Drawing, running, left, served, steady>>

Lines == UNION {0 .. LastLine[v] : v \in Videos}
Machine ==
  [IFF1 : BOOLEAN, IFF2 : BOOLEAN, EI : BOOLEAN, HALT : BOOLEAN, \* bits of IFF
   ICount : Int, IBackup : Int,
   IRequest : {"none", "irq"},
   IRQPending : SUBSET {"IE0", "IE1"},
   F : BOOLEAN,        \* VBlank flag, VDPStatus[0] bit 7
   FH : BOOLEAN,       \* line coincidence flag, VDPStatus[1] bit 0
   HRefresh : BOOLEAN, \* VDPStatus[2] bit 5: set in HBlank
   VRefresh : BOOLEAN, \* VDPStatus[2] bit 6: set from VBlank on
   IE0 : BOOLEAN, IE1 : BOOLEAN, \* enable bits: VDP[1] bit 5, VDP[0] bit 4
   HLine : HLines, video : Videos, ScanLine : Lines]

\* ResetMSX() and ResetZ80(): the VDP comes up with F set and IE0 clear.
PowerOn ==
  [IFF1 |-> FALSE, IFF2 |-> FALSE, EI |-> FALSE, HALT |-> FALSE,
   ICount |-> CHOOSE h \in HRefreshes : TRUE, IBackup |-> 0,
   IRequest |-> "none", IRQPending |-> {},
   F |-> TRUE, FH |-> FALSE, HRefresh |-> TRUE, VRefresh |-> TRUE,
   IE0 |-> FALSE, IE1 |-> FALSE,
   HLine |-> 0, video |-> PowerOnVideo, ScanLine |-> 0]

\* What the cycle counter would be without EI's detour.
Budget(s) == IF s.EI THEN s.ICount + s.IBackup - 1 ELSE s.ICount

\* The request line against the VDP's flags and enable bits.
LineOf(s) == /\ (s.IRequest = "irq") <=> (s.IRQPending # {})
             /\ ("IE0" \in s.IRQPending) <=> (s.F /\ s.IE0)
             /\ ("IE1" \in s.IRQPending) => (s.FH /\ s.IE1)

\* States are saved between frames.
ASSUME SavedAssumption == \A s \in SavedStates : 
  s \in Machine /\ LineOf(s) /\ ~s.EI /\ (s.IFF2 => s.IFF1) /\ s.ICount > 0

-----------------------------------------------------------------------------
\* The interrupt line.

\* SetIRQ() with a bit, and with the complement of one.
WithPending(s, p) ==
  [s EXCEPT !.IRQPending = p, !.IRequest = IF p = {} THEN "none" ELSE "irq"]
Raise(s, i) == WithPending(s, s.IRQPending \cup {i})
Lower(s, i) == WithPending(s, s.IRQPending \ {i})

\* VDPOut(): clearing IE1 takes back the flag, IE0 gates the flag.
WriteIE1(s, on) ==
  LET t == IF s.FH /\ ~on THEN Lower([s EXCEPT !.FH = FALSE], "IE1") ELSE s
  IN  [t EXCEPT !.IE1 = on]
WriteIE0_OnlyRaises(s, on) ==
  [(IF s.F /\ on THEN Raise(s, "IE0") ELSE s) EXCEPT !.IE0 = on]
WriteIE0(s, on) ==
  LET t == IF ~s.F THEN s ELSE IF on THEN Raise(s, "IE0") ELSE Lower(s, "IE0")
  IN  [t EXCEPT !.IE0 = on]

\* InZ80(99h): reading a status register acknowledges its interrupt.
ReadS0(s) == Lower([s EXCEPT !.F = FALSE], "IE0")
ReadS1(s) == Lower([s EXCEPT !.FH = FALSE], "IE1")

-----------------------------------------------------------------------------
\* LoopZ80(), called twice in a scanline; h is the length of the visible part.

\* The visible part begins: a new scanline, perhaps with a line interrupt.
Coincidence(s) ==
  IF s.ScanLine >= CoincEnd[s.video] THEN s
  ELSE IF (s.ScanLine - s.HLine) % Ring # 2 THEN [s EXCEPT !.FH = @ /\ s.IE1]
  ELSE IF s.IE1 THEN Raise([s EXCEPT !.FH = TRUE], "IE1")
  ELSE [s EXCEPT !.FH = TRUE]
StartLine_WrapsLate(s, h) ==
  LET line == IF s.ScanLine <= LastLine[s.video] THEN s.ScanLine + 1 ELSE 0
  IN  Coincidence([s EXCEPT !.HRefresh = FALSE, !.ScanLine = line, !.VRefresh = @ /\ line # 0,
                            !.ICount = @ + h])
StartLine(s, h) ==
  LET line == IF s.ScanLine < LastLine[s.video] THEN s.ScanLine + 1 ELSE 0
      t == [s EXCEPT !.HRefresh = FALSE, !.ScanLine = line, !.VRefresh = @ /\ line # 0,
                     !.ICount = @ + h]
  IN  Coincidence(IF line = CoincEnd[t.video] THEN ReadS1(t) ELSE t)

\* HBlank begins.  The last one of a frame takes as long as the host's frame does.
Overtime(s, p) ==
  LET frame == (LastLine[s.video] + 1) * HPeriod
  IN  IF s.ScanLine >= LastLine[s.video] /\ p > frame THEN p - frame ELSE 0
DrawingAfter_NoBorder(s, drawing) == drawing \/ (s.HRefresh /\ s.ScanLine >= LastLine[s.video])
DrawingAfter(s, drawing) ==
  IF s.HRefresh THEN drawing \/ s.ScanLine >= LastLine[s.video]
                ELSE drawing /\ s.ScanLine # Border[s.video]
EndLine(s, h, p, drawing) ==
  LET t == [s EXCEPT !.HRefresh = TRUE, !.ICount = @ + HPeriod - h + Overtime(s, p)]
      u == [t EXCEPT !.F = TRUE, !.VRefresh = TRUE]
  IN  IF drawing \/ s.ScanLine # VBlankLine[s.video] THEN t
      ELSE IF s.IE0 THEN Raise(u, "IE0") ELSE u

LoopZ80(s, h, p) == IF s.HRefresh THEN StartLine(s, h)
                    ELSE EndLine(s, h, p, DrawingAfter(s, Drawing))

\* ExitNow is always set, so that every frame ends here with INT_QUIT.
Quits(s) == s.HRefresh /\ s.ScanLine = ExitLine

-----------------------------------------------------------------------------
\* RunZ80()

\* IntZ80() ends HALT even when interrupts are off.
Accepts(s) == s.IRequest # "none" /\ s.IFF1
IntZ80_StaysHalted(s) ==
  IF Accepts(s) THEN [s EXCEPT !.IFF1 = FALSE, !.IFF2 = FALSE, !.EI = FALSE] ELSE s
IntZ80(s) ==
  IF s.IRequest = "none" THEN s
  ELSE IF s.IFF1 THEN [s EXCEPT !.HALT = FALSE, !.IFF1 = FALSE, !.IFF2 = FALSE, !.EI = FALSE]
  ELSE [s EXCEPT !.HALT = FALSE]

\* EI hides the cycle counter, so that the next instruction ends with RunZ80() looking
\* for interrupts.  IBackup is only read until then and kept at 0 otherwise.
AfterEI(s) == [s EXCEPT !.EI = FALSE, !.IFF1 = TRUE, !.ICount = @ + s.IBackup - 1, !.IBackup = 0]
TakesEI(s) == ~s.IFF1 /\ ~s.EI
DoEI_AtOnce(s) == [s EXCEPT !.IFF1 = TRUE, !.IFF2 = TRUE]
DoEI(s) == IF TakesEI(s)
           THEN [s EXCEPT !.IFF2 = TRUE, !.EI = TRUE, !.IBackup = s.ICount, !.ICount = 1]
           ELSE s
DoDI_NoRestore(s) == [s EXCEPT !.IFF1 = FALSE, !.IFF2 = FALSE, !.EI = FALSE, !.IBackup = 0]
DoDI(s) == LET t == IF s.EI THEN [s EXCEPT !.ICount = @ + s.IBackup - 1] ELSE s
           IN  [t EXCEPT !.IFF1 = FALSE, !.IFF2 = FALSE, !.EI = FALSE, !.IBackup = 0]
DoHALT(s) == [s EXCEPT !.HALT = TRUE, !.IBackup = 0, !.ICount = 0]
DoRETN(s) == [s EXCEPT !.IFF1 = s.IFF2]

Effect(s, op, x) ==
  CASE op = "EI"   -> DoEI(s)
    [] op = "DI"   -> DoDI(s)
    [] op = "HALT" -> DoHALT(s)
    [] op = "RETN" -> DoRETN(s)
    [] op = "R0"   -> WriteIE1(s, x)
    [] op = "R1"   -> WriteIE0(s, x)
    [] op = "R9"   -> [s EXCEPT !.video = x]
    [] op = "R19"  -> [s EXCEPT !.HLine = x]
    [] op = "S0"   -> ReadS0(s)
    [] op = "S1"   -> ReadS1(s)
    [] op = "other" -> s

\* The counter has expired, for good or because of EI.
Expired(s)  == s.ICount <= 0
EndShadow(s) == IF Expired(s) /\ s.EI THEN AfterEI(s) ELSE s
LoopsNow(s) == Expired(EndShadow(s))   \* LoopZ80() is called after s
Looks(s)    == Expired(s)              \* RunZ80() looks for interrupts after s

AfterLoop(s, h, p) == IF LoopsNow(s) THEN LoopZ80(EndShadow(s), h, p) ELSE EndShadow(s)

\* HALT is executed again until an interrupt ends it.  A clock that runs beside the
\* code counts each instruction down and each period up; HALT waits for the period's
\* end, which comes one cycle late after EI.
Instruction(op, x, c, h, p) ==
  /\ running
  /\ msx.HALT => op = "HALT"
  /\ \E s \in {Effect([msx EXCEPT !.ICount = @ - c], op, x)} :
       \E t \in {AfterLoop(s, h, p)} :
         LET quit  == LoopsNow(s) /\ Quits(t)
             clock == IF op # "HALT" THEN left - c ELSE IF msx.EI THEN -1 ELSE 0
         IN  /\ msx' = IF Looks(s) /\ ~quit THEN IntZ80(t) ELSE t
             /\ Drawing' = IF LoopsNow(s) THEN DrawingAfter(EndShadow(s), Drawing) ELSE Drawing
             /\ running' = ~quit
             /\ left' = clock + (IF LoopsNow(s) THEN t.ICount - EndShadow(s).ICount ELSE 0)
             /\ served' = (Looks(s) /\ ~quit /\ Accepts(t))
             /\ steady' = ((steady \/ (t.ScanLine = 0 /\ t.ScanLine # s.ScanLine))
                           /\ t.video = msx.video)

\* A frame of retro_run(), and what the frontend does between two of them.
retro_run == /\ ~running
             /\ running' = TRUE
             /\ served' = FALSE
             /\ UNCHANGED <<msx, Drawing, left, steady>>
Loaded(s) == /\ ~running
             /\ msx' = s
             /\ left' = Budget(s)
             /\ served' = FALSE
             /\ steady' = FALSE
             /\ UNCHANGED <<Drawing, running>>
ResetMSX  == Loaded(PowerOn)
LoadState == \E s \in SavedStates : Loaded(s)

Init == /\ msx = PowerOn
        /\ Drawing = FALSE
        /\ running = FALSE
        /\ left = PowerOn.ICount
        /\ served = FALSE
        /\ steady = FALSE

Executes(op) == \E x \in Operands(op), c \in Cycles[op], h \in HRefreshes, p \in VPeriods :
                  Instruction(op, x, c, h, p)
RunZ80 == \E op \in Ops : Executes(op)

Next == RunZ80 \/ retro_run \/ ResetMSX \/ LoadState
Spec == Init /\ [][Next]_vars

\* The frontend runs frames, and in them the emulator goes on executing HALT.
FairSpec == Spec /\ WF_vars(Executes("HALT")) /\ WF_vars(retro_run)

-----------------------------------------------------------------------------
\* Type invariant.
TypeOK == /\ msx \in Machine
          /\ Drawing \in BOOLEAN
          /\ running \in BOOLEAN
          /\ left \in Int
          /\ served \in BOOLEAN
          /\ steady \in BOOLEAN

\* The CPU's request line is up exactly while the VDP has something pending, VBlank is
\* pending exactly while its flag and its enable bit are both set, and a line interrupt
\* only while both of its are: whatever the order in which scanlines set flags and the
\* program enables, disables and acknowledges, no interrupt comes from nothing, and no
\* VBlank gets lost or is delivered again after its flag was read.
LineFollowsFlags == LineOf(msx)

\* EI's detour through IBackup, ended by the next instruction, by DI or by HALT, neither
\* loses nor gains cycles, and LoopZ80() is not called early or late for it: scanlines
\* keep their length whatever the program does with the interrupt flip-flops.
CyclesKept == /\ left = Budget(msx)
              /\ left > 0 \/ msx.EI

\* In a frame in which VDP[9] does not change there is one VBlank, at its line: the vertical
\* retrace bit is set from that line on and not before.
OneVBlank ==
  steady => (msx.VRefresh <=> \/ msx.ScanLine > VBlankLine[msx.video]
                              \/ msx.ScanLine = VBlankLine[msx.video] /\ msx.HRefresh)

\* An interrupt is accepted at the end of an instruction only when interrupts were on before
\* it, or EI came before it: never right after EI.  But when the instruction after EI leaves
\* interrupts on, a request that is up does not wait for the next period.
EIDelay ==
  [][running => /\ served' => msx.IFF1 \/ msx.EI
                /\ (msx.EI /\ msx'.IFF1 /\ running') => msx'.IRequest = "none"]_vars

\* A program that halts with interrupts on and VBlank enabled goes on, whatever mode the
\* screen was switched to in the middle of the frame.
HaltEnds == (msx.HALT /\ msx.IFF1 /\ msx.IE0) ~> ~msx.HALT
=============================================================================
