----------------------------- MODULE VdpCommands -----------------------------
(***************************************************************************)
(* The command engine of the V9938 video processor, fMSX/V9938.c, and what *)
(* MSX.c does to it.  The program puts the arguments of a command in the   *)
(* registers R#32..R#45 and the command in R#46; VdpEngine then copies,    *)
(* fills or searches in VRAM a slice at a time: LoopVDP() gives it Slice   *)
(* cycles in every scanline, and whatever it has not finished waits in MMC *)
(* for the next one.  Three commands pass pixels between the CPU and VRAM, *)
(* one for each access to R#44 or to status register 7, while the bit TR   *)
(* says whose turn it is.                                                  *)
(*                                                                         *)
(* Pixels have no colours here.  A move of a pixel is where it comes from  *)
(* and where it goes to; colours from the CPU are numbered in the order    *)
(* the program sends them.                                                 *)
(***************************************************************************)
EXTENDS Integers, Sequences, SequencesExt, FiniteSetsExt

CONSTANTS
  Modes,    \* screen modes; commands are made for 5..8
  PPL, PPB, \* pixels of a line and of a byte in the screen modes 5..8
  Rows,     \* lines of VRAM in those, 1024 or 512
  Columns,  \* range of the X registers, 512
  Lines,    \* range of the Y registers and of the counters, 1024
  Slice,    \* VDP cycles of a scanline, 12500
  Deltas,   \* VDP cycles of a pixel
  Args,     \* arguments the program gives while no command runs
  LateArgs, \* and while one does
  Ops,      \* commands it gives
  SavedStates \* registers in the states a user loads

Screens5To8 == 5 .. 8
Registers ==
  [sx : Nat, sy : Nat, dx : Nat, dy : Nat, nx : Nat, ny : Nat,
   left : BOOLEAN, up : BOOLEAN, ymajor : BOOLEAN]
NoArgs == [sx |-> 0, sy |-> 0, dx |-> 0, dy |-> 0, nx |-> 0, ny |-> 0,
           left |-> FALSE, up |-> FALSE, ymajor |-> FALSE]

ASSUME GeometryAssumption ==
  /\ Modes \subseteq 0 .. 8
  /\ PPL \in [Screens5To8 -> Nat \ {0}] /\ PPB \in [Screens5To8 -> Nat \ {0}]
  /\ Rows \in [Screens5To8 -> Nat \ {0}]
  /\ \A m \in Screens5To8 : Columns % PPL[m] = 0 /\ PPL[m] % PPB[m] = 0
  /\ Columns \in Nat \ {0} /\ Lines \in Nat \ {0}
ASSUME TimingAssumption ==
  /\ Slice \in Nat
  /\ Deltas \subseteq 1 .. Slice - 1 /\ Deltas # {}
ASSUME ArgsAssumption == Args \cup LateArgs \subseteq Registers
ASSUME StatesAssumption ==
  SavedStates \subseteq
    [mode : Modes, ce : BOOLEAN, tr : BOOLEAN, bd : BOOLEAN, reg : Registers]

VARIABLES
  ScrMode,
  engine,     \* VdpEngine: the name of a command, or "none"
  MMC,        \* its counters
  ops,        \* VdpOpsCnt: cycles left of this slice, or owed to the next one
  CE, TR, BD, \* bits of status register 2: executing, transfer, border
  reg,        \* R#32..R#43, R#45
  clr,        \* which colour of a transfer R#44 holds, 0 for none
  s7,         \* which pixel of a transfer status register 7 holds, 0 for none
  cmd,        \* history: the command started last, while the history is kept
  done,       \* history: the moves it has made
  got         \* history: the pixel the program read last
vars == <<ScrMode, engine, MMC, ops, CE, TR, BD, reg, clr, s7, cmd, done, got>>

(***************************************************************************)
(* Commands.                                                               *)
(***************************************************************************)
ByteOps  == {"HMMV", "HMMM", "YMMM", "HMMC"}
CpuReads == {"LMCM"}
CpuSends == {"LMMC", "HMMC"}
CpuOps   == CpuReads \cup CpuSends
AreaOps  == {"LMMV", "LMMM"} \cup ByteOps \cup CpuOps
Engines  == AreaOps \cup {"SRCH", "LINE"}
AutoOps == Engines \ CpuOps
Immediate == {"ABRT", "POINT", "PSET"}
ASSUME OpsAssumption == Ops \subseteq Engines \cup Immediate

\* The registers a loop moves along, and whether it counts the X direction.
LoopsSX == {"LMMM", "HMMM", "LMCM"}
LoopsDX == {"LMMV", "LMMC", "HMMV", "HMMC", "LMMM", "HMMM", "YMMM"}
LoopsSY == {"LMMM", "HMMM", "YMMM", "LMCM"}
LoopsDY == LoopsDX
CountsX == AreaOps \ {"YMMM"}

\* Whether x & PPL, a power of two: x has left the line on either side.
Beyond(x, ppl) == (x \div ppl) % 2 = 1

\* The byte or the pixel VDP_VRMP() finds in mode m.
Cell(m, e, x, y) ==
  <<"vram", (x % PPL[m]) \div (IF e \in ByteOps THEN PPB[m] ELSE 1), y % Rows[m]>>
FillColour == <<"fill", 0, 0>>
Sent(k) == <<"cpu", k, 0>>
Nowhere == <<"none", 0, 0>>

\* The moves of command e between sx, sy and dx, dy, k the colour in R#44.
MoveOf(m, e, sx, sy, dx, dy, k) ==
  [from |-> IF e \in {"LMMM", "HMMM", "YMMM", "LMCM", "SRCH"} THEN Cell(m, e, sx, sy)
            ELSE IF e \in CpuSends THEN Sent(k) ELSE FillColour,
   to   |-> IF e \in {"LMCM", "SRCH"} THEN Nowhere ELSE Cell(m, e, dx, dy)]

\* The counters with which VDPDraw() starts command e in mode m.
Fetched(m, e, r) ==
  LET n  == r.nx % Lines
      tx == IF e \in ByteOps THEN PPB[m] ELSE 1
      nx == IF e \in ByteOps THEN n \div PPB[m] ELSE n IN
  [SX |-> r.sx % Columns, SY |-> r.sy % Lines,
   DX |-> r.dx % Columns, DY |-> r.dy % Lines,
   TX |-> IF r.left THEN -tx ELSE tx, TY |-> IF r.up THEN -1 ELSE 1,
   NX |-> nx, NY |-> r.ny % Lines, MX |-> PPL[m],
   ASX |-> IF e = "LINE" THEN (nx - 1) \div 2 ELSE r.sx % Columns,
   ADX |-> IF e = "LINE" THEN 0 ELSE r.dx % Columns,
   ANX |-> nx]
Counters == [SX : Int, SY : Int, DX : Int, DY : Int, TX : Int, TY : Int, NX : Int,
             NY : Int, MX : Int, ASX : Int, ADX : Int, ANX : Int]
NoMMC == [SX |-> 0, SY |-> 0, DX |-> 0, DY |-> 0, TX |-> 0, TY |-> 0, NX |-> 0,
          NY |-> 0, MX |-> 0, ASX |-> 0, ADX |-> 0, ANX |-> 0]
NoCmd == [op |-> "none", mode |-> 0, at |-> NoMMC, ymajor |-> FALSE]

Init ==
  /\ ScrMode = 0 /\ engine = "none" /\ MMC = NoMMC /\ ops = 1
  /\ CE = FALSE /\ TR = FALSE /\ BD = FALSE
  /\ reg = NoArgs /\ clr = 0 /\ s7 = 0
  /\ cmd = NoCmd /\ done = <<>> /\ got = 0

\* What the functions of V9938.c change, and its change to v.  The history is
\* that of command c, if there is one to tell of.
Vdp == [engine |-> engine, mmc |-> MMC, ops |-> ops, ce |-> CE, tr |-> TR, bd |-> BD,
        reg |-> reg, clr |-> clr, s7 |-> s7, done |-> done, got |-> got]
Becomes(v, c) ==
  /\ engine' = v.engine /\ MMC' = v.mmc /\ ops' = v.ops /\ reg' = v.reg
  /\ CE' = v.ce /\ TR' = v.tr /\ BD' = v.bd
  /\ cmd' = c
  /\ IF c = NoCmd THEN clr' = 0 /\ s7' = 0 /\ done' = <<>> /\ got' = 0
     ELSE clr' = v.clr /\ s7' = v.s7 /\ done' = v.done /\ got' = v.got

(***************************************************************************)
(* One pass through the loop of each engine, which leaves the counters mmc *)
(* and says whether the command is over.                                   *)
(***************************************************************************)
Pass(mmc, over) == [mmc |-> mmc, over |-> over]

\* The end of a command: SY and DY go on by a line also after the last one,
\* but not where the count of lines has wrapped, and LMCM forgets SY.
Ended_SameLine(e, mmc, ny) == [mmc EXCEPT !.NY = ny]
Ended(e, mmc, ny) ==
  LET counted == ny % Lines = 0
      onSY == e \in LoopsSY /\ (~counted \/ (ny = 0 /\ e # "LMCM"))
      onDY == e \in LoopsDY /\ (~counted \/ ny = 0) IN
  [mmc EXCEPT !.NY = ny,
              !.SY = IF onSY THEN @ + mmc.TY ELSE @,
              !.DY = IF onDY THEN @ + mmc.TY ELSE @]

\* post__x_y, post__xyy, post_xxyy, and the same in the engines of the CPU.
AreaPass(e, mmc, ppl) ==
  LET anx == IF e \in CountsX THEN mmc.ANX - 1 ELSE mmc.ANX
      asx == IF e \in LoopsSX THEN mmc.ASX + mmc.TX ELSE mmc.ASX
      adx == IF e \in LoopsDX THEN mmc.ADX + mmc.TX ELSE mmc.ADX
      sy  == IF e \in LoopsSY THEN mmc.SY + mmc.TY ELSE mmc.SY
      dy  == IF e \in LoopsDY THEN mmc.DY + mmc.TY ELSE mmc.DY
      ny  == mmc.NY - 1
      lineOver == \/ e \in CountsX /\ anx = 0
                  \/ e \in LoopsSX /\ Beyond(asx, ppl)
                  \/ e \in LoopsDX /\ Beyond(adx, ppl)
      allOver  == ny % Lines = 0 \/ sy = -1 \/ dy = -1 IN
  IF ~lineOver THEN Pass([mmc EXCEPT !.ANX = anx, !.ASX = asx, !.ADX = adx], FALSE)
  ELSE IF allOver THEN Pass(Ended(e, mmc, ny), TRUE)
  ELSE Pass([mmc EXCEPT !.ANX = mmc.NX, !.ASX = mmc.SX, !.ADX = mmc.DX,
                        !.SY = sy, !.DY = dy, !.NY = ny], FALSE)

\* post_linexmaj and post_lineymaj.
LinePass(mmc, ppl) ==
  LET less == mmc.ASX - mmc.NY
      asx  == (IF less < 0 THEN less + mmc.NX ELSE less) % Lines
      dx   == IF ~reg.ymajor \/ less < 0 THEN mmc.DX + mmc.TX ELSE mmc.DX
      dy   == IF reg.ymajor \/ less < 0 THEN mmc.DY + mmc.TY ELSE mmc.DY IN
  Pass([mmc EXCEPT !.DX = dx, !.DY = dy, !.ASX = asx, !.ADX = @ + 1],
       mmc.ADX = mmc.NX \/ Beyond(dx, ppl))

\* post_srch, where the pixel is not the one looked for.
SearchPass(mmc, ppl) ==
  Pass([mmc EXCEPT !.SX = @ + mmc.TX], Beyond(mmc.SX + mmc.TX, ppl))

PassOf(e, mmc) ==
  CASE e = "SRCH" -> SearchPass(mmc, PPL[ScrMode])
    [] e = "LINE" -> LinePass(mmc, PPL[ScrMode])
    [] OTHER      -> AreaPass(e, mmc, PPL[ScrMode])

\* What a pass moves.
Moved(e, mmc, k) ==
  CASE e = "SRCH" -> MoveOf(ScrMode, e, mmc.SX, mmc.SY, 0, 0, k)
    [] e = "LINE" -> MoveOf(ScrMode, e, 0, 0, mmc.DX, mmc.DY, k)
    [] e = "YMMM" -> MoveOf(ScrMode, e, mmc.ADX, mmc.SY, mmc.ADX, mmc.DY, k)
    [] OTHER      -> MoveOf(ScrMode, e, mmc.ASX, mmc.SY, mmc.ADX, mmc.DY, k)

(***************************************************************************)
(* A slice of an engine: as many passes as n cycles allow at d each.  The  *)
(* loop "while((cnt-=delta)>0)" is a function of the passes it makes; one  *)
(* after the end of the command changes nothing.  SRCH finds its pixel in  *)
(* pass number found, if it gets there.                                    *)
(***************************************************************************)
Passes(n, d) == (n - 1) \div d

Moves == [from : {"fill", "cpu", "vram"} \X Nat \X Nat, to : {"none", "vram"} \X Nat \X Nat]
Loop(e, mmc, passes, found) ==
  LET run[n \in 0 .. passes] ==
        IF n = 0 THEN [mmc |-> mmc, over |-> FALSE, moves |-> <<>>]
        ELSE LET r == run[n - 1]
                 pass == PassOf(e, r.mmc) IN
             IF r.over THEN r
             ELSE [mmc   |-> IF n = found THEN r.mmc ELSE pass.mmc,
                   over  |-> n = found \/ pass.over,
                   moves |-> Append(r.moves, Moved(e, r.mmc, 0))]
  IN run[passes]

\* The registers a command leaves at its end.
Results(e, mmc) ==
  [reg EXCEPT !.ny = IF e \in AreaOps THEN mmc.NY % Lines ELSE @,
              !.sy = IF e \in LoopsSY THEN mmc.SY % Lines ELSE @,
              !.dy = IF e \in LoopsDY \cup {"LINE"} THEN mmc.DY % Lines ELSE @]

\* The engine goes on with counters mmc, or ends, after which nothing reads
\* its counters.
GoOn_FullLine(v, mmc) == [v EXCEPT !.mmc = [mmc EXCEPT !.ANX = mmc.NX]]
GoOn(v, mmc) == [v EXCEPT !.mmc = mmc]
Finish(v, mmc) == [v EXCEPT !.mmc = NoMMC, !.engine = "none", !.ce = FALSE,
                            !.reg = Results(v.engine, mmc)]

\* The commands of the VDP alone: a slice of pixels that take d cycles each.
\* In other modes than 5..8 there is no loop, and the command is over.
Worked(v, d, r) ==
  LET k == Len(r.moves)
      w == [v EXCEPT !.done = @ \o r.moves] IN
  IF r.over THEN [Finish(w, r.mmc) EXCEPT !.ops = @ - k * d]
  ELSE [GoOn(w, r.mmc) EXCEPT !.ops = @ - (k + 1) * d]
Searched(v, d, found) ==
  LET r == Loop(v.engine, v.mmc, Passes(v.ops, d), found) IN
  [Worked(v, d, r) EXCEPT !.bd = IF r.over THEN Len(r.moves) = found ELSE @]
Work(v) ==
  IF ScrMode \notin Screens5To8
  THEN {Finish(v, IF v.engine \in AreaOps /\ v.mmc.NY = 0 THEN Ended(v.engine, v.mmc, 0)
                  ELSE v.mmc)}
  ELSE IF v.engine = "SRCH"
  THEN {Searched(v, d, found) : d \in Deltas, found \in 1 .. v.ops}
  ELSE {Worked(v, d, Loop(v.engine, v.mmc, Passes(v.ops, d), 0)) : d \in Deltas}

\* The commands that wait for the CPU: a pixel if TR is clear.  In other modes
\* than 5..8 VDPVRMP() is the first byte of VRAM, and no pixel is set.
TransferMoves(v) ==
  IF ScrMode \in Screens5To8 THEN <<Moved(v.engine, v.mmc, v.clr)>>
  ELSE IF v.engine = "HMMC" THEN <<[from |-> Sent(v.clr), to |-> <<"vram", 0, 0>>]>>
  ELSE <<>>
Transfer(v) ==
  LET pass == AreaPass(v.engine, v.mmc, v.mmc.MX)
      w    == [v EXCEPT !.tr = TRUE,
                        !.done = @ \o TransferMoves(v),
                        !.s7 = IF v.engine \in CpuReads THEN Len(v.done) + 1 ELSE @] IN
  IF v.tr THEN {v}
  ELSE {[IF pass.over THEN Finish(w, pass.mmc) ELSE GoOn(w, pass.mmc)
         EXCEPT !.ops = @ - d] : d \in Deltas}

\* VdpEngine(), if there is one and cycles for it.
VdpEngine(v) ==
  IF v.engine = "none" \/ v.ops <= 0 THEN {v}
  ELSE IF v.engine \in CpuOps THEN Transfer(v) ELSE Work(v)

(***************************************************************************)
(* A scanline: LoopVDP() pays for the pixel that did not fit in the last   *)
(* slice.                                                                  *)
(***************************************************************************)
Refilled_Never(n) == n
Refilled(n) == IF n <= 0 THEN n + Slice ELSE Slice

LoopVDP ==
  /\ UNCHANGED ScrMode
  /\ \E v \in VdpEngine([Vdp EXCEPT !.ops = Refilled(ops)]) : Becomes(v, cmd)

(***************************************************************************)
(* The program.  It writes the argument registers in one step: a running   *)
(* engine looks at none but the direction bit of R#45, and at that in LINE *)
(* only.  The history of a command that has ended is dropped then.         *)
(***************************************************************************)
WriteArgs(a) ==
  /\ Becomes([Vdp EXCEPT !.reg = a],
             IF engine = "none" \/ (engine = "LINE" /\ a.ymajor # reg.ymajor) THEN NoCmd
             ELSE cmd)
  /\ UNCHANGED ScrMode

\* VDPWrite(): a colour into R#44.  A program that keeps to the handshake sends
\* one while TR is set, and none during LMCM.
VDPWrite(v) == VdpEngine([v EXCEPT !.tr = FALSE])

WriteColour ==
  LET correct == cmd.op \notin CpuReads /\ (engine \in CpuOps => TR) IN
  /\ \E v \in VDPWrite([Vdp EXCEPT !.clr = IF engine \in CpuSends THEN @ + 1 ELSE @]) :
       Becomes(v, IF correct THEN cmd ELSE NoCmd)
  /\ UNCHANGED ScrMode

\* VDPRead(), in a read of status register 7: the program gets what that held
\* before.  It reads while TR is set, and not while it has to send colours.
VDPRead(v) == VdpEngine([v EXCEPT !.tr = FALSE, !.got = v.s7])

ReadPixel ==
  LET correct == engine \notin CpuSends /\ (cmd.op \in CpuReads => TR) IN
  /\ \E v \in VDPRead(Vdp) : Becomes(v, IF correct THEN cmd ELSE NoCmd)
  /\ UNCHANGED ScrMode

\* VDPDraw() with a command that runs, which it does at once if there are
\* cycles left.  No history is kept of LINE with its longer side in NY, or of
\* LMCM with TR set.
Started_Owing(v) == {v}
Started(v) == VdpEngine(v)

Draw(e) ==
  LET at   == Fetched(ScrMode, e, reg)
      kept == (e = "LINE" => at.NY <= at.NX) /\ (e = "LMCM" => ~TR)
      c    == [op |-> e, mode |-> ScrMode, at |-> at, ymajor |-> reg.ymajor] IN
  \E v \in Started([Vdp EXCEPT !.engine = e, !.mmc = at, !.ce = TRUE,
                               !.clr = IF e \in CpuSends /\ ~TR THEN 1 ELSE 0,
                               !.s7 = 0, !.got = 0, !.done = <<>>]) :
     Becomes(v, IF kept THEN c ELSE NoCmd)

\* VDPDraw() with one that does not: ABRT, POINT and PSET.
DrawNow == Becomes([Vdp EXCEPT !.engine = "none", !.mmc = NoMMC, !.ce = FALSE], NoCmd)

VDPDraw ==
  /\ ScrMode >= 5
  /\ UNCHANGED ScrMode
  /\ \E op \in Ops : IF op \in Immediate THEN DrawNow ELSE Draw(op)

\* R#0, R#1 and R#25 set the screen mode, with no regard to the engine.
SetScreen(mode) ==
  /\ ScrMode' = mode
  /\ Becomes(Vdp, IF mode = ScrMode THEN cmd ELSE NoCmd)

(***************************************************************************)
(* The machine: a reset and a loaded state set the registers, and leave    *)
(* the engine, its counters and cycles as they are.                        *)
(***************************************************************************)
ResetMSX ==
  /\ ScrMode' = 0
  /\ Becomes([Vdp EXCEPT !.ce = FALSE, !.tr = FALSE, !.bd = FALSE, !.reg = NoArgs], NoCmd)

\* A state saved at any time, in this session or another.
LoadState ==
  \E s \in SavedStates :
    /\ ScrMode' = s.mode
    /\ Becomes([Vdp EXCEPT !.ce = s.ce, !.tr = s.tr, !.bd = s.bd, !.reg = s.reg], NoCmd)

Next ==
  \/ LoopVDP
  \/ \E a \in IF engine = "none" THEN Args ELSE LateArgs : WriteArgs(a)
  \/ WriteColour \/ ReadPixel \/ VDPDraw
  \/ \E mode \in Modes : SetScreen(mode)
  \/ ResetMSX \/ LoadState

Spec == Init /\ [][Next]_vars
\* RunZ80() calls LoopZ80() for every scanline, and that LoopVDP().
FairSpec == Spec /\ WF_vars(LoopVDP)

(***************************************************************************)
(* What a command does, told without its loop: how far a line of it goes,  *)
(* how many lines it has, and where each of its moves is.                  *)
(***************************************************************************)
Least(S) == CHOOSE n \in S : \A k \in S : n <= k

\* Command c has gone n pixels along a line.
Step(c, n) == c.at.TX * n
LineEnds(c, n) ==
  \/ c.op \in CountsX /\ n = c.at.NX
  \/ c.op \in LoopsSX \cup {"SRCH"} /\ Beyond(c.at.SX + Step(c, n), PPL[c.mode])
  \/ c.op \in LoopsDX /\ Beyond(c.at.DX + Step(c, n), PPL[c.mode])
LineLength(c) == Least({n \in 1 .. Columns + 1 : LineEnds(c, n)})
\* It has drawn n lines.
AreaEnds(c, n) ==
  \/ (c.at.NY - n) % Lines = 0
  \/ c.op \in LoopsSY /\ c.at.SY + c.at.TY * n = -1
  \/ c.op \in LoopsDY /\ c.at.DY + c.at.TY * n = -1
LineCount(c) == Least({n \in 1 .. Lines : AreaEnds(c, n)})

\* The n-th pixel of line m + 1, move k of the command.
AreaMove(c, n, m, k) ==
  LET x == Step(c, n)
      y == c.at.TY * m IN
  MoveOf(c.mode, c.op, (IF c.op = "YMMM" THEN c.at.DX ELSE c.at.SX) + x,
         c.at.SY + y, c.at.DX + x, c.at.DY + y, k)
AreaPlan(c) ==
  LET length == LineLength(c) IN
  [k \in 1 .. length * LineCount(c) |->
     AreaMove(c, (k - 1) % length, (k - 1) \div length, k)]

SearchPlan(c) ==
  [k \in 1 .. LineLength(c) |->
     MoveOf(c.mode, "SRCH", c.at.SX + Step(c, k - 1), c.at.SY, 0, 0, 0)]

\* LINE goes n * NY / NX along its shorter side, rounded, while n along the
\* longer one.
Minor(c, n) ==
  IF c.at.NX = 0 THEN 0
  ELSE (n * c.at.NY + c.at.NX - 1 - (c.at.NX - 1) \div 2) \div c.at.NX
LineX(c, n) == c.at.DX + Step(c, IF c.ymajor THEN Minor(c, n) ELSE n)
LineY(c, n) == c.at.DY + c.at.TY * (IF c.ymajor THEN n ELSE Minor(c, n))
LinePixels(c) ==
  Least({n \in 1 .. c.at.NX + 1 : n = c.at.NX + 1 \/ Beyond(LineX(c, n), PPL[c.mode])})
LinePlan(c) ==
  [k \in 1 .. LinePixels(c) |->
     MoveOf(c.mode, "LINE", 0, 0, LineX(c, k - 1), LineY(c, k - 1), 0)]

Plan(c) == CASE c.op = "SRCH" -> SearchPlan(c)
             [] c.op = "LINE" -> LinePlan(c)
             [] OTHER         -> AreaPlan(c)

(***************************************************************************)
(* Properties.                                                             *)
(***************************************************************************)
\* Types, and the bound of VdpOpsCnt: LoopVDP() never owes more than a pixel,
\* and an engine that needs no CPU has spent its slice.
TypeOK ==
  /\ ScrMode \in Modes \cup {0}
  /\ engine \in Engines \cup {"none"}
  /\ MMC \in Counters /\ MMC.NY \in -Lines .. Lines - 1
  /\ \E d \in Deltas : ops \in 1 - d .. Slice
  /\ engine \in AutoOps => ops <= 0
  /\ CE \in BOOLEAN /\ TR \in BOOLEAN /\ BD \in BOOLEAN
  /\ reg \in Registers
  /\ clr \in Nat /\ s7 \in Nat /\ got \in Nat
  /\ done \in Seq(Moves)

\* The bit CE, which programs poll, is set as long as VdpEngine works at the
\* command and no longer: the ways to end a command in V9938.c all clear both.
BusyWhileEngine == cmd # NoCmd => CE = (engine # "none") /\ engine \in {cmd.op, "none"}

\* However the slices of LoopVDP() and the accesses of the CPU cut a command up,
\* it makes the moves that its registers mean, in this order, each of them once,
\* and is over after the last one; SRCH also where it has found its colour.
DrawsPlan ==
  LET plan == Plan(cmd) IN
  cmd # NoCmd =>
    /\ done = SubSeq(plan, 1, Len(done))
    /\ engine # "none" => Len(done) < Len(plan)
    /\ engine = "none" => done = plan \/ (cmd.op = "SRCH" /\ BD)

\* The handshake of LMMC, HMMC and LMCM by the bit TR, with colours and pixels
\* that wait for a later slice: none is lost, and none is used twice.
Handshake ==
  /\ cmd.op \in CpuSends /\ engine # "none" => Len(done) = clr - (IF TR THEN 0 ELSE 1)
  /\ cmd.op \in CpuReads => got = Len(done) - (IF TR THEN 1 ELSE 0)

\* The bits that programs poll, CE and TR, tell what the engine does.
StatusTrue == BusyWhileEngine /\ Handshake

\* Programs that poll the status see the command that is carried out, and in it
\* each pixel in its turn.
CommandsInStep == DrawsPlan /\ StatusTrue

\* Programs draw strips one below the other: at its end a command leaves SY and
\* DY at the line after its last one, and in NY the lines it has not drawn.
\* (Not so LMCM in SY, and no command that draws all lines there are.)
RegistersContinue ==
  [][LET after == cmd'.at.TY * LineCount(cmd') IN
     (engine' = "none" /\ cmd'.op \in AreaOps /\ (engine # "none" \/ done' # done)
        /\ ~(cmd'.at.NY = 0 /\ LineCount(cmd') = Lines)) =>
       /\ reg'.ny = (cmd'.at.NY - LineCount(cmd')) % Lines
       /\ cmd'.op \in LoopsSY \ {"LMCM"} => reg'.sy = (cmd'.at.SY + after) % Lines
       /\ cmd'.op \in LoopsDY => reg'.dy = (cmd'.at.DY + after) % Lines]_vars

\* A command that needs no CPU ends, unless the program starts commands for
\* ever: also in a screen mode that is changed under it, and after a reset or
\* a loaded state.
CommandsEnd == []<>(engine \notin AutoOps) \/ []<><<VDPDraw>>_vars
=============================================================================
