------------------------- MODULE VdpCommandsProofs -------------------------
(***************************************************************************)
(* Theorems about VdpCommands: its types with the bound of VdpOpsCnt, the  *)
(* truth of the bits CE and TR, that every command makes the moves of its  *)
(* plan however it is cut up, and where it leaves the registers, for every *)
(* geometry and timing that the assumptions allow.  Each pass of a loop is *)
(* followed from one place of a command to the next one; a lemma carries   *)
(* that over to the loops, and lemmas about each handler to the steps.     *)
(***************************************************************************)
EXTENDS VdpCommands, SequenceTheorems, WellFoundedInduction, TLAPS

\* What the functions of V9938.c work on.
Machine ==
  [engine : Engines \cup {"none"}, mmc : Counters, ops : Int, ce : BOOLEAN,
   tr : BOOLEAN, bd : BOOLEAN, reg : Registers, clr : Nat, s7 : Nat,
   done : Seq(Moves), got : Nat]
Passed == [mmc : Counters, over : BOOLEAN]
Run    == [mmc : Counters, over : BOOLEAN, moves : Seq(Moves)]

\* The lines that a command has left, which are negative where it had 0; the
\* cycles that an engine is left with.
FewLines(mmc) == mmc.NY \in 1 - Lines .. Lines - 1
Owed(n) == \E d \in Deltas : n \in 1 - d .. Slice

-----------------------------------------------------------------------------
\* Numbers

LEMMA Constants ==
  /\ Columns \in Nat \ {0} /\ Lines \in Nat \ {0} /\ Slice \in Nat
  /\ \A d \in Deltas : d \in Nat \ {0} /\ d < Slice
  /\ \A m \in Screens5To8 : /\ PPL[m] \in Nat \ {0} /\ PPB[m] \in Nat \ {0}
                            /\ Rows[m] \in Nat \ {0}
                            /\ Columns % PPL[m] = 0 /\ PPL[m] % PPB[m] = 0
<1>1. \A d \in Deltas : d \in 1 .. Slice - 1
  BY TimingAssumption
<1>2. \A m \in Screens5To8 : /\ PPL[m] \in Nat \ {0} /\ PPB[m] \in Nat \ {0}
                             /\ Rows[m] \in Nat \ {0}
  BY GeometryAssumption
<1> QED BY <1>1, <1>2, GeometryAssumption, TimingAssumption

LEMMA DivisionType ==
  ASSUME NEW a \in Int, NEW b \in Nat \ {0}
  PROVE  /\ a \div b \in Int /\ a % b \in 0 .. b - 1 /\ a = b * (a \div b) + (a % b)
         /\ a >= 0 => a \div b \in Nat
OBVIOUS

LEMMA QuotientLess ==
  ASSUME NEW a \in Nat, NEW b \in Nat \ {0}
  PROVE  a \div b \in Nat /\ a \div b <= a
<1> DEFINE q == a \div b
           r == a % b
<1>0. a \in Int /\ a >= 0
  OBVIOUS
<1>1. q \in Nat /\ r \in 0 .. b - 1 /\ a = b * q + r
  BY <1>0, DivisionType
<1> HIDE DEF q, r
<1>2. b * q >= q
  BY <1>1
<1>3. q \in Nat /\ q <= a
  BY <1>1, <1>2
<1> QED BY <1>3 DEF q

LEMMA DivisionIs ==
  ASSUME NEW b \in Nat \ {0}, NEW q \in Int, NEW r \in 0 .. b - 1
  PROVE  (b * q + r) \div b = q /\ (b * q + r) % b = r
<1> DEFINE a == b * q + r
           p == a \div b
<1>1. a \in Int
  OBVIOUS
<1>2. p \in Int /\ a % b \in 0 .. b - 1 /\ a = b * p + (a % b)
  BY <1>1, DivisionType
<1>3. p = q
  <2>1. b * (p - q) = r - (a % b) /\ p - q \in Int
    BY <1>2
  <2>2. p - q > 0 => b * (p - q) >= b
    BY <2>1
  <2>3. p - q < 0 => b * (p - q) <= -b
    BY <2>1
  <2> QED BY <1>2, <2>1, <2>2, <2>3
<1> QED BY <1>1, <1>2, <1>3

-----------------------------------------------------------------------------
\* Induction

LEMMA LeastElement ==
  ASSUME NEW T, T \subseteq Nat, T # {}
  PROVE  \E x \in T : \A y \in T : ~(y < x)
<1> DEFINE R == {p \in Nat \X Nat : p[1] < p[2]}
<1>1. IsWellFoundedOn(R, Nat)
  BY NatLessThanWellFounded DEF OpToRel
<1>2. \A x, y \in T : y < x => <<y, x>> \in R
  OBVIOUS
<1> HIDE DEF R
<1>3. PICK x \in T : \A y \in T : ~(<<y, x>> \in R)
  BY <1>1, WFMin
<1> QED BY <1>2, <1>3

LEMMA SetInduction ==
  ASSUME NEW S, 0 \in S, \A k \in Nat : k \in S => k + 1 \in S
  PROVE  Nat \subseteq S
<1> SUFFICES ASSUME Nat \ S # {} PROVE FALSE
  OBVIOUS
<1>1. PICK x \in Nat \ S : \A y \in Nat \ S : ~(y < x)
  BY LeastElement
<1>2. x # 0 /\ x \in Nat /\ x - 1 \in Nat /\ x - 1 < x /\ (x - 1) + 1 = x
  OBVIOUS
<1>3. x - 1 \in S
  BY <1>1, <1>2
<1> QED BY <1>2, <1>3

\* Up to a bound.
LEMMA BoundedInduction ==
  ASSUME NEW n \in Nat, NEW S, 0 \in S, \A k \in 1 .. n : k - 1 \in S => k \in S
  PROVE  \A k \in 0 .. n : k \in S
<1> DEFINE T == {k \in Nat : k <= n => k \in S}
<1>1. 0 \in T
  OBVIOUS
<1>2. ASSUME NEW k \in Nat, k \in T PROVE k + 1 \in T
  <2>1. CASE k + 1 <= n
    <3>1. k \in S /\ k + 1 \in 1 .. n /\ (k + 1) - 1 = k
      BY <1>2, <2>1
    <3> QED BY <3>1
  <2> QED BY <2>1
<1> HIDE DEF T
<1>3. Nat \subseteq T
  BY <1>1, <1>2, SetInduction
<1> QED BY <1>3 DEF T

\* What becomes of a first value by n steps, where a step depends on its number.
Steps(V) == [Nat \X V -> V]
Courses(V, first, step, n) ==
  {f \in [0 .. n -> V] : f[0] = first /\ \A k \in 1 .. n : f[k] = step[<<k, f[k - 1]>>]}

LEMMA Recursion ==
  ASSUME NEW V, NEW first \in V, NEW step \in Steps(V), NEW n \in Nat
  PROVE  Courses(V, first, step, n) # {}
<1>0. step \in [Nat \X V -> V]
  BY DEF Steps
<1> DEFINE Is(f, m) == f[0] = first /\ \A k \in 1 .. m : f[k] = step[<<k, f[k - 1]>>]
           S == {m \in Nat : \E f \in [0 .. m -> V] : Is(f, m)}
<1>1. 0 \in S
  <2>1. [k \in 0 .. 0 |-> first] \in [0 .. 0 -> V] /\ Is([k \in 0 .. 0 |-> first], 0)
    OBVIOUS
  <2> QED BY <2>1
<1>2. ASSUME NEW m \in Nat, m \in S PROVE m + 1 \in S
  <2>1. PICK f \in [0 .. m -> V] : Is(f, m)
    BY <1>2
  <2> DEFINE g == [k \in 0 .. m + 1 |-> IF k = m + 1 THEN step[<<m + 1, f[m]>>] ELSE f[k]]
  <2>2. g \in [0 .. m + 1 -> V]
    <3>1. f[m] \in V /\ <<m + 1, f[m]>> \in Nat \X V
      OBVIOUS
    <3>2. \A k \in 0 .. m + 1 : k = m + 1 \/ k \in 0 .. m
      OBVIOUS
    <3> QED BY <1>0, <3>1, <3>2
  <2>3. \A k \in 0 .. m : g[k] = f[k]
    OBVIOUS
  <2>4. g[m + 1] = step[<<m + 1, g[m]>>]
    <3>1. g[m + 1] = step[<<m + 1, f[m]>>]
      OBVIOUS
    <3>2. g[m] = f[m]
      BY <2>3
    <3> HIDE DEF g
    <3> QED BY <3>1, <3>2
  <2> HIDE DEF g
  <2>5. g[0] = first
    BY <2>1, <2>3
  <2>6. ASSUME NEW k \in 1 .. m + 1 PROVE g[k] = step[<<k, g[k - 1]>>]
    <3>1. CASE k = m + 1
      <4>1. k - 1 = m
        BY <3>1
      <4> QED BY <2>4, <3>1, <4>1
    <3>2. CASE k # m + 1
      <4>1. k \in 1 .. m /\ k \in 0 .. m /\ k - 1 \in 0 .. m
        BY <3>2
      <4> QED BY <2>1, <2>3, <4>1
    <3> QED BY <3>1, <3>2
  <2> QED BY <2>2, <2>5, <2>6
<1> HIDE DEF S
<1>3. n \in S
  BY <1>1, <1>2, SetInduction
<1> QED BY <1>3 DEF S, Courses

-----------------------------------------------------------------------------
\* Types of moves and passes

LEMMA CellType ==
  ASSUME NEW m \in Screens5To8, NEW e, NEW x \in Int, NEW y \in Int
  PROVE  Cell(m, e, x, y) \in {"vram"} \X Nat \X Nat
<1> DEFINE b == IF e \in ByteOps THEN PPB[m] ELSE 1
<1>1. b \in Nat \ {0} /\ PPL[m] \in Nat \ {0} /\ Rows[m] \in Nat \ {0}
  BY Constants
<1>2. x % PPL[m] \in 0 .. PPL[m] - 1 /\ y % Rows[m] \in 0 .. Rows[m] - 1
  BY <1>1, DivisionType
<1>3. (x % PPL[m]) \div b \in Nat
  <2> HIDE DEF b
  <2> QED BY <1>1, <1>2, DivisionType
<1>4. Cell(m, e, x, y) = <<"vram", (x % PPL[m]) \div b, y % Rows[m]>>
  BY DEF Cell
<1> HIDE DEF b
<1> QED BY <1>2, <1>3, <1>4

LEMMA MoveType ==
  ASSUME NEW m \in Screens5To8, NEW e, NEW sx \in Int, NEW sy \in Int, NEW dx \in Int,
         NEW dy \in Int, NEW k \in Nat
  PROVE  MoveOf(m, e, sx, sy, dx, dy, k) \in Moves
<1>1. /\ Cell(m, e, sx, sy) \in {"vram"} \X Nat \X Nat
      /\ Cell(m, e, dx, dy) \in {"vram"} \X Nat \X Nat
  BY CellType
<1>2. Sent(k) \in {"cpu"} \X Nat \X Nat /\ FillColour \in {"fill"} \X Nat \X Nat
  BY DEF Sent, FillColour
<1>3. Nowhere \in {"none"} \X Nat \X Nat
  BY DEF Nowhere
<1>4. \A c : /\ c \in {"vram"} \X Nat \X Nat => c \in {"none", "vram"} \X Nat \X Nat
             /\ c \in {"vram"} \X Nat \X Nat => c \in {"fill", "cpu", "vram"} \X Nat \X Nat
             /\ c \in {"cpu"} \X Nat \X Nat => c \in {"fill", "cpu", "vram"} \X Nat \X Nat
             /\ c \in {"fill"} \X Nat \X Nat => c \in {"fill", "cpu", "vram"} \X Nat \X Nat
             /\ c \in {"none"} \X Nat \X Nat => c \in {"none", "vram"} \X Nat \X Nat
  OBVIOUS
<1> DEFINE from == IF e \in {"LMMM", "HMMM", "YMMM", "LMCM", "SRCH"} THEN Cell(m, e, sx, sy)
                   ELSE IF e \in CpuSends THEN Sent(k) ELSE FillColour
           to   == IF e \in {"LMCM", "SRCH"} THEN Nowhere ELSE Cell(m, e, dx, dy)
<1>5. from \in {"fill", "cpu", "vram"} \X Nat \X Nat
  BY <1>1, <1>2, <1>4
<1>6. to \in {"none", "vram"} \X Nat \X Nat
  BY <1>1, <1>3, <1>4
<1>7. MoveOf(m, e, sx, sy, dx, dy, k) = [from |-> from, to |-> to]
  BY DEF MoveOf
<1> HIDE DEF from, to
<1> QED BY <1>5, <1>6, <1>7 DEF Moves

LEMMA MovedType ==
  ASSUME ScrMode \in Screens5To8, NEW e, NEW mmc \in Counters, NEW k \in Nat
  PROVE  Moved(e, mmc, k) \in Moves
<1>1. /\ mmc.SX \in Int /\ mmc.SY \in Int /\ mmc.DX \in Int /\ mmc.DY \in Int
      /\ mmc.ASX \in Int /\ mmc.ADX \in Int /\ 0 \in Int
  BY DEF Counters
<1> QED BY <1>1, MoveType DEF Moved

LEMMA EndedType ==
  ASSUME NEW e, NEW mmc \in Counters, NEW ny \in Int
  PROVE  /\ Ended(e, mmc, ny) \in Counters
         /\ Ended(e, mmc, ny).NY = ny
         /\ Ended(e, mmc, ny).SY =
              IF e \in LoopsSY /\ (ny % Lines # 0 \/ (ny = 0 /\ e # "LMCM"))
              THEN mmc.SY + mmc.TY ELSE mmc.SY
         /\ Ended(e, mmc, ny).DY =
              IF e \in LoopsDY /\ (ny % Lines # 0 \/ ny = 0) THEN mmc.DY + mmc.TY ELSE mmc.DY
<1>1. mmc.TY \in Int /\ mmc.SY \in Int /\ mmc.DY \in Int
  BY DEF Counters
<1> DEFINE counted == ny % Lines = 0
           onSY == e \in LoopsSY /\ (~counted \/ (ny = 0 /\ e # "LMCM"))
           onDY == e \in LoopsDY /\ (~counted \/ ny = 0)
           sy == IF onSY THEN mmc.SY + mmc.TY ELSE mmc.SY
           dy == IF onDY THEN mmc.DY + mmc.TY ELSE mmc.DY
<1>2. Ended(e, mmc, ny) = [mmc EXCEPT !.NY = ny, !.SY = sy, !.DY = dy]
  BY DEF Ended, Counters
<1>3. sy \in Int /\ dy \in Int
  <2> HIDE DEF onSY, onDY
  <2> QED BY <1>1
<1> HIDE DEF sy, dy
<1>4. /\ Ended(e, mmc, ny) \in Counters
      /\ Ended(e, mmc, ny).NY = ny /\ Ended(e, mmc, ny).SY = sy /\ Ended(e, mmc, ny).DY = dy
  BY <1>2, <1>3 DEF Counters
<1> QED BY <1>4 DEF sy, dy

\* What a loop has counted.
LEMMA AreaPassType ==
  ASSUME NEW e \in AreaOps, NEW mmc \in Counters, NEW ppl \in Int
  PROVE  /\ AreaPass(e, mmc, ppl) \in Passed
         /\ FewLines(mmc) /\ ~AreaPass(e, mmc, ppl).over =>
              FewLines(AreaPass(e, mmc, ppl).mmc)
<1>0. Lines \in Nat \ {0}
  BY Constants
<1> DEFINE anx == IF e \in CountsX THEN mmc.ANX - 1 ELSE mmc.ANX
           asx == IF e \in LoopsSX THEN mmc.ASX + mmc.TX ELSE mmc.ASX
           adx == IF e \in LoopsDX THEN mmc.ADX + mmc.TX ELSE mmc.ADX
           sy  == IF e \in LoopsSY THEN mmc.SY + mmc.TY ELSE mmc.SY
           dy  == IF e \in LoopsDY THEN mmc.DY + mmc.TY ELSE mmc.DY
           ny  == mmc.NY - 1
           within == [mmc EXCEPT !.ANX = anx, !.ASX = asx, !.ADX = adx]
           next == [mmc EXCEPT !.ANX = mmc.NX, !.ASX = mmc.SX, !.ADX = mmc.DX,
                               !.SY = sy, !.DY = dy, !.NY = ny]
           over == ny % Lines = 0 \/ sy = -1 \/ dy = -1
<1>1. /\ anx \in Int /\ asx \in Int /\ adx \in Int /\ sy \in Int /\ dy \in Int /\ ny \in Int
      /\ mmc.NX \in Int /\ mmc.SX \in Int /\ mmc.DX \in Int /\ mmc.TY \in Int
      /\ mmc.SY \in Int /\ mmc.DY \in Int
  BY DEF Counters
<1>2. Ended(e, mmc, ny) \in Counters
  BY <1>1, EndedType
<1>3. within \in Counters /\ within.NY = mmc.NY
  BY <1>1 DEF Counters
<1>4. next \in Counters /\ next.NY = ny
  BY <1>1 DEF Counters
<1>5. FewLines(mmc) /\ ny % Lines # 0 => ny \in 1 - Lines .. Lines - 1
  <2>1. FewLines(mmc) => ny \in -Lines .. Lines - 2
    BY <1>0, <1>1 DEF FewLines
  <2>2. (Lines * (-1) + 0) % Lines = 0
    BY <1>0, DivisionIs
  <2>3. ny # -Lines \/ ny % Lines = 0
    BY <1>0, <2>2
  <2> QED BY <1>0, <2>1, <2>3
<1>6. \/ AreaPass(e, mmc, ppl) = Pass(within, FALSE)
      \/ AreaPass(e, mmc, ppl) = Pass(Ended(e, mmc, ny), TRUE)
      \/ AreaPass(e, mmc, ppl) = Pass(next, FALSE) /\ ~over
  BY DEF AreaPass
<1> HIDE DEF within, next
<1>7. \A m, o : Pass(m, o).mmc = m /\ Pass(m, o).over = o
  BY DEF Pass
<1>8. \A m \in Counters : \A o \in BOOLEAN : Pass(m, o) \in Passed
  BY DEF Pass, Passed
<1>9. CASE AreaPass(e, mmc, ppl) = Pass(within, FALSE)
  <2>1. Pass(within, FALSE) \in Passed /\ Pass(within, FALSE).mmc = within
    BY <1>3, <1>7, <1>8
  <2>2. FewLines(mmc) => FewLines(within)
    BY <1>3 DEF FewLines
  <2> QED BY <1>9, <2>1, <2>2
<1>10. CASE AreaPass(e, mmc, ppl) = Pass(Ended(e, mmc, ny), TRUE)
  <2> HIDE DEF ny
  <2> QED BY <1>2, <1>7, <1>8, <1>10
<1>11. CASE AreaPass(e, mmc, ppl) = Pass(next, FALSE) /\ ~over
  <2>1. ny % Lines # 0
    BY <1>11
  <2> HIDE DEF ny, sy, dy, over
  <2>2. FewLines(mmc) => FewLines(next)
    BY <1>4, <1>5, <2>1 DEF FewLines
  <2>3. Pass(next, FALSE) \in Passed /\ Pass(next, FALSE).mmc = next
    BY <1>4, <1>7, <1>8
  <2> QED BY <1>11, <2>2, <2>3
<1> QED BY <1>6, <1>9, <1>10, <1>11

LEMMA LinePassType ==
  ASSUME NEW mmc \in Counters, NEW ppl \in Int
  PROVE  /\ LinePass(mmc, ppl) \in Passed
         /\ FewLines(mmc) /\ ~LinePass(mmc, ppl).over =>
              FewLines(LinePass(mmc, ppl).mmc)
<1> DEFINE less == mmc.ASX - mmc.NY
           asx == (IF less < 0 THEN less + mmc.NX ELSE less) % Lines
           dx == IF ~reg.ymajor \/ less < 0 THEN mmc.DX + mmc.TX ELSE mmc.DX
           dy == IF reg.ymajor \/ less < 0 THEN mmc.DY + mmc.TY ELSE mmc.DY
           next == [mmc EXCEPT !.DX = dx, !.DY = dy, !.ASX = asx, !.ADX = @ + 1]
           over == mmc.ADX = mmc.NX \/ Beyond(dx, ppl)
<1>0. Lines \in Nat \ {0}
  BY Constants
<1>1. less \in Int /\ dx \in Int /\ dy \in Int /\ (IF less < 0 THEN less + mmc.NX ELSE less) \in Int
  BY DEF Counters
<1>2. asx \in Int
  <2> DEFINE from == IF less < 0 THEN less + mmc.NX ELSE less
  <2>1. from \in Int
    BY <1>1
  <2> HIDE DEF from
  <2>2. from % Lines \in Int
    BY <1>0, <2>1, DivisionType
  <2> QED BY <2>2 DEF from
<1>3. next \in Counters /\ next.NY = mmc.NY
  <2>1. mmc.ADX + 1 \in Int
    BY DEF Counters
  <2> HIDE DEF asx, dx, dy, less
  <2> QED BY <1>1, <1>2, <2>1 DEF Counters
<1>4. LinePass(mmc, ppl) = Pass(next, over) /\ over \in BOOLEAN
  BY DEF LinePass, Beyond
<1> HIDE DEF next, over
<1> QED BY <1>3, <1>4 DEF Pass, Passed, FewLines

LEMMA SearchPassType ==
  ASSUME NEW mmc \in Counters, NEW ppl \in Int
  PROVE  /\ SearchPass(mmc, ppl) \in Passed
         /\ FewLines(mmc) => FewLines(SearchPass(mmc, ppl).mmc)
<1> DEFINE next == [mmc EXCEPT !.SX = @ + mmc.TX]
           over == Beyond(mmc.SX + mmc.TX, ppl)
<1>1. next \in Counters /\ next.NY = mmc.NY
  BY DEF Counters
<1>2. SearchPass(mmc, ppl) = Pass(next, over) /\ over \in BOOLEAN
  BY DEF SearchPass, Beyond
<1> HIDE DEF next, over
<1> QED BY <1>1, <1>2 DEF Pass, Passed, FewLines

LEMMA PassType ==
  ASSUME ScrMode \in Screens5To8, NEW e \in Engines, NEW mmc \in Counters
  PROVE  /\ PassOf(e, mmc) \in Passed
         /\ FewLines(mmc) /\ ~PassOf(e, mmc).over =>
              FewLines(PassOf(e, mmc).mmc)
<1>1. PPL[ScrMode] \in Int
  BY Constants
<1>2. CASE e = "SRCH"
  BY <1>1, <1>2, SearchPassType DEF PassOf
<1>3. CASE e = "LINE"
  BY <1>1, <1>3, LinePassType DEF PassOf
<1>4. CASE e \in AreaOps
  <2>1. e # "SRCH" /\ e # "LINE"
    BY <1>4 DEF AreaOps, ByteOps, CpuOps, CpuReads, CpuSends
  <2>2. PassOf(e, mmc) = AreaPass(e, mmc, PPL[ScrMode])
    BY <2>1 DEF PassOf
  <2> QED BY <1>1, <1>4, <2>2, AreaPassType
<1> QED BY <1>2, <1>3, <1>4 DEF Engines

-----------------------------------------------------------------------------
\* Loops

\* What the loop does in pass n.
LoopStep(e, found, n, r) ==
  IF r.over THEN r
  ELSE [mmc   |-> IF n = found THEN r.mmc ELSE PassOf(e, r.mmc).mmc,
        over  |-> n = found \/ PassOf(e, r.mmc).over,
        moves |-> Append(r.moves, Moved(e, r.mmc, 0))]
Start(mmc) == [mmc |-> mmc, over |-> FALSE, moves |-> <<>>]

LEMMA LoopStepType ==
  ASSUME ScrMode \in Screens5To8, NEW e \in Engines, NEW found \in Nat,
         NEW n \in Nat, NEW r \in Run
  PROVE  /\ LoopStep(e, found, n, r) \in Run
         /\ ~r.over =>
              /\ LoopStep(e, found, n, r).moves = Append(r.moves, Moved(e, r.mmc, 0))
              /\ LoopStep(e, found, n, r).over = (n = found \/ PassOf(e, r.mmc).over)
              /\ LoopStep(e, found, n, r).mmc =
                   IF n = found THEN r.mmc ELSE PassOf(e, r.mmc).mmc
<1> DEFINE here == n = found
           pass == PassOf(e, r.mmc)
           move == Moved(e, r.mmc, 0)
           next == [mmc |-> IF here THEN r.mmc ELSE pass.mmc, over |-> here \/ pass.over,
                    moves |-> Append(r.moves, move)]
<1>1. r.mmc \in Counters /\ r.moves \in Seq(Moves)
  BY DEF Run
<1>2. pass \in Passed
  BY <1>1, PassType
<1>3. move \in Moves
  BY <1>1, MovedType
<1>4. Append(r.moves, move) \in Seq(Moves)
  <2> HIDE DEF move
  <2> QED BY <1>1, <1>3
<1>5. LoopStep(e, found, n, r) = IF r.over THEN r ELSE next
  BY DEF LoopStep
<1>6. (here \/ pass.over) \in BOOLEAN
  OBVIOUS
<1>7. next \in Run
  <2> HIDE DEF here, pass, move
  <2>1. (IF here THEN r.mmc ELSE pass.mmc) \in Counters
    BY <1>1, <1>2 DEF Passed
  <2> QED BY <1>4, <1>6, <2>1 DEF Run
<1> QED BY <1>5, <1>7

\* The loop takes its steps one after the other.
LEMMA LoopTurns ==
  ASSUME ScrMode \in Screens5To8, NEW e \in Engines, NEW mmc \in Counters,
         NEW passes \in Nat, NEW found \in Nat
  PROVE  \E run \in [0 .. passes -> Run] :
           /\ Loop(e, mmc, passes, found) = run[passes]
           /\ run[0] = Start(mmc)
           /\ \A n \in 1 .. passes : run[n] = LoopStep(e, found, n, run[n - 1])
<1> DEFINE step == [p \in Nat \X Run |-> LoopStep(e, found, p[1], p[2])]
           Body(g, n) == IF n = 0 THEN Start(mmc) ELSE LoopStep(e, found, n, g[n - 1])
           run == CHOOSE g : g = [n \in 0 .. passes |-> Body(g, n)]
<1>1. Start(mmc) \in Run
  BY DEF Start, Run
<1>2. step \in Steps(Run)
  BY LoopStepType DEF Steps
<1>3. PICK f \in [0 .. passes -> Run] :
        f[0] = Start(mmc) /\ \A k \in 1 .. passes : f[k] = step[<<k, f[k - 1]>>]
  <2> HIDE DEF step
  <2>1. Courses(Run, Start(mmc), step, passes) # {}
    BY <1>1, <1>2, Recursion
  <2> QED BY <2>1 DEF Courses
<1>4. \A k \in 1 .. passes : f[k] = LoopStep(e, found, k, f[k - 1])
  <2> TAKE k \in 1 .. passes
  <2>1. f[k - 1] \in Run /\ <<k, f[k - 1]>> \in Nat \X Run
    OBVIOUS
  <2> QED BY <1>3, <2>1
<1>5. \A n \in 0 .. passes : f[n] = Body(f, n)
  BY <1>3, <1>4
<1>6. f = [n \in 0 .. passes |-> Body(f, n)]
  <2> HIDE DEF Body
  <2> QED BY <1>5
<1>7. run = [n \in 0 .. passes |-> Body(run, n)]
  <2> HIDE DEF Body
  <2> QED BY <1>6
<1>8. Loop(e, mmc, passes, found) = run[passes]
  BY DEF Loop, LoopStep, Start
<1> HIDE DEF run
<1>9. run[0] = Start(mmc) /\ \A n \in 1 .. passes : run[n] = LoopStep(e, found, n, run[n - 1])
  BY <1>7
<1> DEFINE S == {n \in Nat : run[n] \in Run}
<1>10. \A n \in 0 .. passes : n \in S
  <2>1. 0 \in S
    BY <1>1, <1>9
  <2>2. ASSUME NEW k \in 1 .. passes, k - 1 \in S PROVE k \in S
    <3>1. run[k - 1] \in Run /\ k \in Nat
      BY <2>2
    <3> QED BY <1>9, <3>1, LoopStepType
  <2> HIDE DEF S
  <2> QED BY <2>1, <2>2, BoundedInduction
<1>11. run \in [0 .. passes -> Run]
  BY <1>7, <1>10
<1> QED BY <1>8, <1>9, <1>11

\* What a step keeps holds of the loop: P is a set of <<passes made, what they
\* have left>>.
LEMMA LoopInvariant ==
  ASSUME ScrMode \in Screens5To8, NEW e \in Engines, NEW mmc \in Counters,
         NEW passes \in Nat, NEW found \in Nat, NEW P,
         <<0, Start(mmc)>> \in P,
         \A n \in 1 .. passes, r \in Run :
           <<n - 1, r>> \in P /\ ~r.over => <<n, LoopStep(e, found, n, r)>> \in P
  PROVE  /\ Loop(e, mmc, passes, found) \in Run
         /\ \E n \in 0 .. passes :
              /\ <<n, Loop(e, mmc, passes, found)>> \in P
              /\ n = passes \/ Loop(e, mmc, passes, found).over
<1>0. \E run \in [0 .. passes -> Run] :
        /\ Loop(e, mmc, passes, found) = run[passes]
        /\ run[0] = Start(mmc)
        /\ \A n \in 1 .. passes : run[n] = LoopStep(e, found, n, run[n - 1])
  <2>1. /\ ScrMode \in Screens5To8 /\ e \in Engines /\ mmc \in Counters
        /\ passes \in Nat /\ found \in Nat
    OBVIOUS
  <2> QED BY ONLY <2>1, LoopTurns, ZenonT(40)
<1>1. PICK run \in [0 .. passes -> Run] :
        /\ Loop(e, mmc, passes, found) = run[passes]
        /\ run[0] = Start(mmc)
        /\ \A n \in 1 .. passes : run[n] = LoopStep(e, found, n, run[n - 1])
  BY <1>0
<1> DEFINE Reached(n) == \E m \in 0 .. n : <<m, run[n]>> \in P /\ (m = n \/ run[n].over)
           S == {n \in Nat : Reached(n)}
<1>2. 0 \in S
  BY <1>1
<1>3. ASSUME NEW k \in 1 .. passes, k - 1 \in S PROVE k \in S
  <2>1. PICK m \in 0 .. k - 1 : <<m, run[k - 1]>> \in P /\ (m = k - 1 \/ run[k - 1].over)
    BY <1>3
  <2>2. run[k - 1] \in Run /\ run[k] = LoopStep(e, found, k, run[k - 1])
    BY <1>1
  <2>3. CASE run[k - 1].over
    <3>1. run[k] = run[k - 1]
      BY <2>2, <2>3 DEF LoopStep
    <3>2. m \in 0 .. k /\ <<m, run[k]>> \in P /\ run[k].over
      BY <2>1, <2>3, <3>1
    <3>3. Reached(k)
      BY <3>2
    <3> HIDE DEF Reached
    <3> QED BY <3>3
  <2>4. CASE ~run[k - 1].over
    <3>1. <<k, run[k]>> \in P /\ k \in 0 .. k
      BY <2>1, <2>2, <2>4
    <3>2. Reached(k)
      BY <3>1
    <3> HIDE DEF Reached
    <3> QED BY <3>2
  <2> QED BY <2>3, <2>4
<1>4. passes \in S
  <2> HIDE DEF S
  <2>1. \A k \in 0 .. passes : k \in S
    BY <1>2, <1>3, BoundedInduction
  <2> QED BY <2>1
<1> QED BY <1>1, <1>4

\* It makes as many moves as passes, and those that were asked for unless the
\* command is over.
LEMMA LoopType ==
  ASSUME ScrMode \in Screens5To8, NEW e \in Engines, NEW mmc \in Counters, FewLines(mmc),
         NEW passes \in Nat, NEW found \in Nat
  PROVE  LET r == Loop(e, mmc, passes, found) IN
         /\ r \in Run /\ Len(r.moves) \in 0 .. passes
         /\ ~r.over => Len(r.moves) = passes /\ FewLines(r.mmc)
<1> DEFINE P == {p \in Nat \X Run : /\ Len(p[2].moves) = p[1]
                                    /\ ~p[2].over => FewLines(p[2].mmc)}
<1>1. <<0, Start(mmc)>> \in P
  <2>1. Start(mmc) \in Run /\ Len(Start(mmc).moves) = 0 /\ Start(mmc).mmc = mmc
    BY DEF Start, Run
  <2> QED BY <2>1
<1>2. ASSUME NEW n \in 1 .. passes, NEW r \in Run, <<n - 1, r>> \in P, ~r.over
      PROVE  <<n, LoopStep(e, found, n, r)>> \in P
  <2>1. /\ n \in Nat /\ n - 1 \in Nat /\ r.mmc \in Counters /\ r.moves \in Seq(Moves)
        /\ Len(r.moves) = n - 1 /\ FewLines(r.mmc)
    BY <1>2 DEF Run
  <2>2. /\ LoopStep(e, found, n, r) \in Run
        /\ LoopStep(e, found, n, r).moves = Append(r.moves, Moved(e, r.mmc, 0))
        /\ LoopStep(e, found, n, r).over = (n = found \/ PassOf(e, r.mmc).over)
        /\ LoopStep(e, found, n, r).mmc = IF n = found THEN r.mmc ELSE PassOf(e, r.mmc).mmc
    BY <1>2, <2>1, LoopStepType
  <2>3. ~PassOf(e, r.mmc).over => FewLines(PassOf(e, r.mmc).mmc)
    BY <2>1, PassType
  <2>4. ~LoopStep(e, found, n, r).over => FewLines(LoopStep(e, found, n, r).mmc)
    BY <2>2, <2>3
  <2>5. Len(Append(r.moves, Moved(e, r.mmc, 0))) = n
    <3> DEFINE move == Moved(e, r.mmc, 0)
    <3>1. move \in Moves
      BY <2>1, MovedType
    <3> HIDE DEF move
    <3> QED BY <2>1, <3>1
  <2> QED BY <2>1, <2>2, <2>4, <2>5
<1> HIDE DEF P
<1> DEFINE r == Loop(e, mmc, passes, found)
<1>3. r \in Run /\ \E n \in 0 .. passes : <<n, r>> \in P /\ (n = passes \/ r.over)
  BY <1>1, <1>2, LoopInvariant
<1> HIDE DEF r
<1>4. /\ r \in Run /\ Len(r.moves) \in 0 .. passes
      /\ ~r.over => Len(r.moves) = passes /\ FewLines(r.mmc)
  BY <1>3 DEF P
<1> QED BY <1>4 DEF r

-----------------------------------------------------------------------------
\* Types of the handlers

\* A machine whose engine can go on, and one that has had its slice.
Ready(v) == v \in Machine /\ FewLines(v.mmc) /\ Owed(v.ops)
Sound(v) == Ready(v) /\ (v.engine \in AutoOps => v.ops <= 0)

LEMMA MachineFields ==
  ASSUME NEW v \in Machine
  PROVE  /\ v.engine \in Engines \cup {"none"} /\ v.mmc \in Counters /\ v.ops \in Int
         /\ v.ce \in BOOLEAN /\ v.tr \in BOOLEAN /\ v.bd \in BOOLEAN /\ v.reg \in Registers
         /\ v.clr \in Nat /\ v.s7 \in Nat /\ v.done \in Seq(Moves) /\ v.got \in Nat
BY DEF Machine

LEMMA ResultsType ==
  ASSUME reg \in Registers, NEW e, NEW mmc \in Counters
  PROVE  /\ Results(e, mmc) \in Registers
         /\ Results(e, mmc).ymajor = reg.ymajor
         /\ e \in AreaOps => Results(e, mmc).ny = mmc.NY % Lines
         /\ e \in LoopsSY => Results(e, mmc).sy = mmc.SY % Lines
         /\ e \in LoopsDY => Results(e, mmc).dy = mmc.DY % Lines
<1> DEFINE ny == mmc.NY % Lines
           sy == mmc.SY % Lines
           dy == mmc.DY % Lines
<1>1. ny \in Nat /\ sy \in Nat /\ dy \in Nat
  <2>1. mmc.NY \in Int /\ mmc.SY \in Int /\ mmc.DY \in Int
    BY DEF Counters
  <2>2. Lines \in Nat \ {0}
    BY Constants
  <2>3. ASSUME NEW a \in Int PROVE a % Lines \in Nat
    <3>1. a % Lines \in 0 .. Lines - 1
      BY <2>2, DivisionType
    <3> QED BY <2>2, <3>1
  <2> QED BY <2>1, <2>3
<1>2. Results(e, mmc) =
        [reg EXCEPT !.ny = IF e \in AreaOps THEN ny ELSE @,
                    !.sy = IF e \in LoopsSY THEN sy ELSE @,
                    !.dy = IF e \in LoopsDY \cup {"LINE"} THEN dy ELSE @]
  BY DEF Results
<1> HIDE DEF ny, sy, dy
<1>3. /\ Results(e, mmc) \in Registers
      /\ Results(e, mmc).ymajor = reg.ymajor
      /\ e \in AreaOps => Results(e, mmc).ny = ny
      /\ e \in LoopsSY => Results(e, mmc).sy = sy
      /\ e \in LoopsDY => Results(e, mmc).dy = dy
  BY <1>1, <1>2 DEF Registers
<1> QED BY <1>3 DEF ny, sy, dy

LEMMA NoMMCType == NoMMC \in Counters /\ FewLines(NoMMC)
BY Constants DEF NoMMC, Counters, FewLines

LEMMA FinishType ==
  ASSUME reg \in Registers, NEW v \in Machine, NEW mmc \in Counters
  PROVE  /\ Finish(v, mmc) \in Machine /\ FewLines(Finish(v, mmc).mmc)
         /\ Finish(v, mmc).engine = "none" /\ Finish(v, mmc).ce = FALSE
         /\ Finish(v, mmc).ops = v.ops /\ Finish(v, mmc).tr = v.tr /\ Finish(v, mmc).bd = v.bd
         /\ Finish(v, mmc).clr = v.clr /\ Finish(v, mmc).s7 = v.s7
         /\ Finish(v, mmc).done = v.done /\ Finish(v, mmc).got = v.got
         /\ Finish(v, mmc).reg = Results(v.engine, mmc)
<1>1. Results(v.engine, mmc) \in Registers
  BY ResultsType
<1> DEFINE r == Results(v.engine, mmc)
<1>2. Finish(v, mmc) = [v EXCEPT !.mmc = NoMMC, !.engine = "none", !.ce = FALSE, !.reg = r]
  BY DEF Finish
<1> HIDE DEF r
<1>3. r \in Registers
  BY <1>1 DEF r
<1>4. Finish(v, mmc).mmc = NoMMC /\ Finish(v, mmc) \in Machine
  <2> DEFINE none == NoMMC
             f == [v EXCEPT !.mmc = none, !.engine = "none", !.ce = FALSE, !.reg = r]
  <2>1. none \in Counters
    BY NoMMCType
  <2> HIDE DEF none
  <2>2. f.mmc = none
    BY DEF Machine
  <2>3. f \in Machine
    BY <1>3, <2>1 DEF Machine
  <2> QED BY <1>2, <2>2, <2>3 DEF none
<1>5. FewLines(Finish(v, mmc).mmc)
  BY <1>4, NoMMCType
<1> QED BY <1>2, <1>4, <1>5 DEF Machine, r

LEMMA GoOnType ==
  ASSUME NEW v \in Machine, NEW mmc \in Counters
  PROVE  /\ GoOn(v, mmc) \in Machine /\ GoOn(v, mmc).mmc = mmc
         /\ GoOn(v, mmc).engine = v.engine /\ GoOn(v, mmc).ce = v.ce
         /\ GoOn(v, mmc).ops = v.ops /\ GoOn(v, mmc).tr = v.tr /\ GoOn(v, mmc).bd = v.bd
         /\ GoOn(v, mmc).clr = v.clr /\ GoOn(v, mmc).s7 = v.s7
         /\ GoOn(v, mmc).done = v.done /\ GoOn(v, mmc).got = v.got
         /\ GoOn(v, mmc).reg = v.reg
BY DEF GoOn, Machine

\* Cycles of n that k passes at d each leave.
LEMMA PassesFit ==
  ASSUME NEW n \in Nat \ {0}, NEW d \in Nat \ {0}
  PROVE  /\ Passes(n, d) \in Nat
         /\ \A k \in 0 .. Passes(n, d) : k * d \in Nat /\ n - k * d \in 1 .. n
         /\ n - (Passes(n, d) + 1) * d \in 1 - d .. 0
<1> DEFINE p == (n - 1) \div d
           r == (n - 1) % d
<1>1. p \in Nat /\ r \in 0 .. d - 1 /\ n - 1 = d * p + r
  <2>1. n - 1 \in Int /\ n - 1 >= 0
    OBVIOUS
  <2> QED BY <2>1, DivisionType
<1>2. Passes(n, d) = p
  BY DEF Passes
<1> HIDE DEF p, r
<1>3. ASSUME NEW k \in 0 .. p PROVE k * d \in Nat /\ n - k * d \in 1 .. n
  <2>1. k * d \in Nat /\ d * p \in Nat /\ p * d = d * p
    BY <1>1
  <2>2. k * d <= p * d
    BY <1>1
  <2> QED BY <1>1, <2>1, <2>2
<1>4. n - (p + 1) * d \in 1 - d .. 0
  <2>1. (p + 1) * d = d * p + d /\ d * p \in Nat
    BY <1>1
  <2> QED BY <1>1, <2>1
<1> QED BY <1>1, <1>2, <1>3, <1>4

\* What a slice makes of a machine, but for its counters and cycles.
Kept(w, v) == w.tr = v.tr /\ w.clr = v.clr /\ w.s7 = v.s7 /\ w.got = v.got

LEMMA WorkedType ==
  ASSUME reg \in Registers, NEW v \in Machine, Owed(v.ops), v.ops > 0, NEW d \in Deltas,
         NEW r \in Run, Len(r.moves) \in 0 .. Passes(v.ops, d),
         ~r.over => Len(r.moves) = Passes(v.ops, d) /\ FewLines(r.mmc)
  PROVE  LET w == Worked(v, d, r) IN
         /\ Ready(w) /\ (w.engine # "none" => w.ops <= 0)
         /\ Kept(w, v) /\ w.bd = v.bd /\ w.done = v.done \o r.moves
         /\ r.over => /\ w.engine = "none" /\ w.ce = FALSE
                      /\ w.reg = Results(v.engine, r.mmc)
         /\ ~r.over => /\ w.engine = v.engine /\ w.ce = v.ce /\ w.mmc = r.mmc
                       /\ w.reg = v.reg
<1> DEFINE k == Len(r.moves)
           u == [v EXCEPT !.done = @ \o r.moves]
           w == Worked(v, d, r)
<1>1. /\ v.ops \in Nat \ {0} /\ v.ops <= Slice /\ d \in Nat \ {0} /\ k \in Nat
      /\ Slice \in Nat /\ d < Slice
  <2>1. d \in Nat \ {0} /\ d < Slice /\ Slice \in Nat
    BY Constants
  <2>2. k \in Nat
    BY DEF Run
  <2>3. \E d1 \in Deltas : v.ops \in 1 - d1 .. Slice
    BY DEF Owed
  <2>4. v.ops \in Int /\ v.ops <= Slice
    <3>1. PICK d1 \in Deltas : v.ops \in 1 - d1 .. Slice
      BY <2>3
    <3>2. d1 \in Nat
      BY Constants
    <3> QED BY <2>1, <3>1, <3>2
  <2> QED BY <2>1, <2>2, <2>4
<1>2. /\ Passes(v.ops, d) \in Nat
      /\ k * d \in Nat /\ v.ops - k * d \in 1 .. v.ops
      /\ v.ops - (Passes(v.ops, d) + 1) * d \in 1 - d .. 0
  BY <1>1, PassesFit
<1>3. /\ u \in Machine /\ u.done = v.done \o r.moves /\ Kept(u, v) /\ u.bd = v.bd
      /\ u.engine = v.engine /\ u.ce = v.ce /\ u.mmc = v.mmc /\ u.reg = v.reg /\ u.ops = v.ops
  <2>1. v.done \o r.moves \in Seq(Moves)
    <3>1. v.done \in Seq(Moves) /\ r.moves \in Seq(Moves)
      BY DEF Machine, Run
    <3> QED BY <3>1
  <2> DEFINE s == v.done \o r.moves
  <2>2. u = [v EXCEPT !.done = s]
    BY DEF Machine
  <2> HIDE DEF s
  <2>3. u \in Machine /\ u.done = s /\ Kept(u, v) /\ u.bd = v.bd
        /\ u.engine = v.engine /\ u.ce = v.ce /\ u.mmc = v.mmc /\ u.reg = v.reg /\ u.ops = v.ops
    BY <2>1, <2>2 DEF Machine, Kept, s
  <2> QED BY <2>3 DEF s
<1> HIDE DEF u
<1>4. r.mmc \in Counters
  BY DEF Run
<1>5. CASE r.over
  <2> DEFINE f == Finish(u, r.mmc)
             n == v.ops - k * d
  <2>1. w = [f EXCEPT !.ops = @ - k * d]
    BY <1>5 DEF Worked, u
  <2>2. /\ f \in Machine /\ FewLines(f.mmc) /\ f.engine = "none" /\ f.ce = FALSE
        /\ f.ops = v.ops /\ Kept(f, v) /\ f.bd = v.bd /\ f.done = v.done \o r.moves
        /\ f.reg = Results(v.engine, r.mmc)
    <3>1. /\ f \in Machine /\ FewLines(f.mmc) /\ f.engine = "none" /\ f.ce = FALSE
          /\ f.ops = u.ops /\ f.tr = u.tr /\ f.bd = u.bd /\ f.clr = u.clr /\ f.s7 = u.s7
          /\ f.done = u.done /\ f.got = u.got /\ f.reg = Results(u.engine, r.mmc)
      BY <1>3, <1>4, FinishType
    <3> HIDE DEF f
    <3> QED BY <1>3, <3>1 DEF Kept
  <2> HIDE DEF f
  <2>3. w = [f EXCEPT !.ops = n]
    BY <2>1, <2>2 DEF Machine
  <2>4. n \in Int /\ Owed(n)
    <3>1. n \in Int /\ n \in 1 - d .. Slice
      <4>1. k * d \in Int
        BY <1>1, <1>2
      <4> QED BY <1>1, <1>2, <4>1
    <3> QED BY <3>1 DEF Owed
  <2> HIDE DEF n, w, k
  <2>5. /\ w \in Machine /\ w.mmc = f.mmc /\ w.ops = n /\ w.engine = "none" /\ w.ce = FALSE
        /\ w.tr = f.tr /\ w.clr = f.clr /\ w.s7 = f.s7 /\ w.got = f.got /\ w.bd = f.bd
        /\ w.done = f.done /\ w.reg = f.reg
    BY <2>2, <2>3, <2>4 DEF Machine
  <2>6. Ready(w) /\ Kept(w, v)
    BY <2>2, <2>4, <2>5 DEF Ready, Kept
  <2>7. /\ w.bd = v.bd /\ w.done = v.done \o r.moves
        /\ w.engine = "none" /\ w.ce = FALSE /\ w.reg = Results(v.engine, r.mmc)
    BY <2>2, <2>5
  <2> QED BY <1>5, <2>6, <2>7 DEF w
<1>6. CASE ~r.over
  <2> DEFINE f == GoOn(u, r.mmc)
             n == v.ops - (k + 1) * d
  <2>1. w = [f EXCEPT !.ops = @ - (k + 1) * d]
    BY <1>6 DEF Worked, u
  <2>2. /\ f \in Machine /\ f.mmc = r.mmc /\ f.engine = v.engine /\ f.ce = v.ce
        /\ f.ops = v.ops /\ Kept(f, v) /\ f.bd = v.bd /\ f.done = v.done \o r.moves
        /\ f.reg = v.reg
    BY <1>3, <1>4, GoOnType DEF Kept
  <2> HIDE DEF f
  <2>3. w = [f EXCEPT !.ops = n]
    BY <2>1, <2>2 DEF Machine
  <2>4. n \in Int /\ n <= 0 /\ Owed(n)
    <3>1. n \in 1 - d .. 0
      BY <1>2, <1>6
    <3>2. n \in Int /\ n <= 0 /\ n \in 1 - d .. Slice
      BY <1>1, <3>1
    <3> QED BY <3>2 DEF Owed
  <2> HIDE DEF n, w, k
  <2>5. /\ w \in Machine /\ w.mmc = f.mmc /\ w.ops = n /\ w.engine = f.engine /\ w.ce = f.ce
        /\ w.tr = f.tr /\ w.clr = f.clr /\ w.s7 = f.s7 /\ w.got = f.got /\ w.bd = f.bd
        /\ w.done = f.done /\ w.reg = f.reg
    BY <2>2, <2>3, <2>4 DEF Machine
  <2>6. Ready(w) /\ Kept(w, v)
    BY <1>6, <2>2, <2>4, <2>5 DEF Ready, Kept
  <2>7. /\ w.bd = v.bd /\ w.done = v.done \o r.moves
        /\ w.engine = v.engine /\ w.ce = v.ce /\ w.mmc = r.mmc /\ w.reg = v.reg /\ w.ops <= 0
    BY <2>2, <2>4, <2>5
  <2> QED BY <1>6, <2>6, <2>7 DEF w
<1> HIDE DEF w
<1> QED BY <1>5, <1>6 DEF w

LEMMA OpsType ==
  ASSUME NEW n, Owed(n)
  PROVE  n \in Int /\ n <= Slice /\ Slice \in Nat
<1>1. PICK d \in Deltas : n \in 1 - d .. Slice
  BY DEF Owed
<1>2. d \in Nat /\ Slice \in Nat
  BY Constants
<1> QED BY <1>1, <1>2

LEMMA TransferMovesType ==
  ASSUME NEW v \in Machine
  PROVE  /\ TransferMoves(v) \in Seq(Moves)
         /\ ScrMode \in Screens5To8 => TransferMoves(v) = <<Moved(v.engine, v.mmc, v.clr)>>
<1>1. CASE ScrMode \in Screens5To8
  <2> DEFINE move == Moved(v.engine, v.mmc, v.clr)
  <2>1. move \in Moves
    BY <1>1, MachineFields, MovedType
  <2>2. TransferMoves(v) = <<move>>
    BY <1>1 DEF TransferMoves
  <2> HIDE DEF move
  <2>3. <<move>> \in Seq(Moves)
    BY <2>1
  <2> QED BY <2>2, <2>3 DEF move
<1>2. CASE ScrMode \notin Screens5To8
  <2>1. <<"vram", 0, 0>> \in {"none", "vram"} \X Nat \X Nat
    OBVIOUS
  <2>2. Sent(v.clr) \in {"fill", "cpu", "vram"} \X Nat \X Nat
    BY MachineFields DEF Sent
  <2>3. [from |-> Sent(v.clr), to |-> <<"vram", 0, 0>>] \in Moves
    BY <2>1, <2>2 DEF Moves
  <2> DEFINE move == [from |-> Sent(v.clr), to |-> <<"vram", 0, 0>>]
  <2>4. TransferMoves(v) = IF v.engine = "HMMC" THEN <<move>> ELSE <<>>
    BY <1>2 DEF TransferMoves
  <2>5. move \in Moves
    BY <2>3
  <2> HIDE DEF move
  <2>6. <<move>> \in Seq(Moves) /\ <<>> \in Seq(Moves)
    BY <2>5
  <2> QED BY <1>2, <2>4, <2>6
<1> QED BY <1>1, <1>2

LEMMA TransferType ==
  ASSUME reg \in Registers, NEW v, Ready(v), v.engine \in CpuOps, v.ops > 0, ~v.tr,
         NEW w \in Transfer(v)
  PROVE  LET pass == AreaPass(v.engine, v.mmc, v.mmc.MX) IN
         /\ Ready(w) /\ w.engine \notin AutoOps
         /\ w.tr = TRUE /\ w.done = v.done \o TransferMoves(v)
         /\ w.s7 = IF v.engine \in CpuReads THEN Len(v.done) + 1 ELSE v.s7
         /\ w.clr = v.clr /\ w.got = v.got /\ w.bd = v.bd
         /\ pass.over => /\ w.engine = "none" /\ w.ce = FALSE
                         /\ w.reg = Results(v.engine, pass.mmc)
         /\ ~pass.over => /\ w.engine = v.engine /\ w.ce = v.ce /\ w.mmc = pass.mmc
                          /\ w.reg = v.reg
<1> DEFINE pass == AreaPass(v.engine, v.mmc, v.mmc.MX)
           s == v.done \o TransferMoves(v)
           p == IF v.engine \in CpuReads THEN Len(v.done) + 1 ELSE v.s7
           u == [v EXCEPT !.tr = TRUE, !.done = @ \o TransferMoves(v),
                          !.s7 = IF v.engine \in CpuReads THEN Len(v.done) + 1 ELSE @]
           f == IF pass.over THEN Finish(u, pass.mmc) ELSE GoOn(u, pass.mmc)
<1>1. v \in Machine /\ FewLines(v.mmc) /\ Owed(v.ops)
  BY DEF Ready
<1>2. /\ v.mmc \in Counters /\ v.mmc.MX \in Int /\ v.done \in Seq(Moves) /\ v.s7 \in Nat
      /\ v.ops \in Int
  BY <1>1, MachineFields DEF Counters
<1>3. v.engine \in AreaOps /\ v.engine \notin AutoOps
  BY DEF AreaOps, AutoOps
<1>4. pass \in Passed /\ (~pass.over => FewLines(pass.mmc))
  BY <1>1, <1>2, <1>3, AreaPassType
<1>5. PICK d \in Deltas : w = [f EXCEPT !.ops = @ - d]
  BY DEF Transfer
<1>6. s \in Seq(Moves) /\ p \in Nat
  <2>1. TransferMoves(v) \in Seq(Moves)
    BY <1>1, TransferMovesType
  <2>2. Len(v.done) \in Nat
    BY <1>2
  <2> QED BY <1>2, <2>1, <2>2
<1>7. u = [v EXCEPT !.tr = TRUE, !.done = s, !.s7 = p]
  BY <1>1 DEF Machine
<1> HIDE DEF s, p, u
<1>8. /\ u \in Machine /\ u.tr = TRUE /\ u.done = s /\ u.s7 = p /\ u.clr = v.clr
      /\ u.got = v.got /\ u.bd = v.bd /\ u.engine = v.engine /\ u.ce = v.ce /\ u.reg = v.reg
      /\ u.ops = v.ops
  BY <1>1, <1>6, <1>7 DEF Machine
<1>9. pass.mmc \in Counters
  BY <1>4 DEF Passed
<1> HIDE DEF pass
<1>10. /\ f \in Machine /\ FewLines(f.mmc) /\ f.ops = u.ops
       /\ f.tr = u.tr /\ f.bd = u.bd /\ f.clr = u.clr /\ f.s7 = u.s7 /\ f.done = u.done
       /\ f.got = u.got
       /\ pass.over => f.engine = "none" /\ f.ce = FALSE /\ f.reg = Results(u.engine, pass.mmc)
       /\ ~pass.over => f.engine = u.engine /\ f.ce = u.ce /\ f.mmc = pass.mmc /\ f.reg = u.reg
  <2>1. CASE pass.over
    BY <1>8, <1>9, <2>1, FinishType
  <2>2. CASE ~pass.over
    BY <1>4, <1>8, <1>9, <2>2, GoOnType
  <2> QED BY <2>1, <2>2
<1> HIDE DEF f
<1> DEFINE n == v.ops - d
<1>11. w = [f EXCEPT !.ops = n]
  BY <1>5, <1>8, <1>10 DEF Machine
<1>12. n \in Int /\ Owed(n)
  <2>1. d \in Nat /\ v.ops <= Slice /\ Slice \in Nat
    BY <1>1, Constants, OpsType
  <2>2. n \in 1 - d .. Slice
    BY <1>2, <2>1
  <2> QED BY <2>2 DEF Owed
<1> HIDE DEF n
<1>13. /\ w \in Machine /\ w.mmc = f.mmc /\ w.ops = n /\ w.engine = f.engine /\ w.ce = f.ce
       /\ w.tr = f.tr /\ w.clr = f.clr /\ w.s7 = f.s7 /\ w.got = f.got /\ w.bd = f.bd
       /\ w.done = f.done /\ w.reg = f.reg
  BY <1>10, <1>11, <1>12 DEF Machine
<1>14. Ready(w)
  BY <1>10, <1>12, <1>13 DEF Ready
<1>15. w.engine \notin AutoOps
  <2>1. "none" \notin AutoOps
    BY DEF AutoOps, Engines, AreaOps, ByteOps, CpuOps, CpuReads, CpuSends
  <2> QED BY <1>3, <1>8, <1>10, <1>13, <2>1
<1>16. /\ w.tr = TRUE /\ w.done = s /\ w.s7 = p
       /\ w.clr = v.clr /\ w.got = v.got /\ w.bd = v.bd
       /\ pass.over => w.engine = "none" /\ w.ce = FALSE /\ w.reg = Results(v.engine, pass.mmc)
       /\ ~pass.over => w.engine = v.engine /\ w.ce = v.ce /\ w.mmc = pass.mmc /\ w.reg = v.reg
  BY <1>8, <1>10, <1>13
<1> QED BY <1>14, <1>15, <1>16 DEF pass, s, p

\* What a slice r of a command makes of its machine v.
Sliced(w, v, r) ==
  /\ Kept(w, v) /\ w.done = v.done \o r.moves
  /\ r.over => w.engine = "none" /\ w.ce = FALSE /\ w.reg = Results(v.engine, r.mmc)
  /\ ~r.over => w.engine = v.engine /\ w.ce = v.ce /\ w.mmc = r.mmc /\ w.reg = v.reg

LEMMA SliceType ==
  ASSUME ScrMode \in Screens5To8, reg \in Registers, NEW v, Ready(v), v.engine \in AutoOps,
         v.ops > 0, NEW d \in Deltas, NEW found \in Nat
  PROVE  LET r == Loop(v.engine, v.mmc, Passes(v.ops, d), found)
             w == Worked(v, d, r) IN
         /\ r \in Run /\ Len(r.moves) \in Nat
         /\ Ready(w) /\ (w.engine # "none" => w.ops <= 0)
         /\ Sliced(w, v, r) /\ w.bd = v.bd
<1> DEFINE r == Loop(v.engine, v.mmc, Passes(v.ops, d), found)
           w == Worked(v, d, r)
<1>1. v \in Machine /\ FewLines(v.mmc) /\ Owed(v.ops) /\ v.mmc \in Counters
  BY MachineFields DEF Ready
<1>2. v.engine \in Engines
  BY DEF AutoOps
<1>3. v.ops \in Nat \ {0} /\ d \in Nat \ {0}
  BY <1>1, OpsType, Constants
<1>4. Passes(v.ops, d) \in Nat
  BY <1>3, PassesFit
<1>5. /\ r \in Run /\ Len(r.moves) \in 0 .. Passes(v.ops, d)
      /\ ~r.over => Len(r.moves) = Passes(v.ops, d) /\ FewLines(r.mmc)
  BY <1>1, <1>2, <1>4, LoopType
<1> HIDE DEF r
<1>6. /\ Ready(w) /\ (w.engine # "none" => w.ops <= 0)
      /\ Kept(w, v) /\ w.bd = v.bd /\ w.done = v.done \o r.moves
      /\ r.over => /\ w.engine = "none" /\ w.ce = FALSE
                   /\ w.reg = Results(v.engine, r.mmc)
      /\ ~r.over => /\ w.engine = v.engine /\ w.ce = v.ce /\ w.mmc = r.mmc
                    /\ w.reg = v.reg
  BY <1>1, <1>5, WorkedType
<1>7. Len(r.moves) \in Nat
  BY <1>4, <1>5
<1> HIDE DEF w
<1>8. Sliced(w, v, r)
  BY <1>6 DEF Sliced
<1> QED BY <1>5, <1>6, <1>7, <1>8 DEF w, r

\* The same with the bit BD, which only SRCH changes.
LEMMA WorkType ==
  ASSUME reg \in Registers, NEW v, Ready(v), v.engine \in AutoOps,
         v.ops > 0, NEW w \in Work(v)
  PROVE  /\ Ready(w) /\ (w.engine # "none" => w.ops <= 0)
         /\ ScrMode \in Screens5To8 =>
              \E d \in Deltas, found \in Nat :
                LET r == Loop(v.engine, v.mmc, Passes(v.ops, d), found) IN
                /\ r \in Run /\ Sliced(w, v, r)
                /\ v.engine = "SRCH" /\ r.over => w.bd = (Len(r.moves) = found)
                /\ v.engine # "SRCH" => found = 0
<1>1. v \in Machine /\ FewLines(v.mmc) /\ Owed(v.ops) /\ v.mmc \in Counters /\ v.ops \in Int
  BY MachineFields DEF Ready
<1>2. CASE ScrMode \notin Screens5To8
  <2> DEFINE mmc == IF v.engine \in AreaOps /\ v.mmc.NY = 0 THEN Ended(v.engine, v.mmc, 0)
                    ELSE v.mmc
  <2>1. w = Finish(v, mmc)
    BY <1>2 DEF Work
  <2>2. mmc \in Counters
    <3> DEFINE e == v.engine
               m == v.mmc
    <3>1. Ended(e, m, 0) \in Counters
      <4>1. m \in Counters /\ 0 \in Int
        BY <1>1
      <4> HIDE DEF e, m
      <4> QED BY <4>1, EndedType
    <3> QED BY <1>1, <3>1
  <2> HIDE DEF mmc
  <2>3. w \in Machine /\ FewLines(w.mmc) /\ w.engine = "none" /\ w.ops = v.ops
    BY <1>1, <2>1, <2>2, FinishType
  <2> QED BY <1>1, <1>2, <2>3 DEF Ready
<1>3. CASE ScrMode \in Screens5To8 /\ v.engine # "SRCH"
  <2>1. PICK d \in Deltas : w = Worked(v, d, Loop(v.engine, v.mmc, Passes(v.ops, d), 0))
    BY <1>3 DEF Work
  <2> DEFINE r == Loop(v.engine, v.mmc, Passes(v.ops, d), 0)
  <2>2. /\ r \in Run /\ Ready(w) /\ (w.engine # "none" => w.ops <= 0) /\ Sliced(w, v, r)
    BY <1>3, <2>1, SliceType
  <2> HIDE DEF r
  <2>3. 0 \in Nat /\ r \in Run /\ Sliced(w, v, r)
        /\ (v.engine = "SRCH" /\ r.over => w.bd = (Len(r.moves) = 0))
        /\ (v.engine # "SRCH" => 0 = 0)
    BY <1>3, <2>2
  <2> QED BY <2>2, <2>3 DEF r
<1>4. CASE ScrMode \in Screens5To8 /\ v.engine = "SRCH"
  <2>1. PICK d \in Deltas, found \in 1 .. v.ops : w = Searched(v, d, found)
    BY <1>4 DEF Work
  <2> DEFINE r == Loop(v.engine, v.mmc, Passes(v.ops, d), found)
             u == Worked(v, d, r)
             b == IF r.over THEN Len(r.moves) = found ELSE v.bd
  <2>2. found \in Nat
    BY <1>1
  <2>3. /\ r \in Run /\ Ready(u) /\ (u.engine # "none" => u.ops <= 0) /\ Sliced(u, v, r)
        /\ u.bd = v.bd
    BY <1>4, <2>2, SliceType
  <2>4. w = [u EXCEPT !.bd = IF r.over THEN Len(r.moves) = found ELSE @]
    BY <2>1 DEF Searched
  <2> HIDE DEF r, u
  <2>5. b \in BOOLEAN
    BY <1>1, MachineFields
  <2>6. w = [u EXCEPT !.bd = b] /\ u \in Machine
    BY <2>3, <2>4 DEF Machine, Ready
  <2>7. r.over => b = (Len(r.moves) = found)
    OBVIOUS
  <2> HIDE DEF b
  <2>8. /\ w \in Machine /\ w.mmc = u.mmc /\ w.ops = u.ops /\ w.engine = u.engine /\ w.ce = u.ce
        /\ w.tr = u.tr /\ w.clr = u.clr /\ w.s7 = u.s7 /\ w.got = u.got /\ w.bd = b
        /\ w.done = u.done /\ w.reg = u.reg
    BY <2>5, <2>6 DEF Machine
  <2>9. Ready(w) /\ (w.engine # "none" => w.ops <= 0)
    BY <2>3, <2>8 DEF Ready
  <2>10. Sliced(w, v, r)
    BY <2>3, <2>8 DEF Sliced, Kept
  <2>11. r.over => w.bd = (Len(r.moves) = found)
    BY <2>7, <2>8
  <2> QED BY <1>4, <2>2, <2>3, <2>9, <2>10, <2>11 DEF r
<1> QED BY <1>2, <1>3, <1>4

LEMMA VdpEngineType ==
  ASSUME reg \in Registers, NEW v, Ready(v), NEW w \in VdpEngine(v)
  PROVE  Sound(w)
<1>1. v \in Machine /\ FewLines(v.mmc) /\ Owed(v.ops) /\ v.ops \in Int
      /\ v.engine \in Engines \cup {"none"}
  BY MachineFields DEF Ready
<1>2. "none" \notin AutoOps
  BY DEF AutoOps, Engines, AreaOps, ByteOps, CpuOps, CpuReads, CpuSends
<1>3. CASE v.engine = "none" \/ v.ops <= 0
  <2>1. w = v
    BY <1>3 DEF VdpEngine
  <2> QED BY <1>2, <1>3, <2>1 DEF Sound
<1>4. CASE v.engine # "none" /\ v.ops > 0 /\ v.engine \in CpuOps
  <2>1. w \in Transfer(v)
    BY <1>1, <1>4 DEF VdpEngine
  <2>2. CASE v.tr
    <3>1. w = v
      BY <2>1, <2>2 DEF Transfer
    <3> QED BY <1>4, <3>1 DEF Sound, AutoOps
  <2>3. CASE ~v.tr
    <3>1. Ready(w) /\ w.engine \notin AutoOps
      BY <1>4, <2>1, <2>3, TransferType
    <3> QED BY <3>1 DEF Sound
  <2> QED BY <2>2, <2>3
<1>5. CASE v.engine # "none" /\ v.ops > 0 /\ v.engine \notin CpuOps
  <2>1. w \in Work(v)
    BY <1>1, <1>5 DEF VdpEngine
  <2>2. v.engine \in AutoOps
    BY <1>1, <1>5 DEF AutoOps
  <2>3. Ready(w) /\ (w.engine # "none" => w.ops <= 0)
    BY <1>5, <2>1, <2>2, WorkType
  <2> QED BY <1>2, <2>3 DEF Sound
<1> QED BY <1>1, <1>3, <1>4, <1>5

-----------------------------------------------------------------------------
\* Types

InType == ScrMode \in Modes \cup {0} /\ Sound(Vdp)

LEMMA VdpIs ==
  /\ Vdp.engine = engine /\ Vdp.mmc = MMC /\ Vdp.ops = ops /\ Vdp.ce = CE /\ Vdp.tr = TR
  /\ Vdp.bd = BD /\ Vdp.reg = reg /\ Vdp.clr = clr /\ Vdp.s7 = s7 /\ Vdp.done = done
  /\ Vdp.got = got
BY DEF Vdp

LEMMA InTypeVars ==
  ASSUME InType
  PROVE  /\ Vdp \in Machine /\ FewLines(MMC) /\ Owed(ops) /\ (engine \in AutoOps => ops <= 0)
         /\ engine \in Engines \cup {"none"} /\ MMC \in Counters /\ ops \in Int
         /\ CE \in BOOLEAN /\ TR \in BOOLEAN /\ BD \in BOOLEAN /\ reg \in Registers
         /\ clr \in Nat /\ s7 \in Nat /\ done \in Seq(Moves) /\ got \in Nat
<1>1. Vdp \in Machine /\ FewLines(Vdp.mmc) /\ Owed(Vdp.ops)
      /\ (Vdp.engine \in AutoOps => Vdp.ops <= 0)
  BY DEF InType, Sound, Ready
<1>2. /\ Vdp.engine \in Engines \cup {"none"} /\ Vdp.mmc \in Counters /\ Vdp.ops \in Int
      /\ Vdp.ce \in BOOLEAN /\ Vdp.tr \in BOOLEAN /\ Vdp.bd \in BOOLEAN /\ Vdp.reg \in Registers
      /\ Vdp.clr \in Nat /\ Vdp.s7 \in Nat /\ Vdp.done \in Seq(Moves) /\ Vdp.got \in Nat
  BY <1>1, MachineFields
<1> QED BY <1>1, <1>2, VdpIs

\* The state after a step that makes v of the machine.
LEMMA BecomesMachine ==
  ASSUME NEW v, Sound(v), NEW c, Becomes(v, c)
  PROVE  Sound(Vdp')
<1> DEFINE kept == c # NoCmd
           n1 == IF kept THEN v.clr ELSE 0
           n2 == IF kept THEN v.s7 ELSE 0
           n3 == IF kept THEN v.done ELSE <<>>
           n4 == IF kept THEN v.got ELSE 0
<1>1. v \in Machine /\ FewLines(v.mmc) /\ Owed(v.ops) /\ (v.engine \in AutoOps => v.ops <= 0)
  BY DEF Sound, Ready
<1>2. /\ v.engine \in Engines \cup {"none"} /\ v.mmc \in Counters /\ v.ops \in Int
      /\ v.ce \in BOOLEAN /\ v.tr \in BOOLEAN /\ v.bd \in BOOLEAN /\ v.reg \in Registers
      /\ v.clr \in Nat /\ v.s7 \in Nat /\ v.done \in Seq(Moves) /\ v.got \in Nat
  BY <1>1, MachineFields
<1>3. n1 \in Nat /\ n2 \in Nat /\ n3 \in Seq(Moves) /\ n4 \in Nat
  BY <1>2
<1>4. clr' = n1 /\ s7' = n2 /\ done' = n3 /\ got' = n4
  BY DEF Becomes
<1>5. /\ engine' = v.engine /\ MMC' = v.mmc /\ ops' = v.ops /\ reg' = v.reg
      /\ CE' = v.ce /\ TR' = v.tr /\ BD' = v.bd
  BY DEF Becomes
<1> HIDE DEF n1, n2, n3, n4
<1>6. Vdp' = [engine |-> v.engine, mmc |-> v.mmc, ops |-> v.ops, ce |-> v.ce, tr |-> v.tr,
              bd |-> v.bd, reg |-> v.reg, clr |-> n1, s7 |-> n2, done |-> n3, got |-> n4]
  BY <1>4, <1>5 DEF Vdp
<1> DEFINE u == Vdp'
<1>7. u \in Machine /\ u.mmc = v.mmc /\ u.ops = v.ops /\ u.engine = v.engine
  BY <1>2, <1>3, <1>6 DEF Machine
<1> HIDE DEF u
<1>8. Sound(u)
  BY <1>1, <1>7 DEF Sound, Ready
<1> QED BY <1>8 DEF u

LEMMA BecomesType ==
  ASSUME NEW v, Sound(v), NEW c, Becomes(v, c), ScrMode' \in Modes \cup {0}
  PROVE  InType'
<1>1. Sound(Vdp')
  BY BecomesMachine
<1> QED BY <1>1 DEF InType

LEMMA RefilledType ==
  ASSUME NEW n, Owed(n)
  PROVE  Refilled(n) \in 1 .. Slice /\ Owed(Refilled(n)) /\ Refilled(n) \in Int
<1>1. PICK d \in Deltas : n \in 1 - d .. Slice
  BY DEF Owed
<1>2. d \in Nat \ {0} /\ d < Slice /\ Slice \in Nat
  BY Constants
<1>3. Refilled(n) \in 1 .. Slice
  BY <1>1, <1>2 DEF Refilled
<1>4. Refilled(n) \in 1 - d .. Slice /\ Refilled(n) \in Int
  BY <1>2, <1>3
<1> QED BY <1>3, <1>4 DEF Owed

\* The counters of a new command.
LEMMA FetchedType ==
  ASSUME NEW m \in Screens5To8, NEW e, NEW r \in Registers
  PROVE  LET at == Fetched(m, e, r)
             t == IF e \in ByteOps THEN PPB[m] ELSE 1 IN
         /\ at \in Counters /\ FewLines(at)
         /\ at.SX \in 0 .. Columns - 1 /\ at.DX \in 0 .. Columns - 1
         /\ at.SY \in 0 .. Lines - 1 /\ at.DY \in 0 .. Lines - 1
         /\ at.NX \in 0 .. Lines - 1 /\ at.NY \in 0 .. Lines - 1
         /\ at.TX \in {t, -t} /\ at.TY \in {1, -1} /\ at.MX = PPL[m] /\ at.ANX = at.NX
         /\ at.ASX = IF e = "LINE" THEN (at.NX - 1) \div 2 ELSE at.SX
         /\ at.ADX = IF e = "LINE" THEN 0 ELSE at.DX
<1> DEFINE n  == r.nx % Lines
           t  == IF e \in ByteOps THEN PPB[m] ELSE 1
           nx == IF e \in ByteOps THEN n \div PPB[m] ELSE n
           tx == IF r.left THEN -t ELSE t
           ty == IF r.up THEN -1 ELSE 1
           ny == r.ny % Lines
           sx == r.sx % Columns
           sy == r.sy % Lines
           dx == r.dx % Columns
           dy == r.dy % Lines
           asx == IF e = "LINE" THEN (nx - 1) \div 2 ELSE sx
           adx == IF e = "LINE" THEN 0 ELSE dx
           at == Fetched(m, e, r)
<1>1. /\ r.sx \in Int /\ r.sy \in Int /\ r.dx \in Int /\ r.dy \in Int /\ r.nx \in Int
      /\ r.ny \in Int
  BY DEF Registers
<1>2. /\ PPB[m] \in Nat \ {0} /\ PPL[m] \in Nat \ {0} /\ Lines \in Nat \ {0}
      /\ Columns \in Nat \ {0}
  BY Constants
<1>3. /\ n \in 0 .. Lines - 1 /\ ny \in 0 .. Lines - 1 /\ sy \in 0 .. Lines - 1
      /\ dy \in 0 .. Lines - 1 /\ sx \in 0 .. Columns - 1 /\ dx \in 0 .. Columns - 1
  BY <1>1, <1>2, DivisionType
<1>4. nx \in 0 .. Lines - 1
  <2>1. n \in Nat
    BY <1>2, <1>3
  <2> HIDE DEF n
  <2> DEFINE q == n \div PPB[m]
  <2>2. q \in Nat /\ q <= n
    BY <1>2, <2>1, QuotientLess
  <2> HIDE DEF q
  <2>3. q \in 0 .. Lines - 1
    BY <1>2, <1>3, <2>1, <2>2
  <2> QED BY <1>3, <2>3 DEF q
<1>5. t \in Nat \ {0} /\ tx \in {t, -t} /\ tx \in Int /\ ty \in {1, -1}
  BY <1>2
<1>6. asx \in Int /\ adx \in Int
  <2> HIDE DEF nx, sx, dx
  <2>1. nx - 1 \in Int /\ 2 \in Nat \ {0}
    BY <1>2, <1>4
  <2>2. (nx - 1) \div 2 \in Int
    BY <2>1, DivisionType
  <2> QED BY <1>2, <1>3, <2>2
<1>7. at = [SX |-> sx, SY |-> sy, DX |-> dx, DY |-> dy, TX |-> tx, TY |-> ty, NX |-> nx,
            NY |-> ny, MX |-> PPL[m], ASX |-> asx, ADX |-> adx, ANX |-> nx]
  BY DEF Fetched
<1> HIDE DEF n, nx, ny, sx, sy, dx, dy, tx, ty, t, at
<1>8. asx = (IF e = "LINE" THEN (nx - 1) \div 2 ELSE sx) /\ adx = (IF e = "LINE" THEN 0 ELSE dx)
  OBVIOUS
<1> HIDE DEF asx, adx
<1>9. at \in Counters
  <2>1. sx \in Int /\ sy \in Int /\ dx \in Int /\ dy \in Int /\ nx \in Int /\ ny \in Int
        /\ ty \in Int /\ PPL[m] \in Int
    BY <1>2, <1>3, <1>4, <1>5
  <2> QED BY <1>5, <1>6, <1>7, <2>1 DEF Counters
<1>10. /\ at.SX = sx /\ at.SY = sy /\ at.DX = dx /\ at.DY = dy /\ at.TX = tx /\ at.TY = ty
       /\ at.NX = nx /\ at.NY = ny /\ at.MX = PPL[m] /\ at.ASX = asx /\ at.ADX = adx
       /\ at.ANX = nx
  BY <1>7
<1>11. FewLines(at)
  BY <1>2, <1>3, <1>10 DEF FewLines
<1>12. /\ at \in Counters /\ FewLines(at)
       /\ at.SX \in 0 .. Columns - 1 /\ at.DX \in 0 .. Columns - 1
       /\ at.SY \in 0 .. Lines - 1 /\ at.DY \in 0 .. Lines - 1
       /\ at.NX \in 0 .. Lines - 1 /\ at.NY \in 0 .. Lines - 1
       /\ at.TX \in {t, -t} /\ at.TY \in {1, -1} /\ at.MX = PPL[m] /\ at.ANX = at.NX
       /\ at.ASX = (IF e = "LINE" THEN (at.NX - 1) \div 2 ELSE at.SX)
       /\ at.ADX = (IF e = "LINE" THEN 0 ELSE at.DX)
  BY <1>3, <1>4, <1>5, <1>8, <1>9, <1>10, <1>11
<1> QED BY <1>12 DEF at, t

LEMMA TypeInit == Init => InType
<1> SUFFICES ASSUME Init PROVE InType
  OBVIOUS
<1>1. /\ ScrMode = 0 /\ engine = "none" /\ MMC = NoMMC /\ ops = 1
      /\ CE = FALSE /\ TR = FALSE /\ BD = FALSE /\ reg = NoArgs /\ clr = 0 /\ s7 = 0
      /\ done = <<>> /\ got = 0
  BY DEF Init
<1>2. NoArgs \in Registers
  BY DEF NoArgs, Registers
<1>3. Vdp \in Machine
  <2>1. <<>> \in Seq(Moves) /\ NoMMC \in Counters
    BY NoMMCType
  <2>2. Vdp = [engine |-> "none", mmc |-> NoMMC, ops |-> 1, ce |-> FALSE, tr |-> FALSE,
               bd |-> FALSE, reg |-> NoArgs, clr |-> 0, s7 |-> 0, done |-> <<>>, got |-> 0]
    BY <1>1 DEF Vdp
  <2> QED BY <1>2, <2>1, <2>2 DEF Machine
<1>4. Owed(1)
  <2>1. PICK d \in Deltas : TRUE
    BY TimingAssumption
  <2>2. d \in Nat \ {0} /\ d < Slice /\ Slice \in Nat
    BY Constants
  <2>3. 1 \in 1 - d .. Slice
    BY <2>2
  <2> QED BY <2>3 DEF Owed
<1>5. "none" \notin AutoOps
  BY DEF AutoOps, Engines, AreaOps, ByteOps, CpuOps, CpuReads, CpuSends
<1>6. Sound(Vdp)
  BY <1>1, <1>3, <1>4, <1>5, NoMMCType, VdpIs DEF Sound, Ready
<1> QED BY <1>1, <1>6 DEF InType

\* The machines that the handlers give to VdpEngine().
LEMMA HandedType ==
  ASSUME InType
  PROVE  /\ Ready(Vdp)
         /\ Ready([Vdp EXCEPT !.ops = Refilled(ops)])
         /\ \A r \in Registers : Sound([Vdp EXCEPT !.reg = r])
         /\ \A n \in Nat : Ready([[Vdp EXCEPT !.clr = n] EXCEPT !.tr = FALSE])
         /\ Ready([Vdp EXCEPT !.tr = FALSE, !.got = s7])
         /\ \A b1, b2, b3 \in BOOLEAN, r \in Registers :
              Sound([Vdp EXCEPT !.ce = b1, !.tr = b2, !.bd = b3, !.reg = r])
         /\ Sound([Vdp EXCEPT !.engine = "none", !.mmc = NoMMC, !.ce = FALSE])
<1>1. /\ Vdp \in Machine /\ FewLines(MMC) /\ Owed(ops) /\ (engine \in AutoOps => ops <= 0)
      /\ s7 \in Nat
  BY InTypeVars
<1>2. /\ Vdp.engine = engine /\ Vdp.mmc = MMC /\ Vdp.ops = ops
  BY VdpIs
<1> DEFINE q == Refilled(ops)
<1>3. q \in Int /\ Owed(q)
  BY <1>1, RefilledType
<1> HIDE DEF q
<1>4. "none" \notin AutoOps /\ "none" \in Engines \cup {"none"}
  BY DEF AutoOps, Engines, AreaOps, ByteOps, CpuOps, CpuReads, CpuSends
<1>5. Ready(Vdp)
  BY <1>1, <1>2 DEF Ready
<1> DEFINE v == [Vdp EXCEPT !.ops = q]
<1>6. v \in Machine /\ v.mmc = MMC /\ v.ops = q
  BY <1>1, <1>2, <1>3 DEF Machine
<1>7. Ready(v)
  <2> HIDE DEF v
  <2> QED BY <1>1, <1>3, <1>6 DEF Ready
<1>8. ASSUME NEW r \in Registers PROVE Sound([Vdp EXCEPT !.reg = r])
  <2> DEFINE u == [Vdp EXCEPT !.reg = r]
  <2>1. u \in Machine /\ u.mmc = MMC /\ u.ops = ops /\ u.engine = engine
    BY <1>1, <1>2 DEF Machine
  <2> HIDE DEF u
  <2>2. Sound(u)
    BY <1>1, <2>1 DEF Sound, Ready
  <2> QED BY <2>2 DEF u
<1>9. ASSUME NEW n \in Nat PROVE Ready([[Vdp EXCEPT !.clr = n] EXCEPT !.tr = FALSE])
  <2> DEFINE u == [[Vdp EXCEPT !.clr = n] EXCEPT !.tr = FALSE]
  <2>1. u \in Machine /\ u.mmc = MMC /\ u.ops = ops
    BY <1>1, <1>2 DEF Machine
  <2> HIDE DEF u
  <2>2. Ready(u)
    BY <1>1, <2>1 DEF Ready
  <2> QED BY <2>2 DEF u
<1>10. Ready([Vdp EXCEPT !.tr = FALSE, !.got = s7])
  <2> DEFINE u == [Vdp EXCEPT !.tr = FALSE, !.got = s7]
  <2>1. u \in Machine /\ u.mmc = MMC /\ u.ops = ops
    BY <1>1, <1>2 DEF Machine
  <2> HIDE DEF u
  <2>2. Ready(u)
    BY <1>1, <2>1 DEF Ready
  <2> QED BY <2>2 DEF u
<1>11. ASSUME NEW b1 \in BOOLEAN, NEW b2 \in BOOLEAN, NEW b3 \in BOOLEAN, NEW r \in Registers
       PROVE  Sound([Vdp EXCEPT !.ce = b1, !.tr = b2, !.bd = b3, !.reg = r])
  <2> DEFINE u == [Vdp EXCEPT !.ce = b1, !.tr = b2, !.bd = b3, !.reg = r]
  <2>1. u \in Machine /\ u.mmc = MMC /\ u.ops = ops /\ u.engine = engine
    BY <1>1, <1>2 DEF Machine
  <2> HIDE DEF u
  <2>2. Sound(u)
    BY <1>1, <2>1 DEF Sound, Ready
  <2> QED BY <2>2 DEF u
<1>12. Sound([Vdp EXCEPT !.engine = "none", !.mmc = NoMMC, !.ce = FALSE])
  <2> DEFINE u == [Vdp EXCEPT !.engine = "none", !.mmc = NoMMC, !.ce = FALSE]
  <2>1. u \in Machine /\ u.mmc = NoMMC /\ u.ops = ops /\ u.engine = "none"
    BY <1>1, <1>2, <1>4, NoMMCType DEF Machine
  <2> HIDE DEF u
  <2>2. Sound(u)
    BY <1>1, <1>4, <2>1, NoMMCType DEF Sound, Ready
  <2> QED BY <2>2 DEF u
<1> QED BY <1>5, <1>7, <1>8, <1>9, <1>10, <1>11, <1>12 DEF v, q

\* A command that starts.
Begun(e) ==
  [Vdp EXCEPT !.engine = e, !.mmc = Fetched(ScrMode, e, reg), !.ce = TRUE,
              !.clr = IF e \in CpuSends /\ ~TR THEN 1 ELSE 0,
              !.s7 = 0, !.got = 0, !.done = <<>>]

LEMMA BegunType ==
  ASSUME InType, ScrMode \in Screens5To8, NEW e \in Engines
  PROVE  LET v == Begun(e) IN
         /\ Ready(v) /\ v.engine = e /\ v.mmc = Fetched(ScrMode, e, reg) /\ v.ce = TRUE
         /\ v.tr = TR /\ v.bd = BD /\ v.ops = ops /\ v.reg = reg
         /\ v.clr = (IF e \in CpuSends /\ ~TR THEN 1 ELSE 0) /\ v.s7 = 0 /\ v.got = 0
         /\ v.done = <<>>
<1> DEFINE at == Fetched(ScrMode, e, reg)
           n == IF e \in CpuSends /\ ~TR THEN 1 ELSE 0
           v == Begun(e)
<1>1. /\ Vdp \in Machine /\ Owed(ops) /\ reg \in Registers
  BY InTypeVars
<1>2. at \in Counters /\ FewLines(at)
  BY <1>1, FetchedType
<1>3. n \in Nat /\ <<>> \in Seq(Moves) /\ e \in Engines \cup {"none"}
  OBVIOUS
<1>4. v = [Vdp EXCEPT !.engine = e, !.mmc = at, !.ce = TRUE, !.clr = n,
                      !.s7 = 0, !.got = 0, !.done = <<>>]
  BY DEF Begun
<1> HIDE DEF at, n, v
<1>5. /\ v \in Machine /\ v.engine = e /\ v.mmc = at /\ v.ce = TRUE
      /\ v.tr = Vdp.tr /\ v.bd = Vdp.bd /\ v.ops = Vdp.ops /\ v.reg = Vdp.reg
      /\ v.clr = n /\ v.s7 = 0 /\ v.got = 0 /\ v.done = <<>>
  BY <1>1, <1>2, <1>3, <1>4 DEF Machine
<1>6. v.tr = TR /\ v.bd = BD /\ v.ops = ops /\ v.reg = reg
  BY <1>5, VdpIs
<1>7. Ready(v)
  BY <1>1, <1>2, <1>5, <1>6 DEF Ready
<1> QED BY <1>5, <1>6, <1>7 DEF v, at, n

LEMMA TypeNext == InType /\ [Next]_vars => InType'
<1> SUFFICES ASSUME InType, [Next]_vars PROVE InType'
  OBVIOUS
<1>0. /\ reg \in Registers /\ ScrMode \in Modes \cup {0} /\ s7 \in Nat /\ clr \in Nat
      /\ CE \in BOOLEAN /\ TR \in BOOLEAN /\ BD \in BOOLEAN
  BY InTypeVars DEF InType
<1>1. CASE LoopVDP
  <2>1. PICK v \in VdpEngine([Vdp EXCEPT !.ops = Refilled(ops)]) : Becomes(v, cmd)
    BY <1>1 DEF LoopVDP
  <2>2. Sound(v)
    BY <1>0, <2>1, HandedType, VdpEngineType
  <2> QED BY <1>0, <1>1, <2>1, <2>2, BecomesType DEF LoopVDP
<1>2. ASSUME NEW a \in IF engine = "none" THEN Args ELSE LateArgs, WriteArgs(a) PROVE InType'
  <2>1. a \in Registers
    BY <1>2, ArgsAssumption
  <2>2. Sound([Vdp EXCEPT !.reg = a])
    BY <2>1, HandedType
  <2> QED BY <1>0, <1>2, <2>2, BecomesType DEF WriteArgs
<1>3. CASE WriteColour
  <2> DEFINE n == IF engine \in CpuSends THEN clr + 1 ELSE clr
             u == [Vdp EXCEPT !.clr = n]
  <2>1. n \in Nat
    BY <1>0
  <2>2. [Vdp EXCEPT !.clr = IF engine \in CpuSends THEN @ + 1 ELSE @] = u
    BY DEF Vdp
  <2>3. PICK v, c : v \in VDPWrite(u) /\ Becomes(v, c)
    BY <1>3, <2>2 DEF WriteColour
  <2>4. v \in VdpEngine([u EXCEPT !.tr = FALSE])
    BY <2>3 DEF VDPWrite
  <2>5. Ready([u EXCEPT !.tr = FALSE])
    BY <2>1, HandedType
  <2> HIDE DEF u
  <2>6. Sound(v)
    BY <1>0, <2>4, <2>5, VdpEngineType
  <2> QED BY <1>0, <1>3, <2>3, <2>6, BecomesType DEF WriteColour
<1>4. CASE ReadPixel
  <2>1. PICK v, c : v \in VDPRead(Vdp) /\ Becomes(v, c)
    BY <1>4 DEF ReadPixel
  <2>2. v \in VdpEngine([Vdp EXCEPT !.tr = FALSE, !.got = s7])
    BY <2>1, VdpIs DEF VDPRead
  <2>3. Sound(v)
    BY <1>0, <2>2, HandedType, VdpEngineType
  <2> QED BY <1>0, <1>4, <2>1, <2>3, BecomesType DEF ReadPixel
<1>5. CASE VDPDraw
  <2>1. PICK op \in Ops : IF op \in Immediate THEN DrawNow ELSE Draw(op)
    BY <1>5 DEF VDPDraw
  <2>2. ScrMode' \in Modes \cup {0}
    BY <1>0, <1>5 DEF VDPDraw
  <2>3. CASE op \in Immediate
    BY <2>1, <2>2, <2>3, HandedType, BecomesType DEF DrawNow
  <2>4. CASE op \notin Immediate
    <3>1. op \in Engines
      BY <2>4, OpsAssumption
    <3>2. ScrMode \in Screens5To8
      BY <1>0, <1>5, GeometryAssumption DEF VDPDraw, Screens5To8
    <3>3. PICK v, c : v \in VdpEngine(Begun(op)) /\ Becomes(v, c)
      BY <2>1, <2>4 DEF Draw, Started, Begun
    <3>4. Sound(v)
      BY <1>0, <3>1, <3>2, <3>3, BegunType, VdpEngineType
    <3> QED BY <2>2, <3>3, <3>4, BecomesType
  <2> QED BY <2>3, <2>4
<1>6. ASSUME NEW mode \in Modes, SetScreen(mode) PROVE InType'
  <2>1. Sound(Vdp)
    BY DEF InType
  <2> QED BY <1>6, <2>1, BecomesType DEF SetScreen
<1>7. CASE ResetMSX
  <2>1. NoArgs \in Registers
    BY DEF NoArgs, Registers
  <2>2. Sound([Vdp EXCEPT !.ce = FALSE, !.tr = FALSE, !.bd = FALSE, !.reg = NoArgs])
    BY <2>1, HandedType
  <2> QED BY <1>7, <2>2, BecomesType DEF ResetMSX
<1>8. CASE LoadState
  <2>1. PICK s \in SavedStates :
          /\ ScrMode' = s.mode
          /\ Becomes([Vdp EXCEPT !.ce = s.ce, !.tr = s.tr, !.bd = s.bd, !.reg = s.reg], NoCmd)
    BY <1>8 DEF LoadState
  <2>2. s.mode \in Modes /\ s.ce \in BOOLEAN /\ s.tr \in BOOLEAN /\ s.bd \in BOOLEAN
        /\ s.reg \in Registers
    BY StatesAssumption
  <2>3. Sound([Vdp EXCEPT !.ce = s.ce, !.tr = s.tr, !.bd = s.bd, !.reg = s.reg])
    BY <2>2, HandedType
  <2> QED BY <2>1, <2>2, <2>3, BecomesType
<1>9. CASE UNCHANGED vars
  <2>1. Vdp' = Vdp /\ ScrMode' = ScrMode
    BY <1>9 DEF vars, Vdp
  <2> QED BY <2>1 DEF InType
<1> QED BY <1>1, <1>2, <1>3, <1>4, <1>5, <1>6, <1>7, <1>8, <1>9 DEF Next

LEMMA InTypeImplies == InType => TypeOK
<1> SUFFICES ASSUME InType PROVE TypeOK
  OBVIOUS
<1>1. Lines \in Nat \ {0}
  BY Constants
<1>2. MMC.NY \in -Lines .. Lines - 1
  BY <1>1, InTypeVars DEF FewLines
<1> QED BY <1>2, InTypeVars DEF TypeOK, InType, Owed

\* Types, and the cycles that VdpOpsCnt holds: what LoopVDP() gives in a scanline
\* is never more than a slice, an engine owes less than a pixel, and one that
\* needs no CPU has none left when it goes on.
THEOREM TypeCorrect == Spec => []TypeOK
<1>1. Init => InType
  BY TypeInit
<1>2. InType /\ [Next]_vars => InType'
  BY TypeNext
<1>3. InType => TypeOK
  BY InTypeImplies
<1> QED BY <1>1, <1>2, <1>3, PTL DEF Spec

-----------------------------------------------------------------------------
\* Where lines end

LEMMA LeastIs ==
  ASSUME NEW S, S \subseteq Nat, S # {}
  PROVE  Least(S) \in S /\ \A k \in S : Least(S) <= k
<1>1. PICK x \in S : \A y \in S : ~(y < x)
  BY LeastElement
<1>2. \A y \in S : x <= y
  BY <1>1
<1> QED BY <1>2 DEF Least

\* From a line that is not beyond, in steps of t that divide it.
LEMMA LeavesLine ==
  ASSUME NEW t \in Nat \ {0}, NEW m \in Nat \ {0}, NEW ppl \in Nat \ {0}, ppl = t * m,
         NEW x \in Int, NEW tx \in {t, -t}, ~Beyond(x, ppl)
  PROVE  \E n \in 1 .. m : Beyond(x + tx * n, ppl)
<1> DEFINE q == x \div ppl
           r == x % ppl
           a == r \div t
           b == r % t
<1>1. q \in Int /\ r \in 0 .. ppl - 1 /\ x = ppl * q + r
  BY DivisionType
<1>2. q % 2 = 0
  <2>1. q % 2 \in 0 .. 1
    BY <1>1
  <2> QED BY <2>1 DEF Beyond
<1>3. r \in Int /\ r >= 0
  BY <1>1
<1> HIDE DEF q, r
<1>4. a \in Nat /\ b \in 0 .. t - 1 /\ r = t * a + b
  BY <1>3, DivisionType
<1> HIDE DEF a, b
<1>5. a < m
  <2> SUFFICES ASSUME a >= m PROVE FALSE
    BY <1>4
  <2>1. t * a >= t * m
    BY <1>4
  <2> QED BY <1>1, <1>4, <2>1
<1>6. t <= ppl
  <2>1. t * m >= t
    OBVIOUS
  <2> QED BY <2>1
<1>7. CASE tx = t
  <2> DEFINE n == m - a
  <2>1. n \in 1 .. m
    BY <1>4, <1>5
  <2>2. t * a + t * n = ppl
    <3>1. t * a + t * (m - a) = t * m
      BY <1>4
    <3> QED BY <3>1
  <2>3. x + tx * n = ppl * (q + 1) + b
    <3>1. ppl * (q + 1) = ppl * q + ppl
      BY <1>1
    <3>2. t * n \in Int /\ ppl * q \in Int /\ t * a \in Int
      BY <1>1, <1>4, <2>1
    <3> HIDE DEF n
    <3> QED BY <1>1, <1>4, <1>7, <2>2, <3>1, <3>2
  <2>4. (x + tx * n) \div ppl = q + 1
    <3>1. b \in 0 .. ppl - 1 /\ q + 1 \in Int
      BY <1>1, <1>4, <1>6
    <3> QED BY <2>3, <3>1, DivisionIs
  <2>5. (q + 1) % 2 = 1
    BY <1>1, <1>2
  <2> QED BY <2>1, <2>4, <2>5 DEF Beyond
<1>8. CASE tx = -t
  <2> DEFINE n == a + 1
  <2>1. n \in 1 .. m
    BY <1>4, <1>5
  <2>2. x + tx * n = ppl * (q - 1) + (ppl - t + b)
    <3>1. ppl * (q - 1) = ppl * q - ppl
      BY <1>1
    <3>2. (-t) * (a + 1) = -(t * a) - t
      BY <1>4
    <3>3. ppl * q \in Int /\ t * a \in Int
      BY <1>1, <1>4
    <3> QED BY <1>1, <1>4, <1>8, <3>1, <3>2, <3>3
  <2>3. (x + tx * n) \div ppl = q - 1
    <3>1. ppl - t + b \in 0 .. ppl - 1 /\ q - 1 \in Int
      BY <1>1, <1>4, <1>6
    <3> QED BY <2>2, <3>1, DivisionIs
  <2>4. (q - 1) % 2 = 1
    BY <1>1, <1>2
  <2> QED BY <2>1, <2>3, <2>4 DEF Beyond
<1> QED BY <1>7, <1>8

\* From any place.
LEMMA LineEndsSomewhere ==
  ASSUME NEW m \in Screens5To8, NEW t \in Nat \ {0}, PPL[m] % t = 0, NEW x \in Int,
         NEW tx \in {t, -t}
  PROVE  \E n \in 1 .. Columns + 1 : Beyond(x + tx * n, PPL[m])
<1> DEFINE ppl == PPL[m]
           k == ppl \div t
           lines == Columns \div ppl
<1>1. ppl \in Nat \ {0} /\ Columns \in Nat \ {0} /\ Columns % ppl = 0
  BY Constants
<1>2. ppl % t = 0
  OBVIOUS
<1> HIDE DEF ppl
<1>3. k \in Nat /\ ppl = t * k /\ k <= ppl
  <2>1. ppl \in Int /\ ppl >= 0 /\ ppl \in Nat
    BY <1>1
  <2>2. k \in Nat /\ ppl = t * k + (ppl % t)
    BY <2>1, DivisionType
  <2>3. t * k \in Nat /\ k <= ppl
    BY <2>1, <2>2, QuotientLess
  <2> QED BY <1>2, <2>2, <2>3
<1>4. lines \in Nat /\ Columns = ppl * lines
  <2>1. Columns \in Int /\ Columns >= 0
    BY <1>1
  <2>2. lines \in Nat /\ Columns = ppl * lines + (Columns % ppl)
    BY <1>1, <2>1, DivisionType
  <2>3. ppl * lines \in Nat
    BY <1>1, <2>2
  <2> QED BY <1>1, <2>2, <2>3
<1> HIDE DEF k, lines
<1>5. k # 0 /\ lines # 0
  BY <1>1, <1>3, <1>4
<1>6. ppl <= Columns
  <2>1. ppl * lines >= ppl
    BY <1>1, <1>4, <1>5
  <2> QED BY <1>4, <2>1
<1>7. tx * 1 = tx /\ tx \in Int /\ x + tx \in Int
  OBVIOUS
<1>8. CASE Beyond(x + tx, ppl)
  <2>1. 1 \in 1 .. Columns + 1 /\ Beyond(x + tx * 1, ppl)
    BY <1>1, <1>7, <1>8
  <2> QED BY <2>1 DEF ppl
<1>9. CASE ~Beyond(x + tx, ppl)
  <2>1. PICK n \in 1 .. k : Beyond((x + tx) + tx * n, ppl)
    BY <1>1, <1>3, <1>5, <1>7, <1>9, LeavesLine
  <2>2. n + 1 \in 1 .. Columns + 1
    BY <1>1, <1>3, <1>6
  <2>3. (x + tx) + tx * n = x + tx * (n + 1)
    BY <1>3, <1>7
  <2> QED BY <2>1, <2>2, <2>3 DEF ppl
<1> QED BY <1>8, <1>9

-----------------------------------------------------------------------------
\* Commands and their places

\* A command that the history tells of.
Known(c) ==
  /\ c.op \in Engines /\ c.mode \in Screens5To8 /\ c.ymajor \in BOOLEAN
  /\ c.at \in Counters
  /\ c.at.SY \in 0 .. Lines - 1 /\ c.at.DY \in 0 .. Lines - 1
  /\ c.at.NX \in 0 .. Lines - 1 /\ c.at.NY \in 0 .. Lines - 1
  /\ c.at.TX \in {IF c.op \in ByteOps THEN PPB[c.mode] ELSE 1,
                  IF c.op \in ByteOps THEN -PPB[c.mode] ELSE -1}
  /\ c.at.TY \in {1, -1} /\ c.at.MX = PPL[c.mode] /\ c.at.ANX = c.at.NX
  /\ c.at.ASX = IF c.op = "LINE" THEN (c.at.NX - 1) \div 2 ELSE c.at.SX
  /\ c.at.ADX = IF c.op = "LINE" THEN 0 ELSE c.at.DX
  /\ c.op = "LINE" => c.at.NY <= c.at.NX

LEMMA KnownTypes ==
  ASSUME NEW c, Known(c)
  PROVE  /\ c.at.SX \in Int /\ c.at.SY \in Nat /\ c.at.DX \in Int /\ c.at.DY \in Nat
         /\ c.at.TX \in Int /\ c.at.TY \in Int /\ c.at.NX \in Nat /\ c.at.NY \in Nat
         /\ c.at.MX \in Int /\ c.at.ASX \in Int /\ c.at.ADX \in Int /\ c.at.ANX \in Int
         /\ c.at \in Counters /\ PPL[c.mode] \in Nat \ {0} /\ Lines \in Nat \ {0}
         /\ \A n \in Int : Step(c, n) \in Int /\ Step(c, n + 1) = Step(c, n) + c.at.TX
         /\ Step(c, 0) = 0
<1>1. /\ c.at.SX \in Int /\ c.at.DX \in Int /\ c.at.TX \in Int /\ c.at.TY \in Int
      /\ c.at.MX \in Int /\ c.at.ASX \in Int /\ c.at.ADX \in Int /\ c.at.ANX \in Int
      /\ c.at \in Counters
  BY DEF Known, Counters
<1>2. PPL[c.mode] \in Nat \ {0} /\ Lines \in Nat \ {0}
  BY Constants DEF Known
<1>3. /\ c.at.SY \in Nat /\ c.at.DY \in Nat /\ c.at.NX \in Nat /\ c.at.NY \in Nat
  BY <1>2 DEF Known
<1>4. \A n \in Int : c.at.TX * n \in Int /\ c.at.TX * (n + 1) = c.at.TX * n + c.at.TX
  BY <1>1
<1>5. c.at.TX * 0 = 0
  BY <1>1
<1> QED BY <1>1, <1>2, <1>3, <1>4, <1>5 DEF Step

\* In the steps of a command it always comes to the end of a line.
LEMMA StepsEnd ==
  ASSUME NEW c, Known(c), NEW x \in Int
  PROVE  \E n \in 1 .. Columns + 1 : Beyond(x + Step(c, n), PPL[c.mode])
<1> DEFINE t == IF c.op \in ByteOps THEN PPB[c.mode] ELSE 1
<1>1. c.mode \in Screens5To8 /\ c.at.TX \in {t, -t}
  BY DEF Known
<1>2. t \in Nat \ {0} /\ PPL[c.mode] % t = 0
  <2>1. PPB[c.mode] \in Nat \ {0} /\ PPL[c.mode] % PPB[c.mode] = 0 /\ PPL[c.mode] \in Nat
    BY <1>1, Constants
  <2>2. PPL[c.mode] % 1 = 0
    BY <2>1
  <2> QED BY <2>1, <2>2
<1> HIDE DEF t
<1>3. \E n \in 1 .. Columns + 1 : Beyond(x + c.at.TX * n, PPL[c.mode])
  BY <1>1, <1>2, LineEndsSomewhere
<1> QED BY <1>3 DEF Step

LEMMA Lengths ==
  ASSUME NEW c, Known(c), c.op \in AreaOps \cup {"SRCH"}
  PROVE  /\ LineLength(c) \in Nat \ {0} /\ LineEnds(c, LineLength(c))
         /\ \A n \in 1 .. LineLength(c) - 1 : ~LineEnds(c, n)
<1> DEFINE S == {n \in 1 .. Columns + 1 : LineEnds(c, n)}
           L == LineLength(c)
<1>1. c.at.SX \in Int /\ c.at.DX \in Int
  BY KnownTypes
<1>2. S # {}
  <2>1. c.op \in LoopsSX \cup {"SRCH"} \/ c.op \in LoopsDX
    BY DEF AreaOps, ByteOps, CpuOps, CpuReads, CpuSends, LoopsSX, LoopsDX
  <2>2. CASE c.op \in LoopsSX \cup {"SRCH"}
    <3>1. PICK n \in 1 .. Columns + 1 : Beyond(c.at.SX + Step(c, n), PPL[c.mode])
      BY <1>1, StepsEnd
    <3> QED BY <2>2, <3>1 DEF LineEnds
  <2>3. CASE c.op \in LoopsDX
    <3>1. PICK n \in 1 .. Columns + 1 : Beyond(c.at.DX + Step(c, n), PPL[c.mode])
      BY <1>1, StepsEnd
    <3> QED BY <2>3, <3>1 DEF LineEnds
  <2> QED BY <2>1, <2>2, <2>3
<1>3. Columns \in Nat
  BY Constants
<1>4. S \subseteq Nat
  BY <1>3
<1>5. L = Least(S)
  BY DEF LineLength
<1> HIDE DEF L
<1>6. L \in S /\ \A k \in S : L <= k
  <2> HIDE DEF S
  <2> QED BY <1>2, <1>4, <1>5, LeastIs
<1>7. \A n \in 1 .. L - 1 : n \in 1 .. Columns + 1 /\ ~(L <= n)
  BY <1>3, <1>6
<1>8. L \in Nat \ {0} /\ LineEnds(c, L) /\ \A n \in 1 .. L - 1 : ~LineEnds(c, n)
  BY <1>3, <1>6, <1>7
<1> QED BY <1>8 DEF L

LEMMA Counts ==
  ASSUME NEW c, Known(c)
  PROVE  /\ LineCount(c) \in 1 .. Lines /\ AreaEnds(c, LineCount(c))
         /\ \A n \in 1 .. LineCount(c) - 1 : ~AreaEnds(c, n)
<1> DEFINE S == {n \in 1 .. Lines : AreaEnds(c, n)}
           C == LineCount(c)
<1>1. Lines \in Nat \ {0} /\ c.at.NY \in 0 .. Lines - 1
  BY Constants DEF Known
<1>2. S # {}
  <2>1. CASE c.at.NY = 0
    <3>1. (Lines * (-1) + 0) % Lines = 0
      BY <1>1, DivisionIs
    <3>2. (c.at.NY - Lines) % Lines = 0
      BY <1>1, <2>1, <3>1
    <3> QED BY <1>1, <3>2 DEF AreaEnds
  <2>2. CASE c.at.NY # 0
    <3>1. c.at.NY \in 1 .. Lines /\ (c.at.NY - c.at.NY) % Lines = 0
      BY <1>1, <2>2
    <3> QED BY <3>1 DEF AreaEnds
  <2> QED BY <2>1, <2>2
<1>3. S \subseteq Nat
  BY <1>1
<1>4. C = Least(S)
  BY DEF LineCount
<1> HIDE DEF C
<1>5. C \in S /\ \A k \in S : C <= k
  <2> HIDE DEF S
  <2> QED BY <1>2, <1>3, <1>4, LeastIs
<1>6. \A n \in 1 .. C - 1 : n \in 1 .. Lines /\ ~(C <= n)
  BY <1>1, <1>5
<1>7. C \in 1 .. Lines /\ AreaEnds(c, C) /\ \A n \in 1 .. C - 1 : ~AreaEnds(c, n)
  BY <1>1, <1>5, <1>6
<1> QED BY <1>7 DEF C

\* The counters of an area command at pixel n of line m, both counted from 0.
AreaAt(c, n, m) ==
  [c.at EXCEPT !.ANX = IF c.op \in CountsX THEN c.at.NX - n ELSE c.at.NX,
               !.ASX = IF c.op \in LoopsSX THEN c.at.SX + Step(c, n) ELSE c.at.SX,
               !.ADX = IF c.op \in LoopsDX THEN c.at.DX + Step(c, n) ELSE c.at.DX,
               !.SY  = IF c.op \in LoopsSY THEN c.at.SY + c.at.TY * m ELSE c.at.SY,
               !.DY  = IF c.op \in LoopsDY THEN c.at.DY + c.at.TY * m ELSE c.at.DY,
               !.NY  = c.at.NY - m]

LEMMA SameCounters ==
  ASSUME NEW a \in Counters, NEW b \in Counters,
         a.SX = b.SX, a.SY = b.SY, a.DX = b.DX, a.DY = b.DY, a.TX = b.TX, a.TY = b.TY,
         a.NX = b.NX, a.NY = b.NY, a.MX = b.MX, a.ASX = b.ASX, a.ADX = b.ADX, a.ANX = b.ANX
  PROVE  a = b
BY DEF Counters

LEMMA SixCounters ==
  ASSUME NEW a \in Counters, NEW anx \in Int, NEW asx \in Int, NEW adx \in Int,
         NEW sy \in Int, NEW dy \in Int, NEW ny \in Int
  PROVE  [a EXCEPT !.ANX = anx, !.ASX = asx, !.ADX = adx, !.SY = sy, !.DY = dy, !.NY = ny]
           \in Counters
BY DEF Counters

LEMMA AreaAtType ==
  ASSUME NEW c, Known(c), NEW n \in Int, NEW m \in Int, NEW at, at = AreaAt(c, n, m)
  PROVE  /\ at \in Counters
         /\ at.SX = c.at.SX /\ at.DX = c.at.DX /\ at.TX = c.at.TX /\ at.TY = c.at.TY
         /\ at.NX = c.at.NX /\ at.MX = c.at.MX /\ at.NY = c.at.NY - m
         /\ at.ANX = (IF c.op \in CountsX THEN c.at.NX - n ELSE c.at.NX)
         /\ at.ASX = (IF c.op \in LoopsSX THEN c.at.SX + Step(c, n) ELSE c.at.SX)
         /\ at.ADX = (IF c.op \in LoopsDX THEN c.at.DX + Step(c, n) ELSE c.at.DX)
         /\ at.SY = (IF c.op \in LoopsSY THEN c.at.SY + c.at.TY * m ELSE c.at.SY)
         /\ at.DY = (IF c.op \in LoopsDY THEN c.at.DY + c.at.TY * m ELSE c.at.DY)
<1> DEFINE anx == IF c.op \in CountsX THEN c.at.NX - n ELSE c.at.NX
           asx == IF c.op \in LoopsSX THEN c.at.SX + Step(c, n) ELSE c.at.SX
           adx == IF c.op \in LoopsDX THEN c.at.DX + Step(c, n) ELSE c.at.DX
           sy  == IF c.op \in LoopsSY THEN c.at.SY + c.at.TY * m ELSE c.at.SY
           dy  == IF c.op \in LoopsDY THEN c.at.DY + c.at.TY * m ELSE c.at.DY
           ny  == c.at.NY - m
<1>1. /\ anx \in Int /\ asx \in Int /\ adx \in Int /\ sy \in Int /\ dy \in Int /\ ny \in Int
  <2>1. /\ c.at.SX \in Int /\ c.at.SY \in Int /\ c.at.DX \in Int /\ c.at.DY \in Int
        /\ c.at.TY \in Int /\ c.at.NX \in Int /\ c.at.NY \in Int /\ Step(c, n) \in Int
    BY KnownTypes
  <2>2. c.at.TY * m \in Int
    BY <2>1
  <2> QED BY <2>1, <2>2
<1>2. c.at \in Counters
  BY DEF Known
<1>3. at = [c.at EXCEPT !.ANX = anx, !.ASX = asx, !.ADX = adx, !.SY = sy, !.DY = dy, !.NY = ny]
  BY DEF AreaAt
<1> HIDE DEF anx, asx, adx, sy, dy, ny
<1>4. /\ at \in Counters
      /\ at.SX = c.at.SX /\ at.DX = c.at.DX /\ at.TX = c.at.TX /\ at.TY = c.at.TY
      /\ at.NX = c.at.NX /\ at.MX = c.at.MX /\ at.NY = ny
      /\ at.ANX = anx /\ at.ASX = asx /\ at.ADX = adx /\ at.SY = sy /\ at.DY = dy
  <2>1. at \in Counters
    <3>1. [c.at EXCEPT !.ANX = anx, !.ASX = asx, !.ADX = adx, !.SY = sy, !.DY = dy,
                       !.NY = ny] \in Counters
      <4> DEFINE a == c.at
      <4>1. a \in Counters
        BY <1>2
      <4> HIDE DEF a
      <4>2. [a EXCEPT !.ANX = anx, !.ASX = asx, !.ADX = adx, !.SY = sy, !.DY = dy,
                      !.NY = ny] \in Counters
        BY <1>1, <4>1, SixCounters
      <4> QED BY <4>2 DEF a
    <3> QED BY <1>3, <3>1
  <2>2. /\ at.SX = c.at.SX /\ at.DX = c.at.DX /\ at.TX = c.at.TX /\ at.TY = c.at.TY
        /\ at.NX = c.at.NX /\ at.MX = c.at.MX
    BY <1>2, <1>3 DEF Counters
  <2>3. /\ at.NY = ny /\ at.ANX = anx /\ at.ASX = asx /\ at.ADX = adx
        /\ at.SY = sy /\ at.DY = dy
    BY <1>2, <1>3 DEF Counters
  <2> QED BY <2>1, <2>2, <2>3
<1> QED BY <1>4 DEF anx, asx, adx, sy, dy, ny

LEMMA AreaBegins ==
  ASSUME NEW c, Known(c), c.op \in AreaOps
  PROVE  c.at = AreaAt(c, 0, 0)
<1>1. AreaAt(c, 0, 0) \in Counters /\ c.at \in Counters
  BY AreaAtType, KnownTypes
<1>2. c.op # "LINE"
  BY DEF AreaOps, ByteOps, CpuOps, CpuReads, CpuSends
<1>3. c.at.ASX = c.at.SX /\ c.at.ADX = c.at.DX /\ c.at.ANX = c.at.NX
  BY <1>2 DEF Known
<1>4. /\ Step(c, 0) = 0 /\ c.at.TY * 0 = 0 /\ c.at.NX - 0 = c.at.NX /\ c.at.NY - 0 = c.at.NY
      /\ c.at.SX + 0 = c.at.SX /\ c.at.DX + 0 = c.at.DX /\ c.at.SY + 0 = c.at.SY
      /\ c.at.DY + 0 = c.at.DY
  BY KnownTypes
<1> DEFINE at == AreaAt(c, 0, 0)
<1>5. /\ at.SX = c.at.SX /\ at.DX = c.at.DX /\ at.TX = c.at.TX /\ at.TY = c.at.TY
      /\ at.NX = c.at.NX /\ at.MX = c.at.MX /\ at.NY = c.at.NY
      /\ at.ANX = c.at.ANX /\ at.ASX = c.at.ASX /\ at.ADX = c.at.ADX
      /\ at.SY = c.at.SY /\ at.DY = c.at.DY
  BY <1>3, <1>4, AreaAtType
<1> HIDE DEF at
<1> QED BY <1>1, <1>5, SameCounters DEF at

LEMMA Distributes ==
  ASSUME NEW a \in Int, NEW b \in Int
  PROVE  a * b \in Int /\ a * (b + 1) = a * b + a /\ a * (b + 1) \in Int
OBVIOUS

\* A pass from one pixel to the next one, from the end of a line to the next
\* line, and from the end of the last one to the end of the command.
LEMMA AreaPassGoes ==
  ASSUME NEW c, Known(c), c.op \in AreaOps,
         NEW n \in 0 .. LineLength(c) - 1, NEW m \in 0 .. LineCount(c) - 1
  PROVE  LET pass == AreaPass(c.op, AreaAt(c, n, m), PPL[c.mode]) IN
         /\ n + 1 < LineLength(c) => pass = Pass(AreaAt(c, n + 1, m), FALSE)
         /\ n + 1 = LineLength(c) /\ m + 1 < LineCount(c) =>
              pass = Pass(AreaAt(c, 0, m + 1), FALSE)
         /\ n + 1 = LineLength(c) /\ m + 1 = LineCount(c) =>
              pass = Pass(Ended(c.op, AreaAt(c, n, m), c.at.NY - LineCount(c)), TRUE)
<1> DEFINE L == LineLength(c)
           C == LineCount(c)
           mmc == AreaAt(c, n, m)
           ppl == PPL[c.mode]
           e   == c.op
           anx == IF e \in CountsX THEN mmc.ANX - 1 ELSE mmc.ANX
           asx == IF e \in LoopsSX THEN mmc.ASX + mmc.TX ELSE mmc.ASX
           adx == IF e \in LoopsDX THEN mmc.ADX + mmc.TX ELSE mmc.ADX
           sy  == IF e \in LoopsSY THEN mmc.SY + mmc.TY ELSE mmc.SY
           dy  == IF e \in LoopsDY THEN mmc.DY + mmc.TY ELSE mmc.DY
           ny  == mmc.NY - 1
           lineOver == \/ e \in CountsX /\ anx = 0
                       \/ e \in LoopsSX /\ Beyond(asx, ppl)
                       \/ e \in LoopsDX /\ Beyond(adx, ppl)
           allOver  == ny % Lines = 0 \/ sy = -1 \/ dy = -1
           pass == AreaPass(e, mmc, ppl)
           within == [mmc EXCEPT !.ANX = anx, !.ASX = asx, !.ADX = adx]
           next == [mmc EXCEPT !.ANX = mmc.NX, !.ASX = mmc.SX, !.ADX = mmc.DX,
                               !.SY = sy, !.DY = dy, !.NY = ny]
<1>1. pass = IF ~lineOver THEN Pass(within, FALSE)
             ELSE IF allOver THEN Pass(Ended(e, mmc, ny), TRUE) ELSE Pass(next, FALSE)
  BY DEF AreaPass
<1>2. L \in Nat \ {0} /\ LineEnds(c, L) /\ \A k \in 1 .. L - 1 : ~LineEnds(c, k)
  BY Lengths
<1>3. C \in Nat \ {0} /\ AreaEnds(c, C) /\ \A k \in 1 .. C - 1 : ~AreaEnds(c, k)
  <2>1. Lines \in Nat
    BY Constants
  <2> QED BY <2>1, Counts
<1>4. n \in Nat /\ n + 1 \in Nat /\ m \in Nat /\ m + 1 \in Nat /\ n + 1 <= L /\ m + 1 <= C
  BY <1>2, <1>3
<1>5. /\ mmc \in Counters
      /\ mmc.SX = c.at.SX /\ mmc.DX = c.at.DX /\ mmc.TX = c.at.TX /\ mmc.TY = c.at.TY
      /\ mmc.NX = c.at.NX /\ mmc.MX = c.at.MX /\ mmc.NY = c.at.NY - m
      /\ mmc.ANX = (IF e \in CountsX THEN c.at.NX - n ELSE c.at.NX)
      /\ mmc.ASX = (IF e \in LoopsSX THEN c.at.SX + Step(c, n) ELSE c.at.SX)
      /\ mmc.ADX = (IF e \in LoopsDX THEN c.at.DX + Step(c, n) ELSE c.at.DX)
      /\ mmc.SY = (IF e \in LoopsSY THEN c.at.SY + c.at.TY * m ELSE c.at.SY)
      /\ mmc.DY = (IF e \in LoopsDY THEN c.at.DY + c.at.TY * m ELSE c.at.DY)
  BY <1>4, AreaAtType
<1>6. /\ c.at.SX \in Int /\ c.at.SY \in Nat /\ c.at.DX \in Int /\ c.at.DY \in Nat
      /\ c.at.TX \in Int /\ c.at.TY \in Int /\ c.at.NX \in Int /\ c.at.NY \in Int
      /\ Step(c, n) \in Int /\ Step(c, n + 1) = Step(c, n) + c.at.TX
      /\ Step(c, n + 1) \in Int /\ Step(c, 0) = 0
  <2>1. n \in Int /\ \A k \in Int : Step(c, k) \in Int /\ Step(c, k + 1) = Step(c, k) + c.at.TX
    BY <1>4, KnownTypes
  <2>2. Step(c, n) \in Int /\ Step(c, n + 1) = Step(c, n) + c.at.TX
    BY <2>1
  <2>3. n + 1 \in Int
    BY <2>1
  <2>4. Step(c, n + 1) \in Int
    BY <2>1, <2>3
  <2>5. /\ c.at.SX \in Int /\ c.at.SY \in Nat /\ c.at.DX \in Int /\ c.at.DY \in Nat
        /\ c.at.TX \in Int /\ c.at.TY \in Int /\ Step(c, 0) = 0
    BY KnownTypes
  <2>6. c.at.NX \in Int /\ c.at.NY \in Int
    BY KnownTypes
  <2> QED BY <2>2, <2>4, <2>5, <2>6
<1> DEFINE y  == c.at.TY * m
           y1 == c.at.TY * (m + 1)
<1>7. y \in Int /\ y1 = y + c.at.TY /\ y1 \in Int
  <2>1. m \in Int
    BY <1>4
  <2> QED BY <1>6, <2>1, Distributes
<1>71. /\ mmc.SY = (IF e \in LoopsSY THEN c.at.SY + y ELSE c.at.SY)
       /\ mmc.DY = (IF e \in LoopsDY THEN c.at.DY + y ELSE c.at.DY)
  BY <1>5
<1> HIDE DEF L, C, mmc, ppl, y, y1
<1>8. /\ anx = (IF e \in CountsX THEN c.at.NX - (n + 1) ELSE c.at.NX)
      /\ asx = (IF e \in LoopsSX THEN c.at.SX + Step(c, n + 1) ELSE c.at.SX)
      /\ adx = (IF e \in LoopsDX THEN c.at.DX + Step(c, n + 1) ELSE c.at.DX)
      /\ anx \in Int /\ asx \in Int /\ adx \in Int
  BY <1>4, <1>5, <1>6
<1>9. /\ sy = (IF e \in LoopsSY THEN c.at.SY + y1 ELSE c.at.SY)
      /\ dy = (IF e \in LoopsDY THEN c.at.DY + y1 ELSE c.at.DY)
      /\ ny = c.at.NY - (m + 1) /\ sy \in Int /\ dy \in Int /\ ny \in Int
  <2>1. mmc.TY = c.at.TY /\ mmc.NY = c.at.NY - m
    BY <1>5
  <2>2. ny = c.at.NY - (m + 1) /\ ny \in Int
    BY <1>4, <1>6, <2>1
  <2>3. sy = (IF e \in LoopsSY THEN c.at.SY + y1 ELSE c.at.SY) /\ sy \in Int
    BY <1>6, <1>7, <1>71, <2>1
  <2>4. dy = (IF e \in LoopsDY THEN c.at.DY + y1 ELSE c.at.DY) /\ dy \in Int
    BY <1>6, <1>7, <1>71, <2>1
  <2> QED BY <2>2, <2>3, <2>4
<1> HIDE DEF anx, asx, adx, sy, dy, ny
<1>10. lineOver = LineEnds(c, n + 1)
  <2>1. e # "SRCH"
    BY DEF AreaOps, ByteOps, CpuOps, CpuReads, CpuSends
  <2>2. e \in CountsX => (anx = 0 <=> n + 1 = c.at.NX)
    BY <1>4, <1>6, <1>8
  <2>3. e \in LoopsSX => (Beyond(asx, ppl) <=> Beyond(c.at.SX + Step(c, n + 1), ppl))
    BY <1>8
  <2>4. e \in LoopsDX => (Beyond(adx, ppl) <=> Beyond(c.at.DX + Step(c, n + 1), ppl))
    BY <1>8
  <2>5. e \in LoopsSX \cup {"SRCH"} <=> e \in LoopsSX
    BY <2>1
  <2>6. LineEnds(c, n + 1) <=>
          \/ e \in CountsX /\ n + 1 = c.at.NX
          \/ e \in LoopsSX /\ Beyond(c.at.SX + Step(c, n + 1), ppl)
          \/ e \in LoopsDX /\ Beyond(c.at.DX + Step(c, n + 1), ppl)
    BY <2>5 DEF LineEnds, ppl
  <2>7. LineEnds(c, n + 1) \in BOOLEAN
    BY DEF LineEnds, Beyond
  <2> QED BY <2>2, <2>3, <2>4, <2>6, <2>7 DEF Beyond
<1>11. allOver = AreaEnds(c, m + 1)
  <2>1. sy = -1 <=> (e \in LoopsSY /\ c.at.SY + y1 = -1)
    BY <1>6, <1>9
  <2>2. dy = -1 <=> (e \in LoopsDY /\ c.at.DY + y1 = -1)
    BY <1>6, <1>9
  <2>3. ny % Lines = 0 <=> (c.at.NY - (m + 1)) % Lines = 0
    BY <1>9
  <2>4. AreaEnds(c, m + 1) <=>
          \/ (c.at.NY - (m + 1)) % Lines = 0
          \/ e \in LoopsSY /\ c.at.SY + y1 = -1
          \/ e \in LoopsDY /\ c.at.DY + y1 = -1
    BY DEF AreaEnds, y1
  <2>5. AreaEnds(c, m + 1) \in BOOLEAN
    BY DEF AreaEnds
  <2> QED BY <2>1, <2>2, <2>3, <2>4, <2>5
<1> HIDE DEF lineOver, allOver, pass
<1>12. ASSUME n + 1 < L PROVE pass = Pass(AreaAt(c, n + 1, m), FALSE)
  <2>1. n + 1 \in 1 .. L - 1
    BY <1>2, <1>4, <1>12
  <2>2. ~lineOver
    BY <1>2, <1>10, <2>1
  <2>3. pass = Pass(within, FALSE)
    BY <1>1, <2>2
  <2> DEFINE at == AreaAt(c, n + 1, m)
  <2>4. /\ at \in Counters
        /\ at.SX = c.at.SX /\ at.DX = c.at.DX /\ at.TX = c.at.TX /\ at.TY = c.at.TY
        /\ at.NX = c.at.NX /\ at.MX = c.at.MX /\ at.NY = mmc.NY
        /\ at.ANX = anx /\ at.ASX = asx /\ at.ADX = adx /\ at.SY = mmc.SY /\ at.DY = mmc.DY
    BY <1>4, <1>5, <1>8, AreaAtType
  <2>5. /\ within \in Counters
        /\ within.SX = mmc.SX /\ within.DX = mmc.DX /\ within.TX = mmc.TX
        /\ within.TY = mmc.TY /\ within.NX = mmc.NX /\ within.MX = mmc.MX
        /\ within.NY = mmc.NY /\ within.ANX = anx /\ within.ASX = asx /\ within.ADX = adx
        /\ within.SY = mmc.SY /\ within.DY = mmc.DY
    <3>1. within = [mmc EXCEPT !.ANX = anx, !.ASX = asx, !.ADX = adx]
      OBVIOUS
    <3>2. mmc \in Counters /\ anx \in Int /\ asx \in Int /\ adx \in Int
      BY <1>5, <1>8
    <3> HIDE DEF within
    <3>3. within \in Counters
      BY <3>1, <3>2 DEF Counters
    <3>4. within.ANX = anx /\ within.ASX = asx /\ within.ADX = adx
      BY <3>1, <3>2 DEF Counters
    <3>5. /\ within.SX = mmc.SX /\ within.DX = mmc.DX /\ within.TX = mmc.TX
          /\ within.TY = mmc.TY /\ within.NX = mmc.NX /\ within.MX = mmc.MX
      BY <3>1, <3>2 DEF Counters
    <3>6. within.NY = mmc.NY /\ within.SY = mmc.SY /\ within.DY = mmc.DY
      BY <3>1, <3>2 DEF Counters
    <3> QED BY <3>3, <3>4, <3>5, <3>6
  <2> HIDE DEF at, within
  <2>6. within = at
    BY <1>5, <2>4, <2>5, SameCounters
  <2> QED BY <2>3, <2>6 DEF at
<1>13. n + 1 = L => lineOver
  BY <1>2, <1>10
<1>14. ASSUME n + 1 = L, m + 1 < C PROVE pass = Pass(AreaAt(c, 0, m + 1), FALSE)
  <2>1. m + 1 \in 1 .. C - 1
    BY <1>3, <1>4, <1>14
  <2>2. pass = Pass(next, FALSE)
    BY <1>1, <1>3, <1>11, <1>13, <1>14, <2>1
  <2> DEFINE at == AreaAt(c, 0, m + 1)
  <2>3. /\ at \in Counters
        /\ at.SX = c.at.SX /\ at.DX = c.at.DX /\ at.TX = c.at.TX /\ at.TY = c.at.TY
        /\ at.NX = c.at.NX /\ at.MX = c.at.MX /\ at.NY = ny
        /\ at.ANX = c.at.NX /\ at.ASX = c.at.SX /\ at.ADX = c.at.DX
        /\ at.SY = sy /\ at.DY = dy
    <3>1. c.at.NX - 0 = c.at.NX /\ c.at.SX + 0 = c.at.SX /\ c.at.DX + 0 = c.at.DX
      BY <1>6
    <3>2. m + 1 \in Int /\ 0 \in Int
      BY <1>4
    <3>3. at = AreaAt(c, 0, m + 1)
      OBVIOUS
    <3> HIDE DEF at
    <3>4. /\ at \in Counters
          /\ at.SX = c.at.SX /\ at.DX = c.at.DX /\ at.TX = c.at.TX /\ at.TY = c.at.TY
          /\ at.NX = c.at.NX /\ at.MX = c.at.MX /\ at.NY = c.at.NY - (m + 1)
          /\ at.ANX = (IF e \in CountsX THEN c.at.NX - 0 ELSE c.at.NX)
          /\ at.ASX = (IF e \in LoopsSX THEN c.at.SX + Step(c, 0) ELSE c.at.SX)
          /\ at.ADX = (IF e \in LoopsDX THEN c.at.DX + Step(c, 0) ELSE c.at.DX)
          /\ at.SY = (IF e \in LoopsSY THEN c.at.SY + y1 ELSE c.at.SY)
          /\ at.DY = (IF e \in LoopsDY THEN c.at.DY + y1 ELSE c.at.DY)
      BY <3>2, <3>3, AreaAtType DEF y1
    <3>5. Step(c, 0) = 0
      BY <1>6
    <3> QED BY <1>9, <3>1, <3>4, <3>5
  <2>4. /\ next \in Counters
        /\ next.SX = mmc.SX /\ next.DX = mmc.DX /\ next.TX = mmc.TX
        /\ next.TY = mmc.TY /\ next.NX = mmc.NX /\ next.MX = mmc.MX
        /\ next.NY = ny /\ next.ANX = mmc.NX /\ next.ASX = mmc.SX /\ next.ADX = mmc.DX
        /\ next.SY = sy /\ next.DY = dy
    <3>1. next = [mmc EXCEPT !.ANX = mmc.NX, !.ASX = mmc.SX, !.ADX = mmc.DX,
                             !.SY = sy, !.DY = dy, !.NY = ny]
      OBVIOUS
    <3>2. mmc \in Counters
      BY <1>5
    <3> HIDE DEF next
    <3>3. mmc.NX \in Int /\ mmc.SX \in Int /\ mmc.DX \in Int
      BY <3>2 DEF Counters
    <3>4. sy \in Int /\ dy \in Int /\ ny \in Int
      BY <1>9
    <3>5. next \in Counters
      BY <3>1, <3>2, <3>3, <3>4 DEF Counters
    <3> QED BY <3>1, <3>2, <3>5 DEF Counters
  <2> HIDE DEF at, next
  <2>5. next = at
    BY <1>5, <2>3, <2>4, SameCounters
  <2> QED BY <2>2, <2>5 DEF at
<1>15. ASSUME n + 1 = L, m + 1 = C PROVE pass = Pass(Ended(e, mmc, c.at.NY - C), TRUE)
  <2>1. pass = Pass(Ended(e, mmc, ny), TRUE)
    BY <1>1, <1>3, <1>11, <1>13, <1>15
  <2>2. ny = c.at.NY - C
    BY <1>9, <1>15
  <2> QED BY <2>1, <2>2
<1> HIDE DEF e
<1> QED BY <1>12, <1>14, <1>15 DEF L, C, pass, mmc, ppl, e

\* Only what a command copies from and to counts in a move.
LEMMA MovesAlike ==
  ASSUME NEW m, NEW e, NEW sx, NEW sy, NEW dx, NEW dy, NEW k,
         NEW tx, NEW ty, NEW ux, NEW uy, NEW j,
         e \in LoopsSY \cup {"SRCH"} => sx = tx /\ sy = ty,
         e \notin {"LMCM", "SRCH"} => dx = ux /\ dy = uy,
         e \in CpuSends => k = j
  PROVE  MoveOf(m, e, sx, sy, dx, dy, k) = MoveOf(m, e, tx, ty, ux, uy, j)
<1>1. (IF e \in {"LMMM", "HMMM", "YMMM", "LMCM", "SRCH"} THEN Cell(m, e, sx, sy)
       ELSE IF e \in CpuSends THEN Sent(k) ELSE FillColour)
      = (IF e \in {"LMMM", "HMMM", "YMMM", "LMCM", "SRCH"} THEN Cell(m, e, tx, ty)
         ELSE IF e \in CpuSends THEN Sent(j) ELSE FillColour)
  BY DEF LoopsSY
<1>2. (IF e \in {"LMCM", "SRCH"} THEN Nowhere ELSE Cell(m, e, dx, dy))
      = (IF e \in {"LMCM", "SRCH"} THEN Nowhere ELSE Cell(m, e, ux, uy))
  OBVIOUS
<1> QED BY <1>1, <1>2 DEF MoveOf

\* The move that a pass makes from pixel n of line m.
LEMMA AreaMoved ==
  ASSUME NEW c, Known(c), c.op \in AreaOps, ScrMode = c.mode,
         NEW n \in Nat, NEW m \in Nat, NEW k, NEW j, c.op \in CpuSends => k = j
  PROVE  Moved(c.op, AreaAt(c, n, m), k) = AreaMove(c, n, m, j)
<1> DEFINE mmc == AreaAt(c, n, m)
           e   == c.op
           x   == Step(c, n)
           y   == c.at.TY * m
           sx  == IF e = "YMMM" THEN mmc.ADX ELSE mmc.ASX
<1>1. /\ mmc.ASX = (IF e \in LoopsSX THEN c.at.SX + x ELSE c.at.SX)
      /\ mmc.ADX = (IF e \in LoopsDX THEN c.at.DX + x ELSE c.at.DX)
      /\ mmc.SY = (IF e \in LoopsSY THEN c.at.SY + y ELSE c.at.SY)
      /\ mmc.DY = (IF e \in LoopsDY THEN c.at.DY + y ELSE c.at.DY)
  <2>1. n \in Int /\ m \in Int
    OBVIOUS
  <2> QED BY <2>1, AreaAtType
<1> HIDE DEF mmc, x, y
<1>2. e # "SRCH" /\ e # "LINE"
  BY DEF AreaOps, ByteOps, CpuOps, CpuReads, CpuSends
<1>3. Moved(e, mmc, k) = MoveOf(c.mode, e, sx, mmc.SY, mmc.ADX, mmc.DY, k)
  BY <1>2 DEF Moved
<1> DEFINE tx == (IF e = "YMMM" THEN c.at.DX ELSE c.at.SX) + x
<1>4. AreaMove(c, n, m, j) = MoveOf(c.mode, e, tx, c.at.SY + y, c.at.DX + x, c.at.DY + y, j)
  BY DEF AreaMove, x, y
<1>5. e \in LoopsSY \cup {"SRCH"} => sx = tx /\ mmc.SY = c.at.SY + y
  BY <1>1, <1>2 DEF LoopsSY, LoopsSX, LoopsDX
<1>6. e \notin {"LMCM", "SRCH"} => mmc.ADX = c.at.DX + x /\ mmc.DY = c.at.DY + y
  BY <1>1 DEF LoopsDX, LoopsDY, AreaOps, ByteOps, CpuOps, CpuReads, CpuSends
<1> HIDE DEF sx, tx
<1>7. MoveOf(c.mode, e, sx, mmc.SY, mmc.ADX, mmc.DY, k)
      = MoveOf(c.mode, e, tx, c.at.SY + y, c.at.DX + x, c.at.DY + y, j)
  BY <1>5, <1>6, MovesAlike
<1> QED BY <1>3, <1>4, <1>7 DEF mmc

\* Where pixel n of line m is in the plan.
LEMMA AreaIndex ==
  ASSUME NEW L \in Nat \ {0}, NEW C \in Nat \ {0}, NEW n \in 0 .. L - 1, NEW m \in 0 .. C - 1
  PROVE  /\ L * m + n \in Nat /\ L * m + n + 1 \in 1 .. L * C
         /\ (L * m + n) % L = n /\ (L * m + n) \div L = m
         /\ n + 1 < L => n + 1 \in 0 .. L - 1 /\ L * m + n + 1 = L * m + (n + 1)
         /\ n + 1 = L => L * m + n + 1 = L * (m + 1) + 0
         /\ n + 1 = L /\ m + 1 < C => 0 \in 0 .. L - 1 /\ m + 1 \in 0 .. C - 1
         /\ n + 1 = L /\ m + 1 = C => L * m + n + 1 = L * C
<1>1. m \in Nat /\ n \in Nat /\ m + 1 <= C /\ n + 1 <= L
  OBVIOUS
<1>2. L * m \in Nat /\ L * (m + 1) = L * m + L /\ L * (m + 1) <= L * C /\ L * C \in Nat
  BY <1>1
<1>3. (L * m + n) % L = n /\ (L * m + n) \div L = m
  BY <1>1, DivisionIs
<1>4. n + 1 = L /\ m + 1 = C => L * m + n + 1 = L * C
  <2>1. m + 1 = C => L * (m + 1) = L * C
    OBVIOUS
  <2> QED BY <1>1, <1>2, <2>1
<1> QED BY <1>1, <1>2, <1>3, <1>4

LEMMA AreaPlanIs ==
  ASSUME NEW c, Known(c), c.op \in AreaOps,
         NEW n \in 0 .. LineLength(c) - 1, NEW m \in 0 .. LineCount(c) - 1
  PROVE  LET k == LineLength(c) * m + n IN
         /\ Plan(c) = AreaPlan(c) /\ Len(AreaPlan(c)) = LineLength(c) * LineCount(c)
         /\ AreaPlan(c)[k + 1] = AreaMove(c, n, m, k + 1)
<1> DEFINE L == LineLength(c)
           C == LineCount(c)
           k == L * m + n
<1>1. L \in Nat \ {0} /\ C \in Nat \ {0}
  <2>1. Lines \in Nat
    BY Constants
  <2> QED BY <2>1, Lengths, Counts
<1>2. c.op # "SRCH" /\ c.op # "LINE"
  BY DEF AreaOps, ByteOps, CpuOps, CpuReads, CpuSends
<1>3. Plan(c) = AreaPlan(c)
  BY <1>2 DEF Plan
<1>4. AreaPlan(c) = [i \in 1 .. L * C |-> AreaMove(c, (i - 1) % L, (i - 1) \div L, i)]
  BY DEF AreaPlan
<1>41. n \in 0 .. L - 1 /\ m \in 0 .. C - 1
  OBVIOUS
<1> HIDE DEF L, C
<1>5. /\ k \in Nat /\ k + 1 \in 1 .. L * C /\ k % L = n /\ k \div L = m
  <2>1. k \in Nat /\ k + 1 \in 1 .. L * C
    BY <1>1, <1>41, AreaIndex
  <2>2. k % L = n
    BY <1>1, <1>41, AreaIndex
  <2>3. k \div L = m
    BY <1>1, <1>41, AreaIndex
  <2> HIDE DEF k
  <2> QED BY <2>1, <2>2, <2>3
<1>6. L * C \in Nat
  BY <1>1
<1> HIDE DEF k
<1>7. (k + 1) - 1 = k
  BY <1>5
<1>8. AreaPlan(c)[k + 1] = AreaMove(c, n, m, k + 1)
  BY <1>4, <1>5, <1>7
<1>9. Len(AreaPlan(c)) = L * C
  <2> DEFINE N == L * C
  <2>1. N \in Nat /\ DOMAIN AreaPlan(c) = 1 .. N
    BY <1>4, <1>6
  <2> HIDE DEF N
  <2>2. \E f : AreaPlan(c) = [i \in 1 .. N |-> f[i]]
    <3>1. AreaPlan(c) = [i \in 1 .. N |-> AreaPlan(c)[i]]
      BY <1>4, <2>1 DEF N
    <3> QED BY <3>1
  <2>3. Len(AreaPlan(c)) = N
    BY <2>1, <2>2
  <2> QED BY <2>3 DEF N
<1> QED BY <1>3, <1>8, <1>9 DEF L, C, k

-----------------------------------------------------------------------------
\* SRCH and LINE

SearchAt(c, k) == [c.at EXCEPT !.SX = c.at.SX + Step(c, k)]

LEMMA SearchGoes ==
  ASSUME NEW c, Known(c), c.op = "SRCH", ScrMode = c.mode, NEW k \in 0 .. LineLength(c) - 1
  PROVE  LET pass == PassOf("SRCH", SearchAt(c, k)) IN
         /\ k \in Nat /\ k + 1 \in 1 .. LineLength(c)
         /\ pass.over \in BOOLEAN
         /\ ~pass.over => pass.mmc = SearchAt(c, k + 1) /\ k + 1 < LineLength(c)
         /\ pass.over => k + 1 = LineLength(c)
         /\ Plan(c) = SearchPlan(c) /\ Len(SearchPlan(c)) = LineLength(c)
         /\ Moved("SRCH", SearchAt(c, k), 0) = SearchPlan(c)[k + 1]
<1> DEFINE L == LineLength(c)
           mmc == SearchAt(c, k)
           sx == c.at.SX + Step(c, k)
           pass == PassOf("SRCH", mmc)
<1>1. L \in Nat \ {0} /\ LineEnds(c, L) /\ \A n \in 1 .. L - 1 : ~LineEnds(c, n)
  BY Lengths
<1>2. k \in Nat /\ k + 1 \in 1 .. L
  BY <1>1
<1>3. /\ c.at.SX \in Int /\ c.at.TX \in Int /\ Step(c, k) \in Int /\ c.at \in Counters
      /\ Step(c, k + 1) = Step(c, k) + c.at.TX
  BY <1>2, KnownTypes
<1>4. mmc.SX = sx /\ mmc.TX = c.at.TX /\ mmc.SY = c.at.SY /\ sx + c.at.TX = c.at.SX + Step(c, k + 1)
  BY <1>3 DEF SearchAt, Counters
<1>5. pass = Pass([mmc EXCEPT !.SX = @ + mmc.TX], Beyond(mmc.SX + mmc.TX, PPL[c.mode]))
  BY DEF PassOf, SearchPass
<1>6. pass.mmc = [mmc EXCEPT !.SX = @ + mmc.TX] /\ pass.over = Beyond(mmc.SX + mmc.TX, PPL[c.mode])
  <2> DEFINE a == [mmc EXCEPT !.SX = @ + mmc.TX]
             b == Beyond(mmc.SX + mmc.TX, PPL[c.mode])
  <2>1. pass = Pass(a, b)
    BY <1>5
  <2> HIDE DEF a, b, pass
  <2>2. pass.mmc = a /\ pass.over = b
    BY <2>1 DEF Pass
  <2> QED BY <2>2 DEF a, b
<1>7. pass.mmc = SearchAt(c, k + 1)
  BY <1>3, <1>4, <1>6 DEF SearchAt, Counters
<1>8. pass.over \in BOOLEAN
  BY <1>6 DEF Beyond
<1>9. pass.over = LineEnds(c, k + 1)
  <2>1. "SRCH" \notin CountsX /\ "SRCH" \notin LoopsDX
    BY DEF CountsX, AreaOps, ByteOps, CpuOps, CpuReads, CpuSends, LoopsDX
  <2>2. LineEnds(c, k + 1) = Beyond(c.at.SX + Step(c, k + 1), PPL[c.mode])
    BY <2>1 DEF LineEnds, Beyond
  <2> QED BY <1>4, <1>6, <2>2
<1> HIDE DEF pass
<1>10. (~pass.over => k + 1 < L) /\ (pass.over => k + 1 = L)
  BY <1>1, <1>2, <1>9
<1>11. Plan(c) = SearchPlan(c)
  BY DEF Plan
<1> DEFINE Move(n) == MoveOf(c.mode, "SRCH", c.at.SX + Step(c, n - 1), c.at.SY, 0, 0, 0)
<1>12. SearchPlan(c) = [n \in 1 .. L |-> Move(n)]
  BY DEF SearchPlan
<1>13. SearchPlan(c)[k + 1] = Move(k + 1)
  <2> HIDE DEF Move, L
  <2> QED BY <1>2, <1>12
<1>14. Len(SearchPlan(c)) = L
  <2> HIDE DEF Move, L
  <2> QED BY <1>1, <1>12
<1>15. Moved("SRCH", mmc, 0) = Move(k + 1)
  <2>1. (k + 1) - 1 = k
    BY <1>2
  <2> QED BY <1>4, <2>1 DEF Moved
<1> HIDE DEF Move
<1> QED BY <1>2, <1>7, <1>8, <1>10, <1>11, <1>13, <1>14, <1>15 DEF pass, mmc, L

\* LINE goes by the error of its shorter side, which it keeps in ASX.
LineAt(c, k) ==
  [c.at EXCEPT !.DX = LineX(c, k), !.DY = LineY(c, k), !.ADX = k,
               !.ASX = c.at.ASX - k * c.at.NY + c.at.NX * Minor(c, k)]

\* The remainder of the division in Minor is what ASX counts down from NX - 1.
LEMMA MinorGoes ==
  ASSUME NEW c, Known(c), c.op = "LINE", NEW k \in Nat, c.at.NX # 0
  PROVE  LET asx(i) == c.at.ASX - i * c.at.NY + c.at.NX * Minor(c, i)
             less == asx(k) - c.at.NY IN
         /\ Minor(c, k) \in Int /\ asx(k) \in 0 .. c.at.NX - 1
         /\ less < 0 => Minor(c, k + 1) = Minor(c, k) + 1 /\ asx(k + 1) = less + c.at.NX
         /\ less >= 0 => Minor(c, k + 1) = Minor(c, k) /\ asx(k + 1) = less
         /\ Minor(c, 0) = 0 /\ asx(0) = c.at.ASX
<1> DEFINE NX == c.at.NX
           NY == c.at.NY
           h  == (NX - 1) \div 2
           a  == c.at.ASX
<1>1. NX \in Nat \ {0} /\ NY \in Nat /\ NY <= NX /\ a = h
  BY KnownTypes DEF Known
<1>2. h \in Nat /\ h <= NX - 1
  <2> DEFINE n == NX - 1
             q == n \div 2
  <2>1. n \in Nat
    BY <1>1
  <2> HIDE DEF n
  <2>2. q \in Nat /\ q <= n
    BY <2>1, QuotientLess
  <2> QED BY <2>2 DEF n
<1> HIDE DEF NX, NY, h, a
<1> DEFINE num(i) == i * NY + NX - 1 - h
           M(i) == num(i) \div NX
           R(i) == num(i) % NX
<1>3. \A i : Minor(c, i) = M(i)
  BY <1>1 DEF Minor, NX, NY, h
<1>4. k * NY \in Nat /\ (k + 1) * NY = k * NY + NY
  BY <1>1
<1> DEFINE p == k * NY
<1>5. num(k) \in Int /\ num(k) = p + NX - 1 - h /\ num(k + 1) = p + NY + NX - 1 - h
  BY <1>1, <1>2, <1>4
<1> HIDE DEF p
<1>6. M(k) \in Int /\ R(k) \in 0 .. NX - 1 /\ num(k) = NX * M(k) + R(k)
  <2> DEFINE n == num(k)
  <2>1. n \in Int
    BY <1>5
  <2> HIDE DEF n
  <2>2. n \div NX \in Int /\ n % NX \in 0 .. NX - 1 /\ n = NX * (n \div NX) + (n % NX)
    BY <1>1, <2>1, DivisionType
  <2> QED BY <2>2 DEF n
<1> DEFINE mk == M(k)
           r  == R(k)
           m1 == M(k + 1)
           n1 == num(k + 1)
           asx == a - p + NX * mk
           less == asx - NY
<1>7. n1 \div NX = m1 /\ n1 = p + NY + NX - 1 - h
  BY <1>5
<1>8. mk \in Int /\ r \in 0 .. NX - 1 /\ p + NX - 1 - h = NX * mk + r /\ p \in Nat
  BY <1>4, <1>5, <1>6 DEF p
<1> HIDE DEF num, M, R, mk, r, m1, n1
<1> DEFINE q == NX * mk
<1>9. q \in Int /\ NX * (mk + 1) = q + NX
  BY <1>1, <1>8
<1>10. p + NX - 1 - h = q + r
  BY <1>8
<1>11. asx = a - p + q
  OBVIOUS
<1> HIDE DEF q, asx
<1>12. asx = NX - 1 - r /\ asx \in 0 .. NX - 1
  BY <1>1, <1>2, <1>8, <1>9, <1>10, <1>11
<1>13. ASSUME less < 0 PROVE m1 = mk + 1
  <2> DEFINE s == r + NY - NX
  <2>1. s \in 0 .. NX - 1 /\ n1 = q + NX + s
    BY <1>1, <1>2, <1>7, <1>8, <1>9, <1>10, <1>12, <1>13
  <2> HIDE DEF s
  <2>2. n1 = NX * (mk + 1) + s /\ mk + 1 \in Int
    BY <1>8, <1>9, <2>1
  <2> QED BY <1>1, <1>7, <2>1, <2>2, DivisionIs
<1>14. ASSUME less >= 0 PROVE m1 = mk
  <2> DEFINE s == r + NY
  <2>1. s \in 0 .. NX - 1 /\ n1 = q + s
    BY <1>1, <1>2, <1>7, <1>8, <1>9, <1>10, <1>12, <1>14
  <2> HIDE DEF s
  <2>2. n1 = NX * mk + s
    BY <2>1 DEF q
  <2> QED BY <1>1, <1>7, <1>8, <2>1, <2>2, DivisionIs
<1>15. M(0) = 0
  <2>1. num(0) = NX * 0 + (NX - 1 - h) /\ NX - 1 - h \in 0 .. NX - 1
    BY <1>1, <1>2 DEF num
  <2> QED BY <1>1, <2>1, DivisionIs DEF M
<1>16. /\ Minor(c, k) = mk /\ Minor(c, k + 1) = m1 /\ Minor(c, 0) = 0
  BY <1>3, <1>15 DEF mk, m1
<1> DEFINE asx1 == a - (k + 1) * NY + NX * m1
<1>17. less < 0 => asx1 = less + NX
  BY <1>1, <1>2, <1>4, <1>8, <1>9, <1>11, <1>13 DEF p
<1>18. less >= 0 => asx1 = less
  BY <1>1, <1>2, <1>4, <1>8, <1>9, <1>11, <1>14 DEF p, q
<1>19. a - 0 * NY + NX * 0 = a
  BY <1>1, <1>2
<1>20. asx = a - k * NY + NX * mk
  BY <1>11 DEF p, q
<1> QED BY <1>8, <1>12, <1>13, <1>14, <1>16, <1>17, <1>18, <1>19, <1>20 DEF a, NX, NY

LEMMA Pixels ==
  ASSUME NEW c, Known(c)
  PROVE  /\ LinePixels(c) \in 1 .. c.at.NX + 1
         /\ LinePixels(c) = c.at.NX + 1 \/ Beyond(LineX(c, LinePixels(c)), PPL[c.mode])
         /\ \A n \in 1 .. LinePixels(c) - 1 :
              n # c.at.NX + 1 /\ ~Beyond(LineX(c, n), PPL[c.mode])
<1> DEFINE NX == c.at.NX
           End(n) == n = NX + 1 \/ Beyond(LineX(c, n), PPL[c.mode])
           S == {n \in 1 .. NX + 1 : End(n)}
           L == LinePixels(c)
<1>1. NX \in Nat
  BY KnownTypes
<1>2. L = Least(S)
  BY DEF LinePixels
<1> HIDE DEF L, NX
<1>3. NX + 1 \in S /\ S \subseteq Nat
  BY <1>1
<1>4. L \in S /\ \A k \in S : L <= k
  <2> HIDE DEF S
  <2> QED BY <1>2, <1>3, LeastIs
<1>5. \A n \in 1 .. L - 1 : n \in 1 .. NX + 1 /\ ~(L <= n)
  BY <1>1, <1>4
<1>6. L \in 1 .. NX + 1 /\ End(L) /\ \A n \in 1 .. L - 1 : ~End(n)
  <2> HIDE DEF End
  <2> QED BY <1>4, <1>5
<1> QED BY <1>6 DEF L, NX

LEMMA LineFields ==
  ASSUME NEW c, Known(c), c.op = "LINE", NEW k \in Nat
  PROVE  /\ Minor(c, k) \in Int /\ LineX(c, k) \in Int /\ LineY(c, k) \in Int
         /\ LineAt(c, k) \in Counters
         /\ LineAt(c, k).DX = LineX(c, k) /\ LineAt(c, k).DY = LineY(c, k)
         /\ LineAt(c, k).ADX = k /\ LineAt(c, k).NX = c.at.NX /\ LineAt(c, k).NY = c.at.NY
         /\ LineAt(c, k).TX = c.at.TX /\ LineAt(c, k).TY = c.at.TY
         /\ LineAt(c, k).ASX = c.at.ASX - k * c.at.NY + c.at.NX * Minor(c, k)
<1> DEFINE x == LineX(c, k)
           y == LineY(c, k)
           asx == c.at.ASX - k * c.at.NY + c.at.NX * Minor(c, k)
<1>1. /\ c.at \in Counters /\ c.at.DX \in Int /\ c.at.DY \in Int /\ c.at.TY \in Int
      /\ c.at.NX \in Int /\ c.at.NY \in Int /\ c.at.ASX \in Int
      /\ \A n \in Int : Step(c, n) \in Int
  BY KnownTypes
<1>2. Minor(c, k) \in Int
  <2>1. CASE c.at.NX = 0
    BY <2>1 DEF Minor
  <2>2. CASE c.at.NX # 0
    BY <2>2, MinorGoes
  <2> QED BY <2>1, <2>2
<1>3. x \in Int
  BY <1>1, <1>2 DEF LineX
<1>4. y \in Int
  <2> DEFINE n == IF c.ymajor THEN k ELSE Minor(c, k)
  <2>1. n \in Int /\ y = c.at.DY + c.at.TY * n
    BY <1>2 DEF LineY
  <2> HIDE DEF n, y
  <2>2. c.at.TY * n \in Int
    BY <1>1, <2>1
  <2> QED BY <1>1, <2>1, <2>2
<1>5. asx \in Int
  <2>1. k * c.at.NY \in Int /\ c.at.NX * Minor(c, k) \in Int
    BY <1>1, <1>2
  <2> QED BY <1>1, <2>1
<1> DEFINE at == LineAt(c, k)
<1>6. at = [c.at EXCEPT !.DX = x, !.DY = y, !.ADX = k, !.ASX = asx]
  BY DEF LineAt
<1> HIDE DEF x, y, asx, at
<1>7. /\ at \in Counters /\ at.DX = x /\ at.DY = y /\ at.ADX = k /\ at.NX = c.at.NX
      /\ at.NY = c.at.NY /\ at.TX = c.at.TX /\ at.TY = c.at.TY /\ at.ASX = asx
  <2> DEFINE a == c.at
  <2>1. a \in Counters /\ at = [a EXCEPT !.DX = x, !.DY = y, !.ADX = k, !.ASX = asx]
    BY <1>1, <1>6
  <2> HIDE DEF a
  <2>2. k \in Int
    OBVIOUS
  <2>3. at \in Counters
    BY <1>3, <1>4, <1>5, <2>1, <2>2 DEF Counters
  <2>4. /\ at.DX = x /\ at.DY = y /\ at.ADX = k /\ at.NX = a.NX
        /\ at.NY = a.NY /\ at.TX = a.TX /\ at.TY = a.TY /\ at.ASX = asx
    BY <2>1 DEF Counters
  <2> QED BY <2>3, <2>4 DEF a
<1> QED BY <1>2, <1>3, <1>4, <1>7 DEF x, y, asx, at

\* Along both sides.
LEMMA LineTurns ==
  ASSUME NEW c, Known(c), c.op = "LINE", NEW k \in Nat, c.at.NX # 0
  PROVE  LET less == LineAt(c, k).ASX - c.at.NY IN
         /\ LineX(c, k + 1) = IF ~c.ymajor \/ less < 0 THEN LineX(c, k) + c.at.TX
                              ELSE LineX(c, k)
         /\ LineY(c, k + 1) = IF c.ymajor \/ less < 0 THEN LineY(c, k) + c.at.TY
                              ELSE LineY(c, k)
<1> DEFINE asx == c.at.ASX - k * c.at.NY + c.at.NX * Minor(c, k)
           less == asx - c.at.NY
           mk == Minor(c, k)
           m1 == Minor(c, k + 1)
<1>1. LineAt(c, k).ASX = asx /\ mk \in Int /\ c.ymajor \in BOOLEAN
  BY LineFields DEF Known
<1>2. (less < 0 => m1 = mk + 1) /\ (less >= 0 => m1 = mk)
  BY MinorGoes
<1>3. less \in Int
  <2>1. asx \in 0 .. c.at.NX - 1
    BY MinorGoes
  <2> HIDE DEF asx
  <2> QED BY <2>1, KnownTypes
<1>4. /\ c.at.DX \in Int /\ c.at.DY \in Int /\ c.at.TX \in Int /\ c.at.TY \in Int
      /\ \A n \in Int : Step(c, n) \in Int /\ Step(c, n + 1) = Step(c, n) + c.at.TX
  BY KnownTypes
<1>5. /\ LineX(c, k) = c.at.DX + Step(c, IF c.ymajor THEN mk ELSE k)
      /\ LineX(c, k + 1) = c.at.DX + Step(c, IF c.ymajor THEN m1 ELSE k + 1)
      /\ LineY(c, k) = c.at.DY + c.at.TY * (IF c.ymajor THEN k ELSE mk)
      /\ LineY(c, k + 1) = c.at.DY + c.at.TY * (IF c.ymajor THEN k + 1 ELSE m1)
  BY DEF LineX, LineY
<1> HIDE DEF less, mk, m1
<1>6. LineX(c, k + 1) = IF ~c.ymajor \/ less < 0 THEN LineX(c, k) + c.at.TX ELSE LineX(c, k)
  <2>1. Step(c, k + 1) = Step(c, k) + c.at.TX /\ Step(c, k) \in Int
    BY <1>4
  <2>2. Step(c, mk + 1) = Step(c, mk) + c.at.TX /\ Step(c, mk) \in Int
    BY <1>1, <1>4
  <2>3. CASE ~c.ymajor
    <3>1. LineX(c, k) = c.at.DX + Step(c, k) /\ LineX(c, k + 1) = c.at.DX + Step(c, k + 1)
      BY <1>5, <2>3
    <3>2. LineX(c, k + 1) = LineX(c, k) + c.at.TX
      <4> HIDE <1>5
      <4> QED BY <1>4, <2>1, <3>1
    <3> QED BY <2>3, <3>2
  <2>4. CASE c.ymajor /\ less < 0
    BY <1>2, <1>4, <1>5, <2>2, <2>4
  <2>5. CASE c.ymajor /\ less >= 0
    BY <1>2, <1>3, <1>5, <2>5
  <2> QED BY <1>1, <1>3, <2>3, <2>4, <2>5
<1>7. LineY(c, k + 1) = IF c.ymajor \/ less < 0 THEN LineY(c, k) + c.at.TY ELSE LineY(c, k)
  <2> DEFINE y(n) == c.at.TY * n
  <2>1. y(k + 1) = y(k) + c.at.TY /\ y(k) \in Int
    <3>1. k \in Int
      OBVIOUS
    <3> QED BY <1>4, <3>1, Distributes
  <2>2. y(mk + 1) = y(mk) + c.at.TY /\ y(mk) \in Int
    BY <1>1, <1>4, Distributes
  <2>3. /\ LineY(c, k) = c.at.DY + (IF c.ymajor THEN y(k) ELSE y(mk))
        /\ LineY(c, k + 1) = c.at.DY + (IF c.ymajor THEN y(k + 1) ELSE y(m1))
    BY <1>5
  <2> HIDE DEF y
  <2>4. CASE c.ymajor
    BY <1>4, <2>1, <2>3, <2>4
  <2>5. CASE ~c.ymajor /\ less < 0
    BY <1>2, <1>4, <2>2, <2>3, <2>5
  <2>6. CASE ~c.ymajor /\ less >= 0
    BY <1>2, <1>3, <2>3, <2>6
  <2> QED BY <1>1, <1>3, <2>4, <2>5, <2>6
<1> QED BY <1>1, <1>6, <1>7 DEF less

LEMMA LineGoes ==
  ASSUME NEW c, Known(c), c.op = "LINE", ScrMode = c.mode, reg.ymajor = c.ymajor,
         NEW k \in 0 .. LinePixels(c) - 1
  PROVE  LET pass == PassOf("LINE", LineAt(c, k)) IN
         /\ k \in Nat /\ k + 1 \in 1 .. LinePixels(c)
         /\ pass.over \in BOOLEAN
         /\ ~pass.over => pass.mmc = LineAt(c, k + 1) /\ k + 1 < LinePixels(c)
         /\ pass.over => k + 1 = LinePixels(c)
<1> DEFINE L == LinePixels(c)
           mmc == LineAt(c, k)
           ppl == PPL[c.mode]
           NX == c.at.NX
           less == mmc.ASX - mmc.NY
           asx  == (IF less < 0 THEN less + mmc.NX ELSE less) % Lines
           dx   == IF ~reg.ymajor \/ less < 0 THEN mmc.DX + mmc.TX ELSE mmc.DX
           dy   == IF reg.ymajor \/ less < 0 THEN mmc.DY + mmc.TY ELSE mmc.DY
           next == [mmc EXCEPT !.DX = dx, !.DY = dy, !.ASX = asx, !.ADX = @ + 1]
           over == mmc.ADX = mmc.NX \/ Beyond(dx, ppl)
           pass == PassOf("LINE", mmc)
<1>1. NX \in Nat /\ NX < Lines /\ Lines \in Nat
  BY KnownTypes DEF Known
<1>2. /\ L \in 1 .. NX + 1 /\ (L = NX + 1 \/ Beyond(LineX(c, L), ppl))
      /\ \A n \in 1 .. L - 1 : n # NX + 1 /\ ~Beyond(LineX(c, n), ppl)
  BY Pixels
<1> HIDE DEF L, NX
<1>3. k \in Nat /\ k + 1 \in 1 .. L /\ k + 1 \in Nat
  BY <1>1, <1>2 DEF L
<1>4. /\ mmc \in Counters /\ mmc.DX = LineX(c, k) /\ mmc.DY = LineY(c, k) /\ mmc.ADX = k
      /\ mmc.NX = NX /\ mmc.NY = c.at.NY /\ mmc.TX = c.at.TX /\ mmc.TY = c.at.TY
      /\ mmc.ASX = c.at.ASX - k * c.at.NY + c.at.NX * Minor(c, k)
  BY <1>3, LineFields DEF NX
<1>5. pass.mmc = next /\ pass.over = over
  <2>1. pass = Pass(next, over)
    BY DEF PassOf, LinePass
  <2> HIDE DEF next, over, pass
  <2> QED BY <2>1 DEF Pass
<1>6. over \in BOOLEAN
  BY DEF Beyond
<1>7. CASE NX = 0
  <2>1. k = 0 /\ L = 1
    BY <1>2, <1>3, <1>7
  <2>2. over
    BY <1>4, <1>7, <2>1
  <2> HIDE DEF next, over, pass
  <2>3. pass.over \in BOOLEAN /\ pass.over /\ k + 1 = L
    BY <1>5, <1>6, <2>1, <2>2
  <2> QED BY <1>3, <2>3 DEF L, pass
<1>8. CASE NX # 0
  <2>1. /\ LineX(c, k + 1) = (IF ~c.ymajor \/ less < 0 THEN LineX(c, k) + c.at.TX
                              ELSE LineX(c, k))
        /\ LineY(c, k + 1) = (IF c.ymajor \/ less < 0 THEN LineY(c, k) + c.at.TY
                              ELSE LineY(c, k))
    BY <1>3, <1>4, <1>8, LineTurns DEF NX
  <2>2. dx = LineX(c, k + 1) /\ dy = LineY(c, k + 1)
    BY <1>4, <2>1
  <2> DEFINE asx1 == c.at.ASX - (k + 1) * c.at.NY + c.at.NX * Minor(c, k + 1)
             l == IF less < 0 THEN less + mmc.NX ELSE less
  <2>3. asx1 = l
    <3>1. less = (c.at.ASX - k * c.at.NY + c.at.NX * Minor(c, k)) - c.at.NY
      BY <1>4
    <3>2. mmc.ASX \in 0 .. NX - 1
      BY <1>3, <1>4, <1>8, MinorGoes DEF NX
    <3>3. less \in Int
      BY <1>1, <1>4, <3>2, KnownTypes
    <3>4. (less < 0 => asx1 = less + NX) /\ (less >= 0 => asx1 = less)
      BY <1>3, <1>8, <3>1, MinorGoes DEF NX
    <3> HIDE DEF less, asx1
    <3> QED BY <1>4, <3>3, <3>4
  <2>4. asx1 \in 0 .. NX - 1
    BY <1>3, <1>8, MinorGoes DEF NX
  <2>5. asx = asx1
    <3> HIDE DEF asx1, l
    <3>1. asx1 % Lines = asx1
      BY <1>1, <2>4
    <3>2. asx = l % Lines
      BY DEF l
    <3> HIDE DEF asx
    <3> QED BY <2>3, <3>1, <3>2
  <2>6. LineAt(c, k + 1) = [c.at EXCEPT !.DX = dx, !.DY = dy, !.ADX = k + 1, !.ASX = asx]
    BY <2>2, <2>5 DEF LineAt
  <2>7. next = LineAt(c, k + 1)
    <3>1. mmc = [c.at EXCEPT !.DX = LineX(c, k), !.DY = LineY(c, k), !.ADX = k,
                             !.ASX = c.at.ASX - k * c.at.NY + c.at.NX * Minor(c, k)]
      BY DEF LineAt
    <3> DEFINE x == LineX(c, k)
               y == LineY(c, k)
               a == c.at.ASX - k * c.at.NY + c.at.NX * Minor(c, k)
    <3>2. mmc = [c.at EXCEPT !.DX = x, !.DY = y, !.ADX = k, !.ASX = a]
      BY <3>1
    <3>3. c.at \in Counters
      BY KnownTypes
    <3> HIDE DEF dx, dy, asx, x, y, a, mmc
    <3> QED BY <1>4, <2>6, <3>2, <3>3 DEF Counters
  <2>8. over <=> (k + 1 = NX + 1 \/ Beyond(LineX(c, k + 1), ppl))
    BY <1>1, <1>3, <1>4, <2>2
  <2> HIDE DEF next, over, pass, ppl
  <2>9. ~over => k + 1 < L
    BY <1>1, <1>2, <1>3, <2>8
  <2>10. over => k + 1 = L
    BY <1>1, <1>2, <1>3, <2>8
  <2> QED BY <1>3, <1>5, <1>6, <2>7, <2>9, <2>10 DEF L, pass
<1> QED BY <1>7, <1>8

LEMMA LinePlanIs ==
  ASSUME NEW c, Known(c), c.op = "LINE", ScrMode = c.mode, NEW k \in 0 .. LinePixels(c) - 1
  PROVE  /\ Plan(c) = LinePlan(c) /\ Len(LinePlan(c)) = LinePixels(c)
         /\ Moved("LINE", LineAt(c, k), 0) = LinePlan(c)[k + 1]
<1> DEFINE L == LinePixels(c)
           Move(n) == MoveOf(c.mode, "LINE", 0, 0, LineX(c, n - 1), LineY(c, n - 1), 0)
<1>1. L \in Nat /\ k \in Nat /\ k + 1 \in 1 .. L
  BY Pixels, KnownTypes
<1>2. LinePlan(c) = [n \in 1 .. L |-> Move(n)]
  BY DEF LinePlan
<1>3. Plan(c) = LinePlan(c)
  BY DEF Plan
<1>4. LineAt(c, k).DX = LineX(c, k) /\ LineAt(c, k).DY = LineY(c, k)
  BY <1>1, LineFields
<1>5. Moved("LINE", LineAt(c, k), 0) = Move(k + 1)
  <2>1. (k + 1) - 1 = k
    BY <1>1
  <2> QED BY <1>4, <2>1 DEF Moved
<1> HIDE DEF L, Move
<1>6. LinePlan(c)[k + 1] = Move(k + 1) /\ Len(LinePlan(c)) = L
  BY <1>1, <1>2
<1> QED BY <1>3, <1>5, <1>6 DEF L

-----------------------------------------------------------------------------
\* Passes and loops in step with the plan

\* Where the counters mmc of command c are after k of its moves.
AreaPlace(c, mmc, k) ==
  \E n \in 0 .. LineLength(c) - 1, m \in 0 .. LineCount(c) - 1 :
     k = LineLength(c) * m + n /\ mmc = AreaAt(c, n, m)
Place(c, mmc, k) ==
  IF c.op = "SRCH" THEN k \in 0 .. LineLength(c) - 1 /\ mmc = SearchAt(c, k)
  ELSE IF c.op = "LINE" THEN k \in 0 .. LinePixels(c) - 1 /\ mmc = LineAt(c, k)
  ELSE AreaPlace(c, mmc, k)

\* What an area command leaves in them.
AreaOver(c, mmc) ==
  mmc = Ended(c.op, AreaAt(c, LineLength(c) - 1, LineCount(c) - 1), c.at.NY - LineCount(c))

\* The next move is made, and the pass leads to the one after it or is the last.
Goes(c, k, move, pass) ==
  /\ k \in Nat /\ Len(Plan(c)) \in Nat /\ k + 1 \in 1 .. Len(Plan(c))
  /\ move = Plan(c)[k + 1]
  /\ pass.over \in BOOLEAN
  /\ ~pass.over => Place(c, pass.mmc, k + 1)
  /\ pass.over => k + 1 = Len(Plan(c)) /\ (c.op \in AreaOps => AreaOver(c, pass.mmc))

LEMMA MovedAlike ==
  ASSUME NEW e, e \notin CpuSends, NEW mmc, NEW k
  PROVE  Moved(e, mmc, k) = Moved(e, mmc, 0)
<1>1. \A m, sx, sy, dx, dy : MoveOf(m, e, sx, sy, dx, dy, k) = MoveOf(m, e, sx, sy, dx, dy, 0)
  BY MovesAlike
<1> QED BY <1>1 DEF Moved

LEMMA AreaPlaces ==
  ASSUME NEW c, Known(c), c.op \in AreaOps, ScrMode = c.mode, NEW mmc, NEW k,
         AreaPlace(c, mmc, k), NEW j, c.op \in CpuSends => j = k + 1
  PROVE  /\ mmc \in Counters /\ mmc.MX = PPL[c.mode]
         /\ Goes(c, k, Moved(c.op, mmc, j), AreaPass(c.op, mmc, PPL[c.mode]))
<1> DEFINE L == LineLength(c)
           C == LineCount(c)
           pass == AreaPass(c.op, mmc, PPL[c.mode])
           move == Moved(c.op, mmc, j)
<1>1. PICK n \in 0 .. L - 1, m \in 0 .. C - 1 : k = L * m + n /\ mmc = AreaAt(c, n, m)
  BY DEF AreaPlace
<1>2. L \in Nat \ {0} /\ C \in Nat \ {0}
  <2>1. Lines \in Nat
    BY Constants
  <2> QED BY <2>1, Lengths, Counts
<1>3. n \in Nat /\ m \in Nat /\ n \in Int /\ m \in Int
  BY <1>2
<1>4. /\ Plan(c) = AreaPlan(c) /\ Len(AreaPlan(c)) = L * C
      /\ AreaPlan(c)[k + 1] = AreaMove(c, n, m, k + 1)
  BY <1>1, AreaPlanIs
<1>5. /\ n + 1 < L => pass = Pass(AreaAt(c, n + 1, m), FALSE)
      /\ n + 1 = L /\ m + 1 < C => pass = Pass(AreaAt(c, 0, m + 1), FALSE)
      /\ n + 1 = L /\ m + 1 = C => pass = Pass(Ended(c.op, AreaAt(c, n, m), c.at.NY - C), TRUE)
  BY <1>1, AreaPassGoes
<1>6. mmc \in Counters /\ mmc.MX = PPL[c.mode]
  BY <1>1, <1>3, AreaAtType DEF Known
<1>7. move = Plan(c)[k + 1]
  <2> DEFINE i == k + 1
  <2>1. c.op \in CpuSends => j = i
    OBVIOUS
  <2> HIDE DEF i, L, C
  <2>2. Moved(c.op, AreaAt(c, n, m), j) = AreaMove(c, n, m, i)
    <3>1. n \in Nat /\ m \in Nat
      BY <1>3
    <3> QED BY ONLY Known(c), c.op \in AreaOps, ScrMode = c.mode, <2>1, <3>1, AreaMoved, Z3
  <2>3. move = AreaMove(c, n, m, i)
    BY <1>1, <2>2
  <2> QED BY <1>4, <2>3 DEF i
<1>8. c.op # "SRCH" /\ c.op # "LINE"
  BY DEF AreaOps, ByteOps, CpuOps, CpuReads, CpuSends
<1>9. \A a : Place(c, a, k + 1) <=> AreaPlace(c, a, k + 1)
  BY <1>8 DEF Place
<1>10. AreaPlace(c, AreaAt(c, n + 1, m), k + 1) \/ n + 1 = L
  <2> SUFFICES ASSUME n + 1 # L PROVE AreaPlace(c, AreaAt(c, n + 1, m), k + 1)
    OBVIOUS
  <2> HIDE DEF L, C
  <2>1. n + 1 < L
    BY <1>2, <1>3
  <2>2. n + 1 \in 0 .. L - 1 /\ k + 1 = L * m + (n + 1)
    BY <1>1, <1>2, <2>1, AreaIndex
  <2> QED BY <2>2 DEF AreaPlace, L, C
<1>11. n + 1 = L /\ m + 1 < C => AreaPlace(c, AreaAt(c, 0, m + 1), k + 1)
  <2> SUFFICES ASSUME n + 1 = L, m + 1 < C PROVE AreaPlace(c, AreaAt(c, 0, m + 1), k + 1)
    OBVIOUS
  <2> HIDE DEF L, C
  <2>1. 0 \in 0 .. L - 1 /\ m + 1 \in 0 .. C - 1 /\ k + 1 = L * (m + 1) + 0
    BY <1>1, <1>2, AreaIndex
  <2> QED BY <2>1 DEF AreaPlace, L, C
<1>12. n + 1 = L /\ m + 1 = C =>
         k + 1 = Len(Plan(c)) /\ AreaOver(c, Ended(c.op, AreaAt(c, n, m), c.at.NY - C))
  <2> SUFFICES ASSUME n + 1 = L, m + 1 = C
               PROVE  k + 1 = Len(Plan(c))
                      /\ AreaOver(c, Ended(c.op, AreaAt(c, n, m), c.at.NY - C))
    OBVIOUS
  <2> HIDE DEF L, C
  <2>1. k + 1 = L * C
    BY <1>1, <1>2, AreaIndex
  <2>2. n = L - 1 /\ m = C - 1
    BY <1>2, <1>3
  <2>3. AreaOver(c, Ended(c.op, AreaAt(c, n, m), c.at.NY - C))
    BY <2>2 DEF AreaOver, L, C
  <2> QED BY <1>4, <2>1, <2>3
<1>13. k \in Nat /\ Len(Plan(c)) \in Nat /\ k + 1 \in 1 .. Len(Plan(c))
  <2> HIDE DEF L, C
  <2>1. k \in Nat /\ k + 1 \in 1 .. L * C
    BY <1>1, <1>2, AreaIndex
  <2>2. L * C \in Nat
    BY <1>2
  <2> QED BY <1>4, <2>1, <2>2
<1> HIDE DEF L, C, pass, move
<1>15. \/ n + 1 # L
       \/ n + 1 = L /\ m + 1 < C
       \/ n + 1 = L /\ m + 1 = C
  BY <1>1, <1>2
<1>16. /\ pass.over \in BOOLEAN
       /\ ~pass.over => Place(c, pass.mmc, k + 1)
       /\ pass.over => k + 1 = Len(Plan(c)) /\ AreaOver(c, pass.mmc)
  <2>1. CASE n + 1 # L
    <3>1. n + 1 < L
      BY <1>1, <1>2, <2>1
    <3>2. pass = Pass(AreaAt(c, n + 1, m), FALSE)
      BY <1>5, <3>1
    <3>3. pass.mmc = AreaAt(c, n + 1, m) /\ pass.over = FALSE
      BY <3>2 DEF Pass
    <3> QED BY <1>9, <1>10, <2>1, <3>3
  <2>2. CASE n + 1 = L /\ m + 1 < C
    <3>0. pass = Pass(AreaAt(c, 0, m + 1), FALSE)
      BY <1>5, <2>2
    <3>1. pass.mmc = AreaAt(c, 0, m + 1) /\ pass.over = FALSE
      BY <3>0 DEF Pass
    <3> QED BY <1>9, <1>11, <2>2, <3>1
  <2>3. CASE n + 1 = L /\ m + 1 = C
    <3>0. pass = Pass(Ended(c.op, AreaAt(c, n, m), c.at.NY - C), TRUE)
      BY <1>5, <2>3
    <3>1. pass.mmc = Ended(c.op, AreaAt(c, n, m), c.at.NY - C) /\ pass.over = TRUE
      BY <3>0 DEF Pass
    <3> QED BY <1>12, <2>3, <3>1
  <2> QED BY <1>15, <2>1, <2>2, <2>3
<1>17. Goes(c, k, move, pass)
  BY <1>7, <1>13, <1>16 DEF Goes
<1> QED BY <1>6, <1>17 DEF pass, move

LEMMA PassPlaces ==
  ASSUME NEW c, Known(c), ScrMode = c.mode, c.op = "LINE" => reg.ymajor = c.ymajor,
         NEW mmc, NEW k, Place(c, mmc, k), NEW j, c.op \in CpuSends => j = k + 1
  PROVE  mmc \in Counters /\ Goes(c, k, Moved(c.op, mmc, j), PassOf(c.op, mmc))
<1> DEFINE pass == PassOf(c.op, mmc)
           move == Moved(c.op, mmc, j)
<1>1. "SRCH" \notin CpuSends /\ "LINE" \notin CpuSends /\ "SRCH" \notin AreaOps
      /\ "LINE" \notin AreaOps
  BY DEF AreaOps, ByteOps, CpuOps, CpuReads, CpuSends
<1>2. CASE c.op = "SRCH"
  <2>1. k \in 0 .. LineLength(c) - 1 /\ mmc = SearchAt(c, k)
    BY <1>2 DEF Place
  <2>2. /\ k \in Nat /\ k + 1 \in 1 .. LineLength(c)
        /\ pass.over \in BOOLEAN
        /\ ~pass.over => pass.mmc = SearchAt(c, k + 1) /\ k + 1 < LineLength(c)
        /\ pass.over => k + 1 = LineLength(c)
        /\ Plan(c) = SearchPlan(c) /\ Len(SearchPlan(c)) = LineLength(c)
        /\ Moved("SRCH", mmc, 0) = SearchPlan(c)[k + 1]
    BY <1>2, <2>1, SearchGoes
  <2>3. LineLength(c) \in Nat
    BY <1>2, Lengths
  <2>4. move = Plan(c)[k + 1]
    BY <1>1, <1>2, <2>2, MovedAlike
  <2>5. mmc \in Counters
    <3>0. k \in Int
      BY <2>2
    <3>1. c.at \in Counters /\ c.at.SX \in Int /\ Step(c, k) \in Int
      BY <3>0, KnownTypes
    <3>2. c.at.SX + Step(c, k) \in Int
      BY <3>1
    <3> QED BY <2>1, <3>1, <3>2 DEF SearchAt, Counters
  <2> HIDE DEF pass, move
  <2>6. ~pass.over => Place(c, pass.mmc, k + 1)
    <3>1. k + 1 < LineLength(c) => k + 1 \in 0 .. LineLength(c) - 1
      BY <2>2, <2>3
    <3> QED BY <1>2, <2>2, <3>1 DEF Place
  <2>7. Goes(c, k, move, pass)
    BY <1>1, <1>2, <2>2, <2>3, <2>4, <2>6 DEF Goes
  <2> QED BY <2>5, <2>7 DEF pass, move
<1>3. CASE c.op = "LINE"
  <2>1. k \in 0 .. LinePixels(c) - 1 /\ mmc = LineAt(c, k)
    BY <1>3 DEF Place
  <2>2. /\ k \in Nat /\ k + 1 \in 1 .. LinePixels(c)
        /\ pass.over \in BOOLEAN
        /\ ~pass.over => pass.mmc = LineAt(c, k + 1) /\ k + 1 < LinePixels(c)
        /\ pass.over => k + 1 = LinePixels(c)
    BY <1>3, <2>1, LineGoes
  <2>3. /\ Plan(c) = LinePlan(c) /\ Len(LinePlan(c)) = LinePixels(c)
        /\ Moved("LINE", mmc, 0) = LinePlan(c)[k + 1]
    BY <1>3, <2>1, LinePlanIs
  <2>4. LinePixels(c) \in Nat
    BY Pixels, KnownTypes
  <2>5. move = Plan(c)[k + 1]
    BY <1>1, <1>3, <2>3, MovedAlike
  <2>6. mmc \in Counters
    BY <1>3, <2>1, <2>2, LineFields
  <2> HIDE DEF pass, move
  <2>7. ~pass.over => Place(c, pass.mmc, k + 1)
    <3>1. k + 1 < LinePixels(c) => k + 1 \in 0 .. LinePixels(c) - 1
      BY <2>2, <2>4
    <3> QED BY <1>3, <2>2, <3>1 DEF Place
  <2>8. Goes(c, k, move, pass)
    BY <1>1, <1>3, <2>2, <2>3, <2>4, <2>5, <2>7 DEF Goes
  <2> QED BY <2>6, <2>8 DEF pass, move
<1>4. CASE c.op # "SRCH" /\ c.op # "LINE"
  <2>1. c.op \in AreaOps
    BY <1>4 DEF Known, Engines
  <2>2. AreaPlace(c, mmc, k)
    BY <1>4 DEF Place
  <2>3. pass = AreaPass(c.op, mmc, PPL[c.mode])
    BY <1>4 DEF PassOf
  <2> HIDE DEF pass
  <2>4. mmc \in Counters /\ Goes(c, k, move, pass)
    BY <2>1, <2>2, <2>3, AreaPlaces
  <2> QED BY <2>4 DEF pass
<1> QED BY <1>2, <1>3, <1>4

\* What a loop has made of command c that had made K moves before.
RunGoes(c, K, found, r) ==
  /\ K + Len(r.moves) <= Len(Plan(c))
  /\ \A i \in 1 .. Len(r.moves) : r.moves[i] = Plan(c)[K + i]
  /\ ~r.over => Place(c, r.mmc, K + Len(r.moves))
  /\ r.over => \/ /\ K + Len(r.moves) = Len(Plan(c))
                  /\ c.op \in AreaOps => AreaOver(c, r.mmc)
               \/ c.op = "SRCH" /\ Len(r.moves) = found

LEMMA LoopFollows ==
  ASSUME NEW c, Known(c), ScrMode = c.mode, c.op = "LINE" => reg.ymajor = c.ymajor,
         c.op \in AutoOps, NEW K \in Nat, NEW mmc, Place(c, mmc, K),
         NEW passes \in Nat, NEW found \in Nat, c.op # "SRCH" => found = 0
  PROVE  LET r == Loop(c.op, mmc, passes, found) IN
         r \in Run /\ Len(r.moves) \in Nat /\ RunGoes(c, K, found, r)
<1> DEFINE e == c.op
           P == {p \in Nat \X Run : Len(p[2].moves) = p[1] /\ RunGoes(c, K, found, p[2])}
           r0 == Loop(e, mmc, passes, found)
<1>1. ScrMode \in Screens5To8 /\ e \in Engines /\ e \notin CpuSends
  BY DEF Known, AutoOps, CpuOps
<1>2. mmc \in Counters /\ Goes(c, K, Moved(e, mmc, 0), PassOf(e, mmc))
  BY <1>1, PassPlaces
<1>3. <<0, Start(mmc)>> \in P
  <2> DEFINE s == Start(mmc)
  <2>1. s \in Run /\ s.moves = <<>> /\ s.mmc = mmc /\ s.over = FALSE
    BY <1>2 DEF Start, Run
  <2> HIDE DEF s
  <2>2. Len(s.moves) = 0 /\ K + 0 = K
    BY <2>1
  <2>3. K <= Len(Plan(c))
    BY <1>2 DEF Goes
  <2>4. RunGoes(c, K, found, s)
    BY <2>1, <2>2, <2>3 DEF RunGoes
  <2> QED BY <2>1, <2>2, <2>4 DEF s
<1>4. ASSUME NEW n \in 1 .. passes, NEW r \in Run, <<n - 1, r>> \in P, ~r.over
      PROVE  <<n, LoopStep(e, found, n, r)>> \in P
  <2> DEFINE k == K + (n - 1)
             move == Moved(e, r.mmc, 0)
             pass == PassOf(e, r.mmc)
             next == LoopStep(e, found, n, r)
  <2>1. /\ n \in Nat /\ n - 1 \in Nat /\ k \in Nat /\ k + 1 = K + n /\ r.mmc \in Counters
        /\ r.moves \in Seq(Moves) /\ Len(r.moves) = n - 1
    BY <1>4 DEF Run
  <2>2. /\ Place(c, r.mmc, k) /\ \A i \in 1 .. n - 1 : r.moves[i] = Plan(c)[K + i]
    BY <1>4, <2>1 DEF RunGoes
  <2>3. Goes(c, k, move, pass)
    <3> HIDE DEF k
    <3> QED BY <1>1, <2>2, PassPlaces
  <2>4. /\ next \in Run /\ next.moves = Append(r.moves, move)
        /\ next.over = (n = found \/ pass.over)
        /\ next.mmc = IF n = found THEN r.mmc ELSE pass.mmc
    <3>1. ~r.over /\ n \in Nat
      BY <1>4, <2>1
    <3> HIDE DEF P, e
    <3>2. next \in Run
      BY <1>1, <3>1, LoopStepType
    <3>3. next.moves = Append(r.moves, move)
      BY <1>1, <3>1, LoopStepType
    <3>4. next.over = (n = found \/ pass.over)
      BY <1>1, <3>1, LoopStepType
    <3>5. next.mmc = IF n = found THEN r.mmc ELSE pass.mmc
      BY <1>1, <3>1, LoopStepType
    <3> HIDE DEF next, move, pass
    <3> QED BY <3>2, <3>3, <3>4, <3>5
  <2>5. move \in Moves
    BY <1>1, <2>1, MovedType
  <2> HIDE DEF k, move, pass, next
  <2>6. Len(next.moves) = n /\ next.moves[n] = move
        /\ \A i \in 1 .. n - 1 : next.moves[i] = r.moves[i]
    BY <2>1, <2>4, <2>5
  <2>7. /\ Len(Plan(c)) \in Nat /\ K + n <= Len(Plan(c)) /\ move = Plan(c)[K + n]
        /\ pass.over \in BOOLEAN
        /\ ~pass.over => Place(c, pass.mmc, K + n)
        /\ pass.over => K + n = Len(Plan(c)) /\ (e \in AreaOps => AreaOver(c, pass.mmc))
    BY <2>1, <2>3 DEF Goes
  <2>8. \A i \in 1 .. n : next.moves[i] = Plan(c)[K + i]
    <3> TAKE i \in 1 .. n
    <3>1. CASE i = n
      BY <2>6, <2>7, <3>1
    <3>2. CASE i # n
      <4>1. i \in 1 .. n - 1
        BY <2>1, <3>2
      <4> QED BY <2>2, <2>6, <4>1
    <3> QED BY <3>1, <3>2
  <2>9. ~next.over => Place(c, next.mmc, K + n)
    BY <2>4, <2>7
  <2>10. next.over => \/ /\ K + n = Len(Plan(c))
                         /\ e \in AreaOps => AreaOver(c, next.mmc)
                      \/ e = "SRCH" /\ n = found
    <3>1. n = found => e = "SRCH"
      BY <2>1
    <3> QED BY <2>4, <2>7, <3>1
  <2>11. RunGoes(c, K, found, next)
    BY <2>6, <2>7, <2>8, <2>9, <2>10 DEF RunGoes
  <2> QED BY <2>1, <2>4, <2>6, <2>11 DEF next
<1> HIDE DEF P, r0
<1>5. r0 \in Run /\ \E n \in 0 .. passes : <<n, r0>> \in P
  BY <1>1, <1>2, <1>3, <1>4, LoopInvariant DEF r0
<1>6. r0 \in Run /\ Len(r0.moves) \in Nat /\ RunGoes(c, K, found, r0)
  BY <1>5 DEF P
<1> QED BY <1>6 DEF r0

\* The registers that an area command leaves.
Leaves(c, r) ==
  ~(c.at.NY = 0 /\ LineCount(c) = Lines) =>
     /\ r.ny = (c.at.NY - LineCount(c)) % Lines
     /\ c.op \in LoopsSY \ {"LMCM"} => r.sy = (c.at.SY + c.at.TY * LineCount(c)) % Lines
     /\ c.op \in LoopsDY => r.dy = (c.at.DY + c.at.TY * LineCount(c)) % Lines

LEMMA OverLeaves ==
  ASSUME reg \in Registers, NEW c, Known(c), c.op \in AreaOps, NEW mmc, AreaOver(c, mmc)
  PROVE  Leaves(c, Results(c.op, mmc))
<1> SUFFICES ASSUME ~(c.at.NY = 0 /\ LineCount(c) = Lines) PROVE Leaves(c, Results(c.op, mmc))
  BY DEF Leaves
<1> DEFINE L == LineLength(c)
           C == LineCount(c)
           e == c.op
           at == AreaAt(c, L - 1, C - 1)
           ny == c.at.NY - C
           y(n) == c.at.TY * n
           counted == ny % Lines = 0
<1>1. L - 1 \in Int /\ C \in Int /\ C - 1 \in Int /\ C \in 1 .. Lines /\ Lines \in Nat \ {0}
  <2>1. L \in Nat
    BY Lengths
  <2>2. Lines \in Nat \ {0} /\ C \in 1 .. Lines
    BY Constants, Counts
  <2> HIDE DEF L, C
  <2> QED BY <2>1, <2>2
<1>2. /\ c.at.NY \in Nat /\ c.at.NY \in 0 .. Lines - 1 /\ c.at.SY \in Int /\ c.at.DY \in Int
      /\ c.at.TY \in Int
  <2>1. c.at.NY \in Nat /\ c.at.SY \in Nat /\ c.at.DY \in Nat /\ c.at.TY \in Int
    BY KnownTypes
  <2>2. c.at.NY \in 0 .. Lines - 1
    BY DEF Known
  <2> QED BY <2>1, <2>2
<1>3. /\ at \in Counters /\ at.TY = c.at.TY
      /\ at.SY = (IF e \in LoopsSY THEN c.at.SY + y(C - 1) ELSE c.at.SY)
      /\ at.DY = (IF e \in LoopsDY THEN c.at.DY + y(C - 1) ELSE c.at.DY)
  BY <1>1, AreaAtType
<1>4. y(C - 1) \in Int /\ y(C) = y(C - 1) + c.at.TY
  <2>1. (C - 1) + 1 = C
    BY <1>1
  <2>2. y(C - 1) \in Int /\ y((C - 1) + 1) = y(C - 1) + c.at.TY
    BY <1>1, <1>2, Distributes
  <2> HIDE DEF y
  <2> QED BY <2>1, <2>2
<1>5. ny \in Int
  BY <1>1, <1>2
<1>6. counted => ny = 0
  <2>1. ny \in 1 - Lines .. Lines - 2
    BY <1>1, <1>2
  <2>2. ny < 0 => ny % Lines = ny + Lines
    <3> SUFFICES ASSUME ny < 0 PROVE ny % Lines = ny + Lines
      OBVIOUS
    <3> HIDE DEF ny
    <3>1. ny + Lines \in 0 .. Lines - 1 /\ ny = Lines * (-1) + (ny + Lines)
      BY <1>1, <2>1
    <3> DEFINE r == ny + Lines
    <3>2. (Lines * (-1) + r) % Lines = r
      <4> HIDE DEF r
      <4>1. r \in 0 .. Lines - 1 /\ -1 \in Int
        BY <3>1 DEF r
      <4> QED BY <1>1, <4>1, DivisionIs
    <3> QED BY <3>1, <3>2
  <2>3. ny > 0 => ny % Lines = ny
    BY <1>1, <2>1
  <2> HIDE DEF ny
  <2> QED BY <1>1, <1>5, <2>1, <2>2, <2>3
<1>7. mmc = Ended(e, at, ny)
  BY DEF AreaOver
<1> HIDE DEF at, ny, y, L, C
<1>8. /\ mmc \in Counters /\ mmc.NY = ny
      /\ mmc.SY = (IF e \in LoopsSY /\ (ny % Lines # 0 \/ (ny = 0 /\ e # "LMCM"))
                  THEN at.SY + at.TY ELSE at.SY)
      /\ mmc.DY = (IF e \in LoopsDY /\ (ny % Lines # 0 \/ ny = 0)
                  THEN at.DY + at.TY ELSE at.DY)
  <2>1. at \in Counters
    BY <1>3
  <2> DEFINE end == Ended(e, at, ny)
  <2>2. /\ end \in Counters
        /\ end.NY = ny
        /\ end.SY = IF e \in LoopsSY /\ (ny % Lines # 0 \/ (ny = 0 /\ e # "LMCM"))
                    THEN at.SY + at.TY ELSE at.SY
        /\ end.DY = IF e \in LoopsDY /\ (ny % Lines # 0 \/ ny = 0)
                    THEN at.DY + at.TY ELSE at.DY
    BY ONLY <1>5, <2>1, EndedType, ZenonT(40)
  <2>3. mmc = end
    BY <1>7
  <2> HIDE DEF end
  <2> QED BY <2>2, <2>3
<1>9. e \in LoopsSY \ {"LMCM"} => mmc.SY = c.at.SY + y(C)
  <2> SUFFICES ASSUME e \in LoopsSY \ {"LMCM"} PROVE mmc.SY = c.at.SY + y(C)
    OBVIOUS
  <2>1. mmc.SY = at.SY + at.TY
    BY <1>6, <1>8
  <2>2. at.SY = c.at.SY + y(C - 1)
    BY <1>3
  <2> QED BY <1>2, <1>3, <1>4, <2>1, <2>2
<1>10. e \in LoopsDY => mmc.DY = c.at.DY + y(C)
  <2> SUFFICES ASSUME e \in LoopsDY PROVE mmc.DY = c.at.DY + y(C)
    OBVIOUS
  <2>1. mmc.DY = at.DY + at.TY
    BY <1>6, <1>8
  <2>2. at.DY = c.at.DY + y(C - 1)
    BY <1>3
  <2> QED BY <1>2, <1>3, <1>4, <2>1, <2>2
<1> DEFINE r == Results(e, mmc)
<1>11. /\ r.ny = mmc.NY % Lines
       /\ e \in LoopsSY => r.sy = mmc.SY % Lines
       /\ e \in LoopsDY => r.dy = mmc.DY % Lines
  BY <1>8, ResultsType
<1> HIDE DEF r
<1>12. /\ r.ny = ny % Lines
       /\ e \in LoopsSY \ {"LMCM"} => r.sy = (c.at.SY + y(C)) % Lines
       /\ e \in LoopsDY => r.dy = (c.at.DY + y(C)) % Lines
  BY <1>8, <1>9, <1>10, <1>11
<1> QED BY <1>12 DEF Leaves, r, ny, y, C

-----------------------------------------------------------------------------
\* Handlers in step with the plan

Follows(c, s) == Len(s) <= Len(Plan(c)) /\ \A i \in 1 .. Len(s) : s[i] = Plan(c)[i]

\* The machine v is where command c has come to: its counters, its history and
\* the bits of its status.
Bits(c, v) ==
  /\ v.engine \in {c.op, "none"} /\ v.ce = (v.engine # "none")
  /\ v.engine = "LINE" => v.reg.ymajor = c.ymajor
  /\ v.engine \in CpuSends => Len(v.done) = v.clr - (IF v.tr THEN 0 ELSE 1)
  /\ c.op \in CpuReads => /\ v.s7 = Len(v.done)
                          /\ v.got = Len(v.done) - (IF v.tr THEN 1 ELSE 0)
InStep(c, v) ==
  /\ Bits(c, v) /\ Follows(c, v.done)
  /\ v.engine # "none" => Place(c, v.mmc, Len(v.done))
  /\ v.engine = "none" => Len(v.done) = Len(Plan(c)) \/ (c.op = "SRCH" /\ v.bd)

\* What a command has left in the registers when VdpEngine() ends it.
Left(c, w, v) ==
  w.engine = "none" =>
    \/ v.engine = "none" /\ w.done = v.done
    \/ c.op \in AreaOps => Leaves(c, w.reg)

LEMMA GoesOn ==
  ASSUME NEW c, NEW s \in Seq(Moves), NEW t \in Seq(Moves), Follows(c, s),
         Len(s) + Len(t) <= Len(Plan(c)),
         \A i \in 1 .. Len(t) : t[i] = Plan(c)[Len(s) + i]
  PROVE  Follows(c, s \o t) /\ Len(s \o t) = Len(s) + Len(t)
<1> DEFINE u == s \o t
<1>1. Len(s) \in Nat /\ Len(t) \in Nat /\ Len(u) = Len(s) + Len(t)
  OBVIOUS
<1>2. ASSUME NEW i \in 1 .. Len(u) PROVE u[i] = Plan(c)[i]
  <2>1. CASE i <= Len(s)
    <3>1. i \in 1 .. Len(s)
      BY <1>1, <2>1
    <3>2. u[i] = s[i]
      BY <3>1
    <3> QED BY <3>1, <3>2 DEF Follows
  <2>2. CASE i > Len(s)
    <3> DEFINE j == i - Len(s)
    <3>1. j \in 1 .. Len(t) /\ Len(s) + j = i
      BY <1>1, <2>2
    <3>2. u[i] = t[j]
      BY <1>1, <2>2
    <3> HIDE DEF j
    <3> QED BY <3>1, <3>2
  <2> QED BY <1>1, <2>1, <2>2
<1> HIDE DEF u
<1>3. Follows(c, u)
  BY <1>1, <1>2 DEF Follows
<1> QED BY <1>1, <1>3 DEF u

LEMMA WorkInStep ==
  ASSUME reg \in Registers, NEW c, Known(c), ScrMode = c.mode, NEW v, Ready(v), v.reg = reg,
         InStep(c, v), v.engine \in AutoOps, v.ops > 0, NEW w \in Work(v)
  PROVE  InStep(c, w) /\ Left(c, w, v)
<1> DEFINE K == Len(v.done)
<1>1. /\ v \in Machine /\ Owed(v.ops) /\ v.done \in Seq(Moves) /\ v.ops \in Int
  BY MachineFields DEF Ready
<1>2. K \in Nat
  BY <1>1
<1>3. "none" \notin AutoOps
  BY DEF AutoOps, Engines, AreaOps, ByteOps, CpuOps, CpuReads, CpuSends
<1>4. v.engine = c.op /\ v.engine # "none" /\ v.ce = TRUE
  BY <1>3 DEF InStep, Bits
<1>5. c.op = "LINE" => reg.ymajor = c.ymajor
  BY <1>4 DEF InStep, Bits
<1>6. ScrMode \in Screens5To8
  BY DEF Known
<1>7. PICK d \in Deltas, found \in Nat :
        LET r == Loop(v.engine, v.mmc, Passes(v.ops, d), found) IN
        /\ r \in Run /\ Sliced(w, v, r)
        /\ v.engine = "SRCH" /\ r.over => w.bd = (Len(r.moves) = found)
        /\ v.engine # "SRCH" => found = 0
  BY <1>6, WorkType
<1> DEFINE passes == Passes(v.ops, d)
           r == Loop(c.op, v.mmc, passes, found)
<1>8. /\ r \in Run /\ Sliced(w, v, r)
      /\ c.op = "SRCH" /\ r.over => w.bd = (Len(r.moves) = found)
      /\ c.op # "SRCH" => found = 0
  BY <1>4, <1>7
<1>9. passes \in Nat
  <2>1. v.ops \in Nat \ {0} /\ d \in Nat \ {0}
    BY <1>1, Constants
  <2> QED BY <2>1, PassesFit
<1>10. Place(c, v.mmc, K)
  BY <1>4 DEF InStep
<1> DEFINE mmc == v.mmc
<1>11. Len(r.moves) \in Nat /\ RunGoes(c, K, found, r)
  <2>1. Place(c, mmc, K)
    BY <1>10
  <2>2. r = Loop(c.op, mmc, passes, found)
    OBVIOUS
  <2>3. c.op \in AutoOps /\ (c.op # "SRCH" => found = 0)
    BY <1>4, <1>8
  <2> HIDE DEF K, passes, r, mmc
  <2> QED BY <1>2, <1>5, <1>9, <2>1, <2>2, <2>3, LoopFollows
<1> HIDE DEF r, passes, mmc
<1>12. /\ w.done = v.done \o r.moves /\ Kept(w, v)
       /\ r.over => w.engine = "none" /\ w.ce = FALSE /\ w.reg = Results(c.op, r.mmc)
       /\ ~r.over => w.engine = c.op /\ w.ce = TRUE /\ w.mmc = r.mmc /\ w.reg = v.reg
  BY <1>4, <1>8 DEF Sliced
<1>13. r.moves \in Seq(Moves) /\ r.over \in BOOLEAN
  BY <1>8 DEF Run
<1>14. Follows(c, w.done) /\ Len(w.done) = K + Len(r.moves)
  <2>1. Follows(c, v.done)
    BY DEF InStep
  <2>2. /\ K + Len(r.moves) <= Len(Plan(c))
        /\ \A i \in 1 .. Len(r.moves) : r.moves[i] = Plan(c)[K + i]
    BY <1>11 DEF RunGoes
  <2> QED BY <1>1, <1>12, <1>13, <2>1, <2>2, GoesOn
<1>15. Bits(c, w)
  <2>1. c.op \notin CpuOps
    BY <1>4 DEF AutoOps
  <2>2. c.op \notin CpuSends /\ c.op \notin CpuReads /\ "none" \notin CpuSends
    BY <2>1 DEF CpuOps, CpuSends
  <2>3. w.engine = "LINE" => w.reg.ymajor = c.ymajor
    BY <1>4, <1>12 DEF InStep, Bits
  <2>4. w.engine \in {c.op, "none"} /\ w.ce = (w.engine # "none")
    BY <1>4, <1>12
  <2> QED BY <2>2, <2>3, <2>4 DEF Bits
<1>16. w.engine # "none" => Place(c, w.mmc, Len(w.done))
  BY <1>11, <1>12, <1>14 DEF RunGoes
<1>17. w.engine = "none" => Len(w.done) = Len(Plan(c)) \/ (c.op = "SRCH" /\ w.bd)
  <2> SUFFICES ASSUME w.engine = "none"
               PROVE  Len(w.done) = Len(Plan(c)) \/ (c.op = "SRCH" /\ w.bd)
    OBVIOUS
  <2>1. r.over
    BY <1>4, <1>12
  <2>2. K + Len(r.moves) = Len(Plan(c)) \/ (c.op = "SRCH" /\ Len(r.moves) = found)
    BY <1>11, <2>1 DEF RunGoes
  <2> QED BY <1>8, <1>14, <2>1, <2>2
<1>18. Left(c, w, v)
  <2> SUFFICES ASSUME w.engine = "none", c.op \in AreaOps PROVE Leaves(c, w.reg)
    BY DEF Left
  <2>1. r.over /\ w.reg = Results(c.op, r.mmc)
    BY <1>4, <1>12
  <2>2. c.op # "SRCH"
    BY DEF AreaOps, ByteOps, CpuOps, CpuReads, CpuSends
  <2>3. AreaOver(c, r.mmc)
    BY <1>11, <2>1, <2>2 DEF RunGoes
  <2> QED BY <2>1, <2>3, OverLeaves
<1> QED BY <1>14, <1>15, <1>16, <1>17, <1>18 DEF InStep

LEMMA TransferInStep ==
  ASSUME reg \in Registers, NEW c, Known(c), ScrMode = c.mode, NEW v, Ready(v), v.reg = reg,
         InStep(c, v), v.engine \in CpuOps, v.ops > 0, ~v.tr, NEW w \in Transfer(v)
  PROVE  InStep(c, w) /\ Left(c, w, v)
<1> DEFINE K == Len(v.done)
           mmc == v.mmc
           clr1 == v.clr
           move == Moved(c.op, mmc, clr1)
           pass == AreaPass(c.op, mmc, PPL[c.mode])
<1>1. /\ v \in Machine /\ v.done \in Seq(Moves) /\ v.clr \in Nat
  BY MachineFields DEF Ready
<1>2. K \in Nat
  BY <1>1
<1>3. "none" \notin CpuOps /\ "none" \notin CpuSends
  BY DEF CpuOps, CpuReads, CpuSends
<1>4. v.engine = c.op /\ v.engine # "none" /\ v.ce = TRUE
  BY <1>3 DEF InStep, Bits
<1>5. c.op \in AreaOps /\ c.op # "SRCH" /\ c.op # "LINE"
  BY <1>4 DEF AreaOps, ByteOps, CpuOps, CpuReads, CpuSends
<1>6. ScrMode \in Screens5To8
  BY DEF Known
<1>7. AreaPlace(c, mmc, K)
  BY <1>4, <1>5 DEF InStep, Place
<1>8. c.op \in CpuSends => clr1 = K + 1
  BY <1>1, <1>2, <1>4 DEF InStep, Bits
<1>9. mmc \in Counters /\ mmc.MX = PPL[c.mode] /\ Goes(c, K, move, pass)
  <2> HIDE DEF K, mmc, clr1
  <2> QED BY <1>5, <1>7, <1>8, AreaPlaces
<1>10. AreaPass(v.engine, v.mmc, v.mmc.MX) = pass
  BY <1>4, <1>9
<1>11. TransferMoves(v) = <<move>>
  BY <1>1, <1>4, <1>6, TransferMovesType
<1> DEFINE was == AreaPass(v.engine, v.mmc, v.mmc.MX)
<1>12. /\ w.tr = TRUE /\ w.done = v.done \o TransferMoves(v)
       /\ w.s7 = (IF v.engine \in CpuReads THEN Len(v.done) + 1 ELSE v.s7)
       /\ w.clr = v.clr /\ w.got = v.got
       /\ was.over => /\ w.engine = "none" /\ w.ce = FALSE
                      /\ w.reg = Results(v.engine, was.mmc)
       /\ ~was.over => /\ w.engine = v.engine /\ w.ce = v.ce /\ w.mmc = was.mmc
                       /\ w.reg = v.reg
  BY TransferType
<1>13. was = pass
  BY <1>10
<1>14. move \in Moves
  BY <1>6, <1>1, <1>5, <1>9, MovedType DEF Engines
<1> HIDE DEF was, pass, move
<1>15. /\ w.tr = TRUE /\ w.done = v.done \o <<move>>
       /\ c.op \in CpuReads => w.s7 = K + 1
       /\ w.clr = v.clr /\ w.got = v.got
       /\ pass.over => /\ w.engine = "none" /\ w.ce = FALSE /\ w.reg = Results(c.op, pass.mmc)
       /\ ~pass.over => w.engine = c.op /\ w.ce = TRUE /\ w.mmc = pass.mmc
  BY <1>4, <1>11, <1>12, <1>13
<1>16. /\ Len(Plan(c)) \in Nat /\ K + 1 <= Len(Plan(c)) /\ move = Plan(c)[K + 1]
       /\ ~pass.over => Place(c, pass.mmc, K + 1)
       /\ pass.over => K + 1 = Len(Plan(c)) /\ AreaOver(c, pass.mmc)
  BY <1>2, <1>5, <1>9 DEF Goes
<1>17. Follows(c, w.done) /\ Len(w.done) = K + 1
  <2> DEFINE t == <<move>>
  <2>1. t \in Seq(Moves) /\ Len(t) = 1 /\ t[1] = move
    BY <1>14
  <2>2. \A i \in 1 .. Len(t) : t[i] = Plan(c)[K + i]
    BY <1>16, <2>1
  <2>3. Follows(c, v.done) /\ w.done = v.done \o t
    BY <1>15 DEF InStep
  <2> HIDE DEF t
  <2> QED BY <1>1, <1>16, <2>1, <2>2, <2>3, GoesOn
<1>18. Bits(c, w)
  <2>1. w.engine \in {c.op, "none"} /\ w.ce = (w.engine # "none")
    BY <1>4, <1>15
  <2>2. w.engine = "LINE" => w.reg.ymajor = c.ymajor
    BY <1>5, <2>1
  <2>3. w.engine \in CpuSends => Len(w.done) = w.clr - 0
    BY <1>1, <1>2, <1>3, <1>8, <1>15, <1>17, <2>1
  <2>4. c.op \in CpuReads => w.s7 = Len(w.done) /\ w.got = Len(w.done) - 1
    <3>1. c.op \in CpuReads => v.got = K - 0
      BY DEF InStep, Bits
    <3> QED BY <1>2, <1>15, <1>17, <3>1
  <2> QED BY <1>15, <2>1, <2>2, <2>3, <2>4 DEF Bits
<1>19. w.engine # "none" => Place(c, w.mmc, Len(w.done))
  BY <1>15, <1>16, <1>17
<1>20. w.engine = "none" => Len(w.done) = Len(Plan(c))
  BY <1>4, <1>15, <1>16, <1>17
<1>21. Left(c, w, v)
  <2> SUFFICES ASSUME w.engine = "none", c.op \in AreaOps PROVE Leaves(c, w.reg)
    BY DEF Left
  <2>1. w.reg = Results(c.op, pass.mmc) /\ AreaOver(c, pass.mmc)
    BY <1>4, <1>15, <1>16
  <2> QED BY <2>1, OverLeaves
<1> QED BY <1>17, <1>18, <1>19, <1>20, <1>21 DEF InStep

LEMMA EngineInStep ==
  ASSUME reg \in Registers, NEW c, Known(c), ScrMode = c.mode, NEW v, Ready(v), v.reg = reg,
         InStep(c, v), NEW w \in VdpEngine(v)
  PROVE  InStep(c, w) /\ Left(c, w, v)
<1>1. v \in Machine /\ v.engine \in Engines \cup {"none"}
  BY MachineFields DEF Ready
<1>2. CASE v.engine = "none" \/ v.ops <= 0
  <2>1. w = v
    BY <1>2 DEF VdpEngine
  <2>2. Left(c, w, v)
    <3>1. w.engine = "none" => v.engine = "none" /\ w.done = v.done
      BY <2>1
    <3> QED BY <3>1 DEF Left
  <2> QED BY <2>1, <2>2
<1>3. CASE v.engine # "none" /\ ~(v.ops <= 0) /\ v.engine \in CpuOps
  <2>1. w \in Transfer(v)
    BY <1>3 DEF VdpEngine
  <2>2. CASE v.tr
    <3>1. w = v
      BY <2>1, <2>2 DEF Transfer
    <3>2. Left(c, w, v)
      BY <1>3, <3>1 DEF Left
    <3> QED BY <3>1, <3>2
  <2>3. CASE ~v.tr
    <3>1. v.ops > 0
      BY <1>1, <1>3, MachineFields
    <3> QED BY <1>3, <2>1, <2>3, <3>1, TransferInStep
  <2> QED BY <2>2, <2>3
<1>4. CASE v.engine # "none" /\ ~(v.ops <= 0) /\ v.engine \notin CpuOps
  <2>1. w \in Work(v)
    BY <1>4 DEF VdpEngine
  <2>2. v.engine \in AutoOps
    BY <1>1, <1>4 DEF AutoOps
  <2>3. v.ops > 0
    BY <1>1, <1>4, MachineFields
  <2> QED BY <2>1, <2>2, <2>3, WorkInStep
<1> QED BY <1>2, <1>3, <1>4

\* What the history tells.
Tells(c, v, mode) == c = NoCmd \/ (Known(c) /\ c.mode = mode /\ InStep(c, v))
History == Tells(cmd, Vdp, ScrMode)
\* What a step leaves in the registers when a command ends with it.
Ends ==
  cmd' # NoCmd /\ engine' = "none" =>
    \/ engine = "none" /\ done' = done
    \/ cmd'.op \in AreaOps => Leaves(cmd', reg')

LEMMA NoCmdUnknown ==
  /\ \A c : Known(c) => c # NoCmd
  /\ NoCmd.op = "none" /\ "none" \notin AreaOps /\ "none" \notin CpuSends
  /\ "none" \notin CpuReads /\ "none" \notin Engines
<1>1. "none" \notin Engines /\ "none" \notin AreaOps
  BY DEF Engines, AreaOps, ByteOps, CpuOps, CpuReads, CpuSends
<1>2. NoCmd.op = "none"
  BY DEF NoCmd
<1>3. ASSUME NEW c, Known(c) PROVE c # NoCmd
  BY <1>1, <1>2, <1>3 DEF Known
<1>4. "none" \notin CpuSends /\ "none" \notin CpuReads
  BY DEF CpuReads, CpuSends
<1> QED BY <1>1, <1>2, <1>3, <1>4

LEMMA BecomesHistory ==
  ASSUME NEW v \in Machine, NEW c, Becomes(v, c), Tells(c, v, ScrMode')
  PROVE  History' /\ cmd' = c /\ engine' = v.engine /\ reg' = v.reg
         /\ (c # NoCmd => done' = v.done)
<1>1. /\ engine' = v.engine /\ MMC' = v.mmc /\ ops' = v.ops /\ reg' = v.reg
      /\ CE' = v.ce /\ TR' = v.tr /\ BD' = v.bd /\ cmd' = c
      /\ c # NoCmd => clr' = v.clr /\ s7' = v.s7 /\ done' = v.done /\ got' = v.got
  BY DEF Becomes
<1>2. CASE c = NoCmd
  BY <1>1, <1>2 DEF History, Tells
<1>3. CASE c # NoCmd
  <2>1. Vdp' = [engine |-> v.engine, mmc |-> v.mmc, ops |-> v.ops, ce |-> v.ce, tr |-> v.tr,
                bd |-> v.bd, reg |-> v.reg, clr |-> v.clr, s7 |-> v.s7, done |-> v.done,
                got |-> v.got]
    BY <1>1, <1>3 DEF Vdp
  <2> DEFINE u == Vdp'
  <2> HIDE DEF u
  <2>2. u = v
    BY <2>1 DEF Machine, u
  <2>3. Vdp' = v
    BY <2>2 DEF u
  <2> QED BY <1>1, <1>3, <2>3 DEF History
<1> QED BY <1>2, <1>3

\* A handler that gives u to VdpEngine().
LEMMA Handled ==
  ASSUME reg \in Registers, NEW u, Ready(u), u.reg = reg, NEW c, Tells(c, u, ScrMode),
         ScrMode' = ScrMode, NEW w \in VdpEngine(u), Becomes(w, c),
         u.engine = "none" => engine = "none" /\ u.done = done
  PROVE  History' /\ Ends
<1>1. w \in Machine
  BY VdpEngineType DEF Sound, Ready
<1>2. c # NoCmd => Known(c) /\ c.mode = ScrMode /\ InStep(c, w) /\ Left(c, w, u)
  BY EngineInStep DEF Tells
<1>3. Tells(c, w, ScrMode')
  BY <1>2 DEF Tells
<1>4. History' /\ cmd' = c /\ engine' = w.engine /\ reg' = w.reg
      /\ (c # NoCmd => done' = w.done)
  BY <1>1, <1>3, BecomesHistory
<1>5. Ends
  BY <1>2, <1>4 DEF Ends, Left
<1> QED BY <1>4, <1>5

\* The place of a command is all that its history depends on.
LEMMA SameStep ==
  ASSUME NEW c, NEW v, NEW u, InStep(c, v), u.engine = v.engine, u.mmc = v.mmc, u.ce = v.ce,
         u.bd = v.bd, u.done = v.done, u.reg = v.reg, u.tr = v.tr, u.clr = v.clr,
         u.s7 = v.s7, u.got = v.got
  PROVE  InStep(c, u)
BY DEF InStep, Bits

\* A command at its start.
LEMMA BegunInStep ==
  ASSUME InType, ScrMode \in Screens5To8, NEW e \in Engines,
         e = "LINE" => Fetched(ScrMode, e, reg).NY <= Fetched(ScrMode, e, reg).NX,
         e = "LMCM" => ~TR
  PROVE  LET c == [op |-> e, mode |-> ScrMode, at |-> Fetched(ScrMode, e, reg),
                   ymajor |-> reg.ymajor] IN
         Tells(c, Begun(e), ScrMode)
<1> DEFINE at == Fetched(ScrMode, e, reg)
           c  == [op |-> e, mode |-> ScrMode, at |-> at, ymajor |-> reg.ymajor]
           v  == Begun(e)
           t  == IF e \in ByteOps THEN PPB[ScrMode] ELSE 1
<1>1. reg \in Registers /\ TR \in BOOLEAN
  BY InTypeVars
<1>2. c.op = e /\ c.mode = ScrMode /\ c.at = at /\ c.ymajor = reg.ymajor /\ reg.ymajor \in BOOLEAN
  BY <1>1 DEF Registers
<1>3. /\ at \in Counters
      /\ at.SY \in 0 .. Lines - 1 /\ at.DY \in 0 .. Lines - 1
      /\ at.NX \in 0 .. Lines - 1 /\ at.NY \in 0 .. Lines - 1
      /\ at.TX \in {t, -t} /\ at.TY \in {1, -1} /\ at.MX = PPL[ScrMode] /\ at.ANX = at.NX
      /\ at.ASX = (IF e = "LINE" THEN (at.NX - 1) \div 2 ELSE at.SX)
      /\ at.ADX = (IF e = "LINE" THEN 0 ELSE at.DX)
  BY <1>1, FetchedType
<1>4. /\ v.engine = e /\ v.mmc = at /\ v.ce = TRUE /\ v.tr = TR /\ v.reg = reg
      /\ v.clr = (IF e \in CpuSends /\ ~TR THEN 1 ELSE 0) /\ v.s7 = 0 /\ v.got = 0
      /\ v.done = <<>>
  BY BegunType
<1>5. at.TX \in {IF e \in ByteOps THEN PPB[ScrMode] ELSE 1,
                 IF e \in ByteOps THEN -PPB[ScrMode] ELSE -1}
  BY <1>3
<1>51. e = "LINE" => at.NY <= at.NX
  OBVIOUS
<1> HIDE DEF at, c, v, t
<1>6. Known(c)
  BY <1>2, <1>3, <1>5, <1>51 DEF Known
<1>7. Len(v.done) = 0 /\ e # "none"
  BY <1>4, NoCmdUnknown
<1>8. Place(c, at, 0)
  <2>1. CASE e = "SRCH"
    <3>1. LineLength(c) \in Nat \ {0}
      BY <1>2, <1>6, <2>1, Lengths
    <3>2. c.at.SX + Step(c, 0) = c.at.SX /\ c.at \in Counters
      BY <1>6, KnownTypes
    <3>3. at = SearchAt(c, 0)
      BY <1>2, <3>2 DEF SearchAt, Counters
    <3>4. 0 \in 0 .. LineLength(c) - 1
      BY <3>1
    <3> QED BY <1>2, <2>1, <3>3, <3>4 DEF Place
  <2>2. CASE e = "LINE"
    <3>1. 0 \in 0 .. LinePixels(c) - 1
      BY <1>6, Pixels, KnownTypes
    <3>2. Minor(c, 0) = 0
      <4>1. CASE c.at.NX = 0
        BY <4>1 DEF Minor
      <4>2. CASE c.at.NX # 0
        BY <1>2, <1>6, <2>2, <4>2, MinorGoes
      <4> QED BY <4>1, <4>2
    <3>3. /\ c.at \in Counters /\ c.at.DX \in Int /\ c.at.DY \in Int /\ c.at.TY \in Int
          /\ c.at.NY \in Int /\ c.at.NX \in Int /\ c.at.ASX \in Int /\ Step(c, 0) = 0
      BY <1>6, KnownTypes
    <3>4. LineX(c, 0) = c.at.DX /\ LineY(c, 0) = c.at.DY
      BY <3>2, <3>3 DEF LineX, LineY
    <3>5. c.at.ASX - 0 * c.at.NY + c.at.NX * Minor(c, 0) = c.at.ASX /\ c.at.ADX = 0
      BY <1>2, <1>3, <2>2, <3>2, <3>3
    <3>6. at = LineAt(c, 0)
      <4>1. LineAt(c, 0) = [c.at EXCEPT !.DX = c.at.DX, !.DY = c.at.DY, !.ADX = c.at.ADX,
                                        !.ASX = c.at.ASX]
        BY <3>4, <3>5 DEF LineAt
      <4> DEFINE a == c.at
      <4>2. a \in Counters /\ LineAt(c, 0) = [a EXCEPT !.DX = a.DX, !.DY = a.DY,
                                                       !.ADX = a.ADX, !.ASX = a.ASX]
        BY <3>3, <4>1
      <4> HIDE DEF a
      <4>3. LineAt(c, 0) = a
        BY <4>2 DEF Counters
      <4> QED BY <1>2, <4>3 DEF a
    <3> QED BY <1>2, <2>2, <3>1, <3>6 DEF Place
  <2>3. CASE e # "SRCH" /\ e # "LINE"
    <3>1. c.op \in AreaOps
      BY <1>2, <2>3 DEF Engines
    <3>2. at = AreaAt(c, 0, 0)
      BY <1>2, <1>6, <3>1, AreaBegins
    <3>3. LineLength(c) \in Nat \ {0} /\ LineCount(c) \in Nat \ {0}
      <4>1. LineLength(c) \in Nat \ {0}
        BY <1>6, <3>1, Lengths
      <4>2. Lines \in Nat /\ LineCount(c) \in 1 .. Lines
        BY <1>6, Constants, Counts
      <4> QED BY <4>1, <4>2
    <3>4. 0 \in 0 .. LineLength(c) - 1 /\ 0 \in 0 .. LineCount(c) - 1
          /\ 0 = LineLength(c) * 0 + 0
      BY <3>3
    <3>5. AreaPlace(c, at, 0)
      BY <3>2, <3>4 DEF AreaPlace
    <3> QED BY <1>2, <2>3, <3>5 DEF Place
  <2> QED BY <2>1, <2>2, <2>3
<1>9. 0 <= Len(Plan(c))
  <2>1. c.op = "LINE" => reg.ymajor = c.ymajor
    BY <1>2
  <2>2. Goes(c, 0, Moved(c.op, at, 0 + 1), PassOf(c.op, at))
    BY <1>2, <1>6, <1>8, <2>1, PassPlaces
  <2> QED BY <2>2 DEF Goes
<1>10. Follows(c, v.done)
  BY <1>7, <1>9 DEF Follows
<1>11. Bits(c, v)
  <2>1. e \in CpuReads => ~TR
    BY DEF CpuReads
  <2>2. v.engine \in {c.op, "none"} /\ v.ce = (v.engine # "none")
    BY <1>2, <1>4, <1>7
  <2>3. v.engine = "LINE" => v.reg.ymajor = c.ymajor
    BY <1>2, <1>4
  <2>4. v.engine \in CpuSends => Len(v.done) = v.clr - (IF v.tr THEN 0 ELSE 1)
    BY <1>1, <1>4, <1>7
  <2>5. c.op \in CpuReads => v.s7 = Len(v.done) /\ v.got = Len(v.done) - (IF v.tr THEN 1 ELSE 0)
    BY <1>2, <1>4, <1>7, <2>1
  <2> QED BY <2>2, <2>3, <2>4, <2>5 DEF Bits
<1>12. InStep(c, v)
  BY <1>4, <1>7, <1>8, <1>10, <1>11 DEF InStep
<1> QED BY <1>2, <1>6, <1>12 DEF Tells, c, at, v

\* The machines that the handlers give to VdpEngine(), in step as well.
LEMMA HandedInStep ==
  ASSUME InType, NEW c, InStep(c, Vdp)
  PROVE  /\ InStep(c, [Vdp EXCEPT !.ops = Refilled(ops)])
         /\ \A r \in Registers : (engine = "LINE" => r.ymajor = reg.ymajor) =>
              InStep(c, [Vdp EXCEPT !.reg = r])
         /\ c.op \notin CpuReads /\ (engine \in CpuOps => TR) =>
              InStep(c, [[Vdp EXCEPT !.clr = IF engine \in CpuSends THEN clr + 1 ELSE clr]
                           EXCEPT !.tr = FALSE])
         /\ engine \notin CpuSends /\ (c.op \in CpuReads => TR) =>
              InStep(c, [Vdp EXCEPT !.tr = FALSE, !.got = s7])
<1>1. Vdp \in Machine /\ clr \in Nat /\ s7 \in Nat /\ TR \in BOOLEAN /\ done \in Seq(Moves)
      /\ Len(done) \in Nat /\ got \in Nat
  BY InTypeVars
<1>2. /\ Vdp.engine = engine /\ Vdp.mmc = MMC /\ Vdp.ops = ops /\ Vdp.ce = CE /\ Vdp.tr = TR
      /\ Vdp.bd = BD /\ Vdp.reg = reg /\ Vdp.clr = clr /\ Vdp.s7 = s7 /\ Vdp.done = done
      /\ Vdp.got = got
  BY VdpIs
<1>3. InStep(c, [Vdp EXCEPT !.ops = Refilled(ops)])
  <2> DEFINE q == Refilled(ops)
             u == [Vdp EXCEPT !.ops = q]
  <2> HIDE DEF q
  <2>1. /\ u.engine = Vdp.engine /\ u.mmc = Vdp.mmc /\ u.ce = Vdp.ce /\ u.bd = Vdp.bd
        /\ u.done = Vdp.done /\ u.reg = Vdp.reg /\ u.tr = Vdp.tr /\ u.clr = Vdp.clr
        /\ u.s7 = Vdp.s7 /\ u.got = Vdp.got
    BY <1>1 DEF Machine
  <2> HIDE DEF u
  <2>2. InStep(c, u)
    BY <2>1, SameStep
  <2> QED BY <2>2 DEF u, q
<1>4. ASSUME NEW r \in Registers, engine = "LINE" => r.ymajor = reg.ymajor
      PROVE  InStep(c, [Vdp EXCEPT !.reg = r])
  <2> DEFINE u == [Vdp EXCEPT !.reg = r]
  <2>1. /\ u.engine = Vdp.engine /\ u.mmc = Vdp.mmc /\ u.ce = Vdp.ce /\ u.bd = Vdp.bd
        /\ u.done = Vdp.done /\ u.reg = r /\ u.tr = Vdp.tr /\ u.clr = Vdp.clr
        /\ u.s7 = Vdp.s7 /\ u.got = Vdp.got
    BY <1>1 DEF Machine
  <2> HIDE DEF u
  <2>2. u.engine = "LINE" => u.reg.ymajor = Vdp.reg.ymajor
    BY <1>2, <1>4, <2>1
  <2>3. InStep(c, u)
    BY <2>1, <2>2 DEF InStep, Bits
  <2> QED BY <2>3 DEF u
<1>5. ASSUME c.op \notin CpuReads, engine \in CpuOps => TR
      PROVE  InStep(c, [[Vdp EXCEPT !.clr = IF engine \in CpuSends THEN clr + 1 ELSE clr]
                          EXCEPT !.tr = FALSE])
  <2> DEFINE n == IF engine \in CpuSends THEN clr + 1 ELSE clr
             u == [[Vdp EXCEPT !.clr = n] EXCEPT !.tr = FALSE]
  <2>0. engine \in CpuSends => TR /\ n = clr + 1
    BY <1>5 DEF CpuOps
  <2> HIDE DEF n
  <2>1. /\ u.engine = Vdp.engine /\ u.mmc = Vdp.mmc /\ u.ce = Vdp.ce /\ u.bd = Vdp.bd
        /\ u.done = Vdp.done /\ u.reg = Vdp.reg /\ u.tr = FALSE /\ u.clr = n
        /\ u.s7 = Vdp.s7 /\ u.got = Vdp.got
    BY <1>1 DEF Machine
  <2> HIDE DEF u
  <2>2. u.engine \in CpuSends => Len(u.done) = u.clr - 1
    <3>1. u.engine \in CpuSends => Len(done) = clr - 0
      BY <1>2, <2>0, <2>1 DEF InStep, Bits
    <3> QED BY <1>1, <1>2, <2>0, <2>1, <3>1
  <2>3. Bits(c, u)
    BY <1>5, <2>1, <2>2 DEF InStep, Bits
  <2>4. InStep(c, u)
    BY <2>1, <2>3 DEF InStep
  <2> QED BY <2>4 DEF u, n
<1>6. ASSUME engine \notin CpuSends, c.op \in CpuReads => TR
      PROVE  InStep(c, [Vdp EXCEPT !.tr = FALSE, !.got = s7])
  <2> DEFINE u == [Vdp EXCEPT !.tr = FALSE, !.got = s7]
  <2>1. /\ u.engine = Vdp.engine /\ u.mmc = Vdp.mmc /\ u.ce = Vdp.ce /\ u.bd = Vdp.bd
        /\ u.done = Vdp.done /\ u.reg = Vdp.reg /\ u.tr = FALSE /\ u.clr = Vdp.clr
        /\ u.s7 = Vdp.s7 /\ u.got = s7
    BY <1>1 DEF Machine
  <2> HIDE DEF u
  <2>2. c.op \in CpuReads => u.s7 = Len(u.done) /\ u.got = Len(u.done) - 0
    <3>1. c.op \in CpuReads => s7 = Len(done)
      BY <1>2 DEF InStep, Bits
    <3> QED BY <1>1, <1>2, <2>1, <3>1
  <2>3. Bits(c, u)
    BY <1>2, <1>6, <2>1, <2>2 DEF InStep, Bits
  <2>4. InStep(c, u)
    BY <2>1, <2>3 DEF InStep
  <2> QED BY <2>4 DEF u
<1> QED BY <1>3, <1>4, <1>5, <1>6

-----------------------------------------------------------------------------
\* Steps

LEMMA LoopVDPTells == InType /\ History /\ LoopVDP => History' /\ Ends
<1> SUFFICES ASSUME InType, History, LoopVDP PROVE History' /\ Ends
  OBVIOUS
<1> DEFINE u == [Vdp EXCEPT !.ops = Refilled(ops)]
<1>1. PICK w \in VdpEngine(u) : Becomes(w, cmd)
  BY DEF LoopVDP
<1>2. Ready(u) /\ reg \in Registers /\ Vdp \in Machine
  BY HandedType, InTypeVars
<1>3. Tells(cmd, u, ScrMode)
  BY HandedInStep DEF History, Tells
<1>4. u.reg = reg /\ u.engine = engine /\ u.done = done
  <2> DEFINE q == Refilled(ops)
  <2> HIDE DEF q
  <2>1. [Vdp EXCEPT !.ops = q].reg = Vdp.reg /\ [Vdp EXCEPT !.ops = q].engine = Vdp.engine
        /\ [Vdp EXCEPT !.ops = q].done = Vdp.done
    BY <1>2 DEF Machine
  <2> QED BY <2>1, VdpIs DEF q
<1>5. ScrMode' = ScrMode
  BY DEF LoopVDP
<1> HIDE DEF u
<1> QED BY <1>1, <1>2, <1>3, <1>4, <1>5, Handled

LEMMA WriteArgsTells ==
  ASSUME InType, History, NEW a \in Registers, WriteArgs(a)
  PROVE  History' /\ Ends
<1> DEFINE u == [Vdp EXCEPT !.reg = a]
           c == IF engine = "none" \/ (engine = "LINE" /\ a.ymajor # reg.ymajor) THEN NoCmd
                ELSE cmd
<1>1. Becomes(u, c) /\ ScrMode' = ScrMode
  BY DEF WriteArgs
<1>2. u \in Machine
  BY HandedType DEF Sound, Ready
<1>3. Vdp \in Machine
  BY InTypeVars
<1>4. u.engine = engine
  BY <1>3, VdpIs DEF Machine
<1>5. Tells(c, u, ScrMode)
  BY HandedInStep DEF History, Tells
<1> HIDE DEF u
<1>6. History' /\ cmd' = c /\ engine' = engine
  <2> HIDE DEF c
  <2>1. Tells(c, u, ScrMode')
    BY <1>1, <1>5
  <2> QED BY <1>1, <1>2, <1>4, <2>1, BecomesHistory
<1>7. cmd' # NoCmd => engine # "none"
  BY <1>6
<1> QED BY <1>6, <1>7 DEF Ends

LEMMA WriteColourTells == InType /\ History /\ WriteColour => History' /\ Ends
<1> SUFFICES ASSUME InType, History, WriteColour PROVE History' /\ Ends
  OBVIOUS
<1> DEFINE n == IF engine \in CpuSends THEN clr + 1 ELSE clr
           u0 == [Vdp EXCEPT !.clr = n]
           u == [u0 EXCEPT !.tr = FALSE]
           correct == cmd.op \notin CpuReads /\ (engine \in CpuOps => TR)
           c == IF correct THEN cmd ELSE NoCmd
<1>1. [Vdp EXCEPT !.clr = IF engine \in CpuSends THEN @ + 1 ELSE @] = u0
  BY DEF Vdp
<1>2. PICK w \in VDPWrite(u0) : Becomes(w, c)
  BY <1>1 DEF WriteColour
<1>3. w \in VdpEngine(u)
  BY <1>2 DEF VDPWrite
<1>4. reg \in Registers /\ Vdp \in Machine /\ n \in Nat
  BY InTypeVars
<1>5. Ready(u)
  BY <1>4, HandedType
<1>6. u.reg = reg /\ u.engine = engine /\ u.done = done
  <2> HIDE DEF n
  <2> QED BY <1>4, VdpIs DEF Machine
<1>7. Tells(c, u, ScrMode)
  BY HandedInStep DEF History, Tells
<1>8. ScrMode' = ScrMode
  BY DEF WriteColour
<1> HIDE DEF u, c
<1> QED BY <1>2, <1>3, <1>4, <1>5, <1>6, <1>7, <1>8, Handled

LEMMA ReadPixelTells == InType /\ History /\ ReadPixel => History' /\ Ends
<1> SUFFICES ASSUME InType, History, ReadPixel PROVE History' /\ Ends
  OBVIOUS
<1> DEFINE u == [Vdp EXCEPT !.tr = FALSE, !.got = s7]
           correct == engine \notin CpuSends /\ (cmd.op \in CpuReads => TR)
           c == IF correct THEN cmd ELSE NoCmd
<1>1. PICK w \in VDPRead(Vdp) : Becomes(w, c)
  BY DEF ReadPixel
<1>2. w \in VdpEngine(u)
  BY <1>1, VdpIs DEF VDPRead
<1>3. reg \in Registers /\ Vdp \in Machine
  BY InTypeVars
<1>4. Ready(u)
  BY HandedType
<1>5. u.reg = reg /\ u.engine = engine /\ u.done = done
  BY <1>3, VdpIs DEF Machine
<1>6. Tells(c, u, ScrMode)
  BY HandedInStep DEF History, Tells
<1>7. ScrMode' = ScrMode
  BY DEF ReadPixel
<1> HIDE DEF u, c
<1> QED BY <1>1, <1>2, <1>3, <1>4, <1>5, <1>6, <1>7, Handled

LEMMA DrawTells ==
  ASSUME InType, History, ScrMode \in Screens5To8, NEW e \in Engines, Draw(e),
         ScrMode' = ScrMode
  PROVE  History' /\ Ends
<1> DEFINE at == Fetched(ScrMode, e, reg)
           kept == (e = "LINE" => at.NY <= at.NX) /\ (e = "LMCM" => ~TR)
           c0 == [op |-> e, mode |-> ScrMode, at |-> at, ymajor |-> reg.ymajor]
           c == IF kept THEN c0 ELSE NoCmd
           u == Begun(e)
<1>1. PICK w \in VdpEngine(u) : Becomes(w, c)
  BY DEF Draw, Started, Begun
<1>2. Ready(u) /\ u.engine = e /\ u.reg = reg
  BY BegunType
<1>3. reg \in Registers /\ e # "none"
  BY InTypeVars, NoCmdUnknown
<1>4. Tells(c, u, ScrMode)
  <2>1. CASE kept
    <3>1. Tells(c0, u, ScrMode)
      BY <2>1, BegunInStep
    <3> QED BY <2>1, <3>1
  <2>2. CASE ~kept
    BY <2>2 DEF Tells
  <2> QED BY <2>1, <2>2
<1> HIDE DEF u, c
<1> QED BY <1>1, <1>2, <1>3, <1>4, Handled

LEMMA HistoryNext == InType /\ History /\ [Next]_vars => History' /\ (Ends \/ UNCHANGED vars)
<1> SUFFICES ASSUME InType, History, [Next]_vars PROVE History' /\ (Ends \/ UNCHANGED vars)
  OBVIOUS
<1>0. ScrMode \in Modes \cup {0} /\ Vdp \in Machine /\ reg \in Registers
  BY InTypeVars DEF InType
\* A step after which no history is kept.
<1>00. ASSUME NEW v, Becomes(v, NoCmd) PROVE History' /\ Ends
  BY <1>00 DEF Becomes, History, Tells, Ends
<1>1. CASE LoopVDP
  BY <1>1, LoopVDPTells
<1>2. ASSUME NEW a \in IF engine = "none" THEN Args ELSE LateArgs, WriteArgs(a)
      PROVE  History' /\ Ends
  <2>1. a \in Registers
    BY <1>2, ArgsAssumption
  <2> QED BY <1>2, <2>1, WriteArgsTells
<1>3. CASE WriteColour
  BY <1>3, WriteColourTells
<1>4. CASE ReadPixel
  BY <1>4, ReadPixelTells
<1>5. CASE VDPDraw
  <2>1. PICK op \in Ops : IF op \in Immediate THEN DrawNow ELSE Draw(op)
    BY <1>5 DEF VDPDraw
  <2>2. CASE op \in Immediate
    BY <1>00, <2>1, <2>2 DEF DrawNow
  <2>3. CASE op \notin Immediate
    <3>1. op \in Engines /\ Draw(op)
      BY <2>1, <2>3, OpsAssumption
    <3>2. ScrMode \in Screens5To8
      BY <1>0, <1>5, GeometryAssumption DEF VDPDraw, Screens5To8
    <3>3. ScrMode' = ScrMode
      BY <1>5 DEF VDPDraw
    <3> QED BY <3>1, <3>2, <3>3, DrawTells
  <2> QED BY <2>2, <2>3
<1>6. ASSUME NEW mode \in Modes, SetScreen(mode) PROVE History' /\ Ends
  <2>1. CASE mode = ScrMode
    <3>1. Becomes(Vdp, cmd) /\ Tells(cmd, Vdp, ScrMode')
      BY <1>6, <2>1 DEF SetScreen, History
    <3>2. History' /\ cmd' = cmd /\ engine' = engine /\ (cmd # NoCmd => done' = done)
      BY <1>0, <3>1, BecomesHistory, VdpIs
    <3> QED BY <3>2 DEF Ends
  <2>2. CASE mode # ScrMode
    BY <1>00, <1>6, <2>2 DEF SetScreen
  <2> QED BY <2>1, <2>2
<1>7. CASE ResetMSX
  BY <1>00, <1>7 DEF ResetMSX
<1>8. CASE LoadState
  BY <1>00, <1>8 DEF LoadState
<1>9. CASE UNCHANGED vars
  <2>1. Vdp' = Vdp /\ ScrMode' = ScrMode /\ cmd' = cmd
    BY <1>9 DEF vars, Vdp
  <2> QED BY <1>9, <2>1 DEF History
<1> QED BY <1>1, <1>2, <1>3, <1>4, <1>5, <1>6, <1>7, <1>8, <1>9 DEF Next

-----------------------------------------------------------------------------
\* Theorems

LEMMA PlanIsSequence ==
  ASSUME NEW c, Known(c)
  PROVE  \E S : Plan(c) \in Seq(S)
<1>1. \E N \in Nat : \E f : Plan(c) = [k \in 1 .. N |-> f[k]]
  <2>1. CASE c.op = "SRCH"
    <3> DEFINE N == LineLength(c)
               Move(k) == MoveOf(c.mode, "SRCH", c.at.SX + Step(c, k - 1), c.at.SY, 0, 0, 0)
               f == [k \in 1 .. N |-> Move(k)]
    <3>1. N \in Nat
      BY <2>1, Lengths
    <3>2. Plan(c) = f
      BY <2>1 DEF Plan, SearchPlan
    <3> HIDE DEF N, Move
    <3>3. f = [k \in 1 .. N |-> f[k]]
      OBVIOUS
    <3> HIDE DEF f
    <3> QED BY <3>1, <3>2, <3>3
  <2>2. CASE c.op = "LINE"
    <3> DEFINE N == LinePixels(c)
               Move(k) == MoveOf(c.mode, "LINE", 0, 0, LineX(c, k - 1), LineY(c, k - 1), 0)
               f == [k \in 1 .. N |-> Move(k)]
    <3>1. N \in Nat
      BY Pixels, KnownTypes
    <3>2. Plan(c) = f
      BY <2>2 DEF Plan, LinePlan
    <3> HIDE DEF N, Move
    <3>3. f = [k \in 1 .. N |-> f[k]]
      OBVIOUS
    <3> HIDE DEF f
    <3> QED BY <3>1, <3>2, <3>3
  <2>3. CASE c.op # "SRCH" /\ c.op # "LINE"
    <3> DEFINE L == LineLength(c)
               N == L * LineCount(c)
               Move(k) == AreaMove(c, (k - 1) % L, (k - 1) \div L, k)
               f == [k \in 1 .. N |-> Move(k)]
    <3>1. c.op \in AreaOps
      BY <2>3 DEF Known, Engines
    <3>2. N \in Nat
      <4>1. L \in Nat
        BY <3>1, Lengths
      <4>2. Lines \in Nat /\ LineCount(c) \in 1 .. Lines
        BY Constants, Counts
      <4>3. LineCount(c) \in Nat
        BY <4>2
      <4> HIDE DEF L
      <4> QED BY <4>1, <4>3
    <3>3. Plan(c) = f
      BY <2>3 DEF Plan, AreaPlan
    <3> HIDE DEF L, N, Move
    <3>4. f = [k \in 1 .. N |-> f[k]]
      OBVIOUS
    <3> HIDE DEF f
    <3> QED BY <3>2, <3>3, <3>4
  <2> QED BY <2>1, <2>2, <2>3
<1>2. PICK N \in Nat : \E f : Plan(c) = [k \in 1 .. N |-> f[k]]
  BY <1>1
<1>3. PICK f : Plan(c) = [k \in 1 .. N |-> f[k]]
  BY <1>2
<1> DEFINE S == {f[k] : k \in 1 .. N}
<1>4. Plan(c) \in [1 .. N -> S]
  BY <1>3
<1> HIDE DEF S
<1>5. Plan(c) \in Seq(S)
  BY <1>4
<1> QED BY <1>5

LEMMA FollowsIs ==
  ASSUME NEW c, Known(c), NEW s \in Seq(Moves), Follows(c, s)
  PROVE  /\ s = SubSeq(Plan(c), 1, Len(s))
         /\ Len(s) = Len(Plan(c)) => s = Plan(c)
<1>1. PICK S : Plan(c) \in Seq(S)
  BY PlanIsSequence
<1> DEFINE T == S \cup Moves
           p == Plan(c)
           n == Len(s)
<1>2. p \in Seq(T) /\ s \in Seq(T) /\ n \in Nat /\ Len(p) \in Nat
  <2> HIDE DEF p
  <2>1. p \in Seq(S)
    BY <1>1 DEF p
  <2>2. Len(p) \in Nat /\ \A i \in 1 .. Len(p) : p[i] \in S
    BY <2>1
  <2>3. p \in Seq(T)
    BY <2>1
  <2>4. s \in Seq(T)
    OBVIOUS
  <2> QED BY <2>2, <2>3, <2>4
<1>3. n <= Len(p) /\ \A i \in 1 .. n : s[i] = p[i]
  BY DEF Follows
<1> HIDE DEF p, n, T
<1>4. \A i \in 1 .. n : p[i] \in T
  BY <1>2, <1>3
<1> DEFINE q == SubSeq(p, 1, n)
<1>5. /\ q \in Seq(T) /\ Len(q) = (IF 1 <= n THEN n - 1 + 1 ELSE 0)
      /\ \A i \in 1 .. n - 1 + 1 : q[i] = p[1 + i - 1]
  BY <1>2, <1>4, SubSeqProperties
<1> HIDE DEF q
<1>6. Len(q) = n /\ \A i \in 1 .. n : q[i] = p[i]
  BY <1>2, <1>5
<1>7. s = q
  BY <1>2, <1>3, <1>5, <1>6, SeqEqual DEF n
<1>8. n = Len(p) => s = p
  BY <1>2, <1>3, SeqEqual DEF n
<1> QED BY <1>7, <1>8 DEF q, p, n

LEMMA HistoryImplies == InType /\ History => CommandsInStep
<1> SUFFICES ASSUME InType, History PROVE CommandsInStep
  OBVIOUS
<1>1. CASE cmd = NoCmd
  <2>1. cmd.op \notin CpuSends /\ cmd.op \notin CpuReads
    BY <1>1, NoCmdUnknown
  <2> QED BY <1>1, <2>1 DEF CommandsInStep, DrawsPlan, StatusTrue, BusyWhileEngine, Handshake
<1>2. CASE cmd # NoCmd
  <2>1. Known(cmd) /\ cmd.mode = ScrMode /\ InStep(cmd, Vdp)
    BY <1>2 DEF History, Tells
  <2>2. done \in Seq(Moves) /\ TR \in BOOLEAN
    BY InTypeVars
  <2>3. /\ engine \in {cmd.op, "none"} /\ CE = (engine # "none")
        /\ engine = "LINE" => reg.ymajor = cmd.ymajor
        /\ engine \in CpuSends => Len(done) = clr - (IF TR THEN 0 ELSE 1)
        /\ cmd.op \in CpuReads => got = Len(done) - (IF TR THEN 1 ELSE 0)
        /\ Follows(cmd, done)
        /\ engine # "none" => Place(cmd, MMC, Len(done))
        /\ engine = "none" => Len(done) = Len(Plan(cmd)) \/ (cmd.op = "SRCH" /\ BD)
    BY <2>1, VdpIs DEF InStep, Bits
  <2>4. /\ done = SubSeq(Plan(cmd), 1, Len(done))
        /\ Len(done) = Len(Plan(cmd)) => done = Plan(cmd)
    BY <2>1, <2>2, <2>3, FollowsIs
  <2>5. engine # "none" => Len(done) < Len(Plan(cmd))
    <3> SUFFICES ASSUME engine # "none" PROVE Len(done) < Len(Plan(cmd))
      OBVIOUS
    <3> DEFINE k == Len(done)
    <3>1. Place(cmd, MMC, k) /\ (cmd.op = "LINE" => reg.ymajor = cmd.ymajor)
      BY <2>3
    <3> HIDE DEF k
    <3>2. Goes(cmd, k, Moved(cmd.op, MMC, k + 1), PassOf(cmd.op, MMC))
      BY <2>1, <3>1, PassPlaces
    <3>3. k \in Nat /\ Len(Plan(cmd)) \in Nat /\ k + 1 <= Len(Plan(cmd))
      BY <3>2 DEF Goes
    <3>4. k < Len(Plan(cmd))
      BY <3>3
    <3> QED BY <3>4 DEF k
  <2>6. DrawsPlan
    BY <2>3, <2>4, <2>5 DEF DrawsPlan
  <2>7. BusyWhileEngine
    BY <2>3 DEF BusyWhileEngine
  <2>8. Handshake
    <3>1. cmd.op \in CpuSends /\ engine # "none" => engine \in CpuSends
      BY <2>3
    <3> QED BY <2>3, <3>1 DEF Handshake
  <2> QED BY <2>6, <2>7, <2>8 DEF CommandsInStep, StatusTrue
<1> QED BY <1>1, <1>2

LEMMA HistoryInit == Init => History
BY DEF Init, History, Tells

\* However the slices of a scanline and the accesses of the CPU cut a command up,
\* it makes the moves of its plan, in their order and each of them once, is over
\* after the last one, and says so with CE; no colour and no pixel of a transfer
\* is lost or used twice as long as the program waits for TR.
THEOREM InStepWithPlan == Spec => []CommandsInStep
<1>1. Init => InType /\ History
  BY TypeInit, HistoryInit
<1>2. InType /\ History /\ [Next]_vars => InType' /\ History'
  BY TypeNext, HistoryNext
<1>3. InType /\ History => CommandsInStep
  BY HistoryImplies
<1> QED BY <1>1, <1>2, <1>3, PTL DEF Spec

LEMMA EndsLeave ==
  ASSUME Ends \/ UNCHANGED vars,
         engine' = "none" /\ cmd'.op \in AreaOps /\ (engine # "none" \/ done' # done),
         ~(cmd'.at.NY = 0 /\ LineCount(cmd') = Lines)
  PROVE  /\ reg'.ny = (cmd'.at.NY - LineCount(cmd')) % Lines
         /\ cmd'.op \in LoopsSY \ {"LMCM"} =>
              reg'.sy = (cmd'.at.SY + cmd'.at.TY * LineCount(cmd')) % Lines
         /\ cmd'.op \in LoopsDY =>
              reg'.dy = (cmd'.at.DY + cmd'.at.TY * LineCount(cmd')) % Lines
<1>1. cmd' # NoCmd
  BY NoCmdUnknown
<1>2. Ends
  BY DEF vars
<1>3. Leaves(cmd', reg')
  BY <1>1, <1>2 DEF Ends
<1> QED BY <1>3 DEF Leaves

\* A command that ends, in any step and in any slice, leaves SY and DY at the line
\* after its last one and in NY the lines it has not drawn: the next strip goes on
\* from there.
THEOREM RegistersGoOn == Spec => RegistersContinue
<1>1. Init => InType /\ History
  BY TypeInit, HistoryInit
<1>2. InType /\ History /\ [Next]_vars => InType' /\ History'
  BY TypeNext, HistoryNext
<1> DEFINE A ==
      LET after == cmd'.at.TY * LineCount(cmd') IN
      (engine' = "none" /\ cmd'.op \in AreaOps /\ (engine # "none" \/ done' # done)
         /\ ~(cmd'.at.NY = 0 /\ LineCount(cmd') = Lines)) =>
        /\ reg'.ny = (cmd'.at.NY - LineCount(cmd')) % Lines
        /\ cmd'.op \in LoopsSY \ {"LMCM"} => reg'.sy = (cmd'.at.SY + after) % Lines
        /\ cmd'.op \in LoopsDY => reg'.dy = (cmd'.at.DY + after) % Lines
<1>3. InType /\ History /\ [Next]_vars => A
  BY HistoryNext, EndsLeave
<1>4. RegistersContinue <=> [][A]_vars
  BY DEF RegistersContinue
<1> HIDE DEF A
<1>5. InType /\ History /\ [Next]_vars => [A]_vars
  BY <1>3
<1> QED BY <1>1, <1>2, <1>4, <1>5, PTL DEF Spec
=============================================================================
