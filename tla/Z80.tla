------------------------------- MODULE Z80 -------------------------------
(***************************************************************************)
(* The Z80: RunZ80() and IntZ80() of Z80.c with the instructions of        *)
(* Codes.h, CodesCB.h, CodesED.h, CodesXX.h and CodesXCB.h, which the      *)
(* tables of opcodes hold by fields of the opcode byte.  Cycles are left   *)
(* to Interrupts: here an interrupt may come after any instruction.        *)
(***************************************************************************)
EXTENDS Z80Arith, Sequences

CONSTANTS
  Programs,   \* what the machine may start with: code, data, registers and what it promises
  Vector,     \* of the device that interrupts, INT_IRQ
  Interrupts, \* how many there are at most
  Ticks,      \* where the interrupt handler of every program counts
  Longest     \* no program takes more instructions than that, without interrupts

VARIABLES
  cpu,     \* the processor with its memory and ports
  program, \* the program that it runs
  ints     \* interrupts so far
vars == <<cpu, program, ints>>

-----------------------------------------------------------------------------
\* Registers, memory and ports

Main == {"A", "F", "B", "C", "D", "E", "H", "L"}
Registers == Main \cup {"IXh", "IXl", "IYh", "IYl", "SPh", "SPl", "I", "R"}

ASSUME ProgramsAssumption ==
  /\ \A p \in Programs : /\ p.reg \in [Registers -> Byte]
                         /\ p.mem \in [DOMAIN p.mem -> Byte]
                         /\ p.in \in Seq(Byte) /\ p.on \in BOOLEAN
  /\ Interrupts \in Nat

Halves == [BC |-> <<"B", "C">>, DE |-> <<"D", "E">>, HL |-> <<"H", "L">>,
           AF |-> <<"A", "F">>, SP |-> <<"SPh", "SPl">>,
           IX |-> <<"IXh", "IXl">>, IY |-> <<"IYh", "IYl">>]

Get(m, p) == 256 * m.reg[Halves[p][1]] + m.reg[Halves[p][2]]
Put(m, p, w) == [m EXCEPT !.reg[Halves[p][1]] = (w % 65536) \div 256,
                          !.reg[Halves[p][2]] = w % 256]
SetA(m, is) == [m EXCEPT !.reg["A"] = is.byte, !.reg["F"] = is.F]
SetF(m, f)  == [m EXCEPT !.reg["F"] = f]

\* Memory there is at some addresses; the others are empty slots.
NORAM == 255
RdZ80(m, a) == IF a % 65536 \in DOMAIN m.mem THEN m.mem[a % 65536] ELSE NORAM
WrZ80(m, a, v) == IF a % 65536 \in DOMAIN m.mem THEN [m EXCEPT !.mem[a % 65536] = v] ELSE m
Word2(m, a) == RdZ80(m, a) + 256 * RdZ80(m, a + 1)
WrWord(m, a, p) == WrZ80(WrZ80(m, a, m.reg[Halves[p][2]]), a + 1, m.reg[Halves[p][1]])

\* A device answers with the next of some bytes and takes all that it is sent.
InZ80(m) == IF m.in = <<>> THEN NORAM ELSE Head(m.in)
Taken(m) == IF m.in = <<>> THEN m ELSE [m EXCEPT !.in = Tail(@)]
OutZ80(m, port, v) == [m EXCEPT !.out = Append(@, <<port % 256, v>>)]

OpZ80(m) == RdZ80(m, m.PC)
Skip(m, n) == [m EXCEPT !.PC = (@ + n) % 65536]
Jump(m, a) == [m EXCEPT !.PC = a]

M_PUSH(m, p) == LET s == Get(m, "SP")
                IN Put(WrWord(m, s - 2, p), "SP", s - 2)
M_POP(m, p) == LET s == Get(m, "SP")
               IN Put(Put(m, p, Word2(m, s)), "SP", s + 2)
PushPC(m) == LET s == Get(m, "SP")
             IN Put(WrZ80(WrZ80(m, s - 1, m.PC \div 256), s - 2, m.PC % 256), "SP", s - 2)

offset(byte) == IF byte > 127 THEN byte - 256 ELSE byte
M_JR(m)   == Skip(m, offset(OpZ80(m)) + 1)
M_JP(m)   == Jump(m, Word2(m, m.PC))
M_CALL(m) == Jump(PushPC(Skip(m, 2)), Word2(m, m.PC))
M_RET(m)  == LET s == Get(m, "SP") IN Jump(Put(m, "SP", s + 2), Word2(m, s))
M_RST(m, a) == Jump(PushPC(m), a)

\* NZ, Z, NC, C, PO, PE, P and M.
Holds(m, c) == LET k == CASE c \in {0, 1} -> 6 [] c \in {2, 3} -> 0
                          [] c \in {4, 5} -> 2 [] c \in {6, 7} -> 7
               IN Bit(m.reg["F"], k) = c % 2

-----------------------------------------------------------------------------
\* Operands: fields of three bits name B, C, D, E, H, L, (HL) and A, fields of two BC,
\* DE, HL and SP.  After a prefix IX or IY stands for HL, and a displacement follows
\* the opcode when it is an address.

Name(i, xx) == CASE i = 0 -> "B" [] i = 1 -> "C" [] i = 2 -> "D" [] i = 3 -> "E"
                 [] i = 4 -> Halves[xx][1] [] i = 5 -> Halves[xx][2] [] i = 7 -> "A"
Place(m, xx) == IF xx = "HL" THEN Get(m, "HL") ELSE Get(m, xx) + offset(OpZ80(m))
Past(m, i, xx) == IF i = 6 /\ xx # "HL" THEN Skip(m, 1) ELSE m
Operand(m, i, xx) == IF i = 6 THEN RdZ80(m, Place(m, xx)) ELSE m.reg[Name(i, xx)]
\* Stores a byte where Operand() read it, and goes on after the displacement.
Store(m, i, xx, v) == IF i = 6 THEN Past(WrZ80(m, Place(m, xx), v), 6, xx)
                      ELSE [m EXCEPT !.reg[Name(i, xx)] = v]
Pair(p, xx) == CASE p = 0 -> "BC" [] p = 1 -> "DE" [] p = 2 -> xx [] p = 3 -> "SP"

-----------------------------------------------------------------------------
\* The main table.  m has fetched the opcode, y is its middle field, z the lower one.

\* M_ADD .. M_CP with a byte.
ALU(m, y, b) ==
  LET a == m.reg["A"]
      c == Carry(m.reg["F"])
  IN CASE y = 0 -> SetA(m, M_ADC(a, b, 0))
       [] y = 1 -> SetA(m, M_ADC(a, b, c))
       [] y = 2 -> SetA(m, M_SBC(a, b, 0))
       [] y = 3 -> SetA(m, M_SBC(a, b, c))
       [] y = 4 -> SetA(m, M_AND(a, b))
       [] y = 5 -> SetA(m, M_XOR(a, b))
       [] y = 6 -> SetA(m, M_OR(a, b))
       [] y = 7 -> SetF(m, M_SBC(a, b, 0).F)

Swapped(m, names, other) ==
  [m EXCEPT !.reg = [r \in Registers |-> IF r \in names THEN m.alt[r] ELSE m.reg[r]],
            !.alt = [r \in Main |-> IF r \in names THEN m.reg[r] ELSE other[r]]]

\* NOP, EX AF,AF', DJNZ, JR
Relative(m, y) ==
  CASE y = 0 -> m
    [] y = 1 -> Swapped(m, {"A", "F"}, m.alt)
    [] y = 2 -> LET n == [m EXCEPT !.reg["B"] = (@ - 1) % 256]
                IN IF n.reg["B"] # 0 THEN M_JR(n) ELSE Skip(n, 1)
    [] y = 3 -> M_JR(m)
    [] OTHER -> IF Holds(m, y - 4) THEN M_JR(m) ELSE Skip(m, 1)

\* LD rr,nn and ADD HL,rr
Words(m, y, xx) ==
  LET p == Pair(y \div 2, xx) IN
  IF y % 2 = 0 THEN Skip(Put(m, p, Word2(m, m.PC)), 2)
  ELSE LET is == M_ADDW(Get(m, xx), Get(m, p), m.reg["F"])
       IN SetF(Put(m, xx, is.word), is.F)

\* LD between A or HL and memory
Indirect(m, y, xx) ==
  LET nn == Word2(m, m.PC) IN
  CASE y = 0 -> WrZ80(m, Get(m, "BC"), m.reg["A"])
    [] y = 1 -> [m EXCEPT !.reg["A"] = RdZ80(m, Get(m, "BC"))]
    [] y = 2 -> WrZ80(m, Get(m, "DE"), m.reg["A"])
    [] y = 3 -> [m EXCEPT !.reg["A"] = RdZ80(m, Get(m, "DE"))]
    [] y = 4 -> WrWord(Skip(m, 2), nn, xx)
    [] y = 5 -> Put(Skip(m, 2), xx, Word2(m, nn))
    [] y = 6 -> WrZ80(Skip(m, 2), nn, m.reg["A"])
    [] y = 7 -> [Skip(m, 2) EXCEPT !.reg["A"] = RdZ80(m, nn)]

Count(m, y, xx) == LET p == Pair(y \div 2, xx)
                   IN Put(m, p, Get(m, p) + (IF y % 2 = 0 THEN 1 ELSE -1))

\* INC r and DEC r
Step8(m, y, z, xx) ==
  LET x  == Operand(m, y, xx)
      is == IF z = 4 THEN M_INC(x, m.reg["F"]) ELSE M_DEC(x, m.reg["F"])
  IN SetF(Store(m, y, xx, is.byte), is.F)

\* LD r,n; the displacement comes before the byte.
Immediate(m, y, xx) ==
  LET n == Past(m, y, xx)
      v == OpZ80(n)
  IN IF y = 6 THEN Skip(WrZ80(n, Place(m, xx), v), 1)
     ELSE Skip([m EXCEPT !.reg[Name(y, xx)] = v], 1)

\* RLCA, RRCA, RLA, RRA, DAA, CPL, SCF and CCF
Accu(m, y) ==
  LET a == m.reg["A"]
      f == m.reg["F"]
      kept == Without(f, TRUE, FALSE, TRUE, TRUE)
  IN CASE y = 0 -> SetA(m, Accumulator(Bit(a, 7), Left(a, Bit(a, 7)), f))
       [] y = 1 -> SetA(m, Accumulator(Bit(a, 0), Right(a, Bit(a, 0)), f))
       [] y = 2 -> SetA(m, Accumulator(Bit(a, 7), Left(a, Carry(f)), f))
       [] y = 3 -> SetA(m, Accumulator(Bit(a, 0), Right(a, Carry(f)), f))
       [] y = 4 -> SetA(m, DAATable(a, f))
       [] y = 5 -> SetA(m, Is(255 - a, Without(f, TRUE, FALSE, TRUE, FALSE) + H_FLAG + N_FLAG))
       [] y = 6 -> SetF(m, kept + C_FLAG)
       [] y = 7 -> SetF(m, kept + If(Carry(f) = 0, C_FLAG) + If(Carry(f) = 1, H_FLAG))

\* LD r,r; H and L are themselves beside (IX+d).
Load(m, y, z, xx) ==
  CASE y = 6 -> Store(m, 6, xx, m.reg[Name(z, "HL")])
    [] z = 6 -> [Past(m, 6, xx) EXCEPT !.reg[Name(y, "HL")] = Operand(m, 6, xx)]
    [] OTHER -> [m EXCEPT !.reg[Name(y, xx)] = m.reg[Name(z, xx)]]

HALT(m) == [m EXCEPT !.PC = (@ - 1) % 65536, !.HALT = TRUE]

StackPair(y, xx) == IF y = 6 THEN "AF" ELSE Pair(y \div 2, xx)

\* POP, RET, EXX, JP (HL) and LD SP,HL
Stack(m, y, xx) ==
  CASE y % 2 = 0 -> M_POP(m, StackPair(y, xx))
    [] y = 1 -> M_RET(m)
    [] y = 3 -> Swapped(m, Main \ {"A", "F"}, m.alt)
    [] y = 5 -> Jump(m, Get(m, xx))
    [] y = 7 -> Put(m, "SP", Get(m, xx))

DI(m) == [m EXCEPT !.IFF1 = FALSE, !.IFF2 = FALSE, !.EI = FALSE]
EI(m) == IF m.IFF1 \/ m.EI THEN m ELSE [m EXCEPT !.IFF2 = TRUE, !.EI = TRUE]

\* JP, OUT (n),A, IN A,(n), EX (SP),HL, EX DE,HL, DI and EI
Control(m, y, xx) ==
  CASE y = 0 -> M_JP(m)
    [] y = 2 -> OutZ80(Skip(m, 1), OpZ80(m), m.reg["A"])
    [] y = 3 -> [Taken(Skip(m, 1)) EXCEPT !.reg["A"] = InZ80(m)]
    [] y = 4 -> LET s == Get(m, "SP") IN Put(WrWord(m, s, xx), xx, Word2(m, s))
    [] y = 5 -> Put(Put(m, "DE", Get(m, "HL")), "HL", Get(m, "DE"))
    [] y = 6 -> DI(m)
    [] y = 7 -> EI(m)

\* Codes.h, or CodesXX.h after a prefix, without the prefixes.
Codes(m, op, xx) ==
  LET x == op \div 64
      y == (op \div 8) % 8
      z == op % 8
  IN CASE x = 0 /\ z = 0 -> Relative(m, y)
       [] x = 0 /\ z = 1 -> Words(m, y, xx)
       [] x = 0 /\ z = 2 -> Indirect(m, y, xx)
       [] x = 0 /\ z = 3 -> Count(m, y, xx)
       [] x = 0 /\ z \in {4, 5} -> Step8(m, y, z, xx)
       [] x = 0 /\ z = 6 -> Immediate(m, y, xx)
       [] x = 0 /\ z = 7 -> Accu(m, y)
       [] x = 1 /\ op = \h76 -> HALT(m)
       [] x = 1 /\ op # \h76 -> Load(m, y, z, xx)
       [] x = 2 -> ALU(Past(m, z, xx), y, Operand(m, z, xx))
       [] x = 3 /\ z = 0 -> IF Holds(m, y) THEN M_RET(m) ELSE m
       [] x = 3 /\ z = 1 -> Stack(m, y, xx)
       [] x = 3 /\ z = 2 -> IF Holds(m, y) THEN M_JP(m) ELSE Skip(m, 2)
       [] x = 3 /\ z = 3 -> Control(m, y, xx)
       [] x = 3 /\ z = 4 -> IF Holds(m, y) THEN M_CALL(m) ELSE Skip(m, 2)
       [] x = 3 /\ z = 5 -> IF y % 2 = 0 THEN M_PUSH(m, StackPair(y, xx)) ELSE M_CALL(m)
       [] x = 3 /\ z = 6 -> ALU(Skip(m, 1), y, OpZ80(m))
       [] x = 3 /\ z = 7 -> M_RST(m, 8 * y)

-----------------------------------------------------------------------------
\* CodesCB.h, and CodesXCB.h, which has only forms with (IX+d): BIT in all eight places
\* of the operand, the others in that of (HL).

Rotated(y, x, f) ==
  CASE y = 0 -> M_RLC(x) [] y = 1 -> M_RRC(x) [] y = 2 -> M_RL(x, f) [] y = 3 -> M_RR(x, f)
    [] y = 4 -> M_SLA(x) [] y = 5 -> M_SRA(x) [] y = 6 -> M_SLL(x)   [] y = 7 -> M_SRL(x)

\* What becomes of a byte x and the flags f.
OnBits(op, x, f) ==
  LET y == (op \div 8) % 8
  IN CASE op \div 64 = 0 -> Rotated(y, x, f)
       [] op \div 64 = 1 -> M_BIT(y, x, f)
       [] op \div 64 = 2 -> Is(M_RES(y, x), f)
       [] op \div 64 = 3 -> Is(M_SET(y, x), f)
Stores(op) == op \div 64 # 1

CodesCB(m, op) ==
  LET is == OnBits(op, Operand(m, op % 8, "HL"), m.reg["F"])
      n  == SetF(m, is.F)
  IN IF Stores(op) THEN Store(n, op % 8, "HL", is.byte) ELSE n

\* The displacement stands before the opcode: place is the address that it made.
CodesXCB(m, op, place) ==
  LET is == OnBits(op, RdZ80(m, place), m.reg["F"])
  IN CASE ~Stores(op) -> SetF(m, is.F)
       [] Stores(op) /\ op % 8 = 6 -> WrZ80(SetF(m, is.F), place, is.byte)
       [] OTHER -> m

-----------------------------------------------------------------------------
\* CodesED.h

CB == \hCB
ED == \hED

\* Repeating instructions go back to themselves until they are done.
Again(m, more) == IF more THEN Skip(m, -2) ELSE m

\* LDI, LDD, LDIR and LDDR
BlockLoad(m, by, repeat) ==
  LET n    == WrZ80(m, Get(m, "DE"), RdZ80(m, Get(m, "HL")))
      left == (Get(m, "BC") - 1) % 65536
      done == Put(Put(Put(n, "DE", Get(m, "DE") + by), "HL", Get(m, "HL") + by), "BC", left)
      f    == m.reg["F"]
  IN IF repeat
     THEN Again(SetF(done, IF left = 0 THEN Without(f, TRUE, TRUE, TRUE, FALSE)
                           ELSE Without(f, TRUE, TRUE, TRUE, FALSE) + N_FLAG), left # 0)
     ELSE SetF(done, Without(f, TRUE, TRUE, TRUE, FALSE) + If(left # 0, P_FLAG))

\* CPI, CPD, CPIR and CPDR
BlockCompare(m, by, repeat) ==
  LET b    == RdZ80(m, Get(m, "HL"))
      r    == (m.reg["A"] - b) % 256
      left == (Get(m, "BC") - 1) % 65536
      done == Put(Put(m, "HL", Get(m, "HL") + by), "BC", left)
  IN Again(SetF(done, N_FLAG + Carry(m.reg["F"]) + ZSTable(r) + HalfCarry(m.reg["A"], b, r)
                      + If(left # 0, P_FLAG)),
           repeat /\ left # 0 /\ r # 0)

\* INI, IND, INIR and INDR.  INDR has the test of B the wrong way round.
BlockIn(m, by, repeat) ==
  LET n    == Taken(WrZ80(m, Get(m, "HL"), InZ80(m)))
      left == (m.reg["B"] - 1) % 256
      done == [Put(n, "HL", Get(m, "HL") + by) EXCEPT !.reg["B"] = left]
      more == IF by = 1 THEN left # 0 ELSE left = 0
  IN IF repeat THEN Again(SetF(done, N_FLAG + If(~more, Z_FLAG)), more)
     ELSE SetF(done, N_FLAG + If(left = 0, Z_FLAG))

\* OUTI, OUTD, OTIR and OTDR
BlockOut(m, by, repeat) ==
  LET left == (m.reg["B"] - 1) % 256
      v    == RdZ80(m, Get(m, "HL"))
      done == OutZ80([Put(m, "HL", Get(m, "HL") + by) EXCEPT !.reg["B"] = left], m.reg["C"], v)
  IN Again(SetF(done, N_FLAG + If(left = 0, Z_FLAG)
                      + If(done.reg["L"] + v > 255, C_FLAG + H_FLAG)),
           repeat /\ left # 0)

Block(m, y, z) ==
  LET by     == IF y % 2 = 0 THEN 1 ELSE -1
      repeat == y > 5
  IN CASE z = 0 -> BlockLoad(m, by, repeat) [] z = 1 -> BlockCompare(m, by, repeat)
       [] z = 2 -> BlockIn(m, by, repeat)   [] z = 3 -> BlockOut(m, by, repeat)

\* LD I,A, LD R,A, LD A,I, LD A,R, RRD and RLD
Special(m, y) ==
  LET a == m.reg["A"]
      x == RdZ80(m, Get(m, "HL"))
      FromIR(v) == SetA(m, Is(v, Carry(m.reg["F"]) + If(m.IFF2, P_FLAG) + ZSTable(v)))
      Digits(accu, byte) ==
        SetA(WrZ80(m, Get(m, "HL"), byte), Is(accu, PZSTable(accu) + Carry(m.reg["F"])))
  IN CASE y = 0 -> [m EXCEPT !.reg["I"] = a]
       [] y = 1 -> [m EXCEPT !.reg["R"] = a]
       [] y = 2 -> FromIR(m.reg["I"])
       [] y = 3 -> FromIR(m.reg["R"])
       [] y = 4 -> Digits(16 * (a \div 16) + (x % 16), x \div 16 + 16 * (a % 16))
       [] y = 5 -> Digits(16 * (a \div 16) + x \div 16, 16 * (x % 16) + (a % 16))
       [] OTHER -> m

\* IN r,(C) and OUT (C),r; in the place of (HL) flags alone, and zero.
PortC(m, y, z) ==
  IF z = 0
  THEN LET v == InZ80(m)
           n == SetF(Taken(m), PZSTable(v) + Carry(m.reg["F"]))
       IN IF y = 6 THEN n ELSE [n EXCEPT !.reg[Name(y, "HL")] = v]
  ELSE OutZ80(m, m.reg["C"], IF y = 6 THEN 0 ELSE m.reg[Name(y, "HL")])

WordsCarry(m, y) ==
  LET c  == Carry(m.reg["F"])
      rr == Get(m, Pair(y \div 2, "HL"))
      is == IF y % 2 = 0 THEN M_SBCW(Get(m, "HL"), rr, c) ELSE M_ADCW(Get(m, "HL"), rr, c)
  IN SetF(Put(m, "HL", is.word), is.F)

\* LD (nn),rr and LD rr,(nn)
WordsMemory(m, y) ==
  LET p  == Pair(y \div 2, "HL")
      nn == Word2(m, m.PC)
  IN IF y % 2 = 0 THEN WrWord(Skip(m, 2), nn, p) ELSE Put(Skip(m, 2), p, Word2(m, nn))

\* The second table; NEG, RETN, RETI and the modes have one place each.  EDFEh calls
\* PatchZ80(), which is not part of the processor.
CodesED(m, op) ==
  LET x == op \div 64
      y == (op \div 8) % 8
      z == op % 8
  IN CASE x = 1 /\ z \in {0, 1} -> PortC(m, y, z)
       [] x = 1 /\ z = 2 -> WordsCarry(m, y)
       [] x = 1 /\ z = 3 -> WordsMemory(m, y)
       [] op = \h44 -> SetA(m, M_SBC(0, m.reg["A"], 0))
       [] op \in {\h45, \h4D} -> M_RET([m EXCEPT !.IFF1 = m.IFF2])
       [] op = \h46 -> [m EXCEPT !.IM = 0]
       [] op = \h56 -> [m EXCEPT !.IM = 1]
       [] op = \h5E -> [m EXCEPT !.IM = 2]
       [] x = 1 /\ z = 7 -> Special(m, y)
       [] x = 2 /\ y > 3 /\ z < 4 -> Block(m, y, z)
       [] op = ED -> Skip(m, -1)
       [] OTHER -> m

-----------------------------------------------------------------------------
\* RunZ80()

Prefix == [op \in {\hDD, \hFD} |-> IF op = \hDD THEN "IX" ELSE "IY"]

\* Each opcode but those after a displacement counts R up.
Fetched(m) == [Skip(m, 1) EXCEPT !.reg["R"] = 128 * (@ \div 128) + ((@ + 1) % 128)]

\* CodesDD() and CodesFD(): a second prefix is left for the next instruction, and ED is
\* passed over.
OtherThanPrefix(n, op, xx) ==
  CASE op = CB -> CodesXCB(Skip(n, 2), RdZ80(n, n.PC + 1), Place(n, xx))
    [] op = ED -> n
    [] OTHER   -> Codes(n, op, xx)
Prefixed_Stuck(m, xx) ==
  LET op == OpZ80(m)
      n  == Fetched(m)
  IN IF op \in DOMAIN Prefix THEN Skip(n, -2) ELSE OtherThanPrefix(n, op, xx)
Prefixed(m, xx) ==
  LET op == OpZ80(m)
      n  == Fetched(m)
  IN IF op \in DOMAIN Prefix THEN Skip(n, -1) ELSE OtherThanPrefix(n, op, xx)

Execute(m) ==
  LET op == OpZ80(m)
      n  == Fetched(m)
  IN CASE op \in DOMAIN Prefix -> Prefixed(n, Prefix[op])
       [] op = CB -> CodesCB(Fetched(n), OpZ80(n))
       [] op = ED -> CodesED(Fetched(n), OpZ80(n))
       [] OTHER   -> Codes(n, op, "HL")

\* With EI before it, an instruction ends with interrupts on.
AfterEI(m, n)  == IF m.EI /\ n.EI THEN [n EXCEPT !.EI = FALSE, !.IFF1 = TRUE] ELSE n
Instruction(m) == AfterEI(m, Execute(m))

\* IntZ80() in its three modes.
IntZ80_StillOn(m) == IF m.IFF1 THEN Jump(PushPC(m), 56) ELSE m
IntZ80(m) ==
  LET awake == IF m.HALT THEN [Skip(m, 1) EXCEPT !.HALT = FALSE] ELSE m
      off   == DI(PushPC(awake))
      from  == Vector + 256 * m.reg["I"]
  IN IF ~m.IFF1 THEN awake
     ELSE Jump(off, CASE m.IM = 2 -> Word2(off, from) [] OTHER -> 56)

-----------------------------------------------------------------------------
Start(p) ==
  [reg |-> p.reg, alt |-> [r \in Main |-> 0], PC |-> 0, mem |-> p.mem, in |-> p.in, out |-> <<>>,
   IFF1 |-> p.on, IFF2 |-> p.on, EI |-> FALSE, HALT |-> FALSE, IM |-> 1]

Init == /\ program \in Programs
        /\ cpu = Start(program)
        /\ ints = 0

Ended == cpu.PC = program.end

RunZ80 == /\ ~Ended
          /\ cpu' = Instruction(cpu)
          /\ UNCHANGED <<program, ints>>
\* The periodic handler asks for an interrupt; it is not called right after EI.  With
\* interrupts off a request does no more than end a HALT.
LoopZ80 == /\ ints < Interrupts
           /\ ~Ended /\ ~cpu.EI
           /\ cpu.IFF1 \/ cpu.HALT
           /\ cpu' = IntZ80(cpu)
           /\ ints' = ints + If(cpu.IFF1, 1)
           /\ UNCHANGED program
\* What comes after a program is not looked at.
Stop == Ended /\ UNCHANGED vars
Next == RunZ80 \/ LoopZ80 \/ Stop
\* The processor never stops running.
Spec == Init /\ [][Next]_vars /\ WF_vars(RunZ80)

-----------------------------------------------------------------------------
\* Properties

\* Registers and memory hold bytes, and PC a word, whatever the program does: every sum
\* wraps where the registers of the code do.
TypeOK == /\ cpu.reg \in [Registers -> Byte]
          /\ cpu.alt \in [Main -> Byte]
          /\ cpu.PC \in Word
          /\ cpu.mem \in [DOMAIN program.mem -> Byte]
          /\ cpu.IM \in 0 .. 2
          /\ {cpu.IFF1, cpu.IFF2, cpu.EI, cpu.HALT} \subseteq BOOLEAN
          /\ ints \in 0 .. Interrupts

\* A program leaves in registers, memory and ports what it promises: the result that the
\* Z80's manual gives by arithmetic on numbers, by the order of the bytes that a repeated
\* instruction moves, and by what undoes what.
EndsAsPromised ==
  Ended => /\ \A r \in DOMAIN program.reg_ends : cpu.reg[r] = program.reg_ends[r]
           /\ \A a \in DOMAIN program.mem_ends : cpu.mem[a] = program.mem_ends[a]
           /\ cpu.out = program.sends

\* The machine at the end of p, had no interrupt come.
Undisturbed(p) ==
  LET Next1(m) == IF m.PC = p.end THEN m ELSE Instruction(m)
      run[n \in 0 .. Longest] == IF n = 0 THEN Start(p) ELSE Next1(run[n - 1])
  IN run[Longest]

\* A handler that ends with EI and RET has returned before the next interrupt: the stack
\* never holds two of its frames.
OneFrame == program.on => Get(cpu, "SP") >= Get([reg |-> program.reg], "SP") - program.depth

\* The machine at its end is m, but for what an interrupt may change.
SameEnd(m) ==
  LET below == Get(m, "SP") - program.depth .. Get(m, "SP") - 1
  IN m.PC = program.end => /\ \A r \in Registers \ {"R"} : cpu.reg[r] = m.reg[r]
                           /\ \A a \in DOMAIN m.mem \ (below \cup {Ticks}) : cpu.mem[a] = m.mem[a]
                           /\ cpu.alt = m.alt
                           /\ cpu.out = m.out

\* Interrupts between any two instructions, and between the turns of a repeating one,
\* never nest and leave no trace: registers, ports and memory end as they do without
\* interrupts, but for R, for what lies below the stack, and for the handler's count,
\* which shows that each was served once.
InterruptsInvisible ==
  /\ OneFrame
  /\ Ended => cpu.mem[Ticks] = ints /\ SameEnd(Undisturbed(program))

\* A program comes to its end, or waits in HALT for an interrupt: the repeating
\* instructions stop.
ProgramsEnd == <>(Ended \/ cpu.HALT)
=============================================================================
