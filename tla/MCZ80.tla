------------------------------ MODULE MCZ80 ------------------------------
(***************************************************************************)
(* Programs for Z80, with what each promises by a reference that is not    *)
(* the one of the code: sums of integers instead of exclusive ors, copies  *)
(* byte by byte, decimal numbers, and pairs of instructions that undo each *)
(* other.                                                                  *)
(***************************************************************************)
EXTENDS Z80, TLC

\* Code starts at 0, data at Data and the stack under Top; the handler is where IM 1
\* and the vector of IM 2 send an interrupt.
MCTicks == \h48
Scratch == \h4A
Handler == \h38
Data == \h50
Top == \h80
Serve(return) == <<\hF5, \h3A, MCTicks, 0, \h3C, \h32, MCTicks, 0, \hF1, \hFB>> \o return
RET == <<\hC9>>
RETI == <<\hED, \h4D>>

At(start, bytes) == [a \in start .. start + Len(bytes) - 1 |-> bytes[a - start + 1]]
Memory(code, return, bytes) ==
  At(0, code) @@ At(Handler, Serve(return)) @@ At(Data, bytes)
  @@ At(MCTicks, <<0, 0, 0, 0>>) @@ At(Top - 8, <<0, 0, 0, 0, 0, 0, 0, 0, \h34, \h12>>)
  @@ At(255, <<Handler, 0>>)
Reg0 == [r \in Registers |-> IF r = "SPl" THEN Top ELSE 0]
Word8(p, w) == (Halves[p][1] :> (w \div 256)) @@ (Halves[p][2] :> (w % 256))

\* A program that uses no stack itself, with interrupts off.
Program(code, regs, bytes) ==
  [reg |-> regs @@ Reg0, mem |-> Memory(code, RET, bytes), in |-> <<>>, on |-> FALSE,
   end |-> Len(code), depth |-> 4, reg_ends |-> <<>>, mem_ends |-> <<>>, sends |-> <<>>]
Interrupted(p) == [p EXCEPT !.on = TRUE]
Pushing(p, n) == [p EXCEPT !.on = TRUE, !.depth = 4 + n]
Ends(p, regs, mem) == [p EXCEPT !.reg_ends = regs, !.mem_ends = mem]

-----------------------------------------------------------------------------
\* Arithmetic on bytes and words, by integers

Edge == {0, 1, 15, 16, 85, 127, 128, 254, 255}
Edges == {0, 1, \h0FFF, \h1000, \h7FFF, \h8000, \hFFFF}
AF(a, f) == ("A" :> a) @@ ("F" :> f)
AB(a, b, c) == AF(a, c) @@ ("B" :> b)

Adds(a, b, c) ==
  {Ends(Program(<<\h80>>, AB(a, b, c), <<>>), AF((a + b) % 256, Sum8(a, b, 0)), <<>>),
   Ends(Program(<<\h88>>, AB(a, b, c), <<>>), AF((a + b + c) % 256, Sum8(a, b, c)), <<>>),
   Ends(Program(<<\h90>>, AB(a, b, c), <<>>), AF((a - b) % 256, Minus8(a, b, 0)), <<>>),
   Ends(Program(<<\h98>>, AB(a, b, c), <<>>), AF((a - b - c) % 256, Minus8(a, b, c)), <<>>),
   Ends(Program(<<\hB8>>, AB(a, b, c), <<>>), AF(a, Minus8(a, b, 0)), <<>>)}
Counts(b, c) ==
  {Ends(Program(<<\h04>>, AB(0, b, c), <<>>),
        AB(0, (b + 1) % 256, c + Sum8(b, 1, 0) - Carry(Sum8(b, 1, 0))), <<>>),
   Ends(Program(<<\h05>>, AB(0, b, c), <<>>),
        AB(0, (b - 1) % 256, c + Minus8(b, 1, 0) - Carry(Minus8(b, 1, 0))), <<>>)}
Words16(a, b, c) ==
  LET from == Word8("HL", a) @@ Word8("DE", b) @@ AF(0, c)
  IN {Ends(Program(<<\h19>>, from, <<>>), Word8("HL", (a + b) % 65536)
           @@ AF(0, Carry(Sum16(a, b, 0)) + H_FLAG * Bit(Sum16(a, b, 0), 4)), <<>>),
      Ends(Program(<<\hED, \h5A>>, from, <<>>),
           Word8("HL", (a + b + c) % 65536) @@ AF(0, Sum16(a, b, c)), <<>>),
      Ends(Program(<<\hED, \h52>>, from, <<>>),
           Word8("HL", (a - b - c) % 65536) @@ AF(0, Minus16(a, b, c)), <<>>)}

\* ADD A,B or SUB B with DAA, on decimal numbers: the flag left is carry.
Decimals(m, n) ==
  LET Of(code, r, c) ==
        Ends(Program(<<code, \h27, \h3E, 0, \h17>>, AB(Decimal(m), Decimal(n), 0), <<>>),
             "A" :> c, <<>>)
      Sums(code, r) ==
        Ends(Program(<<code, \h27>>, AB(Decimal(m), Decimal(n), 0), <<>>),
             "A" :> Decimal(r % 100), <<>>)
  IN {Sums(\h80, m + n), Sums(\h90, m - n),
      Of(\h80, m + n, If(m + n > 99, 1)), Of(\h90, m - n, If(m < n, 1))}

\* LD D,A; AND B; LD E,A; LD A,D; OR B; then ADD A,E, or SUB E to make XOR B of it.
Logic(a, b) ==
  LET Both(last) == <<\h57, \hA0, \h5F, \h7A, \hB0>> \o last
  IN {Ends(Program(Both(<<\h83>>), AB(a, b, 0), <<>>), "A" :> (a + b) % 256, <<>>),
      Ends(Program(Both(<<\h93, \h5F, \h7A, \hA8, \h93>>), AB(a, b, 0), <<>>),
           AF(0, Z_FLAG + N_FLAG), <<>>)}

\* HL + DE and HL - DE by bytes, and the carry in A: it goes from one addition to the
\* next, whatever interrupts between them.
ByBytes(a, b) ==
  LET Chain(low, high, r) ==
        Interrupted(Ends(
          Program(<<\h7D, low, \h6F, \h7C, high, \h67, \h3E, 0, \h17>>,
                  Word8("HL", a) @@ Word8("DE", b), <<>>),
          Word8("HL", r % 65536) @@ ("A" :> If(r \notin Word, 1)), <<>>))
  IN {Chain(\h83, \h8A, a + b), Chain(\h93, \h9A, a - b)}

-----------------------------------------------------------------------------
\* What undoes what

Bytes3 == <<\h97, \hDA, \h81>>
Some == Word8("BC", \h8001) @@ Word8("DE", \h7F80) @@ Word8("HL", Data + 1) @@ ("A" :> \h3C)
        @@ Word8("IX", Data + 2) @@ Word8("IY", Data)
Undone == {
  <<\hCB, \h00, \hCB, \h08>>, <<\hCB, \h0E, \hCB, \h06>>,  \* RLC B, RRC B; RRC (HL), RLC (HL)
  <<\hCB, \h10, \hCB, \h18>>, <<\h17, \h1F>>, <<\h0F, \h07>>,    \* RL B, RR B; RLA, RRA; RRCA, RLCA
  <<\hDD, \hCB, 255, \h16, \hDD, \hCB, 255, \h1E>>,        \* RL (IX-1), RR (IX-1)
  <<\hCB, \h27, \hCB, \h3F>>, <<\hCB, \h27, \hCB, \h2F>>,  \* SLA A, SRL A; SLA A, SRA A
  <<\hED, \h44, \hED, \h44>>, <<\h2F, \h2F>>,              \* NEG, NEG; CPL, CPL
  <<\hED, \h6F, \hED, \h67>>,                              \* RLD, RRD
  <<\hD9, \h03, \hD9>>, <<\h08, \h3C, \h08>>,               \* EXX, INC BC, EXX; EX AF,AF', INC A
  <<\hE3, \hE3>>, <<\hDD, \hE3, \hDD, \hE3>>, <<\hEB, \hEB>>, \* EX (SP),HL; EX (SP),IX; EX DE,HL
  <<\hFD, \h2B, \hFD, \h23>>, <<\hDD, \h34, 254, \hDD, \h35, 254>>, \* DEC IY; INC (IX-2)
  <<\h22, Scratch, 0, \h21, 0, 0, \h2A, Scratch, 0>>,         \* LD (nn),HL, LD HL,0
  <<\hED, \h43, Scratch, 0, \h01, 0, 0, \hED, \h4B, Scratch, 0>>, \* LD (nn),BC, LD BC,0
  <<\hCB, \hBE, \hCB, \hFE>>,                              \* RES 7,(HL), SET 7,(HL)
  <<\hFD, \hCB, 2, \h86, \hFD, \hCB, 2, \hC6>>,            \* RES 0,(IY+2), SET 0,(IY+2)
  <<\hDD, \hFD, \h23, \hFD, \hDD, \hDD, \h00, \hFD, \hFD, \h2B>>} \* INC IY, DEC IY after other prefixes
Undoes(code) == LET p == Program(code, Some, Bytes3)
                IN Ends(p, [r \in Registers \ {"F", "R"} |-> p.reg[r]],
                        At(Data, Bytes3) @@ At(Top, <<\h34, \h12>>))
Pairs == {Interrupted(Undoes(code)) : code \in Undone}
  \* PUSH BC, PUSH DE, POP BC, POP DE, twice; PUSH AF, XOR A, POP AF
  \cup {Pushing(Undoes(<<\hC5, \hD5, \hC1, \hD1, \hC5, \hD5, \hC1, \hD1>>), 4),
        Pushing(Undoes(<<\hF5, \hAF, \hF1>>), 2)}
  \* LD (nn),SP, LD SP,0, LD SP,(nn)
  \cup {Undoes(<<\hED, \h73, Scratch, 0, \h31, 0, 0, \hED, \h7B, Scratch, 0>>)}

-----------------------------------------------------------------------------
\* Blocks of bytes

Block5 == <<7, 11, 13, 17, 19>>
BlockRegs(hl, de, bc, f) ==
  Word8("HL", Data + hl) @@ Word8("DE", Data + de) @@ Word8("BC", bc) @@ AF(13, f)

\* After n bytes, one at a time: by is 1 or -1.
Copied(hl, de, by, n) ==
  LET f[i \in 0 .. n] ==
        IF i = 0 THEN At(Data, Block5)
        ELSE [f[i - 1] EXCEPT ![Data + de + by * (i - 1)] = f[i - 1][Data + hl + by * (i - 1)]]
  IN f[n]
Copies(op, by, hl, de, n) ==
  Interrupted(Ends(Program(<<\hED, op>>, BlockRegs(hl, de, n, 255), Block5),
                   BlockRegs(hl + by * n, de + by * n, 0, 255 - H_FLAG - P_FLAG - N_FLAG),
                   Copied(hl, de, by, n)))
\* One at a time P says whether more are left.
CopiesOne(op, by, n) ==
  Ends(Program(<<\hED, op>>, BlockRegs(2, 3, n, 255), Block5),
       BlockRegs(2 + by, 3 + by, n - 1, 255 - H_FLAG - N_FLAG - If(n = 1, P_FLAG)), Copied(2, 3, by, 1))

Least(S) == CHOOSE x \in S : \A y \in S : x <= y
\* Looks for the byte of A, 13, from hl on.
Searches(op, by, hl, n) ==
  LET found == {i \in 1 .. n : Block5[1 + hl + by * (i - 1)] = 13}
      i == IF found = {} THEN n ELSE Least(found)
      last == Block5[1 + hl + by * (i - 1)]
  IN Interrupted(Ends(Program(<<\hED, op>>, BlockRegs(hl, 0, n, 255), Block5),
       BlockRegs(hl + by * i, 0, n - i,
                 C_FLAG + Minus8(13, last, 0) - Carry(Minus8(13, last, 0))
                   - V_FLAG * Bit(Minus8(13, last, 0), 2) + If(i < n, P_FLAG)), <<>>))

Receives(op, by, hl, n) ==
  LET p == Program(<<\hED, op>>, BlockRegs(hl, 0, 256 * n + 9, 255), Block5)
  IN Interrupted(Ends([p EXCEPT !.in = <<1, 2, 3>>],
       BlockRegs(hl + by * n, 0, 9, Z_FLAG + N_FLAG),
       [i \in {Data + hl + by * (k - 1) : k \in 1 .. n} |-> by * (i - Data - hl) + 1]))
Sends(op, by, hl, n) ==
  Interrupted([Ends(Program(<<\hED, op>>, BlockRegs(hl, 0, 256 * n + 9, 255), Block5),
                    BlockRegs(hl + by * n, 0, 9, Z_FLAG + N_FLAG), <<>>)
               EXCEPT !.sends = [k \in 1 .. n |-> <<9, Block5[1 + hl + by * (k - 1)]>>]])

Blocks ==
  UNION {{Copies(\hB0, 1, hl, de, n), Copies(\hB8, -1, 4 - hl, 4 - de, n)} :
           hl \in {0, 1}, de \in {0, 1, 2}, n \in {1, 3}}
  \cup UNION {{CopiesOne(\hA0, 1, n), CopiesOne(\hA8, -1, n)} : n \in {1, 2}}
  \cup {Searches(\hB1, 1, hl, n) : hl \in {0, 2}, n \in {1, 3}}
  \cup {Searches(\hB9, -1, hl, n) : hl \in {2, 4}, n \in {1, 3}}
  \cup {Receives(\hB2, 1, 0, n) : n \in {1, 3}}
  \cup {Receives(\hAA, -1, 3, 1), Receives(\hA2, 1, 3, 1)}
  \cup {Sends(\hB3, 1, 1, n) : n \in {1, 3}} \cup {Sends(\hBB, -1, 3, n) : n \in {1, 3}}
  \cup {Sends(\hA3, 1, 1, 1), Sends(\hAB, -1, 1, 1)}

-----------------------------------------------------------------------------
\* Control, and the interrupts themselves

Total == 7 + 11 + 13
Jumps == {
  \* LD B,3; XOR A; loop: ADD A,(HL); INC HL; DJNZ loop
  Interrupted(Ends(Program(<<\h06, 3, \hAF, \h86, \h23, \h10, 252>>, Word8("HL", Data), Block5),
                   AB(Total, 0, 0), <<>>)),
  \* with DEC B; JR NZ
  Interrupted(Ends(Program(<<\h06, 3, \hAF, \h86, \h23, \h05, \h20, 251>>,
                           Word8("HL", Data), Block5), AB(Total, 0, Z_FLAG + N_FLAG), <<>>)),
  \* XOR A; LD B,3; loop: CALL add; DJNZ loop; JP end; add: ADD A,(HL); INC HL; RET; end:
  Pushing(Ends(Program(<<\hAF, \h06, 3, \hCD, 11, 0, \h10, 251, \hC3, 14, 0, \h86, \h23, \hC9>>,
                       Word8("HL", Data), Block5), AB(Total, 0, 0) @@ ("SPl" :> Top), <<>>), 2),
  \* RST 08h; JP end; 8: INC A; RET; end:
  Pushing(Ends(Program(<<\hCF, \hC3, 10, 0, 0, 0, 0, 0, \h3C, \hC9>>, <<>>, <<>>),
               "A" :> 1, <<>>), 2),
  \* LD B,A; LD C,B; LD D,C; LD E,D; LD H,E; LD L,H; LD A,L
  Ends(Program(<<\h47, \h48, \h51, \h5A, \h63, \h6C, \h7D>>, "A" :> 5, <<>>),
       [r \in Main \ {"F"} |-> 5], <<>>),
  \* LD H,(IX-1); LD (IY+1),H; LD IXh,9: H itself is loaded and stored
  Ends(Program(<<\hDD, \h66, 255, \hFD, \h74, 1, \hDD, \h26, 9>>,
               Word8("IX", Data + 3) @@ Word8("IY", Data + 3), Block5),
       ("H" :> 13) @@ ("IXh" :> 9) @@ ("IXl" :> Data + 3), (Data + 4) :> 13),
  \* SUB (IX+1); LD (IX+1),5: a displacement, then the byte
  Ends(Program(<<\hDD, \h96, 1, \hDD, \h36, 1, 5>>, ("A" :> 30) @@ Word8("IX", Data), Block5),
       "A" :> 19, (Data + 1) :> 5),
  \* IN A,(5); OUT (6),A; IN C,(C); OUT (C),C
  [Ends(Program(<<\hDB, 5, \hD3, 6, \hED, \h48, \hED, \h49>>, <<>>, <<>>),
        AF(3, S_FLAG) @@ ("C" :> 200), <<>>)
   EXCEPT !.in = <<3, 200>>, !.sends = <<<<6, 3>>, <<200, 200>>>>]}

\* JP cc over LD A,1, CALL cc to it, and RET cc before it
Flags == <<Z_FLAG, C_FLAG, P_FLAG, S_FLAG>>
Conditions(c, f) ==
  LET taken == (f = 0) = (c % 2 = 0)
      from == "F" :> If(f = 1, Flags[1 + c \div 2])
  IN {Ends(Program(<<\hC2 + 8 * c, 5, 0, \h3E, 1>>, from, <<>>), "A" :> If(~taken, 1), <<>>),
      Pushing(Ends(Program(<<\hCD, 6, 0, \hC3, 9, 0, \hC0 + 8 * c, \h3E, 1, \h00>>, from, <<>>),
                   "A" :> If(~taken, 1), <<>>), 2)}

\* EI, HALT, NOP; DI, INC (HL), DEC (HL), EI; LD A,I with IFF2; the three modes; RETI
Waits == {
  Program(<<\hFB, \h76, \h00>>, <<>>, <<>>),
  Program(<<\hF3, \h76, \h00>>, <<>>, <<>>),
  Interrupted(Ends(Program(<<\hF3, \h34, \h35, \hFB, \hFB>>, Word8("HL", Data), <<0>>),
                   "F" :> Z_FLAG + N_FLAG, <<>>)),
  Interrupted(Ends(Program(<<\hED, \h57>>, <<>>, <<>>), AF(0, Z_FLAG + P_FLAG), <<>>)),
  Ends(Program(<<\hED, \h57>>, <<>>, <<>>), AF(0, Z_FLAG), <<>>),
  Interrupted(Program(<<\hED, \h5E, \h00, \hED, \h56>>, <<>>, <<>>)),
  Interrupted(Program(<<\hED, \h46, \h00>>, <<>>, <<>>)),
  [Interrupted(Program(<<\h3C, \h3C, \h3C>>, <<>>, <<>>))
   EXCEPT !.mem = Memory(<<\h3C, \h3C, \h3C>>, RETI, <<>>)]}

MCPrograms ==
  UNION {Adds(a, b, c) : a \in Edge, b \in Edge, c \in {0, 1}}
  \cup UNION {Counts(b, c) : b \in Edge, c \in {0, 1}}
  \cup UNION {Words16(a, b, c) : a \in Edges, b \in Edges, c \in {0, 1}}
  \cup UNION {Decimals(m, n) : m \in {0, 9, 45, 90, 99}, n \in {0, 1, 10, 55, 99}}
  \cup UNION {Logic(a, b) : a \in {0, 90, 255}, b \in {15, 129}}
  \cup UNION {ByBytes(a, b) : a \in {\h0FFF, \hFFFF}, b \in {1, \h1001}}
  \cup Pairs \cup Blocks \cup Jumps \cup Waits
  \cup UNION {Conditions(c, f) : c \in 0 .. 7, f \in {0, 1}}
=============================================================================
