----------------------------- MODULE Z80Arith -----------------------------
(***************************************************************************)
(* What the Z80's arithmetic does to bytes, words and flags: the macros    *)
(* M_ADD .. M_SBCW of Z80.c and the tables of Tables.h.                    *)
(***************************************************************************)
EXTENDS Integers

Byte == 0 .. 255
Word == {w \in Nat : w <= 65535}

Weight(k) == CASE k = 0 -> 1 [] k = 1 -> 2 [] k = 2 -> 4 [] k = 3 -> 8
               [] k = 4 -> 16 [] k = 5 -> 32 [] k = 6 -> 64 [] k = 7 -> 128
               [] k = 12 -> 4096 [] k = 15 -> 32768
Bit(x, k) == (x \div Weight(k)) % 2
If(condition, flag) == IF condition THEN flag ELSE 0

S_FLAG == 128
Z_FLAG == 64
H_FLAG == 16
P_FLAG == 4
V_FLAG == 4
N_FLAG == 2
C_FLAG == 1

Carry(f) == f % 2
\* The flags of f but for some of them.
Without(f, h, p, n, c) ==
  f - If(h, H_FLAG * Bit(f, 4)) - If(p, P_FLAG * Bit(f, 2))
    - If(n, N_FLAG * Bit(f, 1)) - If(c, C_FLAG * Bit(f, 0))

FromBits(b) == b[0] + 2 * b[1] + 4 * b[2] + 8 * b[3]
               + 16 * b[4] + 32 * b[5] + 64 * b[6] + 128 * b[7]
Ones(x) == Bit(x, 0) + Bit(x, 1) + Bit(x, 2) + Bit(x, 3)
           + Bit(x, 4) + Bit(x, 5) + Bit(x, 6) + Bit(x, 7)

ZSTable(x)  == S_FLAG * Bit(x, 7) + If(x = 0, Z_FLAG)
PZSTable(x) == ZSTable(x) + If(Ones(x) % 2 = 0, P_FLAG)

-----------------------------------------------------------------------------
\* Bytes.  Each operator gives the byte and the flags; c is the carry that goes in.

Is(byte, flags) == [byte |-> byte, F |-> flags]
\* Bit 4 of an exclusive or of three bytes.
HalfCarry(a, b, r) == H_FLAG * ((Bit(a, 4) + Bit(b, 4) + Bit(r, 4)) % 2)

M_ADC(a, b, c) ==
  LET sum == a + b + c
      r   == sum % 256
  IN Is(r, If(Bit(a, 7) = Bit(b, 7) /\ Bit(b, 7) # Bit(r, 7), V_FLAG)
           + sum \div 256 + ZSTable(r) + HalfCarry(a, b, r))

M_SBC_NoBorrow(a, b, c) ==
  LET r == (a - b - c) % 256
  IN Is(r, If(Bit(a, 7) # Bit(b, 7) /\ Bit(a, 7) # Bit(r, 7), V_FLAG)
           + N_FLAG + If(a < b, C_FLAG) + ZSTable(r) + HalfCarry(a, b, r))
M_SBC(a, b, c) ==
  LET difference == a - b - c
      r          == difference % 256
  IN Is(r, If(Bit(a, 7) # Bit(b, 7) /\ Bit(a, 7) # Bit(r, 7), V_FLAG)
           + N_FLAG + If(difference < 0, C_FLAG) + ZSTable(r) + HalfCarry(a, b, r))

M_AND(a, b) == LET r == FromBits([k \in 0 .. 7 |-> Bit(a, k) * Bit(b, k)])
               IN Is(r, H_FLAG + PZSTable(r))
M_XOR(a, b) == LET r == FromBits([k \in 0 .. 7 |-> (Bit(a, k) + Bit(b, k)) % 2])
               IN Is(r, PZSTable(r))
M_OR(a, b)  == LET r == FromBits([k \in 0 .. 7 |-> If(Bit(a, k) + Bit(b, k) > 0, 1)])
               IN Is(r, PZSTable(r))

M_INC_NoWrap(x, f) == Is(x + 1, Carry(f) + ZSTable((x + 1) % 256))
M_INC(x, f) == LET r == (x + 1) % 256
               IN Is(r, Carry(f) + ZSTable(r) + If(r = 128, V_FLAG) + If(r % 16 = 0, H_FLAG))
M_DEC(x, f) == LET r == (x - 1) % 256
               IN Is(r, N_FLAG + Carry(f) + ZSTable(r) + If(r = 127, V_FLAG)
                        + If(r % 16 = 15, H_FLAG))

\* Rotations and shifts: a bit goes out, another comes in.
Left(x, in)  == ((2 * x) % 256) + in
Right(x, in) == x \div 2 + 128 * in
Shifted(out, r) == Is(r, out + PZSTable(r))
M_RLC(x)   == Shifted(Bit(x, 7), Left(x, Bit(x, 7)))
M_RRC(x)   == Shifted(Bit(x, 0), Right(x, Bit(x, 0)))
M_RL(x, f) == Shifted(Bit(x, 7), Left(x, Carry(f)))
M_RR(x, f) == Shifted(Bit(x, 0), Right(x, Carry(f)))
M_SLA(x)   == Shifted(Bit(x, 7), Left(x, 0))
M_SRA(x)   == Shifted(Bit(x, 0), Right(x, Bit(x, 7)))
M_SLL(x)   == Shifted(Bit(x, 7), Left(x, 1))
M_SRL(x)   == Shifted(Bit(x, 0), Right(x, 0))

M_BIT(k, x, f) == Is(x, Carry(f) + H_FLAG + PZSTable(Weight(k) * Bit(x, k)))
M_SET(k, x) == x + Weight(k) * (1 - Bit(x, k))
M_RES(k, x) == x - Weight(k) * Bit(x, k)

\* RLCA, RLA, RRCA and RRA keep the other flags.
Accumulator(out, r, f) == Is(r, Without(f, TRUE, FALSE, TRUE, TRUE) + out)

\* The entries of DAATable: 06h, 60h or both are added to the sum of two decimal bytes,
\* or taken from the difference, and bits 3 and 5 of the result go into the flags.
DAATable(a, f) ==
  LET digit  == a % 16
      units  == Bit(f, 4) = 1 \/ digit > 9
      tens   == Carry(f) = 1 \/ a > 153
      fix    == If(units, 6) + If(tens, 96)
      minus  == Bit(f, 1) = 1
      r      == (IF minus THEN a - fix ELSE a + fix) % 256
      half   == IF minus THEN Bit(f, 4) = 1 /\ digit < 6 ELSE digit > 9
  IN Is(r, PZSTable(r) + 32 * Bit(r, 5) + 8 * Bit(r, 3)
           + If(half, H_FLAG) + If(minus, N_FLAG) + If(tens, C_FLAG))

-----------------------------------------------------------------------------
\* Words

HalfCarryW(a, b, r) == H_FLAG * ((Bit(a, 12) + Bit(b, 12) + Bit(r, 12)) % 2)

M_ADDW(a, b, f) ==
  LET r == (a + b) % 65536
  IN [word |-> r, F |-> Without(f, TRUE, FALSE, TRUE, TRUE)
                        + HalfCarryW(a, b, r) + (a + b) \div 65536]

M_ADCW(a, b, c) ==
  LET sum == a + b + c
      r   == sum % 65536
  IN [word |-> r,
      F |-> sum \div 65536
            + If(Bit(a, 15) = Bit(b, 15) /\ Bit(b, 15) # Bit(r, 15), V_FLAG)
            + HalfCarryW(a, b, r) + If(r = 0, Z_FLAG) + S_FLAG * Bit(r, 15)]

M_SBCW(a, b, c) ==
  LET difference == a - b - c
      r          == difference % 65536
  IN [word |-> r,
      F |-> N_FLAG + If(difference < 0, C_FLAG)
            + If(Bit(a, 15) # Bit(b, 15) /\ Bit(a, 15) # Bit(r, 15), V_FLAG)
            + HalfCarryW(a, b, r) + If(r = 0, Z_FLAG) + S_FLAG * Bit(r, 15)]

-----------------------------------------------------------------------------
\* What the Z80's manual says of sums and differences: the flags of a sum of numbers below
\* n, with a half carry out of numbers below h.

Signed(x, n) == IF 2 * x >= n THEN x - n ELSE x
FlagsOf(sum, signed, low, n, h, minus) ==
  If(Signed(sum % n, n) < 0, S_FLAG) + If(sum % n = 0, Z_FLAG)
  + If(low \notin 0 .. h - 1, H_FLAG)
  + If(2 * signed \notin -n .. n - 1, V_FLAG) + If(minus, N_FLAG)
  + If(sum \notin 0 .. n - 1, C_FLAG)
Sum8(a, b, c) == FlagsOf(a + b + c, Signed(a, 256) + Signed(b, 256) + c,
                         (a % 16) + (b % 16) + c, 256, 16, FALSE)
Minus8(a, b, c) == FlagsOf(a - b - c, Signed(a, 256) - Signed(b, 256) - c,
                           (a % 16) - (b % 16) - c, 256, 16, TRUE)
Sum16(a, b, c) == FlagsOf(a + b + c, Signed(a, 65536) + Signed(b, 65536) + c,
                          (a % 4096) + (b % 4096) + c, 65536, 4096, FALSE)
Minus16(a, b, c) == FlagsOf(a - b - c, Signed(a, 65536) - Signed(b, 65536) - c,
                            (a % 4096) - (b % 4096) - c, 65536, 4096, TRUE)
\* The byte of two decimal digits.
Decimal(n) == 16 * (n \div 10) + (n % 10)
=============================================================================
