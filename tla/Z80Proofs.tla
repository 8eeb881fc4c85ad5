----------------------------- MODULE Z80Proofs -----------------------------
(***************************************************************************)
(* Theorems about Z80 and Z80Arith.                                        *)
(***************************************************************************)
EXTENDS Z80, TLAPS

(***************************************************************************)
(* Arithmetic: bytes and flags that the code computes by exclusive ors and *)
(* tables are the sums, differences and rotations of the Z80's manual, for *)
(* all bytes.                                                              *)
(***************************************************************************)

LEMMA SplitBits ==
  ASSUME NEW x \in Byte
  PROVE  \E high \in Int, bit \in {0, 1}, low \in 0 .. 15 :
           x = 32 * high + 16 * bit + low /\ bit = Bit(x, 4) /\ low = x % 16
<1>1. x = 32 * (x \div 32) + 16 * Bit(x, 4) + (x % 16) BY DEF Bit, Weight, Byte
<1>2. x \div 32 \in Int /\ Bit(x, 4) \in {0, 1} /\ x % 16 \in 0 .. 15
  BY DEF Bit, Weight, Byte
<1> HIDE DEF Bit
<1> QED BY <1>1, <1>2

\* The sum of the lower digits.
LowSum(a, b, c) == (a % 16) + (b % 16) + c

\* The half carry of a sum.
LEMMA AddHalf ==
  ASSUME NEW a \in Byte, NEW b \in Byte, NEW c \in {0, 1}, NEW r, r = (a + b + c) % 256
  PROVE  HalfCarry(a, b, r) = IF LowSum(a, b, c) > 15 THEN 16 ELSE 0
<1>1. r \in Byte BY DEF Byte
<1>2. a + b + c = r + 256 * ((a + b + c) \div 256) /\ (a + b + c) \div 256 \in Int BY DEF Byte
<1>3. PICK k \in Int : a + b + c = r + 256 * k BY <1>2
<1>4. PICK p \in Int, x \in {0, 1}, u \in 0 .. 15 :
        a = 32 * p + 16 * x + u /\ x = Bit(a, 4) /\ u = a % 16 BY SplitBits
<1>5. PICK q \in Int, y \in {0, 1}, v \in 0 .. 15 :
        b = 32 * q + 16 * y + v /\ y = Bit(b, 4) /\ v = b % 16 BY SplitBits
<1>6. PICK s \in Int, z \in {0, 1}, w \in 0 .. 15 :
        r = 32 * s + 16 * z + w /\ z = Bit(r, 4) /\ w = r % 16 BY <1>1, SplitBits
<1> DEFINE h == IF u + v + c > 15 THEN 1 ELSE 0
<1>7. h \in {0, 1} /\ u + v + c - 16 * h \in 0 .. 15 OBVIOUS
<1>8. 16 * (2 * (p + q - s - 8 * k) + x + y + h - z) = w - (u + v + c - 16 * h)
  <2> HIDE DEF h
  <2>1. (32 * p + 16 * x + u) + (32 * q + 16 * y + v) + c = (32 * s + 16 * z + w) + 256 * k
    BY <1>3, <1>4, <1>5, <1>6
  <2> QED BY <1>7, <2>1
<1>9. 2 * (p + q - s - 8 * k) + x + y + h - z = 0 BY <1>7, <1>8
<1>10. (x + y + z) % 2 = h
  <2> HIDE DEF h
  <2>1. \/ x + y + z = h /\ x + y + z \in {0, 1}
        \/ x + y + z = 2 + h /\ x + y + z \in {2, 3}
    BY <1>7, <1>9
  <2> QED BY <1>7, <2>1
<1>11. HalfCarry(a, b, r) = 16 * ((x + y + z) % 2)
  BY <1>4, <1>5, <1>6 DEF HalfCarry, H_FLAG
<1>12. h = IF LowSum(a, b, c) > 15 THEN 1 ELSE 0 BY <1>4, <1>5 DEF LowSum
<1> QED BY <1>10, <1>11, <1>12

\* The half carry of a difference is that of the sum that takes it back.
LEMMA SubtractHalf ==
  ASSUME NEW a \in Byte, NEW b \in Byte, NEW c \in {0, 1}, NEW r, r = (a - b - c) % 256
  PROVE  HalfCarry(a, b, r) = If((a % 16) - (b % 16) - c < 0, H_FLAG)
<1>1. r \in Byte BY DEF Byte
<1>2. a = (r + b + c) % 256 BY DEF Byte
<1>3. HalfCarry(r, b, a) = IF LowSum(r, b, c) > 15 THEN 16 ELSE 0 BY <1>1, <1>2, AddHalf
<1>4. HalfCarry(a, b, r) = HalfCarry(r, b, a)
  <2>1. Bit(a, 4) \in Int /\ Bit(b, 4) \in Int /\ Bit(r, 4) \in Int BY <1>1, SplitBits
  <2>2. Bit(a, 4) + Bit(b, 4) + Bit(r, 4) = Bit(r, 4) + Bit(b, 4) + Bit(a, 4) BY <2>1
  <2> QED BY <2>2 DEF HalfCarry
<1>5. LowSum(r, b, c) > 15 <=> (a % 16) - (b % 16) - c < 0
  <2>1. PICK k \in Int : r + b + c = a + 256 * k BY DEF Byte
  <2>2. PICK p \in Int, u \in 0 .. 15 : a = 16 * p + u /\ u = a % 16 BY DEF Byte
  <2>3. PICK q \in Int, v \in 0 .. 15 : b = 16 * q + v /\ v = b % 16 BY DEF Byte
  <2>4. PICK s \in Int, w \in 0 .. 15 : r = 16 * s + w /\ w = r % 16 BY <1>1 DEF Byte
  <2>5. (16 * s + w) + (16 * q + v) + c = 16 * p + u + 256 * k
    BY <2>1, <2>2, <2>3, <2>4
  <2>6. w + v + c > 15 <=> u - v - c < 0
    <3>1. 16 * (p + 16 * k - s - q) = w + v + c - u BY <2>5
    <3>2. p + 16 * k - s - q \in {-1, 0, 1, 2} BY <3>1
    <3> QED BY <3>1, <3>2
  <2> QED BY <2>2, <2>3, <2>4, <2>6 DEF LowSum
<1> QED BY <1>3, <1>4, <1>5 DEF If, H_FLAG

LEMMA SignBit ==
  ASSUME NEW x \in Byte
  PROVE  Bit(x, 7) = IF x >= 128 THEN 1 ELSE 0
BY DEF Bit, Weight, Byte

\* The table of sign and zero.
LEMMA ZeroSign ==
  ASSUME NEW x \in Byte
  PROVE  ZSTable(x) = If(Signed(x, 256) < 0, S_FLAG) + If(x = 0, Z_FLAG)
<1>1. S_FLAG * Bit(x, 7) = If(Signed(x, 256) < 0, S_FLAG)
  BY SignBit DEF Signed, If, S_FLAG, Byte
<1> QED BY <1>1 DEF ZSTable

LEMMA AddOverflow ==
  ASSUME NEW a \in Byte, NEW b \in Byte, NEW c \in {0, 1}, NEW r, r = (a + b + c) % 256
  PROVE  Bit(a, 7) = Bit(b, 7) /\ Bit(b, 7) # Bit(r, 7)
         <=> 2 * (Signed(a, 256) + Signed(b, 256) + c) \notin -256 .. 255
<1>1. r \in Byte BY DEF Byte
<1>2. r = IF a + b + c > 255 THEN a + b + c - 256 ELSE a + b + c BY DEF Byte
<1> QED BY <1>1, <1>2, SignBit, SMTT(30) DEF Signed, Byte

LEMMA SubtractOverflow ==
  ASSUME NEW a \in Byte, NEW b \in Byte, NEW c \in {0, 1}, NEW r, r = (a - b - c) % 256
  PROVE  Bit(a, 7) # Bit(b, 7) /\ Bit(a, 7) # Bit(r, 7)
         <=> 2 * (Signed(a, 256) - Signed(b, 256) - c) \notin -256 .. 255
<1>1. r \in Byte BY DEF Byte
<1>2. r = IF a - b - c < 0 THEN a - b - c + 256 ELSE a - b - c BY DEF Byte
<1> QED BY <1>1, <1>2, SignBit, SMTT(30) DEF Signed, Byte

\* ADD and ADC (M_ADC): the byte is the sum's, and the flags that the code makes of single
\* bits are those of the sum of two unsigned and of two signed numbers.
THEOREM AddCorrect ==
  ASSUME NEW a \in Byte, NEW b \in Byte, NEW c \in {0, 1}
  PROVE  M_ADC(a, b, c) = Is((a + b + c) % 256, Sum8(a, b, c))
<1> DEFINE r == (a + b + c) % 256
<1> DEFINE s == If(Signed(r, 256) < 0, S_FLAG)
<1> DEFINE z == If(r = 0, Z_FLAG)
<1> DEFINE h == If((a % 16) + (b % 16) + c \notin 0 .. 16 - 1, H_FLAG)
<1> DEFINE v == If(2 * (Signed(a, 256) + Signed(b, 256) + c) \notin -256 .. 256 - 1, V_FLAG)
<1> DEFINE k == If(a + b + c \notin 0 .. 256 - 1, C_FLAG)
<1>1. r \in Byte BY DEF Byte
<1>2. ZSTable(r) = s + z BY <1>1, ZeroSign
<1>3. HalfCarry(a, b, r) = h
  <2>1. HalfCarry(a, b, r) = IF LowSum(a, b, c) > 15 THEN 16 ELSE 0 BY AddHalf
  <2>2. LowSum(a, b, c) > 15 <=> (a % 16) + (b % 16) + c \notin 0 .. 16 - 1 BY DEF LowSum, Byte
  <2> QED BY <2>1, <2>2 DEF If, H_FLAG
<1>4. If(Bit(a, 7) = Bit(b, 7) /\ Bit(b, 7) # Bit(r, 7), V_FLAG) = v
  BY AddOverflow DEF If
<1>5. (a + b + c) \div 256 = k BY DEF If, C_FLAG, Byte
<1>6. s \in Int /\ z \in Int /\ h \in Int /\ v \in Int /\ k \in Int
  BY DEF If, S_FLAG, Z_FLAG, H_FLAG, V_FLAG, C_FLAG
<1>7. Sum8(a, b, c) = s + z + h + v + If(FALSE, N_FLAG) + k BY DEF Sum8, FlagsOf
<1>8. If(FALSE, N_FLAG) = 0 BY DEF If
<1>9. M_ADC(a, b, c) = Is(r, v + k + (s + z) + h)
  BY <1>2, <1>3, <1>4, <1>5 DEF M_ADC
<1>10. v + k + (s + z) + h = s + z + h + v + 0 + k
  <2> HIDE DEF s, z, h, v, k
  <2> QED BY <1>6
<1> HIDE DEF s, z, h, v, k
<1> QED BY <1>7, <1>8, <1>9, <1>10

\* SUB, SBC and CP (M_SBC): the same for differences, with borrows for carries.
THEOREM SubtractCorrect ==
  ASSUME NEW a \in Byte, NEW b \in Byte, NEW c \in {0, 1}
  PROVE  M_SBC(a, b, c) = Is((a - b - c) % 256, Minus8(a, b, c))
<1> DEFINE r == (a - b - c) % 256
<1> DEFINE s == If(Signed(r, 256) < 0, S_FLAG)
<1> DEFINE z == If(r = 0, Z_FLAG)
<1> DEFINE h == If((a % 16) - (b % 16) - c \notin 0 .. 16 - 1, H_FLAG)
<1> DEFINE v == If(2 * (Signed(a, 256) - Signed(b, 256) - c) \notin -256 .. 256 - 1, V_FLAG)
<1> DEFINE k == If(a - b - c \notin 0 .. 256 - 1, C_FLAG)
<1>1. r \in Byte BY DEF Byte
<1>2. ZSTable(r) = s + z BY <1>1, ZeroSign
<1>3. HalfCarry(a, b, r) = h
  <2>1. HalfCarry(a, b, r) = If((a % 16) - (b % 16) - c < 0, H_FLAG) BY SubtractHalf
  <2>2. (a % 16) - (b % 16) - c < 0 <=> (a % 16) - (b % 16) - c \notin 0 .. 16 - 1 BY DEF Byte
  <2> QED BY <2>1, <2>2 DEF If, H_FLAG
<1>4. If(Bit(a, 7) # Bit(b, 7) /\ Bit(a, 7) # Bit(r, 7), V_FLAG) = v
  BY SubtractOverflow DEF If
<1>5. If(a - b - c < 0, C_FLAG) = k BY DEF If, C_FLAG, Byte
<1>6. s \in Int /\ z \in Int /\ h \in Int /\ v \in Int /\ k \in Int
  BY DEF If, S_FLAG, Z_FLAG, H_FLAG, V_FLAG, C_FLAG
<1>7. Minus8(a, b, c) = s + z + h + v + If(TRUE, N_FLAG) + k BY DEF Minus8, FlagsOf
<1>8. If(TRUE, N_FLAG) = N_FLAG /\ N_FLAG \in Int BY DEF If, N_FLAG
<1>9. M_SBC(a, b, c) = Is(r, v + N_FLAG + k + (s + z) + h)
  BY <1>2, <1>3, <1>4, <1>5 DEF M_SBC
<1>10. v + N_FLAG + k + (s + z) + h = s + z + h + v + N_FLAG + k
  <2> HIDE DEF s, z, h, v, k
  <2> QED BY <1>6, <1>8
<1> HIDE DEF s, z, h, v, k
<1> QED BY <1>7, <1>8, <1>9, <1>10

LEMMA EvenTable ==
  ASSUME NEW x \in Byte
  PROVE  PZSTable(x) \in Nat /\ PZSTable(x) % 2 = 0
BY DEF PZSTable, ZSTable, If, S_FLAG, Z_FLAG, P_FLAG, Bit, Weight, Byte

\* A rotation to the left and one to the right (M_RLC and M_RRC, M_RL and M_RR) undo each
\* other, with the bit that went out in between as the carry, and the shifts (M_SLA,
\* M_SRL, M_SRA) are a multiplication and divisions by two.
THEOREM RotationsCorrect ==
  ASSUME NEW x \in Byte, NEW f \in Byte
  PROVE  /\ M_RRC(M_RLC(x).byte).byte = x
         /\ M_RLC(M_RRC(x).byte).byte = x
         /\ M_RR(M_RL(x, f).byte, M_RL(x, f).F).byte = x
         /\ M_RL(M_RR(x, f).byte, M_RR(x, f).F).byte = x
         /\ M_SLA(x).byte + 256 * Carry(M_SLA(x).F) = 2 * x
         /\ 2 * M_SRL(x).byte + Carry(M_SRL(x).F) = x
         /\ 2 * Signed(M_SRA(x).byte, 256) + Carry(M_SRA(x).F) = Signed(x, 256)
<1>1. \A y \in Byte : Bit(y, 7) = (IF y >= 128 THEN 1 ELSE 0) BY SignBit
<1>2. \A y \in Byte : Bit(y, 0) = y % 2 BY DEF Bit, Weight, Byte
<1>3. \A y \in Byte, out \in {0, 1} : /\ Shifted(out, y).byte = y
                                      /\ Carry(Shifted(out, y).F) = out
  <2> TAKE y \in Byte, out \in {0, 1}
  <2>1. PZSTable(y) \in Nat /\ PZSTable(y) % 2 = 0 BY EvenTable
  <2>2. (out + PZSTable(y)) % 2 = out BY <2>1
  <2> QED BY <2>2 DEF Shifted, Is, Carry
<1>4. Carry(f) \in {0, 1} BY DEF Carry, Byte
<1>5. ASSUME NEW in \in {0, 1}
      PROVE  Left(x, in) \in Byte /\ Right(x, in) \in Byte
  BY DEF Left, Right, Byte
<1>6. Bit(x, 7) \in {0, 1} /\ Bit(x, 0) \in {0, 1} BY <1>1, <1>2 DEF Byte
<1>7. M_RRC(M_RLC(x).byte).byte = x
  <2>1. M_RLC(x).byte = Left(x, Bit(x, 7)) BY <1>3, <1>5, <1>6 DEF M_RLC
  <2>2. Bit(Left(x, Bit(x, 7)), 0) = Bit(x, 7)
    BY <1>2, <1>5, <1>6 DEF Left, Byte
  <2>3. Right(Left(x, Bit(x, 7)), Bit(x, 7)) = x BY <1>1 DEF Left, Right, Byte
  <2> QED BY <1>3, <1>6, <2>1, <2>2, <2>3 DEF M_RRC
<1>8. M_RLC(M_RRC(x).byte).byte = x
  <2>1. M_RRC(x).byte = Right(x, Bit(x, 0)) BY <1>3, <1>5, <1>6 DEF M_RRC
  <2>2. Bit(Right(x, Bit(x, 0)), 7) = Bit(x, 0)
    BY <1>1, <1>5, <1>6 DEF Right, Byte
  <2>3. Left(Right(x, Bit(x, 0)), Bit(x, 0)) = x BY <1>2 DEF Left, Right, Byte
  <2> QED BY <1>3, <1>6, <2>1, <2>2, <2>3 DEF M_RLC
<1>9. M_RR(M_RL(x, f).byte, M_RL(x, f).F).byte = x
  <2>1. M_RL(x, f).byte = Left(x, Carry(f)) /\ Carry(M_RL(x, f).F) = Bit(x, 7)
    BY <1>3, <1>4, <1>5, <1>6 DEF M_RL
  <2>2. Bit(Left(x, Carry(f)), 0) \in {0, 1} BY <1>2, <1>4, <1>5 DEF Byte
  <2>3. Right(Left(x, Carry(f)), Bit(x, 7)) = x BY <1>1, <1>4 DEF Left, Right, Byte
  <2> QED BY <1>3, <2>1, <2>2, <2>3 DEF M_RR
<1>10. M_RL(M_RR(x, f).byte, M_RR(x, f).F).byte = x
  <2>1. M_RR(x, f).byte = Right(x, Carry(f)) /\ Carry(M_RR(x, f).F) = Bit(x, 0)
    BY <1>3, <1>4, <1>5, <1>6 DEF M_RR
  <2>2. Bit(Right(x, Carry(f)), 7) \in {0, 1} BY <1>1, <1>4, <1>5
  <2>3. Left(Right(x, Carry(f)), Bit(x, 0)) = x BY <1>2, <1>4 DEF Left, Right, Byte
  <2> QED BY <1>3, <2>1, <2>2, <2>3 DEF M_RL
<1>11. M_SLA(x).byte + 256 * Carry(M_SLA(x).F) = 2 * x
  <2>1. M_SLA(x).byte = Left(x, 0) /\ Carry(M_SLA(x).F) = Bit(x, 7)
    BY <1>3, <1>5, <1>6 DEF M_SLA
  <2> QED BY <1>1, <2>1 DEF Left, Byte
<1>12. 2 * M_SRL(x).byte + Carry(M_SRL(x).F) = x
  <2>1. M_SRL(x).byte = Right(x, 0) /\ Carry(M_SRL(x).F) = Bit(x, 0)
    BY <1>3, <1>5, <1>6 DEF M_SRL
  <2> QED BY <1>2, <2>1 DEF Right, Byte
<1>13. 2 * Signed(M_SRA(x).byte, 256) + Carry(M_SRA(x).F) = Signed(x, 256)
  <2>1. M_SRA(x).byte = Right(x, Bit(x, 7)) /\ Carry(M_SRA(x).F) = Bit(x, 0)
    BY <1>3, <1>5, <1>6 DEF M_SRA
  <2>2. Bit(x, 7) = IF x >= 128 THEN 1 ELSE 0 BY <1>1
  <2>3. Bit(x, 0) = x % 2 BY <1>2
  <2> HIDE DEF Bit
  <2> QED BY <2>1, <2>2, <2>3 DEF Right, Signed, Byte
<1> QED BY <1>7, <1>8, <1>9, <1>10, <1>11, <1>12, <1>13

LEMMA Digits ==
  ASSUME NEW m \in 0 .. 99
  PROVE  \E t \in 0 .. 9, u \in 0 .. 9 : m = 10 * t + u /\ Decimal(m) = 16 * t + u
BY DEF Decimal

\* DAA after ADD: two decimal digits added to two others, and the carry.
THEOREM DecimalAddCorrect ==
  ASSUME NEW m \in 0 .. 99, NEW n \in 0 .. 99
  PROVE  LET sum == M_ADC(Decimal(m), Decimal(n), 0)
             daa == DAATable(sum.byte, sum.F)
         IN /\ daa.byte = Decimal((m + n) % 100)
            /\ Carry(daa.F) = IF m + n > 99 THEN 1 ELSE 0
<1>1. PICK t \in 0 .. 9, u \in 0 .. 9 : m = 10 * t + u /\ Decimal(m) = 16 * t + u BY Digits
<1>2. PICK p \in 0 .. 9, q \in 0 .. 9 : n = 10 * p + q /\ Decimal(n) = 16 * p + q BY Digits
<1> DEFINE a == 16 * t + u
<1> DEFINE b == 16 * p + q
<1> DEFINE r == (a + b) % 256
<1> DEFINE f == Sum8(a, b, 0)
<1> DEFINE units == IF u + q > 9 THEN 6 ELSE 0
<1> DEFINE tens == IF m + n > 99 THEN 96 ELSE 0
<1>3. a \in Byte /\ b \in Byte /\ r \in Byte BY DEF Byte
<1>4. M_ADC(a, b, 0) = Is(r, f) BY <1>3, AddCorrect
<1>5. /\ Carry(f) = IF a + b > 255 THEN 1 ELSE 0
      /\ Bit(f, 4) = IF u + q > 15 THEN 1 ELSE 0
      /\ Bit(f, 1) = 0
  <2> DEFINE s == IF Signed((a + b + 0) % 256, 256) < 0 THEN 1 ELSE 0
  <2> DEFINE z == IF (a + b + 0) % 256 = 0 THEN 1 ELSE 0
  <2> DEFINE h == IF u + q > 15 THEN 1 ELSE 0
  <2> DEFINE v == IF 2 * (Signed(a, 256) + Signed(b, 256) + 0) \in -256 .. 255 THEN 0 ELSE 1
  <2> DEFINE k == IF a + b > 255 THEN 1 ELSE 0
  <2>1. a % 16 = u /\ b % 16 = q OBVIOUS
  <2>2. /\ If(Signed((a + b + 0) % 256, 256) < 0, S_FLAG) = 128 * s
        /\ If((a + b + 0) % 256 = 0, Z_FLAG) = 64 * z
        /\ If((a % 16) + (b % 16) + 0 \notin 0 .. 16 - 1, H_FLAG) = 16 * h
        /\ If(2 * (Signed(a, 256) + Signed(b, 256) + 0) \notin -256 .. 256 - 1, V_FLAG) = 4 * v
        /\ If(FALSE, N_FLAG) = 0
        /\ If(a + b + 0 \notin 0 .. 256 - 1, C_FLAG) = k
    BY <2>1 DEF If, S_FLAG, Z_FLAG, H_FLAG, V_FLAG, N_FLAG, C_FLAG
  <2>3. f = 128 * s + 64 * z + 16 * h + 4 * v + 0 + k BY <2>2, ZenonT(60) DEF Sum8, FlagsOf
  <2>4. s \in {0, 1} /\ z \in {0, 1} /\ h \in {0, 1} /\ v \in {0, 1} /\ k \in {0, 1}
    OBVIOUS
  <2>5. Carry(f) = k /\ Bit(f, 4) = h /\ Bit(f, 1) = 0
    <3> HIDE DEF s, z, h, v, k, f
    <3> QED BY <2>3, <2>4 DEF Carry, Bit, Weight
  <2> QED BY <2>5
<1>6. r % 16 = (u + q) % 16 OBVIOUS
<1>7. If(Bit(f, 4) = 1 \/ r % 16 > 9, 6) = units BY <1>5, <1>6 DEF If
<1>8. Carry(f) = 1 \/ r > 153 <=> m + n > 99
  BY <1>1, <1>2, <1>5
<1> DEFINE d == (r + (units + tens)) % 256
<1>9. If(Carry(f) = 1 \/ r > 153, 96) = tens BY <1>8 DEF If
<1>10. /\ DAATable(r, f).byte = d
       /\ DAATable(r, f).F = PZSTable(d) + 32 * Bit(d, 5) + 8 * Bit(d, 3)
            + If(r % 16 > 9, H_FLAG) + If(FALSE, N_FLAG)
            + If(m + n > 99, C_FLAG)
  <2> HIDE DEF r, f
  <2> QED BY <1>5, <1>6, <1>8 DEF DAATable, Is, If
<1>11. d = Decimal((m + n) % 100)
  <2> DEFINE i == IF u + q > 9 THEN 1 ELSE 0
  <2> DEFINE j == IF m + n > 99 THEN 1 ELSE 0
  <2> DEFINE U == u + q - 10 * i
  <2> DEFINE T == t + p + i - 10 * j
  <2>1. U \in 0 .. 9 /\ T \in 0 .. 9 /\ m + n = 100 * j + (10 * T + U) BY <1>1, <1>2
  <2>2. r + (units + tens) = (a + b) - 256 * ((a + b) \div 256) + (6 * i + 96 * j) BY <1>3 DEF Byte
  <2>3. (a + b) + (6 * i + 96 * j) = 16 * T + U + 256 * j OBVIOUS
  <2>4. d = 16 * T + U
    <3> HIDE DEF U, T
    <3>1. PICK k \in Int : r = (a + b) - 256 * k BY <1>3 DEF Byte
    <3>2. units + tens = 6 * i + 96 * j OBVIOUS
    <3>3. i \in Int /\ j \in Int OBVIOUS
    <3> HIDE DEF i, j, r, units, tens
    <3>4. r + (units + tens) = 16 * T + U + 256 * (j - k) BY <2>3, <2>1, <3>1, <3>2, <3>3
    <3> QED BY <2>1, <3>3, <3>4
  <2>5. (m + n) % 100 = 10 * T + U
    <3> HIDE DEF U, T
    <3> QED BY <2>1
  <2>6. Decimal(10 * T + U) = 16 * T + U
    <3> HIDE DEF U, T
    <3> QED BY <2>1 DEF Decimal
  <2> QED BY <2>4, <2>5, <2>6
<1>12. Carry(DAATable(r, f).F) = IF m + n > 99 THEN 1 ELSE 0
  <2>1. d \in Byte BY DEF Byte
  <2> DEFINE h == If(r % 16 > 9, H_FLAG)
  <2> DEFINE k == If(m + n > 99, C_FLAG)
  <2>2. DAATable(r, f).F = PZSTable(d) + 32 * Bit(d, 5) + 8 * Bit(d, 3) + h + If(FALSE, N_FLAG) + k
    BY <1>10
  <2>3. h \in {0, 16} /\ If(FALSE, N_FLAG) = 0 /\ k = (IF m + n > 99 THEN 1 ELSE 0) /\ k \in {0, 1}
    BY DEF If, H_FLAG, C_FLAG
  <2> HIDE DEF d, h, k, r, f
  <2>4. Bit(d, 5) \in {0, 1} /\ Bit(d, 3) \in {0, 1} BY <2>1 DEF Bit, Weight, Byte
  <2>5. PZSTable(d) \in Nat /\ PZSTable(d) % 2 = 0 BY <2>1, EvenTable
  <2>6. DAATable(r, f).F % 2 = k
    <3>1. PICK e \in Int : PZSTable(d) = 2 * e BY <2>5
    <3> DEFINE x == Bit(d, 5)
    <3> DEFINE y == Bit(d, 3)
    <3>2. DAATable(r, f).F = 2 * e + 32 * x + 8 * y + h + 0 + k BY <2>2, <2>3, <3>1
    <3>3. x \in {0, 1} /\ y \in {0, 1} BY <2>4
    <3> HIDE DEF x, y
    <3>4. 2 * e + 32 * x + 8 * y + h + 0 + k = 2 * (e + 16 * x + 4 * y + h \div 2) + k
      BY <2>3, <3>3
    <3>5. e + 16 * x + 4 * y + h \div 2 \in Int BY <2>3, <3>3
    <3> QED BY <2>3, <3>2, <3>4, <3>5
  <2> QED BY <2>3, <2>6 DEF Carry
<1> QED BY <1>1, <1>2, <1>4, <1>10, <1>11, <1>12 DEF Is

\* DAA after SUB: two decimal digits taken from two others, and the borrow.
THEOREM DecimalSubtractCorrect ==
  ASSUME NEW m \in 0 .. 99, NEW n \in 0 .. 99
  PROVE  LET sum == M_SBC(Decimal(m), Decimal(n), 0)
             daa == DAATable(sum.byte, sum.F)
         IN /\ daa.byte = Decimal((m - n) % 100)
            /\ Carry(daa.F) = IF m < n THEN 1 ELSE 0
<1>1. PICK t \in 0 .. 9, u \in 0 .. 9 : m = 10 * t + u /\ Decimal(m) = 16 * t + u BY Digits
<1>2. PICK p \in 0 .. 9, q \in 0 .. 9 : n = 10 * p + q /\ Decimal(n) = 16 * p + q BY Digits
<1> DEFINE a == 16 * t + u
<1> DEFINE b == 16 * p + q
<1> DEFINE r == (a - b) % 256
<1> DEFINE f == Minus8(a, b, 0)
<1> DEFINE units == IF u < q THEN 6 ELSE 0
<1> DEFINE tens == IF m < n THEN 96 ELSE 0
<1>3. a \in Byte /\ b \in Byte /\ r \in Byte BY DEF Byte
<1>4. M_SBC(a, b, 0) = Is(r, f)
  <2>1. a - b - 0 = a - b OBVIOUS
  <2> HIDE DEF a, b
  <2>2. M_SBC(a, b, 0) = Is((a - b - 0) % 256, f) BY <1>3, SubtractCorrect
  <2> QED BY <2>1, <2>2
<1>5. /\ Carry(f) = IF a < b THEN 1 ELSE 0
      /\ Bit(f, 4) = IF u < q THEN 1 ELSE 0
      /\ Bit(f, 1) = 1
  <2> DEFINE s == IF Signed((a - b - 0) % 256, 256) < 0 THEN 1 ELSE 0
  <2> DEFINE z == IF (a - b - 0) % 256 = 0 THEN 1 ELSE 0
  <2> DEFINE h == IF u < q THEN 1 ELSE 0
  <2> DEFINE v == IF 2 * (Signed(a, 256) - Signed(b, 256) - 0) \in -256 .. 255 THEN 0 ELSE 1
  <2> DEFINE k == IF a < b THEN 1 ELSE 0
  <2>1. a % 16 = u /\ b % 16 = q OBVIOUS
  <2>2. /\ If(Signed((a - b - 0) % 256, 256) < 0, S_FLAG) = 128 * s
        /\ If((a - b - 0) % 256 = 0, Z_FLAG) = 64 * z
        /\ If((a % 16) - (b % 16) - 0 \notin 0 .. 16 - 1, H_FLAG) = 16 * h
        /\ If(2 * (Signed(a, 256) - Signed(b, 256) - 0) \notin -256 .. 256 - 1, V_FLAG) = 4 * v
        /\ If(TRUE, N_FLAG) = 2
        /\ If(a - b - 0 \notin 0 .. 256 - 1, C_FLAG) = k
    BY <2>1 DEF If, S_FLAG, Z_FLAG, H_FLAG, V_FLAG, N_FLAG, C_FLAG
  <2>3. f = 128 * s + 64 * z + 16 * h + 4 * v + 2 + k BY <2>2, ZenonT(60) DEF Minus8, FlagsOf
  <2>4. s \in {0, 1} /\ z \in {0, 1} /\ h \in {0, 1} /\ v \in {0, 1} /\ k \in {0, 1}
    OBVIOUS
  <2>5. Carry(f) = k /\ Bit(f, 4) = h /\ Bit(f, 1) = 1
    <3> HIDE DEF s, z, h, v, k, f
    <3> QED BY <2>3, <2>4 DEF Carry, Bit, Weight
  <2> QED BY <2>5
<1>6. r % 16 = (u - q) % 16 OBVIOUS
<1>7. If(Bit(f, 4) = 1 \/ r % 16 > 9, 6) = units BY <1>5, <1>6 DEF If
<1>8. Carry(f) = 1 \/ r > 153 <=> m < n
  BY <1>1, <1>2, <1>5
<1> DEFINE d == (r - (units + tens)) % 256
<1>9. If(Carry(f) = 1 \/ r > 153, 96) = tens BY <1>8 DEF If
<1>10. /\ DAATable(r, f).byte = d
       /\ DAATable(r, f).F = PZSTable(d) + 32 * Bit(d, 5) + 8 * Bit(d, 3)
            + If(Bit(f, 4) = 1 /\ r % 16 < 6, H_FLAG) + If(TRUE, N_FLAG)
            + If(m < n, C_FLAG)
  <2> HIDE DEF r, f
  <2> QED BY <1>5, <1>6, <1>8 DEF DAATable, Is, If
<1>11. d = Decimal((m - n) % 100)
  <2> DEFINE i == IF u < q THEN 1 ELSE 0
  <2> DEFINE j == IF m < n THEN 1 ELSE 0
  <2> DEFINE U == u - q + 10 * i
  <2> DEFINE T == t - p - i + 10 * j
  <2>1. U \in 0 .. 9 /\ T \in 0 .. 9 /\ m - n = (10 * T + U) - 100 * j BY <1>1, <1>2
  <2>2. r - (units + tens) = (a - b) - 256 * ((a - b) \div 256) - (6 * i + 96 * j) BY <1>3 DEF Byte
  <2>3. (a - b) - (6 * i + 96 * j) = 16 * T + U - 256 * j OBVIOUS
  <2>4. d = 16 * T + U
    <3> HIDE DEF U, T
    <3>1. PICK k \in Int : r = (a - b) - 256 * k BY <1>3 DEF Byte
    <3>2. units + tens = 6 * i + 96 * j OBVIOUS
    <3>3. i \in Int /\ j \in Int OBVIOUS
    <3> HIDE DEF i, j, r, units, tens
    <3>4. r - (units + tens) = 16 * T + U - 256 * (j + k) BY <2>3, <2>1, <3>1, <3>2, <3>3
    <3> QED BY <2>1, <3>3, <3>4
  <2>5. (m - n) % 100 = 10 * T + U
    <3> HIDE DEF U, T
    <3> QED BY <2>1
  <2>6. Decimal(10 * T + U) = 16 * T + U
    <3> HIDE DEF U, T
    <3> QED BY <2>1 DEF Decimal
  <2> QED BY <2>4, <2>5, <2>6
<1>12. Carry(DAATable(r, f).F) = IF m < n THEN 1 ELSE 0
  <2>1. d \in Byte BY DEF Byte
  <2> DEFINE h == If(Bit(f, 4) = 1 /\ r % 16 < 6, H_FLAG)
  <2> DEFINE k == If(m < n, C_FLAG)
  <2>2. DAATable(r, f).F = PZSTable(d) + 32 * Bit(d, 5) + 8 * Bit(d, 3) + h + If(TRUE, N_FLAG) + k
    BY <1>10
  <2>3. h \in {0, 16} /\ If(TRUE, N_FLAG) = 2 /\ k = (IF m < n THEN 1 ELSE 0) /\ k \in {0, 1}
    BY DEF If, H_FLAG, N_FLAG, C_FLAG
  <2> HIDE DEF d, h, k, r, f
  <2>4. Bit(d, 5) \in {0, 1} /\ Bit(d, 3) \in {0, 1} BY <2>1 DEF Bit, Weight, Byte
  <2>5. PZSTable(d) \in Nat /\ PZSTable(d) % 2 = 0 BY <2>1, EvenTable
  <2>6. DAATable(r, f).F % 2 = k
    <3>1. PICK e \in Int : PZSTable(d) = 2 * e BY <2>5
    <3> DEFINE x == Bit(d, 5)
    <3> DEFINE y == Bit(d, 3)
    <3>2. DAATable(r, f).F = 2 * e + 32 * x + 8 * y + h + 2 + k BY <2>2, <2>3, <3>1
    <3>3. x \in {0, 1} /\ y \in {0, 1} BY <2>4
    <3> HIDE DEF x, y
    <3>4. 2 * e + 32 * x + 8 * y + h + 2 + k = 2 * (e + 16 * x + 4 * y + h \div 2 + 1) + k
      BY <2>3, <3>3
    <3>5. e + 16 * x + 4 * y + h \div 2 + 1 \in Int BY <2>3, <3>3
    <3> QED BY <2>3, <3>2, <3>4, <3>5
  <2> QED BY <2>3, <2>6 DEF Carry
<1> QED BY <1>1, <1>2, <1>4, <1>10, <1>11, <1>12 DEF Is

(***************************************************************************)
(* Flags: what the operators of Z80Arith give is a byte, for all bytes.    *)
(***************************************************************************)
LEMMA ByteIs ==
  ASSUME NEW x \in Byte
  PROVE  x \in Int /\ 0 <= x /\ x <= 255
BY DEF Byte
LEMMA IsByte ==
  ASSUME NEW x \in Int, 0 <= x, x <= 255
  PROVE  x \in Byte
BY DEF Byte
LEMMA WordIs ==
  ASSUME NEW x \in Word
  PROVE  x \in Int /\ 0 <= x /\ x <= 65535
BY DEF Word
LEMMA IsWord ==
  ASSUME NEW x \in Int, 0 <= x, x <= 65535
  PROVE  x \in Word
BY DEF Word
LEMMA Remainders ==
  ASSUME NEW x \in Int
  PROVE  x % 256 \in Byte /\ x % 65536 \in Word
BY IsByte, IsWord

LEMMA BitType ==
  ASSUME NEW x \in Int, NEW k \in 0 .. 7
  PROVE  Bit(x, k) \in {0, 1}
BY DEF Bit, Weight

LEMMA BitWType ==
  ASSUME NEW x \in Int
  PROVE  Bit(x, 12) \in {0, 1} /\ Bit(x, 15) \in {0, 1}
BY DEF Bit, Weight

LEMMA IfType ==
  ASSUME NEW b, NEW f
  PROVE  If(b, f) \in {0, f}
BY DEF If

LEMMA CarryType ==
  ASSUME NEW f \in Int
  PROVE  Carry(f) \in {0, 1}
BY DEF Carry

LEMMA TableTypes ==
  ASSUME NEW x \in Int
  PROVE  /\ ZSTable(x) \in Int /\ 0 <= ZSTable(x) /\ ZSTable(x) <= 192
         /\ PZSTable(x) \in Int /\ 0 <= PZSTable(x) /\ PZSTable(x) <= 196
<1>1. Bit(x, 7) \in {0, 1} /\ If(x = 0, 64) \in {0, 64}
  BY BitType, IfType
<1>2. If(Ones(x) % 2 = 0, 4) \in {0, 4}
  BY IfType
<1> DEFINE b == Bit(x, 7)
           z == If(x = 0, 64)
           p == If(Ones(x) % 2 = 0, 4)
<1>3. ZSTable(x) = 128 * b + z /\ PZSTable(x) = 128 * b + z + p
  BY DEF PZSTable, ZSTable, S_FLAG, Z_FLAG, P_FLAG
<1> HIDE DEF b, z, p
<1>4. b \in {0, 1} /\ z \in {0, 64} /\ p \in {0, 4}
  BY <1>1, <1>2 DEF b, z, p
<1> QED BY <1>3, <1>4

\* The bits that matter of a byte of flags.
LEMMA Flags ==
  ASSUME NEW f \in Byte
  PROVE  \E u \in 0 .. 7, b4 \in {0, 1}, b3 \in {0, 1}, b2 \in {0, 1}, b1 \in {0, 1}, b0 \in {0, 1} :
           /\ f = 32 * u + 16 * b4 + 8 * b3 + 4 * b2 + 2 * b1 + b0
           /\ Bit(f, 4) = b4 /\ Bit(f, 2) = b2 /\ Bit(f, 1) = b1 /\ Bit(f, 0) = b0
<1>1. \A k \in 0 .. 7 : Bit(f, k) \in {0, 1}
  BY BitType DEF Byte
<1>2. /\ f = 2 * (f \div 2) + Bit(f, 0)
      /\ f \div 2 = 2 * (f \div 4) + Bit(f, 1)
      /\ f \div 4 = 2 * (f \div 8) + Bit(f, 2)
      /\ f \div 8 = 2 * (f \div 16) + Bit(f, 3)
      /\ f \div 16 = 2 * (f \div 32) + Bit(f, 4)
      /\ f \div 32 \in 0 .. 7
  BY DEF Bit, Weight, Byte
<1>3. f = 32 * (f \div 32) + 16 * Bit(f, 4) + 8 * Bit(f, 3) + 4 * Bit(f, 2) + 2 * Bit(f, 1) + Bit(f, 0)
  <2> DEFINE u == f \div 32
             b4 == Bit(f, 4)
             b3 == Bit(f, 3)
             b2 == Bit(f, 2)
             b1 == Bit(f, 1)
             b0 == Bit(f, 0)
             h == f \div 2
             i == f \div 4
             j == f \div 8
             k == f \div 16
  <2>1. /\ u \in Int /\ b4 \in Int /\ b3 \in Int /\ b2 \in Int /\ b1 \in Int /\ b0 \in Int
        /\ h \in Int /\ i \in Int /\ j \in Int /\ k \in Int /\ f \in Int
    BY <1>1 DEF Byte
  <2>2. f = 2 * h + b0 /\ h = 2 * i + b1 /\ i = 2 * j + b2 /\ j = 2 * k + b3 /\ k = 2 * u + b4
    BY <1>2
  <2> HIDE DEF u, b4, b3, b2, b1, b0, h, i, j, k
  <2>3. f = 32 * u + 16 * b4 + 8 * b3 + 4 * b2 + 2 * b1 + b0
    BY <2>1, <2>2
  <2> QED BY <2>3 DEF u, b4, b3, b2, b1, b0
<1> HIDE DEF Bit
<1> QED BY <1>1, <1>2, <1>3

\* Flags that are cleared leave room for those that are set.
LEMMA Cleared ==
  ASSUME NEW u \in Int, 0 <= u, u <= 7, NEW b4 \in Int, 0 <= b4, b4 <= 1,
         NEW b3 \in Int, 0 <= b3, b3 <= 1, NEW b2 \in Int, 0 <= b2, b2 <= 1,
         NEW b1 \in Int, 0 <= b1, b1 <= 1, NEW b0 \in Int, 0 <= b0, b0 <= 1,
         NEW f, f = 32 * u + 16 * b4 + 8 * b3 + 4 * b2 + 2 * b1 + b0
  PROVE  /\ f - 16 * b4 - 0 - 2 * b1 - 1 * b0 \in Int
         /\ 0 <= f - 16 * b4 - 0 - 2 * b1 - 1 * b0
         /\ f - 16 * b4 - 0 - 2 * b1 - 1 * b0 <= 237
         /\ f - 16 * b4 - 0 - 2 * b1 - 0 \in Int
         /\ 0 <= f - 16 * b4 - 0 - 2 * b1 - 0
         /\ f - 16 * b4 - 0 - 2 * b1 - 0 <= 237
         /\ f - 16 * b4 - 4 * b2 - 2 * b1 - 0 \in Int
         /\ 0 <= f - 16 * b4 - 4 * b2 - 2 * b1 - 0
         /\ f - 16 * b4 - 4 * b2 - 2 * b1 - 0 <= 237
OBVIOUS

Room(w) == w \in Int /\ 0 <= w /\ w <= 237
LEMMA WithoutTypes ==
  ASSUME NEW f \in Byte
  PROVE  /\ Room(Without(f, TRUE, FALSE, TRUE, TRUE))
         /\ Room(Without(f, TRUE, FALSE, TRUE, FALSE))
         /\ Room(Without(f, TRUE, TRUE, TRUE, FALSE))
<1>1. PICK u \in 0 .. 7, b4 \in {0, 1}, b3 \in {0, 1}, b2 \in {0, 1}, b1 \in {0, 1}, b0 \in {0, 1} :
           /\ f = 32 * u + 16 * b4 + 8 * b3 + 4 * b2 + 2 * b1 + b0
           /\ Bit(f, 4) = b4 /\ Bit(f, 2) = b2 /\ Bit(f, 1) = b1 /\ Bit(f, 0) = b0
  BY Flags
<1>2. /\ u \in Int /\ 0 <= u /\ u <= 7
      /\ b4 \in Int /\ 0 <= b4 /\ b4 <= 1 /\ b3 \in Int /\ 0 <= b3 /\ b3 <= 1
      /\ b2 \in Int /\ 0 <= b2 /\ b2 <= 1 /\ b1 \in Int /\ 0 <= b1 /\ b1 <= 1
      /\ b0 \in Int /\ 0 <= b0 /\ b0 <= 1
  OBVIOUS
<1>3. /\ Without(f, TRUE, FALSE, TRUE, TRUE) = f - 16 * b4 - 0 - 2 * b1 - 1 * b0
      /\ Without(f, TRUE, FALSE, TRUE, FALSE) = f - 16 * b4 - 0 - 2 * b1 - 0
      /\ Without(f, TRUE, TRUE, TRUE, FALSE) = f - 16 * b4 - 4 * b2 - 2 * b1 - 0
  BY <1>1 DEF Without, If, H_FLAG, P_FLAG, N_FLAG, C_FLAG
<1>4. /\ f - 16 * b4 - 0 - 2 * b1 - 1 * b0 \in Int
      /\ 0 <= f - 16 * b4 - 0 - 2 * b1 - 1 * b0
      /\ f - 16 * b4 - 0 - 2 * b1 - 1 * b0 <= 237
      /\ f - 16 * b4 - 0 - 2 * b1 - 0 \in Int
      /\ 0 <= f - 16 * b4 - 0 - 2 * b1 - 0
      /\ f - 16 * b4 - 0 - 2 * b1 - 0 <= 237
      /\ f - 16 * b4 - 4 * b2 - 2 * b1 - 0 \in Int
      /\ 0 <= f - 16 * b4 - 4 * b2 - 2 * b1 - 0
      /\ f - 16 * b4 - 4 * b2 - 2 * b1 - 0 <= 237
  BY <1>1, <1>2, Cleared, Z3
<1> QED BY <1>3, <1>4, Zenon DEF Room

\* A byte with flags.
Result(is) == is.byte \in Byte /\ is.F \in Byte

LEMMA AddType ==
  ASSUME NEW a \in Byte, NEW b \in Byte, NEW c \in {0, 1}
  PROVE  Result(M_ADC(a, b, c))
<1>1. (a + b + c) % 256 \in Byte
  BY ByteIs, Remainders
<1>2. Sum8(a, b, c) \in Byte
  <2> DEFINE s == If(Signed((a + b + c) % 256, 256) < 0, S_FLAG)
             z == If((a + b + c) % 256 = 0, Z_FLAG)
             h == If((a % 16) + (b % 16) + c \notin 0 .. 16 - 1, H_FLAG)
             v == If(2 * (Signed(a, 256) + Signed(b, 256) + c) \notin -256 .. 256 - 1, V_FLAG)
             n == If(FALSE, N_FLAG)
             k == If(a + b + c \notin 0 .. 256 - 1, C_FLAG)
  <2>1. Sum8(a, b, c) = s + z + h + v + n + k
    BY DEF Sum8, FlagsOf
  <2>2. /\ s \in {0, 128} /\ z \in {0, 64} /\ h \in {0, 16} /\ v \in {0, 4}
        /\ n \in {0, 2} /\ k \in {0, 1}
    BY DEF If, S_FLAG, Z_FLAG, H_FLAG, V_FLAG, N_FLAG, C_FLAG
  <2> HIDE DEF s, z, h, v, n, k
  <2> QED BY <2>1, <2>2, IsByte
<1> QED BY <1>1, <1>2, AddCorrect DEF Result, Is

LEMMA SubtractType ==
  ASSUME NEW a \in Byte, NEW b \in Byte, NEW c \in {0, 1}
  PROVE  Result(M_SBC(a, b, c))
<1>1. (a - b - c) % 256 \in Byte
  BY ByteIs, Remainders
<1>2. Minus8(a, b, c) \in Byte
  <2> DEFINE s == If(Signed((a - b - c) % 256, 256) < 0, S_FLAG)
             z == If((a - b - c) % 256 = 0, Z_FLAG)
             h == If((a % 16) - (b % 16) - c \notin 0 .. 16 - 1, H_FLAG)
             v == If(2 * (Signed(a, 256) - Signed(b, 256) - c) \notin -256 .. 256 - 1, V_FLAG)
             n == If(TRUE, N_FLAG)
             k == If(a - b - c \notin 0 .. 256 - 1, C_FLAG)
  <2>1. Minus8(a, b, c) = s + z + h + v + n + k
    BY DEF Minus8, FlagsOf
  <2>2. /\ s \in {0, 128} /\ z \in {0, 64} /\ h \in {0, 16} /\ v \in {0, 4}
        /\ n \in {0, 2} /\ k \in {0, 1}
    BY DEF If, S_FLAG, Z_FLAG, H_FLAG, V_FLAG, N_FLAG, C_FLAG
  <2> HIDE DEF s, z, h, v, n, k
  <2> QED BY <2>1, <2>2, IsByte
<1> QED BY <1>1, <1>2, SubtractCorrect DEF Result, Is

LEMMA FromBitsType ==
  ASSUME NEW b \in [0 .. 7 -> {0, 1}]
  PROVE  FromBits(b) \in Byte
<1>1. /\ b[0] \in {0, 1} /\ b[1] \in {0, 1} /\ b[2] \in {0, 1} /\ b[3] \in {0, 1}
      /\ b[4] \in {0, 1} /\ b[5] \in {0, 1} /\ b[6] \in {0, 1} /\ b[7] \in {0, 1}
  OBVIOUS
<1> QED BY <1>1 DEF FromBits, Byte

LEMMA LogicTypes ==
  ASSUME NEW a \in Byte, NEW b \in Byte
  PROVE  Result(M_AND(a, b)) /\ Result(M_XOR(a, b)) /\ Result(M_OR(a, b))
<1> DEFINE and == [k \in 0 .. 7 |-> Bit(a, k) * Bit(b, k)]
           xor == [k \in 0 .. 7 |-> (Bit(a, k) + Bit(b, k)) % 2]
           or  == [k \in 0 .. 7 |-> If(Bit(a, k) + Bit(b, k) > 0, 1)]
<1>1. \A k \in 0 .. 7 : Bit(a, k) \in {0, 1} /\ Bit(b, k) \in {0, 1}
  BY BitType DEF Byte
<1>2. /\ \A k \in 0 .. 7 : Bit(a, k) * Bit(b, k) \in {0, 1}
      /\ \A k \in 0 .. 7 : (Bit(a, k) + Bit(b, k)) % 2 \in {0, 1}
      /\ \A k \in 0 .. 7 : If(Bit(a, k) + Bit(b, k) > 0, 1) \in {0, 1}
  BY <1>1, IfType
<1>3. and \in [0 .. 7 -> {0, 1}] /\ xor \in [0 .. 7 -> {0, 1}] /\ or \in [0 .. 7 -> {0, 1}]
  BY <1>2
<1>4. /\ M_AND(a, b) = Is(FromBits(and), H_FLAG + PZSTable(FromBits(and)))
      /\ M_XOR(a, b) = Is(FromBits(xor), PZSTable(FromBits(xor)))
      /\ M_OR(a, b) = Is(FromBits(or), PZSTable(FromBits(or)))
  BY DEF M_AND, M_XOR, M_OR
<1> HIDE DEF and, xor, or
<1>5. \A r \in Byte : H_FLAG + PZSTable(r) \in Byte /\ PZSTable(r) \in Byte
  <2> TAKE r \in Byte
  <2>1. PZSTable(r) \in Int /\ 0 <= PZSTable(r) /\ PZSTable(r) <= 196
    BY ByteIs, TableTypes
  <2> QED BY <2>1, IsByte DEF H_FLAG
<1>6. FromBits(and) \in Byte /\ FromBits(xor) \in Byte /\ FromBits(or) \in Byte
  BY <1>3, FromBitsType
<1> QED BY <1>4, <1>5, <1>6 DEF Result, Is

LEMMA StepTypes ==
  ASSUME NEW x \in Byte, NEW f \in Byte
  PROVE  Result(M_INC(x, f)) /\ Result(M_DEC(x, f))
<1>1. Carry(f) \in {0, 1}
  BY CarryType DEF Byte
<1>2. ASSUME NEW r \in Byte, NEW a \in {0, 4}, NEW h \in {0, 16}
      PROVE  Carry(f) + ZSTable(r) + a + h \in Byte /\ 2 + Carry(f) + ZSTable(r) + a + h \in Byte
  <2>1. ZSTable(r) \in Int /\ 0 <= ZSTable(r) /\ ZSTable(r) <= 192
    BY ByteIs, TableTypes
  <2> QED BY <1>1, <2>1, IsByte
<1>3. (x + 1) % 256 \in Byte /\ (x - 1) % 256 \in Byte
  BY DEF Byte
<1>4. \A c : If(c, 4) \in {0, 4} /\ If(c, 16) \in {0, 16}
  BY IfType
<1> QED BY <1>2, <1>3, <1>4 DEF M_INC, M_DEC, Is, Result, V_FLAG, H_FLAG, N_FLAG

LEMMA ShiftedType ==
  ASSUME NEW out \in {0, 1}, NEW r \in Byte
  PROVE  Result(Shifted(out, r))
<1>1. PZSTable(r) \in Int /\ 0 <= PZSTable(r) /\ PZSTable(r) <= 196
  BY ByteIs, TableTypes
<1>2. out + PZSTable(r) \in Byte
  BY <1>1, IsByte
<1> QED BY <1>2 DEF Result, Shifted, Is

LEMMA RotatedType ==
  ASSUME NEW x \in Byte, NEW f \in Byte, NEW y \in 0 .. 7
  PROVE  Result(Rotated(y, x, f))
<1>1. /\ Bit(x, 7) \in {0, 1} /\ Bit(x, 0) \in {0, 1} /\ Carry(f) \in {0, 1}
  BY BitType, CarryType DEF Byte
<1>2. \A in \in {0, 1} : Left(x, in) \in Byte /\ Right(x, in) \in Byte
  BY DEF Left, Right, Byte
<1>3. \A out, in \in {0, 1} : Result(Shifted(out, Left(x, in))) /\ Result(Shifted(out, Right(x, in)))
  BY <1>2, ShiftedType
<1>4. /\ Result(M_RLC(x)) /\ Result(M_RRC(x)) /\ Result(M_RL(x, f)) /\ Result(M_RR(x, f))
      /\ Result(M_SLA(x)) /\ Result(M_SRA(x)) /\ Result(M_SLL(x)) /\ Result(M_SRL(x))
  BY <1>1, <1>3 DEF M_RLC, M_RRC, M_RL, M_RR, M_SLA, M_SRA, M_SLL, M_SRL
<1> QED BY <1>4 DEF Rotated

LEMMA BitFits ==
  ASSUME NEW x \in Byte, NEW w \in {1, 2, 4, 8, 16, 32, 64, 128}, NEW b, b = (x \div w) % 2
  PROVE  /\ x - w * b \in Int /\ 0 <= x - w * b /\ x - w * b <= 255
         /\ x + w * (1 - b) \in Int /\ 0 <= x + w * (1 - b) /\ x + w * (1 - b) <= 255
<1>1. x \in Int /\ 0 <= x /\ x <= 255
  BY ByteIs
<1>2. CASE w \in {1, 2, 4, 8}
  BY <1>1, <1>2
<1>3. CASE w \in {16, 32, 64, 128}
  BY <1>1, <1>3
<1> QED BY <1>2, <1>3

LEMMA SetBitType ==
  ASSUME NEW x \in Byte, NEW k \in 0 .. 7
  PROVE  M_SET(k, x) \in Byte /\ M_RES(k, x) \in Byte
<1> DEFINE w == Weight(k)
           b == (x \div w) % 2
<1>1. w \in {1, 2, 4, 8, 16, 32, 64, 128}
  BY DEF Weight
<1>2. b = (x \div w) % 2
  OBVIOUS
<1>3. M_SET(k, x) = x + w * (1 - b) /\ M_RES(k, x) = x - w * b
  BY DEF M_SET, M_RES, Bit
<1> HIDE DEF w, b
<1>4. /\ x - w * b \in Int /\ 0 <= x - w * b /\ x - w * b <= 255
      /\ x + w * (1 - b) \in Int /\ 0 <= x + w * (1 - b) /\ x + w * (1 - b) <= 255
  BY <1>1, <1>2, BitFits
<1> QED BY <1>3, <1>4, IsByte

LEMMA OnBitsType ==
  ASSUME NEW op \in Byte, NEW x \in Byte, NEW f \in Byte
  PROVE  Result(OnBits(op, x, f))
<1> DEFINE y == (op \div 8) % 8
<1>1. y \in 0 .. 7 /\ op \div 64 \in 0 .. 3
  BY ByteIs
<1>2. Result(Rotated(y, x, f))
  <2> HIDE DEF y
  <2> QED BY <1>1, RotatedType
<1>3. Result(M_BIT(y, x, f))
  <2> HIDE DEF y
  <2>1. Weight(y) * Bit(x, y) \in Int
    BY <1>1, BitType DEF Weight, Byte
  <2> DEFINE p == PZSTable(Weight(y) * Bit(x, y))
  <2>2. p \in Int /\ 0 <= p /\ p <= 196
    BY <2>1, TableTypes
  <2>3. Carry(f) \in {0, 1}
    BY CarryType DEF Byte
  <2>4. M_BIT(y, x, f) = Is(x, Carry(f) + 16 + p)
    BY DEF M_BIT, H_FLAG
  <2> HIDE DEF p
  <2> QED BY <2>2, <2>3, <2>4, IsByte DEF Result, Is
<1>4. Result(Is(M_RES(y, x), f)) /\ Result(Is(M_SET(y, x), f))
  <2> HIDE DEF y
  <2> QED BY <1>1, SetBitType DEF Result, Is
<1> QED BY <1>1, <1>2, <1>3, <1>4 DEF OnBits

LEMMA AccumulatorType ==
  ASSUME NEW out \in {0, 1}, NEW r \in Byte, NEW f \in Byte
  PROVE  Result(Accumulator(out, r, f))
<1> DEFINE w == Without(f, TRUE, FALSE, TRUE, TRUE)
<1>1. w \in Int /\ 0 <= w /\ w <= 237
  BY WithoutTypes, Zenon DEF Room
<1>2. Accumulator(out, r, f) = Is(r, w + out)
  BY DEF Accumulator
<1> HIDE DEF w
<1>3. w + out \in Byte
  BY <1>1, IsByte
<1> QED BY <1>2, <1>3 DEF Result, Is

LEMMA DAAType ==
  ASSUME NEW a \in Byte, NEW f \in Byte
  PROVE  Result(DAATable(a, f))
<1> DEFINE digit == a % 16
           units == Bit(f, 4) = 1 \/ digit > 9
           tens  == Carry(f) = 1 \/ a > 153
           fix   == If(units, 6) + If(tens, 96)
           minus == Bit(f, 1) = 1
           r     == (IF minus THEN a - fix ELSE a + fix) % 256
           half  == IF minus THEN Bit(f, 4) = 1 /\ digit < 6 ELSE digit > 9
<1>1. DAATable(a, f) = Is(r, PZSTable(r) + 32 * Bit(r, 5) + 8 * Bit(r, 3)
                             + If(half, H_FLAG) + If(minus, N_FLAG) + If(tens, C_FLAG))
  BY DEF DAATable
<1>2. fix \in Int
  <2> HIDE DEF units, tens
  <2> QED BY IfType
<1>3. r \in Byte
  <2> HIDE DEF fix, minus
  <2> QED BY <1>2 DEF Byte
<1> HIDE DEF r, half, minus, tens
<1>4. /\ Bit(r, 5) \in {0, 1} /\ Bit(r, 3) \in {0, 1}
      /\ PZSTable(r) \in Int /\ 0 <= PZSTable(r) /\ PZSTable(r) <= 196
  BY <1>3, BitType, TableTypes, ByteIs
<1>5. If(half, H_FLAG) \in {0, 16} /\ If(minus, N_FLAG) \in {0, 2} /\ If(tens, C_FLAG) \in {0, 1}
  BY IfType DEF H_FLAG, N_FLAG, C_FLAG
<1> QED BY <1>1, <1>3, <1>4, <1>5 DEF Result, Is, Byte

\* A word with flags.
ResultW(is) == is.word \in Word /\ is.F \in Byte

LEMMA HalfWType ==
  ASSUME NEW a \in Int, NEW b \in Int, NEW r \in Int
  PROVE  HalfCarryW(a, b, r) \in {0, 16}
<1>1. Bit(a, 12) \in {0, 1} /\ Bit(b, 12) \in {0, 1} /\ Bit(r, 12) \in {0, 1}
  BY BitWType
<1> QED BY <1>1 DEF HalfCarryW, H_FLAG

LEMMA AddWordType ==
  ASSUME NEW a \in Word, NEW b \in Word, NEW f \in Byte
  PROVE  ResultW(M_ADDW(a, b, f))
<1> DEFINE r == (a + b) % 65536
           k == (a + b) \div 65536
           h == HalfCarryW(a, b, r)
           w == Without(f, TRUE, FALSE, TRUE, TRUE)
<1>1. a \in Int /\ 0 <= a /\ a <= 65535 /\ b \in Int /\ 0 <= b /\ b <= 65535
  BY WordIs
<1>2. r \in Int /\ 0 <= r /\ r <= 65535 /\ k \in {0, 1}
  BY <1>1
<1>3. h \in {0, 16}
  <2> HIDE DEF r
  <2> QED BY <1>1, <1>2, HalfWType
<1>4. w \in Int /\ 0 <= w /\ w <= 237
  BY WithoutTypes, Zenon DEF Room
<1>5. M_ADDW(a, b, f) = [word |-> r, F |-> w + h + k]
  BY DEF M_ADDW
<1> HIDE DEF r, h, k, w
<1>6. w + h + k \in Int /\ 0 <= w + h + k /\ w + h + k <= 255
  BY <1>2, <1>3, <1>4
<1> QED BY <1>2, <1>5, <1>6, IsByte, IsWord DEF ResultW

LEMMA CarryWordTypes ==
  ASSUME NEW a \in Word, NEW b \in Word, NEW c \in {0, 1}
  PROVE  ResultW(M_ADCW(a, b, c)) /\ ResultW(M_SBCW(a, b, c))
<1>1. a \in Int /\ 0 <= a /\ a <= 65535 /\ b \in Int /\ 0 <= b /\ b <= 65535
  BY WordIs
<1>2. \A s : If(s, V_FLAG) \in {0, 4} /\ If(s, Z_FLAG) \in {0, 64} /\ If(s, C_FLAG) \in {0, 1}
  BY IfType DEF V_FLAG, Z_FLAG, C_FLAG
<1>3. ASSUME NEW n \in {0, 2}, NEW k \in {0, 1}, NEW v \in {0, 4}, NEW h \in {0, 16},
             NEW z \in {0, 64}, NEW s \in {0, 1}
      PROVE  k + v + h + z + 128 * s \in Byte /\ 2 + k + v + h + z + 128 * s \in Byte
  BY IsByte
<1>4. ResultW(M_ADCW(a, b, c))
  <2> DEFINE r == (a + b + c) % 65536
             k == (a + b + c) \div 65536
             h == HalfCarryW(a, b, r)
             v == If(Bit(a, 15) = Bit(b, 15) /\ Bit(b, 15) # Bit(r, 15), V_FLAG)
             z == If(r = 0, Z_FLAG)
             s == Bit(r, 15)
  <2>1. r \in Int /\ 0 <= r /\ r <= 65535 /\ k \in {0, 1}
    BY <1>1
  <2>2. M_ADCW(a, b, c) = [word |-> r, F |-> k + v + h + z + 128 * s]
    BY DEF M_ADCW, S_FLAG
  <2> HIDE DEF k, r
  <2>3. h \in {0, 16} /\ v \in {0, 4} /\ z \in {0, 64} /\ s \in {0, 1}
    BY <1>1, <1>2, <2>1, HalfWType, BitWType
  <2> HIDE DEF h, v, z, s
  <2>4. k + v + h + z + 128 * s \in Byte
    BY <1>3, <2>1, <2>3
  <2> QED BY <2>1, <2>2, <2>4, IsWord DEF ResultW
<1>5. ResultW(M_SBCW(a, b, c))
  <2> DEFINE r == (a - b - c) % 65536
             k == If(a - b - c < 0, C_FLAG)
             h == HalfCarryW(a, b, r)
             v == If(Bit(a, 15) # Bit(b, 15) /\ Bit(a, 15) # Bit(r, 15), V_FLAG)
             z == If(r = 0, Z_FLAG)
             s == Bit(r, 15)
  <2>1. r \in Int /\ 0 <= r /\ r <= 65535
    BY <1>1
  <2>2. M_SBCW(a, b, c) = [word |-> r, F |-> 2 + k + v + h + z + 128 * s]
    BY DEF M_SBCW, S_FLAG, N_FLAG
  <2> HIDE DEF r
  <2>3. h \in {0, 16} /\ v \in {0, 4} /\ z \in {0, 64} /\ s \in {0, 1} /\ k \in {0, 1}
    BY <1>1, <1>2, <2>1, HalfWType, BitWType
  <2> HIDE DEF h, k, v, z, s
  <2>4. 2 + k + v + h + z + 128 * s \in Byte
    BY <1>3, <2>3
  <2> QED BY <2>1, <2>2, <2>4, IsWord DEF ResultW
<1> QED BY <1>4, <1>5

(***************************************************************************)
(* The processor: every instruction makes a machine of a machine.          *)
(***************************************************************************)
Pairs == {"BC", "DE", "HL", "AF", "SP", "IX", "IY"}
Indexes == {"HL", "IX", "IY"}

\* The machines with memory at the addresses D.
Machines(D) ==
  [reg : [Registers -> Byte], alt : [Main -> Byte], PC : Word, mem : [D -> Byte],
   in : Seq(Byte), out : Seq(Byte \X Byte),
   IFF1 : BOOLEAN, IFF2 : BOOLEAN, EI : BOOLEAN, HALT : BOOLEAN, IM : 0 .. 2]

\* n is a machine, and whether interrupts are on is as it is in m.
Keeps(m, n, D) ==
  n \in Machines(D) /\ n.IFF1 = m.IFF1 /\ n.IFF2 = m.IFF2 /\ n.EI = m.EI

LEMMA Fields ==
  ASSUME NEW D, NEW m \in Machines(D)
  PROVE  /\ m.reg \in [Registers -> Byte] /\ m.alt \in [Main -> Byte]
         /\ m.PC \in Word /\ m.mem \in [D -> Byte]
         /\ m.in \in Seq(Byte) /\ m.out \in Seq(Byte \X Byte)
         /\ m.IFF1 \in BOOLEAN /\ m.IFF2 \in BOOLEAN /\ m.EI \in BOOLEAN
         /\ m.HALT \in BOOLEAN /\ m.IM \in 0 .. 2
BY DEF Machines

LEMMA Stays ==
  ASSUME NEW D, NEW m \in Machines(D)
  PROVE  Keeps(m, m, D)
BY DEF Keeps

LEMMA Then ==
  ASSUME NEW D, NEW m, NEW n, NEW o, Keeps(m, n, D), Keeps(n, o, D)
  PROVE  Keeps(m, o, D)
BY DEF Keeps

LEMMA Kept ==
  ASSUME NEW D, NEW m, NEW n, Keeps(m, n, D)
  PROVE  n \in Machines(D)
BY DEF Keeps

LEMMA HalvesType ==
  ASSUME NEW p \in Pairs
  PROVE  /\ Halves[p][1] \in Registers /\ Halves[p][2] \in Registers
         /\ Halves[p][1] # Halves[p][2]
BY DEF Pairs, Halves, Registers, Main

LEMMA RegType ==
  ASSUME NEW D, NEW m \in Machines(D), NEW r \in Registers
  PROVE  m.reg[r] \in Byte
BY Fields

LEMMA WithReg ==
  ASSUME NEW D, NEW m \in Machines(D), NEW r \in Registers, NEW v \in Byte
  PROVE  Keeps(m, [m EXCEPT !.reg[r] = v], D)
BY DEF Keeps, Machines

LEMMA WithRegs ==
  ASSUME NEW D, NEW m \in Machines(D), NEW r \in Registers, NEW v \in Byte,
         NEW s \in Registers, NEW w \in Byte
  PROVE  Keeps(m, [m EXCEPT !.reg[r] = v, !.reg[s] = w], D)
BY DEF Keeps, Machines

LEMMA GetType ==
  ASSUME NEW D, NEW m \in Machines(D), NEW p \in Pairs
  PROVE  Get(m, p) \in Word
<1>1. m.reg[Halves[p][1]] \in Byte /\ m.reg[Halves[p][2]] \in Byte
  BY HalvesType, RegType
<1> DEFINE a == m.reg[Halves[p][1]]
           b == m.reg[Halves[p][2]]
<1>2. a \in Int /\ 0 <= a /\ a <= 255 /\ b \in Int /\ 0 <= b /\ b <= 255
  BY <1>1, ByteIs
<1>3. Get(m, p) = 256 * a + b
  BY DEF Get
<1> HIDE DEF a, b
<1> QED BY <1>2, <1>3, IsWord

LEMMA HighType ==
  ASSUME NEW w \in Word
  PROVE  w \div 256 \in Byte /\ w % 256 \in Byte
<1>1. w \in Int /\ 0 <= w /\ w <= 65535
  BY WordIs
<1>2. w \div 256 \in Int /\ 0 <= w \div 256 /\ w \div 256 <= 255
  BY <1>1
<1> QED BY <1>1, <1>2, IsByte, Remainders

LEMMA PutType ==
  ASSUME NEW D, NEW m \in Machines(D), NEW p \in Pairs, NEW w \in Int
  PROVE  Keeps(m, Put(m, p, w), D)
<1>1. (w % 65536) \div 256 \in Byte /\ w % 256 \in Byte
  BY Remainders, HighType
<1> DEFINE r == Halves[p][1]
           s == Halves[p][2]
           v == (w % 65536) \div 256
           u == w % 256
<1>2. Put(m, p, w) = [m EXCEPT !.reg[r] = v, !.reg[s] = u]
  BY DEF Put
<1>3. r \in Registers /\ s \in Registers /\ v \in Byte /\ u \in Byte
  BY <1>1, HalvesType
<1> HIDE DEF r, s, v, u
<1>4. Keeps(m, [m EXCEPT !.reg[r] = v, !.reg[s] = u], D)
  BY <1>3, WithRegs
<1> QED BY <1>2, <1>4, Zenon

LEMMA SetAType ==
  ASSUME NEW D, NEW m \in Machines(D), NEW is, Result(is)
  PROVE  Keeps(m, SetA(m, is), D)
<1>1. "A" \in Registers /\ "F" \in Registers
  BY DEF Registers, Main
<1> QED BY <1>1, WithRegs DEF SetA, Result

LEMMA SetFType ==
  ASSUME NEW D, NEW m \in Machines(D), NEW f \in Byte
  PROVE  Keeps(m, SetF(m, f), D)
<1>1. "F" \in Registers
  BY DEF Registers, Main
<1> QED BY <1>1, WithReg DEF SetF

LEMMA RdType ==
  ASSUME NEW D, NEW m \in Machines(D), NEW a
  PROVE  RdZ80(m, a) \in Byte
<1>1. m.mem \in [D -> Byte]
  BY Fields
<1>2. NORAM \in Byte
  BY IsByte DEF NORAM
<1> QED BY <1>1, <1>2 DEF RdZ80

LEMMA WrType ==
  ASSUME NEW D, NEW m \in Machines(D), NEW a, NEW v \in Byte
  PROVE  Keeps(m, WrZ80(m, a, v), D)
<1> DEFINE b == a % 65536
<1>1. [m EXCEPT !.mem[b] = v] \in Machines(D) /\ Keeps(m, [m EXCEPT !.mem[b] = v], D)
  <2> HIDE DEF b
  <2> QED BY DEF Keeps, Machines
<1> QED BY <1>1, Stays DEF WrZ80

LEMMA PlaceWord ==
  ASSUME NEW a \in Byte, NEW b \in Byte
  PROVE  a + 256 * b \in Word
<1>1. a \in Int /\ 0 <= a /\ a <= 255 /\ b \in Int /\ 0 <= b /\ b <= 255
  BY ByteIs
<1> QED BY <1>1, IsWord

LEMMA Word2Type ==
  ASSUME NEW D, NEW m \in Machines(D), NEW a
  PROVE  Word2(m, a) \in Word
BY RdType, PlaceWord DEF Word2

LEMMA WrWordType ==
  ASSUME NEW D, NEW m \in Machines(D), NEW a, NEW p \in Pairs
  PROVE  Keeps(m, WrWord(m, a, p), D)
<1> DEFINE n == WrZ80(m, a, m.reg[Halves[p][2]])
<1>1. m.reg[Halves[p][1]] \in Byte /\ m.reg[Halves[p][2]] \in Byte
  BY HalvesType, RegType
<1>2. Keeps(m, n, D)
  BY <1>1, WrType
<1>3. Keeps(n, WrZ80(n, a + 1, m.reg[Halves[p][1]]), D)
  <2> HIDE DEF n
  <2> QED BY <1>1, <1>2, Kept, WrType
<1> QED BY <1>2, <1>3, Then DEF WrWord

LEMMA PortTypes ==
  ASSUME NEW D, NEW m \in Machines(D)
  PROVE  InZ80(m) \in Byte /\ Keeps(m, Taken(m), D)
<1>1. m.in \in Seq(Byte)
  BY Fields
<1>2. NORAM \in Byte
  BY IsByte DEF NORAM
<1>3. m.in # <<>> => Head(m.in) \in Byte /\ Tail(m.in) \in Seq(Byte)
  BY <1>1
<1>4. ASSUME NEW s \in Seq(Byte) PROVE Keeps(m, [m EXCEPT !.in = s], D)
  BY DEF Keeps, Machines
<1>5. m.in # <<>> => Keeps(m, [m EXCEPT !.in = Tail(@)], D)
  BY <1>3, <1>4
<1> QED BY <1>2, <1>3, <1>5, Stays DEF InZ80, Taken

LEMMA OutType ==
  ASSUME NEW D, NEW m \in Machines(D), NEW port \in Int, NEW v \in Byte
  PROVE  Keeps(m, OutZ80(m, port, v), D)
<1> DEFINE out == Append(m.out, <<port % 256, v>>)
<1>1. out \in Seq(Byte \X Byte)
  BY Fields, Remainders
<1>2. Keeps(m, [m EXCEPT !.out = out], D)
  <2> HIDE DEF out
  <2> QED BY <1>1 DEF Keeps, Machines
<1> QED BY <1>2 DEF OutZ80

LEMMA JumpType ==
  ASSUME NEW D, NEW m \in Machines(D), NEW a \in Word
  PROVE  Keeps(m, Jump(m, a), D)
BY DEF Keeps, Machines, Jump

LEMMA SkipType ==
  ASSUME NEW D, NEW m \in Machines(D), NEW n \in Int
  PROVE  Keeps(m, Skip(m, n), D)
<1>1. (m.PC + n) % 65536 \in Word
  BY Fields, WordIs, Remainders
<1>2. Skip(m, n) = Jump(m, (m.PC + n) % 65536)
  BY DEF Skip, Jump
<1> QED BY <1>1, <1>2, JumpType

\* The stack and jumps.
LEMMA PutThen ==
  ASSUME NEW D, NEW m, NEW n, Keeps(m, n, D), NEW p \in Pairs, NEW w \in Int
  PROVE  Keeps(m, Put(n, p, w), D)
<1>1. n \in Machines(D)
  BY Kept
<1>2. Keeps(n, Put(n, p, w), D)
  BY <1>1, PutType
<1> QED BY <1>2, Then

LEMMA SkipThen ==
  ASSUME NEW D, NEW m, NEW n, Keeps(m, n, D), NEW k \in Int
  PROVE  Keeps(m, Skip(n, k), D)
<1>1. Keeps(n, Skip(n, k), D)
  BY Kept, SkipType
<1> QED BY <1>1, Then

LEMMA JumpThen ==
  ASSUME NEW D, NEW m, NEW n, Keeps(m, n, D), NEW a \in Word
  PROVE  Keeps(m, Jump(n, a), D)
<1>1. Keeps(n, Jump(n, a), D)
  BY Kept, JumpType
<1> QED BY <1>1, Then

LEMMA WrThen ==
  ASSUME NEW D, NEW m, NEW n, Keeps(m, n, D), NEW a, NEW v \in Byte
  PROVE  Keeps(m, WrZ80(n, a, v), D)
<1>1. Keeps(n, WrZ80(n, a, v), D)
  BY Kept, WrType
<1> QED BY <1>1, Then

LEMMA RegThen ==
  ASSUME NEW D, NEW m, NEW n, Keeps(m, n, D), NEW r \in Registers, NEW v \in Byte
  PROVE  Keeps(m, [n EXCEPT !.reg[r] = v], D)
<1>1. Keeps(n, [n EXCEPT !.reg[r] = v], D)
  BY Kept, WithReg
<1> QED BY <1>1, Then

LEMMA SetAThen ==
  ASSUME NEW D, NEW m, NEW n, Keeps(m, n, D), NEW is, Result(is)
  PROVE  Keeps(m, SetA(n, is), D)
<1>1. Keeps(n, SetA(n, is), D)
  BY Kept, SetAType
<1> QED BY <1>1, Then

LEMMA SetFThen ==
  ASSUME NEW D, NEW m, NEW n, Keeps(m, n, D), NEW f \in Byte
  PROVE  Keeps(m, SetF(n, f), D)
<1>1. Keeps(n, SetF(n, f), D)
  BY Kept, SetFType
<1> QED BY <1>1, Then

LEMMA StackIs ==
  ASSUME NEW D, NEW m \in Machines(D)
  PROVE  "SP" \in Pairs /\ Get(m, "SP") \in Int
BY GetType, WordIs DEF Pairs

LEMMA PushType ==
  ASSUME NEW D, NEW m \in Machines(D), NEW p \in Pairs
  PROVE  Keeps(m, M_PUSH(m, p), D)
<1> DEFINE s == Get(m, "SP")
<1>1. "SP" \in Pairs /\ s \in Int
  BY StackIs
<1>2. Keeps(m, WrWord(m, s - 2, p), D)
  BY WrWordType
<1>3. M_PUSH(m, p) = Put(WrWord(m, s - 2, p), "SP", s - 2)
  BY DEF M_PUSH
<1> HIDE DEF s
<1>4. s - 2 \in Int
  BY <1>1
<1> QED BY <1>1, <1>2, <1>3, <1>4, PutThen

LEMMA PopType ==
  ASSUME NEW D, NEW m \in Machines(D), NEW p \in Pairs
  PROVE  Keeps(m, M_POP(m, p), D)
<1> DEFINE s == Get(m, "SP")
           n == Put(m, p, Word2(m, s))
<1>1. "SP" \in Pairs /\ s \in Int
  BY StackIs
<1>2. Word2(m, s) \in Int
  BY Word2Type, WordIs
<1>3. Keeps(m, n, D)
  BY <1>2, PutType
<1>4. M_POP(m, p) = Put(n, "SP", s + 2)
  BY DEF M_POP
<1> HIDE DEF s, n
<1>5. s + 2 \in Int
  BY <1>1
<1> QED BY <1>1, <1>3, <1>4, <1>5, PutThen

LEMMA PushPCType ==
  ASSUME NEW D, NEW m \in Machines(D)
  PROVE  Keeps(m, PushPC(m), D)
<1> DEFINE s == Get(m, "SP")
           n == WrZ80(m, s - 1, m.PC \div 256)
           o == WrZ80(n, s - 2, m.PC % 256)
<1>1. "SP" \in Pairs /\ s \in Int
  BY StackIs
<1>2. m.PC \div 256 \in Byte /\ m.PC % 256 \in Byte
  BY Fields, HighType
<1>3. Keeps(m, n, D)
  BY <1>2, WrType
<1>4. PushPC(m) = Put(o, "SP", s - 2)
  BY DEF PushPC
<1>5. Keeps(m, o, D)
  <2> HIDE DEF n
  <2> QED BY <1>2, <1>3, WrThen
<1> HIDE DEF s, n, o
<1>6. s - 2 \in Int
  BY <1>1
<1> QED BY <1>1, <1>4, <1>5, <1>6, PutThen

LEMMA OffsetType ==
  ASSUME NEW b \in Byte
  PROVE  offset(b) \in Int
BY ByteIs DEF offset

LEMMA JumpTypes ==
  ASSUME NEW D, NEW m \in Machines(D)
  PROVE  /\ Keeps(m, M_JR(m), D) /\ Keeps(m, M_JP(m), D)
         /\ Keeps(m, M_CALL(m), D) /\ Keeps(m, M_RET(m), D)
         /\ \A a \in Word : Keeps(m, M_RST(m, a), D)
<1>1. Keeps(m, M_JR(m), D)
  <2>1. offset(OpZ80(m)) + 1 \in Int
    BY RdType, OffsetType DEF OpZ80
  <2> QED BY <2>1, SkipType DEF M_JR
<1>2. Keeps(m, M_JP(m), D)
  BY Word2Type, JumpType DEF M_JP
<1>3. Keeps(m, M_CALL(m), D)
  <2> DEFINE n == Skip(m, 2)
             o == PushPC(n)
  <2>1. Keeps(m, n, D)
    BY SkipType
  <2>2. Keeps(n, o, D)
    <3> HIDE DEF n
    <3> QED BY <2>1, Kept, PushPCType
  <2>3. M_CALL(m) = Jump(o, Word2(m, m.PC))
    BY DEF M_CALL
  <2> HIDE DEF n, o
  <2>4. Keeps(m, o, D) /\ Word2(m, m.PC) \in Word
    BY <2>1, <2>2, Then, Word2Type
  <2> QED BY <2>3, <2>4, JumpThen
<1>4. Keeps(m, M_RET(m), D)
  <2> DEFINE s == Get(m, "SP")
             n == Put(m, "SP", s + 2)
  <2>1. "SP" \in Pairs /\ s + 2 \in Int
    BY StackIs
  <2>2. Keeps(m, n, D)
    BY <2>1, PutType
  <2>3. M_RET(m) = Jump(n, Word2(m, s))
    BY DEF M_RET
  <2> HIDE DEF s, n
  <2> QED BY <2>2, <2>3, Word2Type, JumpThen
<1>5. ASSUME NEW a \in Word PROVE Keeps(m, M_RST(m, a), D)
  BY PushPCType, JumpThen DEF M_RST
<1> QED BY <1>1, <1>2, <1>3, <1>4, <1>5

\* Operands.
LEMMA IndexPairs == Indexes \subseteq Pairs
BY DEF Indexes, Pairs

LEMMA NameType ==
  ASSUME NEW i \in 0 .. 7, i # 6, NEW xx \in Indexes
  PROVE  Name(i, xx) \in Registers
<1>1. Halves[xx][1] \in Registers /\ Halves[xx][2] \in Registers
  BY IndexPairs, HalvesType
<1>2. {"B", "C", "D", "E", "A"} \subseteq Registers
  BY DEF Registers, Main
<1> QED BY <1>1, <1>2 DEF Name

LEMMA PairType ==
  ASSUME NEW p \in 0 .. 3, NEW xx \in Indexes
  PROVE  Pair(p, xx) \in Pairs
BY DEF Pair, Indexes, Pairs

LEMMA PlaceType ==
  ASSUME NEW D, NEW m \in Machines(D), NEW xx \in Indexes
  PROVE  Place(m, xx) \in Int
<1>1. Get(m, xx) \in Int /\ (xx = "HL" => Get(m, "HL") \in Int)
  BY IndexPairs, GetType, WordIs
<1>2. offset(OpZ80(m)) \in Int
  BY RdType, OffsetType DEF OpZ80
<1> QED BY <1>1, <1>2 DEF Place

LEMMA PastType ==
  ASSUME NEW D, NEW m \in Machines(D), NEW i, NEW xx
  PROVE  Keeps(m, Past(m, i, xx), D)
BY Stays, SkipType DEF Past

LEMMA OperandType ==
  ASSUME NEW D, NEW m \in Machines(D), NEW i \in 0 .. 7, NEW xx \in Indexes
  PROVE  Operand(m, i, xx) \in Byte
BY RdType, NameType, RegType DEF Operand

LEMMA StoreType ==
  ASSUME NEW D, NEW m \in Machines(D), NEW i \in 0 .. 7, NEW xx \in Indexes, NEW v \in Byte
  PROVE  Keeps(m, Store(m, i, xx, v), D)
<1>1. CASE i = 6
  <2> DEFINE n == WrZ80(m, Place(m, xx), v)
  <2>1. Keeps(m, n, D)
    BY WrType
  <2>2. Store(m, i, xx, v) = Past(n, 6, xx)
    BY <1>1 DEF Store
  <2> HIDE DEF n
  <2>3. Keeps(n, Past(n, 6, xx), D)
    BY <2>1, Kept, PastType
  <2> QED BY <2>1, <2>2, <2>3, Then
<1>2. CASE i # 6
  BY <1>2, NameType, WithReg DEF Store
<1> QED BY <1>1, <1>2

\* The main table.
LEMMA ALUType ==
  ASSUME NEW D, NEW m \in Machines(D), NEW y \in 0 .. 7, NEW b \in Byte
  PROVE  Keeps(m, ALU(m, y, b), D)
<1> DEFINE a == m.reg["A"]
           c == Carry(m.reg["F"])
<1>1. a \in Byte /\ c \in {0, 1}
  <2>1. "A" \in Registers /\ "F" \in Registers
    BY DEF Registers, Main
  <2> QED BY <2>1, RegType, ByteIs, CarryType
<1>2. ALU(m, y, b) =
        CASE y = 0 -> SetA(m, M_ADC(a, b, 0)) [] y = 1 -> SetA(m, M_ADC(a, b, c))
          [] y = 2 -> SetA(m, M_SBC(a, b, 0)) [] y = 3 -> SetA(m, M_SBC(a, b, c))
          [] y = 4 -> SetA(m, M_AND(a, b))    [] y = 5 -> SetA(m, M_XOR(a, b))
          [] y = 6 -> SetA(m, M_OR(a, b))     [] y = 7 -> SetF(m, M_SBC(a, b, 0).F)
  BY DEF ALU
<1> HIDE DEF a, c
<1>3. /\ Result(M_ADC(a, b, 0)) /\ Result(M_ADC(a, b, c))
      /\ Result(M_SBC(a, b, 0)) /\ Result(M_SBC(a, b, c))
      /\ Result(M_AND(a, b)) /\ Result(M_XOR(a, b)) /\ Result(M_OR(a, b))
  BY <1>1, AddType, SubtractType, LogicTypes
<1>4. M_SBC(a, b, 0).F \in Byte
  BY <1>3 DEF Result
<1>5. /\ Keeps(m, SetA(m, M_ADC(a, b, 0)), D) /\ Keeps(m, SetA(m, M_ADC(a, b, c)), D)
      /\ Keeps(m, SetA(m, M_SBC(a, b, 0)), D) /\ Keeps(m, SetA(m, M_SBC(a, b, c)), D)
      /\ Keeps(m, SetA(m, M_AND(a, b)), D) /\ Keeps(m, SetA(m, M_XOR(a, b)), D)
      /\ Keeps(m, SetA(m, M_OR(a, b)), D) /\ Keeps(m, SetF(m, M_SBC(a, b, 0).F), D)
  BY <1>3, <1>4, SetAType, SetFType
<1>6. y \in {0, 1, 2, 3, 4, 5, 6, 7}
  OBVIOUS
<1> QED BY <1>2, <1>5, <1>6

LEMMA SwappedType ==
  ASSUME NEW D, NEW m \in Machines(D), NEW names, names \subseteq Main,
         NEW other \in [Main -> Byte]
  PROVE  Keeps(m, Swapped(m, names, other), D)
<1> DEFINE reg == [r \in Registers |-> IF r \in names THEN m.alt[r] ELSE m.reg[r]]
           alt == [r \in Main |-> IF r \in names THEN m.reg[r] ELSE other[r]]
<1>1. Main \subseteq Registers
  BY DEF Registers
<1>2. reg \in [Registers -> Byte] /\ alt \in [Main -> Byte]
  BY <1>1, Fields
<1>3. Keeps(m, [m EXCEPT !.reg = reg, !.alt = alt], D)
  <2> HIDE DEF reg, alt
  <2> QED BY <1>2 DEF Keeps, Machines
<1> QED BY <1>3 DEF Swapped

LEMMA SwapTypes ==
  ASSUME NEW D, NEW m \in Machines(D)
  PROVE  /\ Keeps(m, Swapped(m, {"A", "F"}, m.alt), D)
         /\ Keeps(m, Swapped(m, Main \ {"A", "F"}, m.alt), D)
<1>1. {"A", "F"} \subseteq Main /\ Main \ {"A", "F"} \subseteq Main
  BY DEF Main
<1> QED BY <1>1, Fields, SwappedType

LEMMA RelativeType ==
  ASSUME NEW D, NEW m \in Machines(D), NEW y \in 0 .. 7
  PROVE  Keeps(m, Relative(m, y), D)
<1> DEFINE n == [m EXCEPT !.reg["B"] = (@ - 1) % 256]
           o == IF n.reg["B"] # 0 THEN M_JR(n) ELSE Skip(n, 1)
           q == IF Holds(m, y - 4) THEN M_JR(m) ELSE Skip(m, 1)
<1>1. Keeps(m, n, D)
  <2>1. "B" \in Registers
    BY DEF Registers, Main
  <2>2. (m.reg["B"] - 1) % 256 \in Byte
    BY <2>1, RegType, ByteIs, Remainders
  <2> QED BY <2>1, <2>2, WithReg
<1>2. Keeps(m, o, D)
  <2> HIDE DEF n
  <2>1. n \in Machines(D)
    BY <1>1, Kept
  <2> QED BY <1>1, <2>1, JumpTypes, SkipType, Then
<1>3. Keeps(m, q, D) /\ Keeps(m, M_JR(m), D) /\ Keeps(m, m, D)
  BY JumpTypes, SkipType, Stays
<1>4. Relative(m, y) = CASE y = 0 -> m [] y = 1 -> Swapped(m, {"A", "F"}, m.alt)
                         [] y = 2 -> o [] y = 3 -> M_JR(m) [] OTHER -> q
  BY DEF Relative
<1>5. Keeps(m, Swapped(m, {"A", "F"}, m.alt), D)
  BY SwapTypes
<1> HIDE DEF n, o, q
<1> QED BY <1>2, <1>3, <1>4, <1>5

LEMMA WordsType ==
  ASSUME NEW D, NEW m \in Machines(D), NEW y \in 0 .. 7, NEW xx \in Indexes
  PROVE  Keeps(m, Words(m, y, xx), D)
<1> DEFINE p == Pair(y \div 2, xx)
           is == M_ADDW(Get(m, xx), Get(m, p), m.reg["F"])
           n == Put(m, p, Word2(m, m.PC))
           o == Put(m, xx, is.word)
<1>1. p \in Pairs /\ xx \in Pairs
  <2>1. y \div 2 \in 0 .. 3
    OBVIOUS
  <2> QED BY <2>1, PairType, IndexPairs
<1>2. Words(m, y, xx) = IF y % 2 = 0 THEN Skip(n, 2) ELSE SetF(o, is.F)
  BY DEF Words
<1> HIDE DEF p
<1>3. ResultW(is)
  <2>1. "F" \in Registers
    BY DEF Registers, Main
  <2> QED BY <1>1, <2>1, RegType, GetType, AddWordType
<1>4. Word2(m, m.PC) \in Int /\ is.word \in Int /\ is.F \in Byte
  BY <1>3, Word2Type, WordIs DEF ResultW
<1> HIDE DEF is
<1>5. Keeps(m, n, D) /\ Keeps(m, o, D)
  BY <1>1, <1>4, PutType
<1> HIDE DEF n, o
<1> QED BY <1>2, <1>4, <1>5, SkipThen, SetFThen

LEMMA IndirectType ==
  ASSUME NEW D, NEW m \in Machines(D), NEW y \in 0 .. 7, NEW xx \in Indexes
  PROVE  Keeps(m, Indirect(m, y, xx), D)
<1> DEFINE nn == Word2(m, m.PC)
           n == Skip(m, 2)
<1>1. "A" \in Registers /\ xx \in Pairs
  BY IndexPairs DEF Registers, Main
<1>2. m.reg["A"] \in Byte
  BY <1>1, RegType
<1>3. Keeps(m, n, D)
  BY SkipType
<1>4. Indirect(m, y, xx) =
        CASE y = 0 -> WrZ80(m, Get(m, "BC"), m.reg["A"])
          [] y = 1 -> [m EXCEPT !.reg["A"] = RdZ80(m, Get(m, "BC"))]
          [] y = 2 -> WrZ80(m, Get(m, "DE"), m.reg["A"])
          [] y = 3 -> [m EXCEPT !.reg["A"] = RdZ80(m, Get(m, "DE"))]
          [] y = 4 -> WrWord(n, nn, xx)
          [] y = 5 -> Put(n, xx, Word2(m, nn))
          [] y = 6 -> WrZ80(n, nn, m.reg["A"])
          [] y = 7 -> [n EXCEPT !.reg["A"] = RdZ80(m, nn)]
  BY DEF Indirect
<1> HIDE DEF n, nn
<1>5. \A a : RdZ80(m, a) \in Byte
  BY RdType
<1>6. /\ Keeps(m, WrZ80(m, Get(m, "BC"), m.reg["A"]), D)
      /\ Keeps(m, [m EXCEPT !.reg["A"] = RdZ80(m, Get(m, "BC"))], D)
      /\ Keeps(m, WrZ80(m, Get(m, "DE"), m.reg["A"]), D)
      /\ Keeps(m, [m EXCEPT !.reg["A"] = RdZ80(m, Get(m, "DE"))], D)
  BY <1>1, <1>2, <1>5, WrType, WithReg
<1>7. Keeps(m, WrWord(n, nn, xx), D)
  BY <1>1, <1>3, Kept, WrWordType, Then
<1>8. Keeps(m, Put(n, xx, Word2(m, nn)), D)
  BY <1>1, <1>3, Word2Type, WordIs, PutThen
<1>9. Keeps(m, WrZ80(n, nn, m.reg["A"]), D)
  BY <1>2, <1>3, WrThen
<1>10. Keeps(m, [n EXCEPT !.reg["A"] = RdZ80(m, nn)], D)
  BY <1>1, <1>3, <1>5, RegThen
<1>11. y \in {0, 1, 2, 3, 4, 5, 6, 7}
  OBVIOUS
<1> QED BY <1>4, <1>6, <1>7, <1>8, <1>9, <1>10, <1>11

LEMMA CountType ==
  ASSUME NEW D, NEW m \in Machines(D), NEW y \in 0 .. 7, NEW xx \in Indexes
  PROVE  Keeps(m, Count(m, y, xx), D)
<1> DEFINE p == Pair(y \div 2, xx)
           w == Get(m, p) + (IF y % 2 = 0 THEN 1 ELSE -1)
<1>1. p \in Pairs
  <2>1. y \div 2 \in 0 .. 3
    OBVIOUS
  <2> QED BY <2>1, PairType
<1>2. Get(m, p) \in Int
  BY <1>1, GetType, WordIs
<1>3. w \in Int
  <2> HIDE DEF p
  <2> QED BY <1>2
<1>4. Count(m, y, xx) = Put(m, p, w)
  BY DEF Count
<1> HIDE DEF p, w
<1> QED BY <1>1, <1>3, <1>4, PutType

LEMMA Step8Type ==
  ASSUME NEW D, NEW m \in Machines(D), NEW y \in 0 .. 7, NEW z \in {4, 5}, NEW xx \in Indexes
  PROVE  Keeps(m, Step8(m, y, z, xx), D)
<1> DEFINE x == Operand(m, y, xx)
           is == IF z = 4 THEN M_INC(x, m.reg["F"]) ELSE M_DEC(x, m.reg["F"])
           n == Store(m, y, xx, is.byte)
<1>1. x \in Byte
  BY OperandType
<1>2. m.reg["F"] \in Byte
  <2>1. "F" \in Registers
    BY DEF Registers, Main
  <2> QED BY <2>1, RegType
<1>3. Result(is)
  <2> HIDE DEF x
  <2> QED BY <1>1, <1>2, StepTypes
<1>4. Step8(m, y, z, xx) = SetF(n, is.F)
  BY DEF Step8
<1>5. is.byte \in Byte /\ is.F \in Byte
  BY <1>3 DEF Result
<1> HIDE DEF is
<1>6. Keeps(m, n, D)
  BY <1>5, StoreType
<1> HIDE DEF n
<1> QED BY <1>4, <1>5, <1>6, SetFThen

LEMMA ImmediateType ==
  ASSUME NEW D, NEW m \in Machines(D), NEW y \in 0 .. 7, NEW xx \in Indexes
  PROVE  Keeps(m, Immediate(m, y, xx), D)
<1> DEFINE n == Past(m, y, xx)
           v == OpZ80(n)
<1>1. Keeps(m, n, D)
  BY PastType
<1>2. v \in Byte
  <2> HIDE DEF n
  <2> QED BY <1>1, Kept, RdType DEF OpZ80
<1>3. Immediate(m, y, xx) = IF y = 6 THEN Skip(WrZ80(n, Place(m, xx), v), 1)
                            ELSE Skip([m EXCEPT !.reg[Name(y, xx)] = v], 1)
  BY DEF Immediate
<1> HIDE DEF n, v
<1>4. Keeps(m, WrZ80(n, Place(m, xx), v), D)
  BY <1>1, <1>2, WrThen
<1>5. y # 6 => Keeps(m, [m EXCEPT !.reg[Name(y, xx)] = v], D)
  BY <1>2, NameType, WithReg
<1>6. y = 6 => Keeps(m, Skip(WrZ80(n, Place(m, xx), v), 1), D)
  BY <1>4, SkipThen
<1>7. y # 6 => Keeps(m, Skip([m EXCEPT !.reg[Name(y, xx)] = v], 1), D)
  BY <1>5, SkipThen
<1> QED BY <1>3, <1>6, <1>7

LEMMA AFType ==
  ASSUME NEW D, NEW m \in Machines(D)
  PROVE  m.reg["A"] \in Byte /\ m.reg["F"] \in Byte /\ m.reg["A"] \in Int /\ m.reg["F"] \in Int
<1>1. "A" \in Registers /\ "F" \in Registers
  BY DEF Registers, Main
<1> QED BY <1>1, RegType, ByteIs

LEMMA AccuType ==
  ASSUME NEW D, NEW m \in Machines(D), NEW y \in 0 .. 7
  PROVE  Keeps(m, Accu(m, y), D)
<1> DEFINE a == m.reg["A"]
           f == m.reg["F"]
           kept == Without(f, TRUE, FALSE, TRUE, TRUE)
           cpl == Without(f, TRUE, FALSE, TRUE, FALSE) + H_FLAG + N_FLAG
           ccf == kept + If(Carry(f) = 0, C_FLAG) + If(Carry(f) = 1, H_FLAG)
           r0 == Accumulator(Bit(a, 7), Left(a, Bit(a, 7)), f)
           r1 == Accumulator(Bit(a, 0), Right(a, Bit(a, 0)), f)
           r2 == Accumulator(Bit(a, 7), Left(a, Carry(f)), f)
           r3 == Accumulator(Bit(a, 0), Right(a, Carry(f)), f)
<1>1. Accu(m, y) =
        CASE y = 0 -> SetA(m, r0) [] y = 1 -> SetA(m, r1) [] y = 2 -> SetA(m, r2)
          [] y = 3 -> SetA(m, r3) [] y = 4 -> SetA(m, DAATable(a, f))
          [] y = 5 -> SetA(m, Is(255 - a, cpl)) [] y = 6 -> SetF(m, kept + C_FLAG)
          [] y = 7 -> SetF(m, ccf)
  BY DEF Accu
<1>2. a \in Byte /\ f \in Byte /\ a \in Int /\ f \in Int
  BY AFType
<1>3. /\ Room(Without(f, TRUE, FALSE, TRUE, TRUE)) /\ Room(Without(f, TRUE, FALSE, TRUE, FALSE))
  <2> HIDE DEF f
  <2> QED BY <1>2, WithoutTypes
<1>4. kept + C_FLAG \in Byte
  <2>1. Room(kept)
    BY <1>3
  <2> HIDE DEF kept
  <2> QED BY <2>1, IsByte DEF Room, C_FLAG
<1>5. ccf \in Byte
  <2>1. Room(kept)
    BY <1>3
  <2>2. If(Carry(f) = 0, C_FLAG) \in {0, 1} /\ If(Carry(f) = 1, H_FLAG) \in {0, 16}
    BY IfType DEF C_FLAG, H_FLAG
  <2> HIDE DEF kept, f
  <2> QED BY <2>1, <2>2, IsByte DEF Room
<1>6. Result(Is(255 - a, cpl))
  <2>1. 255 - a \in Byte
    BY <1>2, ByteIs, IsByte
  <2> DEFINE w == Without(f, TRUE, FALSE, TRUE, FALSE)
  <2>2. cpl = w + 16 + 2
    BY DEF H_FLAG, N_FLAG
  <2>3. Room(w)
    BY <1>3
  <2> HIDE DEF w, cpl, a
  <2>4. cpl \in Byte
    BY <2>2, <2>3, IsByte DEF Room
  <2> QED BY <2>1, <2>4 DEF Result, Is
<1> HIDE DEF a, f, kept, cpl, ccf
<1>7. Result(DAATable(a, f))
  BY <1>2, DAAType
<1>8. Result(r0) /\ Result(r1) /\ Result(r2) /\ Result(r3)
  <2>1. Bit(a, 7) \in {0, 1} /\ Bit(a, 0) \in {0, 1} /\ Carry(f) \in {0, 1}
    BY <1>2, BitType, CarryType
  <2>2. \A in \in {0, 1} : Left(a, in) \in Byte /\ Right(a, in) \in Byte
    BY <1>2 DEF Left, Right, Byte
  <2> QED BY <1>2, <2>1, <2>2, AccumulatorType
<1> HIDE DEF r0, r1, r2, r3
<1>9. /\ Keeps(m, SetA(m, r0), D) /\ Keeps(m, SetA(m, r1), D) /\ Keeps(m, SetA(m, r2), D)
      /\ Keeps(m, SetA(m, r3), D) /\ Keeps(m, SetA(m, DAATable(a, f)), D)
      /\ Keeps(m, SetA(m, Is(255 - a, cpl)), D)
  BY <1>6, <1>7, <1>8, SetAType
<1>10. Keeps(m, SetF(m, kept + C_FLAG), D) /\ Keeps(m, SetF(m, ccf), D)
  BY <1>4, <1>5, SetFType
<1>11. y \in {0, 1, 2, 3, 4, 5, 6, 7}
  OBVIOUS
<1> QED BY <1>1, <1>9, <1>10, <1>11

LEMMA LoadType ==
  ASSUME NEW D, NEW m \in Machines(D), NEW y \in 0 .. 7, NEW z \in 0 .. 7, ~(y = 6 /\ z = 6),
         NEW xx \in Indexes
  PROVE  Keeps(m, Load(m, y, z, xx), D)
<1>1. "HL" \in Indexes
  BY DEF Indexes
<1>2. \A i \in 0 .. 7 : i # 6 => /\ Name(i, "HL") \in Registers /\ m.reg[Name(i, "HL")] \in Byte
                                 /\ Name(i, xx) \in Registers /\ m.reg[Name(i, xx)] \in Byte
  BY <1>1, NameType, RegType
<1>3. CASE y = 6
  <2>1. m.reg[Name(z, "HL")] \in Byte
    BY <1>2, <1>3
  <2>2. Load(m, y, z, xx) = Store(m, 6, xx, m.reg[Name(z, "HL")])
    BY <1>3 DEF Load
  <2> QED BY <2>1, <2>2, StoreType
<1>4. CASE y # 6 /\ z = 6
  <2> DEFINE n == Past(m, 6, xx)
  <2>1. Keeps(m, n, D)
    BY PastType
  <2>2. Load(m, y, z, xx) = [n EXCEPT !.reg[Name(y, "HL")] = Operand(m, 6, xx)]
    BY <1>4 DEF Load
  <2> HIDE DEF n
  <2>3. Operand(m, 6, xx) \in Byte /\ Name(y, "HL") \in Registers
    BY <1>2, <1>4, OperandType
  <2> QED BY <2>1, <2>2, <2>3, RegThen
<1>5. CASE y # 6 /\ z # 6
  <2>1. Load(m, y, z, xx) = [m EXCEPT !.reg[Name(y, xx)] = m.reg[Name(z, xx)]]
    BY <1>5 DEF Load
  <2> QED BY <1>2, <1>5, <2>1, WithReg
<1> QED BY <1>3, <1>4, <1>5

LEMMA WithHALT ==
  ASSUME NEW D, NEW m \in Machines(D)
  PROVE  /\ Keeps(m, [m EXCEPT !.HALT = TRUE], D)
         /\ Keeps(m, [m EXCEPT !.HALT = FALSE], D)
BY DEF Keeps, Machines

LEMMA HALTType ==
  ASSUME NEW D, NEW m \in Machines(D)
  PROVE  Keeps(m, HALT(m), D)
<1> DEFINE w == (m.PC - 1) % 65536
           n == Jump(m, w)
<1>1. Keeps(m, n, D)
  BY Fields, WordIs, Remainders, JumpType
<1>2. HALT(m) = [n EXCEPT !.HALT = TRUE]
  <2>1. HALT(m) = [m EXCEPT !.PC = w, !.HALT = TRUE]
    BY DEF HALT
  <2> HIDE DEF w
  <2> QED BY <2>1 DEF Jump, Machines
<1> HIDE DEF n
<1>3. Keeps(n, [n EXCEPT !.HALT = TRUE], D)
  BY <1>1, Kept, WithHALT
<1> QED BY <1>1, <1>2, <1>3, Then

LEMMA StackPairType ==
  ASSUME NEW y \in 0 .. 7, NEW xx \in Indexes
  PROVE  StackPair(y, xx) \in Pairs
<1>1. y \div 2 \in 0 .. 3
  OBVIOUS
<1>2. "AF" \in Pairs
  BY DEF Pairs
<1> QED BY <1>1, <1>2, PairType DEF StackPair

LEMMA StackType ==
  ASSUME NEW D, NEW m \in Machines(D), NEW y \in 0 .. 7, NEW xx \in Indexes
  PROVE  Keeps(m, Stack(m, y, xx), D)
<1>1. Keeps(m, M_POP(m, StackPair(y, xx)), D)
  BY StackPairType, PopType
<1>2. Keeps(m, M_RET(m), D)
  BY JumpTypes
<1>3. Keeps(m, Swapped(m, Main \ {"A", "F"}, m.alt), D)
  BY SwapTypes
<1>4. Get(m, xx) \in Word /\ Get(m, xx) \in Int
  BY IndexPairs, GetType, WordIs
<1>5. Keeps(m, Jump(m, Get(m, xx)), D)
  BY <1>4, JumpType
<1>6. Keeps(m, Put(m, "SP", Get(m, xx)), D)
  BY <1>4, StackIs, PutType
<1>7. y % 2 = 0 \/ y = 1 \/ y = 3 \/ y = 5 \/ y = 7
  OBVIOUS
<1> QED BY <1>1, <1>2, <1>3, <1>5, <1>6, <1>7 DEF Stack

\* What may become of IFF1, IFF2 and EI: as they were, or as DI, EI and RETN leave them.
Passes(m, n, D) ==
  /\ n \in Machines(D)
  /\ \/ n.IFF1 = m.IFF1 /\ n.IFF2 = m.IFF2 /\ n.EI = m.EI
     \/ n.IFF1 = FALSE /\ n.IFF2 = FALSE /\ n.EI = FALSE
     \/ ~m.IFF1 /\ n.IFF1 = FALSE /\ n.IFF2 = TRUE /\ n.EI = TRUE
     \/ n.IFF1 = m.IFF2 /\ n.IFF2 = m.IFF2 /\ n.EI = m.EI

LEMMA KeepsPasses ==
  ASSUME NEW D, NEW m, NEW n, Keeps(m, n, D)
  PROVE  Passes(m, n, D)
BY DEF Keeps, Passes

LEMMA PassesThen ==
  ASSUME NEW D, NEW m, NEW n, NEW o, Keeps(m, n, D), Passes(n, o, D)
  PROVE  Passes(m, o, D)
BY DEF Keeps, Passes

LEMMA DIType ==
  ASSUME NEW D, NEW m \in Machines(D)
  PROVE  /\ DI(m) \in Machines(D)
         /\ DI(m).IFF1 = FALSE /\ DI(m).IFF2 = FALSE /\ DI(m).EI = FALSE
BY DEF DI, Machines

LEMMA EIType ==
  ASSUME NEW D, NEW m \in Machines(D)
  PROVE  Passes(m, EI(m), D)
<1>1. CASE m.IFF1 \/ m.EI
  <2>1. EI(m) = m
    BY <1>1 DEF EI
  <2> QED BY <2>1, Stays, KeepsPasses
<1>2. CASE ~(m.IFF1 \/ m.EI)
  <2> DEFINE n == [m EXCEPT !.IFF2 = TRUE, !.EI = TRUE]
  <2>1. EI(m) = n
    BY <1>2 DEF EI
  <2>2. n \in Machines(D) /\ n.IFF1 = m.IFF1 /\ n.IFF2 = TRUE /\ n.EI = TRUE
    BY DEF Machines
  <2>3. m.IFF1 = FALSE
    BY <1>2, Fields
  <2> HIDE DEF n
  <2> QED BY <2>1, <2>2, <2>3 DEF Passes
<1> QED BY <1>1, <1>2

LEMMA ControlType ==
  ASSUME NEW D, NEW m \in Machines(D), NEW y \in 0 .. 7, y # 1, NEW xx \in Indexes
  PROVE  Passes(m, Control(m, y, xx), D)
<1> DEFINE s == Get(m, "SP")
           n == Skip(m, 1)
           i == [Taken(n) EXCEPT !.reg["A"] = InZ80(m)]
           e == WrWord(m, s, xx)
           x == Put(m, "DE", Get(m, "HL"))
<1>1. Control(m, y, xx) =
        CASE y = 0 -> M_JP(m)
          [] y = 2 -> OutZ80(n, OpZ80(m), m.reg["A"])
          [] y = 3 -> i
          [] y = 4 -> Put(e, xx, Word2(m, s))
          [] y = 5 -> Put(x, "HL", Get(m, "DE"))
          [] y = 6 -> DI(m)
          [] y = 7 -> EI(m)
  BY DEF Control
<1>2. "DE" \in Pairs /\ "HL" \in Pairs /\ xx \in Pairs /\ "A" \in Registers
  BY IndexPairs DEF Pairs, Registers, Main
<1>3. Keeps(m, M_JP(m), D)
  BY JumpTypes
<1>4. Keeps(m, n, D)
  BY SkipType
<1>5. Keeps(m, OutZ80(n, OpZ80(m), m.reg["A"]), D)
  <2> HIDE DEF n
  <2>1. OpZ80(m) \in Int /\ m.reg["A"] \in Byte
    BY RdType, ByteIs, AFType DEF OpZ80
  <2> QED BY <1>4, <2>1, Kept, OutType, Then
<1>6. Keeps(m, i, D)
  <2> HIDE DEF n
  <2>1. Keeps(m, Taken(n), D)
    BY <1>4, Kept, PortTypes, Then
  <2>2. InZ80(m) \in Byte
    BY PortTypes
  <2> QED BY <1>2, <2>1, <2>2, RegThen
<1>7. Keeps(m, Put(e, xx, Word2(m, s)), D)
  <2>1. Keeps(m, e, D)
    BY <1>2, WrWordType
  <2> HIDE DEF e, s
  <2> QED BY <1>2, <2>1, Word2Type, WordIs, PutThen
<1>8. Keeps(m, Put(x, "HL", Get(m, "DE")), D)
  <2>1. Keeps(m, x, D) /\ Get(m, "DE") \in Int
    BY <1>2, GetType, WordIs, PutType
  <2> HIDE DEF x
  <2> QED BY <1>2, <2>1, PutThen
<1>9. Passes(m, DI(m), D)
  BY DIType DEF Passes
<1> HIDE DEF s, n, i, e, x
<1>10. /\ Passes(m, M_JP(m), D) /\ Passes(m, OutZ80(n, OpZ80(m), m.reg["A"]), D)
       /\ Passes(m, i, D) /\ Passes(m, Put(e, xx, Word2(m, s)), D)
       /\ Passes(m, Put(x, "HL", Get(m, "DE")), D)
  BY <1>3, <1>5, <1>6, <1>7, <1>8, KeepsPasses
<1>11. y \in {0, 2, 3, 4, 5, 6, 7}
  OBVIOUS
<1> QED BY <1>1, <1>9, <1>10, <1>11, EIType

\* The fields of an opcode.
LEMMA OpcodeFields ==
  ASSUME NEW op \in Byte
  PROVE  /\ op \div 64 \in 0 .. 3 /\ (op \div 8) % 8 \in 0 .. 7 /\ op % 8 \in 0 .. 7
         /\ op = 64 * (op \div 64) + 8 * ((op \div 8) % 8) + (op % 8)
         /\ op \in Int
<1>1. op \in Int /\ 0 <= op /\ op <= 255
  BY ByteIs
<1> QED BY <1>1

LEMMA CodesType ==
  ASSUME NEW D, NEW m \in Machines(D), NEW op \in Byte, op # CB, NEW xx \in Indexes
  PROVE  Passes(m, Codes(m, op, xx), D)
<1> DEFINE x == op \div 64
           y == (op \div 8) % 8
           z == op % 8
<1>1. /\ x \in 0 .. 3 /\ y \in 0 .. 7 /\ z \in 0 .. 7
      /\ op = 64 * x + 8 * y + z /\ op \in Int
  BY OpcodeFields
<1> DEFINE alu == ALU(Past(m, z, xx), y, Operand(m, z, xx))
           imm == ALU(Skip(m, 1), y, OpZ80(m))
           ret == IF Holds(m, y) THEN M_RET(m) ELSE m
           jp == IF Holds(m, y) THEN M_JP(m) ELSE Skip(m, 2)
           call == IF Holds(m, y) THEN M_CALL(m) ELSE Skip(m, 2)
           push == IF y % 2 = 0 THEN M_PUSH(m, StackPair(y, xx)) ELSE M_CALL(m)
<1>2. Codes(m, op, xx) =
        CASE x = 0 /\ z = 0 -> Relative(m, y)
          [] x = 0 /\ z = 1 -> Words(m, y, xx)
          [] x = 0 /\ z = 2 -> Indirect(m, y, xx)
          [] x = 0 /\ z = 3 -> Count(m, y, xx)
          [] x = 0 /\ z \in {4, 5} -> Step8(m, y, z, xx)
          [] x = 0 /\ z = 6 -> Immediate(m, y, xx)
          [] x = 0 /\ z = 7 -> Accu(m, y)
          [] x = 1 /\ op = \h76 -> HALT(m)
          [] x = 1 /\ op # \h76 -> Load(m, y, z, xx)
          [] x = 2 -> alu
          [] x = 3 /\ z = 0 -> ret
          [] x = 3 /\ z = 1 -> Stack(m, y, xx)
          [] x = 3 /\ z = 2 -> jp
          [] x = 3 /\ z = 3 -> Control(m, y, xx)
          [] x = 3 /\ z = 4 -> call
          [] x = 3 /\ z = 5 -> push
          [] x = 3 /\ z = 6 -> imm
          [] x = 3 /\ z = 7 -> M_RST(m, 8 * y)
  BY DEF Codes
<1>3. x = 3 /\ z = 3 => y # 1
  <2> SUFFICES ASSUME x = 3, z = 3, y = 1 PROVE FALSE
    OBVIOUS
  <2>1. op = 64 * 3 + 8 * 1 + 3
    BY <1>1
  <2> QED BY <2>1 DEF CB
<1>4. x = 1 /\ op # \h76 => ~(y = 6 /\ z = 6)
  <2> SUFFICES ASSUME x = 1, op # \h76, y = 6, z = 6 PROVE FALSE
    OBVIOUS
  <2>1. op = 64 * 1 + 8 * 6 + 6
    BY <1>1
  <2> QED BY <2>1
<1> HIDE DEF x, y, z
<1>5. Keeps(m, m, D) /\ Keeps(m, M_RET(m), D) /\ Keeps(m, M_JP(m), D) /\ Keeps(m, M_CALL(m), D)
      /\ Keeps(m, Skip(m, 2), D) /\ Keeps(m, Skip(m, 1), D)
  BY Stays, JumpTypes, SkipType
<1>6. Keeps(m, alu, D)
  <2> DEFINE n == Past(m, z, xx)
             b == Operand(m, z, xx)
  <2>1. Keeps(m, n, D) /\ b \in Byte
    BY <1>1, PastType, OperandType
  <2> HIDE DEF n, b
  <2>2. Keeps(n, ALU(n, y, b), D)
    BY <1>1, <2>1, Kept, ALUType
  <2>3. Keeps(m, ALU(n, y, b), D)
    BY <2>1, <2>2, Then
  <2> QED BY <2>3 DEF n, b
<1>7. Keeps(m, imm, D)
  <2> DEFINE n == Skip(m, 1)
             b == OpZ80(m)
  <2>1. Keeps(m, n, D) /\ b \in Byte
    BY <1>5, RdType DEF OpZ80
  <2> HIDE DEF n, b
  <2>2. Keeps(n, ALU(n, y, b), D)
    BY <1>1, <2>1, Kept, ALUType
  <2>3. Keeps(m, ALU(n, y, b), D)
    BY <2>1, <2>2, Then
  <2> QED BY <2>3 DEF n, b
<1>8. Keeps(m, ret, D) /\ Keeps(m, jp, D) /\ Keeps(m, call, D)
  BY <1>5
<1>9. Keeps(m, push, D)
  BY <1>1, <1>5, StackPairType, PushType
<1>10. Keeps(m, M_RST(m, 8 * y), D)
  <2>1. 8 * y \in Word
    BY <1>1, IsWord
  <2> QED BY <2>1, JumpTypes
<1> HIDE DEF alu, imm, ret, jp, call, push
<1>11. CASE x = 0
  <2>1. /\ Keeps(m, Relative(m, y), D) /\ Keeps(m, Words(m, y, xx), D)
        /\ Keeps(m, Indirect(m, y, xx), D) /\ Keeps(m, Count(m, y, xx), D)
        /\ z \in {4, 5} => Keeps(m, Step8(m, y, z, xx), D)
        /\ Keeps(m, Immediate(m, y, xx), D) /\ Keeps(m, Accu(m, y), D)
    BY <1>1, RelativeType, WordsType, IndirectType, CountType, Step8Type, ImmediateType, AccuType
  <2>2. \/ z = 0 /\ Codes(m, op, xx) = Relative(m, y)
        \/ z = 1 /\ Codes(m, op, xx) = Words(m, y, xx)
        \/ z = 2 /\ Codes(m, op, xx) = Indirect(m, y, xx)
        \/ z = 3 /\ Codes(m, op, xx) = Count(m, y, xx)
        \/ z \in {4, 5} /\ Codes(m, op, xx) = Step8(m, y, z, xx)
        \/ z = 6 /\ Codes(m, op, xx) = Immediate(m, y, xx)
        \/ z = 7 /\ Codes(m, op, xx) = Accu(m, y)
    BY <1>1, <1>2, <1>11
  <2>3. Keeps(m, Codes(m, op, xx), D)
    BY <2>1, <2>2
  <2> QED BY <2>3, KeepsPasses
<1>12. CASE x = 1
  <2>1. CASE op = \h76
    <3>1. Codes(m, op, xx) = HALT(m)
      BY <1>2, <1>12, <2>1
    <3> QED BY <3>1, HALTType, KeepsPasses
  <2>2. CASE op # \h76
    <3>1. Codes(m, op, xx) = Load(m, y, z, xx)
      BY <1>2, <1>12, <2>2
    <3>2. Keeps(m, Load(m, y, z, xx), D)
      BY <1>1, <1>4, <1>12, <2>2, LoadType
    <3> QED BY <3>1, <3>2, KeepsPasses
  <2> QED BY <2>1, <2>2
<1>13. CASE x = 2
  <2>1. Codes(m, op, xx) = alu
    BY <1>2, <1>13
  <2> QED BY <1>6, <2>1, KeepsPasses
<1>14. CASE x = 3
  <2>1. \/ z = 0 /\ Codes(m, op, xx) = ret
        \/ z = 1 /\ Codes(m, op, xx) = Stack(m, y, xx)
        \/ z = 2 /\ Codes(m, op, xx) = jp
        \/ z = 3 /\ Codes(m, op, xx) = Control(m, y, xx)
        \/ z = 4 /\ Codes(m, op, xx) = call
        \/ z = 5 /\ Codes(m, op, xx) = push
        \/ z = 6 /\ Codes(m, op, xx) = imm
        \/ z = 7 /\ Codes(m, op, xx) = M_RST(m, 8 * y)
    BY <1>1, <1>2, <1>14
  <2>2. Keeps(m, Stack(m, y, xx), D)
    BY <1>1, StackType
  <2>3. z = 3 => Passes(m, Control(m, y, xx), D)
    BY <1>1, <1>3, <1>14, ControlType
  <2>4. z # 3 => Keeps(m, Codes(m, op, xx), D)
    BY <1>7, <1>8, <1>9, <1>10, <2>1, <2>2
  <2>5. z = 3 => Codes(m, op, xx) = Control(m, y, xx)
    BY <2>1
  <2> QED BY <2>3, <2>4, <2>5, KeepsPasses
<1> QED BY <1>1, <1>11, <1>12, <1>13, <1>14

LEMMA CodesCBType ==
  ASSUME NEW D, NEW m \in Machines(D), NEW op \in Byte
  PROVE  Keeps(m, CodesCB(m, op), D)
<1> DEFINE z == op % 8
           is == OnBits(op, Operand(m, z, "HL"), m.reg["F"])
           n == SetF(m, is.F)
<1>1. z \in 0 .. 7 /\ "HL" \in Indexes
  BY OpcodeFields DEF Indexes
<1>2. CodesCB(m, op) = IF Stores(op) THEN Store(n, z, "HL", is.byte) ELSE n
  BY DEF CodesCB
<1> HIDE DEF z
<1>3. Result(is)
  BY <1>1, OperandType, AFType, OnBitsType
<1> HIDE DEF is
<1>4. Keeps(m, n, D)
  BY <1>3, SetFType DEF Result
<1> HIDE DEF n
<1>5. Keeps(n, Store(n, z, "HL", is.byte), D)
  BY <1>1, <1>3, <1>4, Kept, StoreType DEF Result
<1>6. Keeps(m, Store(n, z, "HL", is.byte), D)
  BY <1>4, <1>5, Then
<1> QED BY <1>2, <1>4, <1>6

LEMMA CodesXCBType ==
  ASSUME NEW D, NEW m \in Machines(D), NEW op \in Byte, NEW place
  PROVE  Keeps(m, CodesXCB(m, op, place), D)
<1> DEFINE is == OnBits(op, RdZ80(m, place), m.reg["F"])
           n == SetF(m, is.F)
<1>1. CodesXCB(m, op, place) =
        CASE ~Stores(op) -> n
          [] Stores(op) /\ op % 8 = 6 -> WrZ80(n, place, is.byte)
          [] OTHER -> m
  BY DEF CodesXCB
<1>2. Result(is)
  BY RdType, AFType, OnBitsType
<1> HIDE DEF is
<1>3. Keeps(m, n, D)
  BY <1>2, SetFType DEF Result
<1> HIDE DEF n
<1>4. Keeps(m, WrZ80(n, place, is.byte), D)
  BY <1>2, <1>3, WrThen DEF Result
<1>5. Stores(op) \in BOOLEAN
  BY DEF Stores
<1> QED BY <1>1, <1>3, <1>4, <1>5, Stays

\* The second table.
LEMMA AgainType ==
  ASSUME NEW D, NEW m, NEW n, Keeps(m, n, D), NEW more
  PROVE  Keeps(m, Again(n, more), D)
<1>1. Keeps(m, Skip(n, -2), D)
  BY SkipThen
<1> QED BY <1>1 DEF Again

LEMMA BlockPairs ==
  /\ {"BC", "DE", "HL"} \subseteq Pairs
  /\ {"A", "B", "C", "F", "L"} \subseteq Registers
BY DEF Pairs, Registers, Main

LEMMA BlockLoadType ==
  ASSUME NEW D, NEW m \in Machines(D), NEW by \in {-1, 1}, NEW repeat \in BOOLEAN
  PROVE  Keeps(m, BlockLoad(m, by, repeat), D)
<1> DEFINE n == WrZ80(m, Get(m, "DE"), RdZ80(m, Get(m, "HL")))
           left == (Get(m, "BC") - 1) % 65536
           o == Put(n, "DE", Get(m, "DE") + by)
           p == Put(o, "HL", Get(m, "HL") + by)
           done == Put(p, "BC", left)
           f == m.reg["F"]
           w == Without(f, TRUE, TRUE, TRUE, FALSE)
           f1 == IF left = 0 THEN w ELSE w + N_FLAG
           f2 == w + If(left # 0, P_FLAG)
<1>1. BlockLoad(m, by, repeat) =
        IF repeat THEN Again(SetF(done, f1), left # 0) ELSE SetF(done, f2)
  BY DEF BlockLoad
<1>2. Get(m, "DE") \in Int /\ Get(m, "HL") \in Int /\ Get(m, "BC") \in Int
  BY BlockPairs, GetType, WordIs
<1>3. left \in Int /\ Get(m, "DE") + by \in Int /\ Get(m, "HL") + by \in Int
  BY <1>2
<1>4. Keeps(m, n, D)
  BY RdType, WrType
<1>5. f1 \in Byte /\ f2 \in Byte
  <2>1. Room(w)
    <3> HIDE DEF f
    <3>1. f \in Byte
      BY AFType DEF f
    <3> QED BY <3>1, WithoutTypes
  <2>2. If(left # 0, P_FLAG) \in {0, 4}
    BY IfType DEF P_FLAG
  <2> HIDE DEF w, left
  <2> QED BY <2>1, <2>2, IsByte DEF Room, N_FLAG
<1> HIDE DEF n, left, f1, f2, f, w
<1>6. Keeps(m, o, D)
  BY <1>3, <1>4, BlockPairs, PutThen
<1> HIDE DEF o
<1>7. Keeps(m, p, D)
  BY <1>3, <1>6, BlockPairs, PutThen
<1> HIDE DEF p
<1>8. Keeps(m, done, D)
  BY <1>3, <1>7, BlockPairs, PutThen
<1> HIDE DEF done
<1>9. Keeps(m, SetF(done, f1), D) /\ Keeps(m, SetF(done, f2), D)
  BY <1>5, <1>8, SetFThen
<1>10. Keeps(m, Again(SetF(done, f1), left # 0), D)
  BY <1>9, AgainType
<1> QED BY <1>1, <1>9, <1>10

LEMMA BlockCompareType ==
  ASSUME NEW D, NEW m \in Machines(D), NEW by \in {-1, 1}, NEW repeat \in BOOLEAN
  PROVE  Keeps(m, BlockCompare(m, by, repeat), D)
<1> DEFINE b == RdZ80(m, Get(m, "HL"))
           a == m.reg["A"]
           r == (a - b) % 256
           left == (Get(m, "BC") - 1) % 65536
           o == Put(m, "HL", Get(m, "HL") + by)
           done == Put(o, "BC", left)
           f == N_FLAG + Carry(m.reg["F"]) + ZSTable(r) + HalfCarry(a, b, r) + If(left # 0, P_FLAG)
<1>1. BlockCompare(m, by, repeat) = Again(SetF(done, f), repeat /\ left # 0 /\ r # 0)
  BY DEF BlockCompare
<1>2. Get(m, "HL") \in Int /\ Get(m, "BC") \in Int
  BY BlockPairs, GetType, WordIs
<1>3. left \in Int /\ Get(m, "HL") + by \in Int
  BY <1>2
<1>4. b \in Int /\ a \in Int /\ r \in Int
  <2>1. b \in Int /\ a \in Int
    BY RdType, AFType, ByteIs
  <2> HIDE DEF a, b
  <2> QED BY <2>1
<1>5. f \in Byte
  <2> DEFINE c == Carry(m.reg["F"])
             s == ZSTable(r)
             h == HalfCarry(a, b, r)
             v == If(left # 0, P_FLAG)
  <2>1. c \in {0, 1} /\ v \in {0, 4}
    BY AFType, CarryType, IfType DEF P_FLAG
  <2>2. s \in Int /\ 0 <= s /\ s <= 192
    BY <1>4, TableTypes
  <2>3. h \in {0, 16}
    <3> HIDE DEF a, b, r
    <3>1. Bit(a, 4) \in {0, 1} /\ Bit(b, 4) \in {0, 1} /\ Bit(r, 4) \in {0, 1}
      BY <1>4, BitType
    <3> QED BY <3>1 DEF HalfCarry, H_FLAG
  <2>4. f = 2 + c + s + h + v
    BY DEF N_FLAG
  <2> HIDE DEF f, c, s, h, v
  <2> QED BY <2>1, <2>2, <2>3, <2>4, IsByte
<1> HIDE DEF left, f, r, a, b
<1>6. Keeps(m, o, D)
  BY <1>3, BlockPairs, PutType
<1> HIDE DEF o
<1>7. Keeps(m, done, D)
  BY <1>3, <1>6, BlockPairs, PutThen
<1> HIDE DEF done
<1>8. Keeps(m, SetF(done, f), D)
  BY <1>5, <1>7, SetFThen
<1> QED BY <1>1, <1>8, AgainType

LEMMA BlockInType ==
  ASSUME NEW D, NEW m \in Machines(D), NEW by \in {-1, 1}, NEW repeat \in BOOLEAN
  PROVE  Keeps(m, BlockIn(m, by, repeat), D)
<1> DEFINE l == WrZ80(m, Get(m, "HL"), InZ80(m))
           n == Taken(l)
           left == (m.reg["B"] - 1) % 256
           o == Put(n, "HL", Get(m, "HL") + by)
           done == [o EXCEPT !.reg["B"] = left]
           more == IF by = 1 THEN left # 0 ELSE left = 0
           f1 == N_FLAG + If(~more, Z_FLAG)
           f2 == N_FLAG + If(left = 0, Z_FLAG)
<1>1. BlockIn(m, by, repeat) =
        IF repeat THEN Again(SetF(done, f1), more) ELSE SetF(done, f2)
  BY DEF BlockIn
<1>2. Get(m, "HL") \in Int /\ m.reg["B"] \in Int
  BY BlockPairs, GetType, WordIs, RegType, ByteIs
<1>3. left \in Byte /\ Get(m, "HL") + by \in Int
  BY <1>2, Remainders
<1>4. Keeps(m, l, D)
  BY PortTypes, WrType
<1>5. f1 \in Byte /\ f2 \in Byte
  <2>1. If(~more, Z_FLAG) \in {0, 64} /\ If(left = 0, Z_FLAG) \in {0, 64}
    BY IfType DEF Z_FLAG
  <2> HIDE DEF more, left
  <2> QED BY <2>1, IsByte DEF N_FLAG
<1> HIDE DEF l, left, f1, f2, more
<1>6. Keeps(m, n, D)
  BY <1>4, Kept, PortTypes, Then
<1> HIDE DEF n
<1>7. Keeps(m, o, D)
  BY <1>3, <1>6, BlockPairs, PutThen
<1> HIDE DEF o
<1>8. Keeps(m, done, D)
  BY <1>3, <1>7, BlockPairs, RegThen
<1> HIDE DEF done
<1>9. Keeps(m, SetF(done, f1), D) /\ Keeps(m, SetF(done, f2), D)
  BY <1>5, <1>8, SetFThen
<1>10. Keeps(m, Again(SetF(done, f1), more), D)
  BY <1>9, AgainType
<1> QED BY <1>1, <1>9, <1>10

LEMMA BlockOutType ==
  ASSUME NEW D, NEW m \in Machines(D), NEW by \in {-1, 1}, NEW repeat \in BOOLEAN
  PROVE  Keeps(m, BlockOut(m, by, repeat), D)
<1> DEFINE left == (m.reg["B"] - 1) % 256
           v == RdZ80(m, Get(m, "HL"))
           o == Put(m, "HL", Get(m, "HL") + by)
           p == [o EXCEPT !.reg["B"] = left]
           done == OutZ80(p, m.reg["C"], v)
           f == N_FLAG + If(left = 0, Z_FLAG) + If(done.reg["L"] + v > 255, C_FLAG + H_FLAG)
<1>1. BlockOut(m, by, repeat) = Again(SetF(done, f), repeat /\ left # 0)
  BY DEF BlockOut
<1>2. Get(m, "HL") \in Int /\ m.reg["B"] \in Int /\ m.reg["C"] \in Int
  BY BlockPairs, GetType, WordIs, RegType, ByteIs
<1>3. left \in Byte /\ Get(m, "HL") + by \in Int /\ v \in Byte
  BY <1>2, Remainders, RdType
<1>4. f \in Byte
  <2>1. If(left = 0, Z_FLAG) \in {0, 64} /\ If(done.reg["L"] + v > 255, 17) \in {0, 17}
    BY IfType DEF Z_FLAG
  <2>2. C_FLAG + H_FLAG = 17
    BY DEF C_FLAG, H_FLAG
  <2> HIDE DEF done, left, v
  <2> QED BY <2>1, <2>2, IsByte DEF N_FLAG
<1> HIDE DEF left, f, v
<1>5. Keeps(m, o, D)
  BY <1>3, BlockPairs, PutType
<1> HIDE DEF o
<1>6. Keeps(m, p, D)
  BY <1>3, <1>5, BlockPairs, RegThen
<1> HIDE DEF p
<1>7. Keeps(m, done, D)
  BY <1>2, <1>3, <1>6, Kept, OutType, Then
<1> HIDE DEF done
<1>8. Keeps(m, SetF(done, f), D)
  BY <1>4, <1>7, SetFThen
<1> QED BY <1>1, <1>8, AgainType

LEMMA BlockType ==
  ASSUME NEW D, NEW m \in Machines(D), NEW y \in 0 .. 7, NEW z \in 0 .. 3
  PROVE  Keeps(m, Block(m, y, z), D)
<1> DEFINE by == IF y % 2 = 0 THEN 1 ELSE -1
           repeat == y > 5
<1>1. Block(m, y, z) =
        CASE z = 0 -> BlockLoad(m, by, repeat) [] z = 1 -> BlockCompare(m, by, repeat)
          [] z = 2 -> BlockIn(m, by, repeat)   [] z = 3 -> BlockOut(m, by, repeat)
  BY DEF Block
<1>2. by \in {-1, 1} /\ repeat \in BOOLEAN
  OBVIOUS
<1> HIDE DEF by, repeat
<1>3. /\ Keeps(m, BlockLoad(m, by, repeat), D) /\ Keeps(m, BlockCompare(m, by, repeat), D)
      /\ Keeps(m, BlockIn(m, by, repeat), D) /\ Keeps(m, BlockOut(m, by, repeat), D)
  BY <1>2, BlockLoadType, BlockCompareType, BlockInType, BlockOutType
<1>4. z \in {0, 1, 2, 3}
  OBVIOUS
<1> QED BY <1>1, <1>3, <1>4

LEMMA DigitTypes ==
  ASSUME NEW a \in Byte, NEW x \in Byte
  PROVE  /\ 16 * (a \div 16) + (x % 16) \in Byte /\ x \div 16 + 16 * (a % 16) \in Byte
         /\ 16 * (a \div 16) + x \div 16 \in Byte /\ 16 * (x % 16) + (a % 16) \in Byte
<1>1. a \in Int /\ 0 <= a /\ a <= 255 /\ x \in Int /\ 0 <= x /\ x <= 255
  BY ByteIs
<1>2. /\ a \div 16 \in Int /\ 0 <= a \div 16 /\ a \div 16 <= 15
      /\ x \div 16 \in Int /\ 0 <= x \div 16 /\ x \div 16 <= 15
      /\ a % 16 \in Int /\ 0 <= a % 16 /\ a % 16 <= 15
      /\ x % 16 \in Int /\ 0 <= x % 16 /\ x % 16 <= 15
  BY <1>1
<1> DEFINE p == a \div 16
           q == a % 16
           s == x \div 16
           t == x % 16
<1>3. /\ p \in Int /\ 0 <= p /\ p <= 15 /\ q \in Int /\ 0 <= q /\ q <= 15
      /\ s \in Int /\ 0 <= s /\ s <= 15 /\ t \in Int /\ 0 <= t /\ t <= 15
  BY <1>2
<1> HIDE DEF p, q, s, t
<1>4. 16 * p + t \in Byte /\ s + 16 * q \in Byte /\ 16 * p + s \in Byte /\ 16 * t + q \in Byte
  BY <1>3, IsByte
<1> QED BY <1>4 DEF p, q, s, t

LEMMA SpecialType ==
  ASSUME NEW D, NEW m \in Machines(D), NEW y \in 0 .. 7
  PROVE  Keeps(m, Special(m, y), D)
<1> DEFINE a == m.reg["A"]
           c == Carry(m.reg["F"])
           x == RdZ80(m, Get(m, "HL"))
           FromIR(v) == SetA(m, Is(v, c + If(m.IFF2, P_FLAG) + ZSTable(v)))
           Digits2(accu, byte) ==
             SetA(WrZ80(m, Get(m, "HL"), byte), Is(accu, PZSTable(accu) + c))
<1>1. Special(m, y) =
        CASE y = 0 -> [m EXCEPT !.reg["I"] = a]
          [] y = 1 -> [m EXCEPT !.reg["R"] = a]
          [] y = 2 -> FromIR(m.reg["I"])
          [] y = 3 -> FromIR(m.reg["R"])
          [] y = 4 -> Digits2(16 * (a \div 16) + (x % 16), x \div 16 + 16 * (a % 16))
          [] y = 5 -> Digits2(16 * (a \div 16) + x \div 16, 16 * (x % 16) + (a % 16))
          [] OTHER -> m
  BY DEF Special
<1>2. "I" \in Registers /\ "R" \in Registers
  BY DEF Registers, Main
<1>3. m.reg["I"] \in Byte /\ m.reg["R"] \in Byte
  BY <1>2, RegType
<1>4. a \in Byte /\ c \in {0, 1} /\ x \in Byte
  BY AFType, CarryType, RdType
<1> HIDE DEF a, c, x
<1>5. Keeps(m, [m EXCEPT !.reg["I"] = a], D) /\ Keeps(m, [m EXCEPT !.reg["R"] = a], D)
  BY <1>2, <1>4, WithReg
<1>6. ASSUME NEW v \in Byte PROVE Keeps(m, FromIR(v), D)
  <2> DEFINE f == c + If(m.IFF2, P_FLAG) + ZSTable(v)
  <2>1. If(m.IFF2, P_FLAG) \in {0, 4}
    BY DEF If, P_FLAG
  <2>2. ZSTable(v) \in Int /\ 0 <= ZSTable(v) /\ ZSTable(v) <= 192
    BY ByteIs, TableTypes
  <2>3. f \in Byte
    BY <1>4, <2>1, <2>2, IsByte
  <2> HIDE DEF f
  <2>4. Result(Is(v, f))
    BY <2>3 DEF Result, Is
  <2>5. Keeps(m, SetA(m, Is(v, f)), D)
    BY <2>4, SetAType
  <2> QED BY <2>5 DEF f
<1>7. ASSUME NEW accu \in Byte, NEW byte \in Byte PROVE Keeps(m, Digits2(accu, byte), D)
  <2> DEFINE f == PZSTable(accu) + c
             n == WrZ80(m, Get(m, "HL"), byte)
  <2>1. PZSTable(accu) \in Int /\ 0 <= PZSTable(accu) /\ PZSTable(accu) <= 196
    BY ByteIs, TableTypes
  <2>2. f \in Byte
    BY <1>4, <2>1, IsByte
  <2>3. Keeps(m, n, D)
    BY WrType
  <2> HIDE DEF f, n
  <2>4. Result(Is(accu, f))
    BY <2>2 DEF Result, Is
  <2>5. Keeps(m, SetA(n, Is(accu, f)), D)
    BY <2>3, <2>4, SetAThen
  <2> QED BY <2>5 DEF f, n
<1>8. /\ Keeps(m, FromIR(m.reg["I"]), D) /\ Keeps(m, FromIR(m.reg["R"]), D)
  BY <1>3, <1>6
<1>9. /\ Keeps(m, Digits2(16 * (a \div 16) + (x % 16), x \div 16 + 16 * (a % 16)), D)
      /\ Keeps(m, Digits2(16 * (a \div 16) + x \div 16, 16 * (x % 16) + (a % 16)), D)
  BY <1>4, <1>7, DigitTypes
<1> HIDE DEF FromIR, Digits2
<1> QED BY <1>1, <1>5, <1>8, <1>9, Stays

LEMMA PortCType ==
  ASSUME NEW D, NEW m \in Machines(D), NEW y \in 0 .. 7, NEW z \in {0, 1}
  PROVE  Keeps(m, PortC(m, y, z), D)
<1> DEFINE v == InZ80(m)
           t == Taken(m)
           f == PZSTable(v) + Carry(m.reg["F"])
           n == SetF(t, f)
           w == IF y = 6 THEN 0 ELSE m.reg[Name(y, "HL")]
<1>1. PortC(m, y, z) =
        IF z = 0 THEN IF y = 6 THEN n ELSE [n EXCEPT !.reg[Name(y, "HL")] = v]
        ELSE OutZ80(m, m.reg["C"], w)
  BY DEF PortC
<1>2. y # 6 => Name(y, "HL") \in Registers
  BY NameType DEF Indexes
<1>3. v \in Byte /\ Keeps(m, t, D)
  BY PortTypes
<1>4. f \in Byte
  <2> DEFINE p == PZSTable(v)
             c == Carry(m.reg["F"])
  <2>1. p \in Int /\ 0 <= p /\ p <= 196 /\ c \in {0, 1}
    BY <1>3, ByteIs, TableTypes, AFType, CarryType
  <2>2. f = p + c
    OBVIOUS
  <2> HIDE DEF f, p, c
  <2> QED BY <2>1, <2>2, IsByte
<1>5. w \in Byte /\ m.reg["C"] \in Int
  BY <1>2, RegType, BlockPairs, ByteIs, IsByte
<1> HIDE DEF v, t, f, w
<1>6. Keeps(m, n, D)
  BY <1>3, <1>4, SetFThen
<1> HIDE DEF n
<1>7. y # 6 => Keeps(m, [n EXCEPT !.reg[Name(y, "HL")] = v], D)
  BY <1>2, <1>3, <1>6, RegThen
<1>8. Keeps(m, OutZ80(m, m.reg["C"], w), D)
  BY <1>5, OutType
<1> QED BY <1>1, <1>6, <1>7, <1>8

LEMMA WordsCarryType ==
  ASSUME NEW D, NEW m \in Machines(D), NEW y \in 0 .. 7
  PROVE  Keeps(m, WordsCarry(m, y), D)
<1> DEFINE c == Carry(m.reg["F"])
           hl == Get(m, "HL")
           rr == Get(m, Pair(y \div 2, "HL"))
           is == IF y % 2 = 0 THEN M_SBCW(hl, rr, c) ELSE M_ADCW(hl, rr, c)
           n == Put(m, "HL", is.word)
<1>1. WordsCarry(m, y) = SetF(n, is.F)
  BY DEF WordsCarry
<1>2. Pair(y \div 2, "HL") \in Pairs /\ "HL" \in Pairs
  <2>1. y \div 2 \in 0 .. 3 /\ "HL" \in Indexes
    BY DEF Indexes
  <2> QED BY <2>1, PairType, IndexPairs
<1>3. c \in {0, 1} /\ hl \in Word /\ rr \in Word
  BY <1>2, AFType, CarryType, GetType
<1>4. ResultW(is)
  <2> HIDE DEF c, hl, rr
  <2> QED BY <1>3, CarryWordTypes
<1> HIDE DEF is
<1>5. is.word \in Int /\ is.F \in Byte
  BY <1>4, WordIs DEF ResultW
<1>6. Keeps(m, n, D)
  BY <1>2, <1>5, PutType
<1> HIDE DEF n
<1> QED BY <1>1, <1>5, <1>6, SetFThen

LEMMA WordsMemoryType ==
  ASSUME NEW D, NEW m \in Machines(D), NEW y \in 0 .. 7
  PROVE  Keeps(m, WordsMemory(m, y), D)
<1> DEFINE p == Pair(y \div 2, "HL")
           nn == Word2(m, m.PC)
           n == Skip(m, 2)
<1>1. WordsMemory(m, y) = IF y % 2 = 0 THEN WrWord(n, nn, p) ELSE Put(n, p, Word2(m, nn))
  BY DEF WordsMemory
<1>2. p \in Pairs
  <2>1. y \div 2 \in 0 .. 3 /\ "HL" \in Indexes
    BY DEF Indexes
  <2> QED BY <2>1, PairType
<1>3. Keeps(m, n, D)
  BY SkipType
<1> HIDE DEF p, n, nn
<1>4. Keeps(m, WrWord(n, nn, p), D)
  BY <1>2, <1>3, Kept, WrWordType, Then
<1>5. Keeps(m, Put(n, p, Word2(m, nn)), D)
  BY <1>2, <1>3, Word2Type, WordIs, PutThen
<1> QED BY <1>1, <1>4, <1>5

LEMMA ModeType ==
  ASSUME NEW D, NEW m \in Machines(D), NEW i \in 0 .. 2
  PROVE  Keeps(m, [m EXCEPT !.IM = i], D)
BY DEF Keeps, Machines

LEMMA RETNType ==
  ASSUME NEW D, NEW m \in Machines(D)
  PROVE  Passes(m, M_RET([m EXCEPT !.IFF1 = m.IFF2]), D)
<1> DEFINE n == [m EXCEPT !.IFF1 = m.IFF2]
           o == M_RET(n)
<1>1. n \in Machines(D) /\ n.IFF1 = m.IFF2 /\ n.IFF2 = m.IFF2 /\ n.EI = m.EI
  BY DEF Machines
<1> HIDE DEF n
<1>2. Keeps(n, o, D)
  BY <1>1, JumpTypes
<1> HIDE DEF o
<1>3. Passes(m, o, D)
  BY <1>1, <1>2 DEF Keeps, Passes
<1> QED BY <1>3 DEF o, n

LEMMA CodesEDType ==
  ASSUME NEW D, NEW m \in Machines(D), NEW op \in Byte
  PROVE  Passes(m, CodesED(m, op), D)
<1> DEFINE x == op \div 64
           y == (op \div 8) % 8
           z == op % 8
           neg == SetA(m, M_SBC(0, m.reg["A"], 0))
           retn == M_RET([m EXCEPT !.IFF1 = m.IFF2])
           i0 == [m EXCEPT !.IM = 0]
           i1 == [m EXCEPT !.IM = 1]
           i2 == [m EXCEPT !.IM = 2]
           portc == PortC(m, y, z)
           wordsCarry == WordsCarry(m, y)
           wordsMemory == WordsMemory(m, y)
           special == Special(m, y)
           block == Block(m, y, z)
           back == Skip(m, -1)
           isPortc == x = 1 /\ z \in {0, 1}
           isBlock == x = 2 /\ y > 3 /\ z < 4
           result == CodesED(m, op)
           Passed == {n \in Machines(D) : Passes(m, n, D)}
<1>1. x \in 0 .. 3 /\ y \in 0 .. 7 /\ z \in 0 .. 7
  BY OpcodeFields
<1>2. result =
        CASE isPortc -> portc
          [] x = 1 /\ z = 2 -> wordsCarry
          [] x = 1 /\ z = 3 -> wordsMemory
          [] op = \h44 -> neg
          [] op \in {\h45, \h4D} -> retn
          [] op = \h46 -> i0
          [] op = \h56 -> i1
          [] op = \h5E -> i2
          [] x = 1 /\ z = 7 -> special
          [] isBlock -> block
          [] op = ED -> back
          [] OTHER -> m
  BY DEF CodesED
<1>3. Keeps(m, neg, D)
  <2>1. Result(M_SBC(0, m.reg["A"], 0))
    BY AFType, IsByte, SubtractType
  <2> QED BY <2>1, SetAType
<1>4. Keeps(m, i0, D) /\ Keeps(m, i1, D) /\ Keeps(m, i2, D)
  BY ModeType
<1>5. Passes(m, retn, D)
  BY RETNType
<1> HIDE DEF x, y, z, neg, retn, i0, i1, i2, result
<1>6. isPortc => Keeps(m, portc, D)
  BY <1>1, PortCType
<1>7. Keeps(m, wordsCarry, D) /\ Keeps(m, wordsMemory, D) /\ Keeps(m, special, D)
  BY <1>1, WordsCarryType, WordsMemoryType, SpecialType
<1>8. isBlock => Keeps(m, block, D)
  <2>1. z < 4 => z \in 0 .. 3
    BY <1>1
  <2> QED BY <1>1, <2>1, BlockType
<1>9. Keeps(m, back, D) /\ Keeps(m, m, D)
  BY SkipType, Stays
<1> HIDE DEF portc, wordsCarry, wordsMemory, special, block, back, isPortc, isBlock
<1>10. ASSUME NEW n, Passes(m, n, D)
       PROVE  n \in Passed
  BY <1>10 DEF Passes
<1>11. ASSUME NEW n, Keeps(m, n, D)
       PROVE  n \in Passed
  BY <1>10, <1>11, KeepsPasses
<1>12. \A n \in Passed : Passes(m, n, D)
  OBVIOUS
<1> HIDE DEF Passed
<1>13. /\ isPortc => portc \in Passed
       /\ wordsCarry \in Passed /\ wordsMemory \in Passed /\ special \in Passed
       /\ isBlock => block \in Passed
  BY <1>6, <1>7, <1>8, <1>11
<1>14. /\ neg \in Passed /\ retn \in Passed /\ back \in Passed /\ m \in Passed
       /\ i0 \in Passed /\ i1 \in Passed /\ i2 \in Passed
  BY <1>3, <1>4, <1>5, <1>9, <1>10, <1>11
<1>15. result \in Passed
  BY <1>2, <1>13, <1>14, SMT
<1> QED BY <1>12, <1>15 DEF result

\* A fetch, with or without prefixes.
LEMMA FetchedType ==
  ASSUME NEW D, NEW m \in Machines(D)
  PROVE  Keeps(m, Fetched(m), D)
<1> DEFINE n == Skip(m, 1)
           r == n.reg["R"]
           v == 128 * (r \div 128) + ((r + 1) % 128)
<1>1. Keeps(m, n, D) /\ "R" \in Registers
  BY SkipType DEF Registers, Main
<1>2. Fetched(m) = [n EXCEPT !.reg["R"] = v]
  BY DEF Fetched
<1> HIDE DEF n
<1>3. r \in Byte
  BY <1>1, Kept, RegType
<1>4. v \in Byte
  <2> HIDE DEF r
  <2>1. r \in Int /\ 0 <= r /\ r <= 255
    BY <1>3, ByteIs
  <2> DEFINE p == r \div 128
             q == (r + 1) % 128
  <2>2. p \in {0, 1} /\ q \in Int /\ 0 <= q /\ q <= 127
    BY <2>1
  <2> HIDE DEF p, q
  <2>3. 128 * p + q \in Byte
    BY <2>2, IsByte
  <2> QED BY <2>3 DEF p, q
<1> HIDE DEF v
<1> QED BY <1>1, <1>2, <1>4, RegThen

LEMMA PrefixType ==
  /\ DOMAIN Prefix = {\hDD, \hFD}
  /\ \A op \in DOMAIN Prefix : Prefix[op] \in Indexes
BY DEF Prefix, Indexes

LEMMA OpcodeType ==
  ASSUME NEW D, NEW m \in Machines(D)
  PROVE  OpZ80(m) \in Byte
BY RdType DEF OpZ80

LEMMA PrefixedType ==
  ASSUME NEW D, NEW m \in Machines(D), NEW xx \in Indexes
  PROVE  Passes(m, Prefixed(m, xx), D)
<1> DEFINE op == OpZ80(m)
           n == Fetched(m)
           o == Skip(n, 2)
           xcb == CodesXCB(o, RdZ80(n, n.PC + 1), Place(n, xx))
<1>1. op \in Byte /\ Keeps(m, n, D)
  BY OpcodeType, FetchedType
<1>2. Prefixed(m, xx) = IF op \in DOMAIN Prefix THEN Skip(n, -1)
                        ELSE CASE op = CB -> xcb [] op = ED -> n [] OTHER -> Codes(n, op, xx)
  BY DEF Prefixed, OtherThanPrefix
<1> HIDE DEF op, n
<1>3. n \in Machines(D)
  BY <1>1, Kept
<1>4. Keeps(m, Skip(n, -1), D) /\ Keeps(m, o, D)
  BY <1>1, SkipThen
<1>5. Keeps(m, xcb, D)
  <2> HIDE DEF o
  <2>1. RdZ80(n, n.PC + 1) \in Byte /\ o \in Machines(D)
    BY <1>3, <1>4, RdType, Kept
  <2>2. Keeps(o, xcb, D)
    BY <2>1, CodesXCBType
  <2> HIDE DEF xcb
  <2> QED BY <1>4, <2>2, Then
<1> HIDE DEF xcb
<1>6. op # CB => Passes(m, Codes(n, op, xx), D)
  BY <1>1, <1>3, CodesType, PassesThen
<1>7. Passes(m, Skip(n, -1), D) /\ Passes(m, xcb, D) /\ Passes(m, n, D)
  BY <1>1, <1>4, <1>5, KeepsPasses
<1> QED BY <1>2, <1>6, <1>7

LEMMA ExecuteType ==
  ASSUME NEW D, NEW m \in Machines(D)
  PROVE  Passes(m, Execute(m), D)
<1> DEFINE op == OpZ80(m)
           n == Fetched(m)
           o == Fetched(n)
<1>1. op \in Byte /\ Keeps(m, n, D)
  BY OpcodeType, FetchedType
<1>2. Execute(m) = CASE op \in DOMAIN Prefix -> Prefixed(n, Prefix[op])
                     [] op = CB -> CodesCB(o, OpZ80(n))
                     [] op = ED -> CodesED(o, OpZ80(n))
                     [] OTHER -> Codes(n, op, "HL")
  BY DEF Execute
<1> HIDE DEF op, n
<1>3. n \in Machines(D) /\ OpZ80(n) \in Byte /\ Keeps(n, o, D)
  BY <1>1, Kept, OpcodeType, FetchedType
<1> HIDE DEF o
<1>4. Keeps(m, o, D) /\ o \in Machines(D)
  BY <1>1, <1>3, Kept, Then
<1>5. op \in DOMAIN Prefix => Passes(m, Prefixed(n, Prefix[op]), D)
  BY <1>1, <1>3, PrefixType, PrefixedType, PassesThen
<1>6. Passes(m, CodesCB(o, OpZ80(n)), D)
  BY <1>3, <1>4, CodesCBType, KeepsPasses, PassesThen
<1>7. Passes(m, CodesED(o, OpZ80(n)), D)
  BY <1>3, <1>4, CodesEDType, PassesThen
<1>8. "HL" \in Indexes
  BY DEF Indexes
<1>9. op # CB => Passes(m, Codes(n, op, "HL"), D)
  BY <1>1, <1>3, <1>8, CodesType, PassesThen
<1>10. \/ op \in DOMAIN Prefix /\ Execute(m) = Prefixed(n, Prefix[op])
       \/ op \notin DOMAIN Prefix /\ op = CB /\ Execute(m) = CodesCB(o, OpZ80(n))
       \/ op \notin DOMAIN Prefix /\ op = ED /\ Execute(m) = CodesED(o, OpZ80(n))
       \/ op \notin DOMAIN Prefix /\ op # CB /\ op # ED /\ Execute(m) = Codes(n, op, "HL")
  <2>1. CB \notin DOMAIN Prefix /\ ED \notin DOMAIN Prefix /\ CB # ED
    BY PrefixType DEF CB, ED
  <2> QED BY <1>2, <2>1
<1> QED BY <1>5, <1>6, <1>7, <1>9, <1>10

(***************************************************************************)
(* The specification.                                                      *)
(***************************************************************************)
\* Interrupts are on, off, or about to be on after EI and one more instruction;
\* IFF2 tells only whether they are off.
FlipFlops(m) == /\ m.IFF2 <=> (m.IFF1 \/ m.EI)
                /\ ~(m.IFF1 /\ m.EI)

LEMMA AfterEIType ==
  ASSUME NEW D, NEW m \in Machines(D), NEW n, FlipFlops(m), Passes(m, n, D)
  PROVE  /\ AfterEI(m, n) \in Machines(D)
         /\ FlipFlops(AfterEI(m, n))
         /\ m.EI => ~AfterEI(m, n).EI
<1>1. n \in Machines(D)
  BY DEF Passes
<1>2. /\ m.IFF1 \in BOOLEAN /\ m.IFF2 \in BOOLEAN /\ m.EI \in BOOLEAN
      /\ n.IFF1 \in BOOLEAN /\ n.IFF2 \in BOOLEAN /\ n.EI \in BOOLEAN
  BY <1>1, Fields
<1>3. CASE m.EI /\ n.EI
  <2> DEFINE o == [n EXCEPT !.EI = FALSE, !.IFF1 = TRUE]
  <2>1. AfterEI(m, n) = o
    BY <1>3 DEF AfterEI
  <2>2. o \in Machines(D) /\ o.EI = FALSE /\ o.IFF1 = TRUE /\ o.IFF2 = n.IFF2
    BY <1>1 DEF Machines
  <2>3. n.IFF2
    BY <1>2, <1>3 DEF FlipFlops, Passes
  <2> HIDE DEF o
  <2> QED BY <2>1, <2>2, <2>3 DEF FlipFlops
<1>4. CASE ~(m.EI /\ n.EI)
  <2>1. AfterEI(m, n) = n
    BY <1>4 DEF AfterEI
  <2>2. FlipFlops(n)
    BY <1>2, <1>4 DEF FlipFlops, Passes
  <2> QED BY <1>1, <1>2, <1>4, <2>1, <2>2
<1> QED BY <1>3, <1>4

LEMMA InstructionType ==
  ASSUME NEW D, NEW m \in Machines(D), FlipFlops(m)
  PROVE  /\ Instruction(m) \in Machines(D) /\ FlipFlops(Instruction(m))
         /\ m.EI => ~Instruction(m).EI
BY ExecuteType, AfterEIType DEF Instruction

LEMMA IntType ==
  ASSUME NEW D, NEW m \in Machines(D), FlipFlops(m)
  PROVE  IntZ80(m) \in Machines(D) /\ FlipFlops(IntZ80(m))
<1> DEFINE s == Skip(m, 1)
           awake == IF m.HALT THEN [s EXCEPT !.HALT = FALSE] ELSE m
           p == PushPC(awake)
           off == DI(p)
           from == Vector + 256 * m.reg["I"]
           to == CASE m.IM = 2 -> Word2(off, from) [] OTHER -> 56
<1>1. IntZ80(m) = IF ~m.IFF1 THEN awake ELSE Jump(off, to)
  BY DEF IntZ80
<1>2. Keeps(m, awake, D)
  <2>1. Keeps(m, s, D)
    BY SkipType
  <2> HIDE DEF s
  <2>2. Keeps(s, [s EXCEPT !.HALT = FALSE], D)
    BY <2>1, Kept, WithHALT
  <2>3. Keeps(m, [s EXCEPT !.HALT = FALSE], D)
    BY <2>1, <2>2, Then
  <2> QED BY <2>3, Stays
<1> HIDE DEF awake
<1>3. FlipFlops(awake) /\ awake \in Machines(D)
  BY <1>2 DEF Keeps, FlipFlops
<1>4. p \in Machines(D)
  BY <1>3, PushPCType, Kept
<1> HIDE DEF p
<1>5. off \in Machines(D) /\ off.IFF1 = FALSE /\ off.IFF2 = FALSE /\ off.EI = FALSE
  BY <1>4, DIType
<1> HIDE DEF off
<1>6. to \in Word
  <2> HIDE DEF from
  <2>1. Word2(off, from) \in Word /\ 56 \in Word
    BY <1>5, Word2Type, IsWord
  <2> QED BY <2>1
<1> HIDE DEF to
<1>7. Keeps(off, Jump(off, to), D)
  BY <1>5, <1>6, JumpType
<1>8. Jump(off, to) \in Machines(D) /\ FlipFlops(Jump(off, to))
  BY <1>5, <1>7 DEF Keeps, FlipFlops
<1> QED BY <1>1, <1>3, <1>8

\* What every step keeps: the machine has the memory of its program.
Sound ==
  /\ program \in Programs
  /\ cpu \in Machines(DOMAIN program.mem)
  /\ FlipFlops(cpu)
  /\ ints \in 0 .. Interrupts

LEMMA StartType ==
  ASSUME NEW p \in Programs
  PROVE  Start(p) \in Machines(DOMAIN p.mem) /\ FlipFlops(Start(p))
<1> DEFINE D == DOMAIN p.mem
           alt == [r \in Main |-> 0]
<1>1. /\ p.reg \in [Registers -> Byte] /\ p.mem \in [D -> Byte]
      /\ p.in \in Seq(Byte) /\ p.on \in BOOLEAN
  BY ProgramsAssumption
<1>2. alt \in [Main -> Byte] /\ 0 \in Word /\ <<>> \in Seq(Byte \X Byte) /\ 1 \in 0 .. 2
  BY IsByte, IsWord
<1>3. Start(p) = [reg |-> p.reg, alt |-> alt, PC |-> 0, mem |-> p.mem, in |-> p.in, out |-> <<>>,
                  IFF1 |-> p.on, IFF2 |-> p.on, EI |-> FALSE, HALT |-> FALSE, IM |-> 1]
  BY DEF Start
<1> HIDE DEF D, alt
<1>4. Start(p) \in Machines(D)
  BY <1>1, <1>2, <1>3 DEF Machines
<1>5. FlipFlops(Start(p))
  BY <1>3 DEF FlipFlops
<1> QED BY <1>4, <1>5 DEF D

LEMMA SoundInit == Init => Sound
<1> SUFFICES ASSUME Init PROVE Sound
  OBVIOUS
<1>1. Interrupts \in Nat
  BY ProgramsAssumption
<1> QED BY <1>1, StartType DEF Init, Sound

LEMMA SoundNext ==
  ASSUME Sound, [Next]_vars
  PROVE  Sound' /\ (cpu.EI => ~cpu'.EI \/ UNCHANGED vars)
<1>1. CASE RunZ80
  BY <1>1, InstructionType DEF RunZ80, Sound
<1>2. CASE LoopZ80
  <2>1. IntZ80(cpu) \in Machines(DOMAIN program.mem) /\ FlipFlops(IntZ80(cpu))
    BY IntType DEF Sound
  <2>2. If(cpu.IFF1, 1) \in {0, 1}
    BY DEF If
  <2>3. ints' \in 0 .. Interrupts
    BY <1>2, <2>2, ProgramsAssumption DEF LoopZ80, Sound
  <2> QED BY <1>2, <2>1, <2>3 DEF LoopZ80, Sound
<1>3. CASE UNCHANGED vars
  BY <1>3 DEF vars, Sound
<1> QED BY <1>1, <1>2, <1>3 DEF Next, Stop

LEMMA SoundAlways == Spec => []Sound
<1>1. Sound /\ [Next]_vars => Sound'
  BY SoundNext
<1> QED BY <1>1, SoundInit, PTL DEF Spec

\* Registers and memory hold bytes and PC a word, after every program of
\* every length: each opcode of the tables of Codes.h, CodesCB.h, CodesED.h,
\* CodesXX.h and CodesXCB.h has an effect, and each sum wraps as the unions
\* of the code do.
THEOREM TypeCorrect == Spec => []TypeOK
<1>1. Sound => TypeOK
  <2> SUFFICES ASSUME Sound PROVE TypeOK
    OBVIOUS
  <2> DEFINE D == DOMAIN program.mem
  <2>1. cpu \in Machines(D) /\ ints \in 0 .. Interrupts
    BY DEF Sound
  <2> HIDE DEF D
  <2>2. /\ cpu.reg \in [Registers -> Byte] /\ cpu.alt \in [Main -> Byte]
        /\ cpu.PC \in Word /\ cpu.mem \in [D -> Byte] /\ cpu.IM \in 0 .. 2
        /\ cpu.IFF1 \in BOOLEAN /\ cpu.IFF2 \in BOOLEAN /\ cpu.EI \in BOOLEAN
        /\ cpu.HALT \in BOOLEAN
    BY <2>1, Fields
  <2> QED BY <2>1, <2>2 DEF TypeOK, D
<1> QED BY <1>1, SoundAlways, PTL

\* The two flip-flops and the pending EI of a Z80 that gets no NMI never
\* disagree: IFF2, which RETN brings back, is set exactly while interrupts are
\* on or about to be, whatever DI, EI, RETN, RETI and interrupts come in
\* whatever order.
THEOREM FlipFlopsAgree == Spec => []FlipFlops(cpu)
<1>1. Sound => FlipFlops(cpu)
  BY DEF Sound
<1> QED BY <1>1, SoundAlways, PTL

\* EI delays interrupts by one instruction, never by more, even where that is
\* another EI, a RETN or a turn of a repeating instruction.
THEOREM EIDelaysOnce == Spec => [][cpu.EI => ~cpu'.EI]_vars
<1>1. Sound /\ [Next]_vars => [cpu.EI => ~cpu'.EI]_vars
  BY SoundNext
<1> QED BY <1>1, SoundAlways, PTL DEF Spec
=============================================================================
