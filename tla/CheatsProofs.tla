---------------------------- MODULE CheatsProofs ----------------------------
(***************************************************************************)
(* Theorems about Cheats: its types, that a cartridge is given its bytes   *)
(* back, and that F7 has one value in RAM at a time.  What codes do one    *)
(* after the other is a recursive function of their number: the induction  *)
(* on it is that of a set of numbers, from the least one that is not in it.*)
(***************************************************************************)
EXTENDS Cheats, WellFoundedInduction, TLAPS

-----------------------------------------------------------------------------
\* Induction

LEMMA LeastElement ==
  ASSUME NEW T, T \subseteq Nat, T # {}
  PROVE  \E x \in T : \A y \in T : ~(y < x)
<1> DEFINE R == {p \in Nat \X Nat : p[1] < p[2]}
<1>1. IsWellFoundedOn(R, Nat)
  BY NatLessThanWellFounded DEF OpToRel
<1>2. \A x, y \in T : y < x => <<y, x>> \in R
  OBVIOUS
<1> HIDE DEF R
<1>3. PICK x \in T : \A y \in T : ~(<<y, x>> \in R)
  BY <1>1, WFMin
<1> QED BY <1>2, <1>3

LEMMA SetInduction ==
  ASSUME NEW S, 0 \in S, \A k \in Nat : k \in S => k + 1 \in S
  PROVE  Nat \subseteq S
<1> SUFFICES ASSUME Nat \ S # {} PROVE FALSE
  OBVIOUS
<1>1. PICK x \in Nat \ S : \A y \in Nat \ S : ~(y < x)
  BY LeastElement
<1>2. x # 0 /\ x \in Nat /\ x - 1 \in Nat /\ x - 1 < x /\ (x - 1) + 1 = x
  OBVIOUS
<1>3. x - 1 \in S
  BY <1>1, <1>2
<1> QED BY <1>2, <1>3

\* Up to a bound.
LEMMA BoundedInduction ==
  ASSUME NEW n \in Nat, NEW S, 0 \in S, \A k \in 1 .. n : k - 1 \in S => k \in S
  PROVE  \A k \in 0 .. n : k \in S
<1> DEFINE T == {k \in Nat : k <= n => k \in S}
<1>1. 0 \in T
  OBVIOUS
<1>2. ASSUME NEW k \in Nat, k \in T PROVE k + 1 \in T
  <2>1. CASE k + 1 <= n
    <3>1. k \in S /\ k + 1 \in 1 .. n /\ (k + 1) - 1 = k
      BY <1>2, <2>1
    <3> QED BY <3>1
  <2> QED BY <2>1
<1> HIDE DEF T
<1>3. Nat \subseteq T
  BY <1>1, <1>2, SetInduction
<1> QED BY <1>3 DEF T

\* What becomes of a first value by n steps, where a step depends on its number.
Steps(V) == [Nat \X V -> V]
Courses(V, first, step, n) ==
  {f \in [0 .. n -> V] : f[0] = first /\ \A k \in 1 .. n : f[k] = step[<<k, f[k - 1]>>]}

LEMMA Recursion ==
  ASSUME NEW V, NEW first \in V, NEW step \in Steps(V), NEW n \in Nat
  PROVE  Courses(V, first, step, n) # {}
<1>0. step \in [Nat \X V -> V]
  BY DEF Steps
<1> DEFINE Is(f, m) == f[0] = first /\ \A k \in 1 .. m : f[k] = step[<<k, f[k - 1]>>]
           S == {m \in Nat : \E f \in [0 .. m -> V] : Is(f, m)}
<1>1. 0 \in S
  <2>1. [k \in 0 .. 0 |-> first] \in [0 .. 0 -> V] /\ Is([k \in 0 .. 0 |-> first], 0)
    OBVIOUS
  <2> QED BY <2>1
<1>2. ASSUME NEW m \in Nat, m \in S PROVE m + 1 \in S
  <2>1. PICK f \in [0 .. m -> V] : Is(f, m)
    BY <1>2
  <2> DEFINE g == [k \in 0 .. m + 1 |-> IF k = m + 1 THEN step[<<m + 1, f[m]>>] ELSE f[k]]
  <2>2. g \in [0 .. m + 1 -> V]
    <3>1. f[m] \in V /\ <<m + 1, f[m]>> \in Nat \X V
      OBVIOUS
    <3>2. \A k \in 0 .. m + 1 : k = m + 1 \/ k \in 0 .. m
      OBVIOUS
    <3> QED BY <1>0, <3>1, <3>2
  <2>3. \A k \in 0 .. m : g[k] = f[k]
    OBVIOUS
  <2>4. g[m + 1] = step[<<m + 1, g[m]>>]
    <3>1. g[m + 1] = step[<<m + 1, f[m]>>]
      OBVIOUS
    <3>2. g[m] = f[m]
      BY <2>3
    <3> HIDE DEF g
    <3> QED BY <3>1, <3>2
  <2> HIDE DEF g
  <2>5. g[0] = first
    BY <2>1, <2>3
  <2>6. ASSUME NEW k \in 1 .. m + 1 PROVE g[k] = step[<<k, g[k - 1]>>]
    <3>1. CASE k = m + 1
      <4>1. k - 1 = m
        BY <3>1
      <4> QED BY <2>4, <3>1, <4>1
    <3>2. CASE k # m + 1
      <4>1. k \in 1 .. m /\ k \in 0 .. m /\ k - 1 \in 0 .. m
        BY <3>2
      <4> QED BY <2>1, <2>3, <4>1
    <3> QED BY <3>1, <3>2
  <2> QED BY <2>2, <2>5, <2>6
<1> HIDE DEF S
<1>3. n \in S
  BY <1>1, <1>2, SetInduction
<1> QED BY <1>3 DEF S, Courses

-----------------------------------------------------------------------------
\* Codes, one after the other

\* What code k of a table makes of the bytes of a ROM, and of RAM.
InROM(g, table, side, k, bytes) ==
  IF ForROM(g, table[k]) THEN Poke(bytes, table[k], table[k][side]) ELSE bytes
InRAM(bank, table, side, k, m) ==
  IF table[k].kind = 1 THEN Store(m, bank, table[k], table[k][side]) ELSE m

Memory == [Banks -> [Cells -> Bytes]]

LEMMA PokeType ==
  ASSUME NEW D, NEW bytes \in [D -> Bytes], NEW c, NEW v \in Value
  PROVE  Poke(bytes, c, v) \in [D -> Bytes]
<1>1. v[1] \in Bytes /\ v[2] \in Bytes
  BY DEF Value
<1> QED BY <1>1 DEF Poke

LEMMA WriteType ==
  ASSUME NEW m \in Memory, NEW bank \in Banks \cup {NoBank}, NEW a, NEW b \in Bytes
  PROVE  WrZ80(m, bank, a, b) \in Memory
BY DEF WrZ80, Memory

LEMMA StoreType ==
  ASSUME NEW m \in Memory, NEW bank \in Banks \cup {NoBank}, NEW c, NEW v \in Value
  PROVE  Store(m, bank, c, v) \in Memory
<1>1. v[1] \in Bytes /\ v[2] \in Bytes
  BY DEF Value
<1> QED BY <1>1, WriteType DEF Store

LEMMA PatchedSteps ==
  ASSUME NEW g, NEW D, NEW bytes \in [D -> Bytes], NEW table, NEW n \in Nat, NEW side,
         \A k \in 0 .. n - 1 : table[k][side] \in Value
  PROVE  LET P == Patched(g, bytes, table, n, side) IN
         /\ P[0] = bytes
         /\ \A k \in 1 .. n : P[k] = InROM(g, table, side, k - 1, P[k - 1])
         /\ \A k \in 0 .. n : P[k] \in [D -> Bytes]
<1> DEFINE V == [D -> Bytes]
           Next1(k, b) == IF k = 0 THEN bytes ELSE InROM(g, table, side, k - 1, b)
           P == Patched(g, bytes, table, n, side)
           step == [p \in Nat \X V |->
                      IF p[1] \in 1 .. n THEN InROM(g, table, side, p[1] - 1, p[2]) ELSE p[2]]
<1>1. \A k \in 0 .. n - 1, b \in V : InROM(g, table, side, k, b) \in V
  BY PokeType DEF InROM
<1>2. step \in Steps(V)
  <2>1. ASSUME NEW p \in Nat \X V
        PROVE  (IF p[1] \in 1 .. n THEN InROM(g, table, side, p[1] - 1, p[2]) ELSE p[2]) \in V
    <3>1. p[2] \in V /\ (p[1] \in 1 .. n => p[1] - 1 \in 0 .. n - 1)
      OBVIOUS
    <3> HIDE DEF V
    <3> QED BY <1>1, <3>1
  <2> HIDE DEF V
  <2> QED BY <2>1 DEF Steps
<1>3. PICK f \in [0 .. n -> V] :
        f[0] = bytes /\ \A k \in 1 .. n : f[k] = step[<<k, f[k - 1]>>]
  <2>1. bytes \in V
    OBVIOUS
  <2> HIDE DEF step, V
  <2>2. Courses(V, bytes, step, n) # {}
    BY <1>2, <2>1, Recursion
  <2> QED BY <2>2 DEF Courses
<1>4. \A k \in 1 .. n : f[k] = InROM(g, table, side, k - 1, f[k - 1])
  <2> TAKE k \in 1 .. n
  <2>1. f[k - 1] \in V /\ <<k, f[k - 1]>> \in Nat \X V
    OBVIOUS
  <2>2. step[<<k, f[k - 1]>>] = InROM(g, table, side, k - 1, f[k - 1])
    <3> HIDE DEF V
    <3> QED BY <2>1
  <2> QED BY <1>3, <2>2
<1>5. f = [k \in 0 .. n |-> Next1(k, f[k - 1])]
  <2>1. \A k \in 0 .. n : f[k] = Next1(k, f[k - 1])
    BY <1>3, <1>4
  <2> QED BY <2>1
<1>6. P = [k \in 0 .. n |-> Next1(k, P[k - 1])]
  BY <1>5 DEF Patched, InROM
<1> HIDE DEF P, step
<1>7. P[0] = bytes /\ \A k \in 1 .. n : P[k] = InROM(g, table, side, k - 1, P[k - 1])
  BY <1>6
<1> DEFINE S == {k \in Nat : P[k] \in V}
<1>8. \A k \in 0 .. n : k \in S
  <2>1. 0 \in S
    BY <1>7
  <2>2. ASSUME NEW k \in 1 .. n, k - 1 \in S PROVE k \in S
    BY <1>1, <1>7, <2>2
  <2> HIDE DEF S
  <2> QED BY <2>1, <2>2, BoundedInduction
<1> QED BY <1>7, <1>8 DEF P

LEMMA StoredFacts ==
  ASSUME NEW m \in Memory, NEW bank \in Banks \cup {NoBank}, NEW table, NEW n \in Nat, NEW side,
         \A k \in 0 .. n - 1 : table[k][side] \in Value
  PROVE  /\ StoreAll(m, bank, table, n, side) \in Memory
         /\ n = 1 => StoreAll(m, bank, table, n, side) = InRAM(bank, table, side, 0, m)
<1> DEFINE Next1(k, b) == IF k = 0 THEN m ELSE InRAM(bank, table, side, k - 1, b)
           P == CHOOSE done : done = [k \in 0 .. n |-> Next1(k, done[k - 1])]
           step == [p \in Nat \X Memory |->
                      IF p[1] \in 1 .. n THEN InRAM(bank, table, side, p[1] - 1, p[2]) ELSE p[2]]
<1>1. \A k \in 0 .. n - 1, b \in Memory : InRAM(bank, table, side, k, b) \in Memory
  BY StoreType DEF InRAM
<1>2. step \in Steps(Memory)
  <2>1. ASSUME NEW p \in Nat \X Memory
        PROVE  (IF p[1] \in 1 .. n THEN InRAM(bank, table, side, p[1] - 1, p[2]) ELSE p[2]) \in Memory
    <3>1. p[2] \in Memory /\ (p[1] \in 1 .. n => p[1] - 1 \in 0 .. n - 1)
      OBVIOUS
    <3> QED BY <1>1, <3>1
  <2> QED BY <2>1 DEF Steps
<1>3. PICK f \in [0 .. n -> Memory] :
        f[0] = m /\ \A k \in 1 .. n : f[k] = step[<<k, f[k - 1]>>]
  <2> HIDE DEF step
  <2>1. Courses(Memory, m, step, n) # {}
    BY <1>2, Recursion
  <2> QED BY <2>1 DEF Courses
<1>4. \A k \in 1 .. n : f[k] = InRAM(bank, table, side, k - 1, f[k - 1])
  <2> TAKE k \in 1 .. n
  <2>1. f[k - 1] \in Memory /\ <<k, f[k - 1]>> \in Nat \X Memory
    OBVIOUS
  <2>2. step[<<k, f[k - 1]>>] = InRAM(bank, table, side, k - 1, f[k - 1])
    BY <2>1
  <2> QED BY <1>3, <2>2
<1>5. f = [k \in 0 .. n |-> Next1(k, f[k - 1])]
  <2>1. \A k \in 0 .. n : f[k] = Next1(k, f[k - 1])
    BY <1>3, <1>4
  <2> QED BY <2>1
<1>6. P = [k \in 0 .. n |-> Next1(k, P[k - 1])]
  BY <1>5
<1>7. StoreAll(m, bank, table, n, side) = P[n]
  BY DEF StoreAll, InRAM
<1> HIDE DEF P, step
<1>8. P[0] = m /\ \A k \in 1 .. n : P[k] = InRAM(bank, table, side, k - 1, P[k - 1])
  BY <1>6
<1> DEFINE S == {k \in Nat : P[k] \in Memory}
<1>9. \A k \in 0 .. n : k \in S
  <2>1. 0 \in S
    BY <1>8
  <2>2. ASSUME NEW k \in 1 .. n, k - 1 \in S PROVE k \in S
    BY <1>1, <1>8, <2>2
  <2> HIDE DEF S
  <2> QED BY <2>1, <2>2, BoundedInduction
<1>10. n = 1 => P[1] = InRAM(bank, table, side, 0, m)
  <2>1. n = 1 => 1 \in 1 .. n /\ 1 - 1 = 0
    OBVIOUS
  <2> QED BY <1>8, <2>1
<1>11. P[n] \in Memory
  BY <1>9
<1> QED BY <1>7, <1>10, <1>11

-----------------------------------------------------------------------------
\* What the operations find and leave

Table    == [0 .. MAXCHEATS - 1 -> Code]
ROMs(g)  == {r \in [CartSlots -> UNION {[DOMAIN Image(g, s) -> Bytes] : s \in CartSlots}] :
               \A s \in CartSlots : r[s] \in [DOMAIN Image(g, s) -> Bytes]}
States(g) == [rom : ROMs(g), codes : Table, count : 0 .. MAXCHEATS, on : BOOLEAN, ram : Memory]
Shown    == Banks \cup {NoBank}

\* The codes of a table that its game uses are for addresses that it has.
AllFit(g, table, n) == \A k \in 0 .. n - 1 : CodeFits(g, table[k])

LEMMA Constants ==
  /\ MAXCHEATS \in Nat /\ MAXCHEATS > 0
  /\ 0 \in Bytes /\ 1 \in Bytes /\ NORAM \in Bytes /\ Written \subseteq Bytes
  /\ PageBytes \in Nat
  /\ \A g \in Games : GameOK(g)
BY CheatsAssumption

LEMMA CodeFields ==
  ASSUME NEW c \in Code
  PROVE  /\ c.kind \in 0 .. 2 /\ c.addr \in Nat /\ c.size \in {1, 2}
         /\ c.data \in Value /\ c.orig \in Value
         /\ c["data"] \in Value /\ c["orig"] \in Value
BY DEF Code

LEMMA TableSides ==
  ASSUME NEW table \in Table, NEW n \in 0 .. MAXCHEATS
  PROVE  /\ n \in Nat
         /\ \A k \in 0 .. n - 1 : /\ k \in 0 .. MAXCHEATS - 1 /\ table[k] \in Code
                                   /\ table[k]["data"] \in Value /\ table[k]["orig"] \in Value
<1>1. n \in Nat /\ \A k \in 0 .. n - 1 : k \in 0 .. MAXCHEATS - 1
  BY Constants
<1> QED BY <1>1, CodeFields DEF Table

Known == Games \cup {Nothing}

LEMMA GameFacts ==
  ASSUME NEW g \in Known
  PROVE  /\ g.roms \in [CartSlots -> {0, 1, 2, 4, 8, 16}]
         /\ g.lines \in Seq(Line) /\ g.mcf \in Seq(Entry)
         /\ HasTarget(g) => Target(g) \in CartSlots
<1>1. /\ g.roms \in [CartSlots -> {0, 1, 2, 4, 8, 16}]
      /\ g.lines \in Seq(Line) /\ g.mcf \in Seq(Entry)
  <2>1. CASE g \in Games
    BY <2>1, Constants DEF GameOK
  <2>2. CASE g = Nothing
    <3>1. g.roms = [s \in CartSlots |-> 0] /\ g.lines = <<>> /\ g.mcf = <<>>
      BY <2>2 DEF Nothing
    <3> QED BY <3>1
  <2> QED BY <2>1, <2>2 DEF Known
<1>2. Target(g) \in CartSlots
  BY DEF Target, CartSlots
<1> QED BY <1>1, <1>2

LEMMA ImageFacts ==
  ASSUME NEW g \in Known, NEW s \in CartSlots
  PROVE  /\ g.roms[s] * PageBytes \in Nat
         /\ DOMAIN Image(g, s) = 0 .. g.roms[s] * PageBytes - 1
         /\ Image(g, s) \in [DOMAIN Image(g, s) -> Bytes]
<1>1. g.roms[s] \in Nat
  BY GameFacts
<1>2. g.roms[s] * PageBytes \in Nat
  BY <1>1, Constants
<1>3. \A i \in Nat : (i + s) % 2 \in Bytes
  <2>1. s \in Nat
    BY DEF CartSlots
  <2> TAKE i \in Nat
  <2>2. (i + s) % 2 = 0 \/ (i + s) % 2 = 1
    BY <2>1
  <2> QED BY <2>2, Constants
<1> DEFINE N == g.roms[s] * PageBytes
<1>4. Image(g, s) = [i \in 0 .. N - 1 |-> (i + s) % 2]
  BY DEF Image
<1>5. N \in Nat /\ \A i \in 0 .. N - 1 : i \in Nat
  BY <1>2
<1> HIDE DEF N
<1>6. Image(g, s) \in [0 .. N - 1 -> Bytes]
  BY <1>3, <1>4, <1>5
<1> QED BY <1>2, <1>4, <1>6 DEF N

\* A code for the ROM that fits is for bytes of it.
LEMMA FitsIn ==
  ASSUME NEW g \in Known, HasTarget(g), NEW c \in Code, CodeFits(g, c), ForROM(g, c)
  PROVE  /\ c.addr \in DOMAIN Image(g, Target(g))
         /\ c.size > 1 => c.addr + 1 \in DOMAIN Image(g, Target(g))
<1>1. Target(g) \in CartSlots
  BY GameFacts
<1> DEFINE N == g.roms[Target(g)] * PageBytes
<1>2. N \in Nat /\ DOMAIN Image(g, Target(g)) = 0 .. N - 1
  BY <1>1, ImageFacts
<1>3. c.addr + c.size <= N
  BY DEF CodeFits
<1>4. c.addr \in Nat /\ c.size \in {1, 2}
  BY CodeFields
<1> HIDE DEF N
<1>5. c.addr \in 0 .. N - 1 /\ (c.size > 1 => c.addr + 1 \in 0 .. N - 1)
  BY <1>2, <1>3, <1>4
<1> QED BY <1>2, <1>5

-----------------------------------------------------------------------------
\* Switching

\* Entries that differ only in the bytes that they remember.
Alike(c, d) ==
  /\ c.kind = d.kind /\ c.addr = d.addr /\ c.size = d.size /\ c.data = d.data

LEMMA PeekType ==
  ASSUME NEW D, NEW bytes \in [D -> Bytes], NEW c, c.addr \in D, c.size > 1 => c.addr + 1 \in D
  PROVE  Peek(bytes, c) \in Value
BY Constants DEF Peek, Value

LEMMA RememberFacts ==
  ASSUME NEW g \in Known, HasTarget(g), NEW table \in Table, NEW n \in 0 .. MAXCHEATS,
         AllFit(g, table, n),
         NEW bytes \in [DOMAIN Image(g, Target(g)) -> Bytes]
  PROVE  /\ Remember(g, bytes, table, n) \in Table
         /\ \A k \in 0 .. MAXCHEATS - 1 :
              LET c == Remember(g, bytes, table, n)[k] IN
              /\ Alike(c, table[k])
              /\ c.orig = IF k < n /\ ForROM(g, table[k])
                          THEN Peek(Patched(g, bytes, table, n, "data")[k], table[k])
                          ELSE table[k].orig
<1> DEFINE D  == DOMAIN Image(g, Target(g))
           B  == Patched(g, bytes, table, n, "data")
           At(k) == IF k < n /\ ForROM(g, table[k])
                    THEN [table[k] EXCEPT !.orig = Peek(B[k], table[k])] ELSE table[k]
<1>1. /\ n \in Nat
      /\ \A k \in 0 .. n - 1 : /\ k \in 0 .. MAXCHEATS - 1 /\ table[k] \in Code
                               /\ table[k]["data"] \in Value
  BY TableSides
<1>2. \A k \in 0 .. n : B[k] \in [D -> Bytes]
  BY <1>1, PatchedSteps
<1>3. Remember(g, bytes, table, n) = [k \in 0 .. MAXCHEATS - 1 |-> At(k)]
  BY DEF Remember, Table
<1> HIDE DEF B, D
<1>4. ASSUME NEW k \in 0 .. MAXCHEATS - 1
      PROVE  /\ At(k) \in Code /\ Alike(At(k), table[k])
             /\ At(k).orig = IF k < n /\ ForROM(g, table[k])
                             THEN Peek(B[k], table[k]) ELSE table[k].orig
  <2>1. table[k] \in Code
    BY DEF Table
  <2>2. CASE ~(k < n /\ ForROM(g, table[k]))
    BY <2>1, <2>2 DEF Alike
  <2>3. CASE k < n /\ ForROM(g, table[k])
    <3>1. k \in 0 .. n - 1 /\ k \in 0 .. n
      BY <1>1, <2>3
    <3>2. CodeFits(g, table[k])
      BY <3>1 DEF AllFit
    <3>3. table[k].addr \in D /\ (table[k].size > 1 => table[k].addr + 1 \in D)
      BY <2>1, <2>3, <3>2, FitsIn DEF D
    <3>4. B[k] \in [D -> Bytes]
      BY <1>2, <3>1
    <3>5. Peek(B[k], table[k]) \in Value
      BY <3>3, <3>4, PeekType
    <3> DEFINE v == Peek(B[k], table[k])
    <3>6. At(k) = [table[k] EXCEPT !.orig = v]
      BY <2>3
    <3> HIDE DEF v, At
    <3>7. At(k) \in Code /\ Alike(At(k), table[k]) /\ At(k).orig = v
      BY <2>1, <3>5, <3>6 DEF Code, Alike, v
    <3> QED BY <2>3, <3>7 DEF v
  <2> QED BY <2>2, <2>3
<1> HIDE DEF At
<1>5. [k \in 0 .. MAXCHEATS - 1 |-> At(k)] \in Table
  BY <1>4 DEF Table
<1> QED BY <1>3, <1>4, <1>5 DEF B

LEMMA StateFields ==
  ASSUME NEW g, NEW s \in States(g)
  PROVE  /\ s.rom \in ROMs(g) /\ s.codes \in Table /\ s.count \in 0 .. MAXCHEATS
         /\ s.on \in BOOLEAN /\ s.ram \in Memory
BY DEF States

LEMMA ROMFields ==
  ASSUME NEW g, NEW r \in ROMs(g)
  PROVE  \A s \in CartSlots : r[s] \in [DOMAIN Image(g, s) -> Bytes]
BY DEF ROMs

LEMMA ROMChange ==
  ASSUME NEW g, NEW r \in ROMs(g), NEW t \in CartSlots,
         NEW bytes \in [DOMAIN Image(g, t) -> Bytes]
  PROVE  /\ [r EXCEPT ![t] = bytes] \in ROMs(g)
         /\ [r EXCEPT ![t] = bytes][t] = bytes
         /\ \A s \in CartSlots : s # t => [r EXCEPT ![t] = bytes][s] = r[s]
<1> DEFINE U == UNION {[DOMAIN Image(g, s) -> Bytes] : s \in CartSlots}
           new == [r EXCEPT ![t] = bytes]
<1>1. r \in [CartSlots -> U] /\ \A s \in CartSlots : r[s] \in [DOMAIN Image(g, s) -> Bytes]
  BY DEF ROMs
<1>2. bytes \in U
  OBVIOUS
<1> HIDE DEF U
<1>3. new \in [CartSlots -> U] /\ new[t] = bytes /\ \A s \in CartSlots : s # t => new[s] = r[s]
  BY <1>1, <1>2
<1> HIDE DEF new
<1>4. \A s \in CartSlots : new[s] \in [DOMAIN Image(g, s) -> Bytes]
  BY <1>1, <1>3
<1>5. new \in ROMs(g)
  BY <1>3, <1>4 DEF ROMs, U
<1> QED BY <1>3, <1>5 DEF new

LEMMA SwitchOnFacts ==
  ASSUME game \in Known, NEW s \in States(game), AllFit(game, s.codes, s.count)
  PROVE  /\ SwitchOn(s) \in States(game)
         /\ SwitchOn(s).count = s.count /\ SwitchOn(s).ram = s.ram
         /\ SwitchOn(s).on = (s.on \/ HasTarget(game))
         /\ \A k \in 0 .. MAXCHEATS - 1 : Alike(SwitchOn(s).codes[k], s.codes[k])
         /\ s.on \/ ~HasTarget(game) => SwitchOn(s) = s
         /\ ~s.on /\ HasTarget(game) =>
              /\ SwitchOn(s).rom =
                   [s.rom EXCEPT ![Target(game)] =
                      Patched(game, s.rom[Target(game)], s.codes, s.count, "data")[s.count]]
              /\ SwitchOn(s).codes = Remember(game, s.rom[Target(game)], s.codes, s.count)
<1>1. s.rom \in ROMs(game) /\ s.codes \in Table /\ s.count \in 0 .. MAXCHEATS
      /\ s.on \in BOOLEAN /\ s.ram \in Memory
  BY StateFields
<1>2. CASE s.on \/ ~HasTarget(game)
  <2>1. SwitchOn(s) = s
    BY <1>2 DEF SwitchOn
  <2>2. s.on = (s.on \/ HasTarget(game))
    BY <1>1, <1>2 DEF HasTarget
  <2> QED BY <1>2, <2>1, <2>2 DEF Alike
<1>3. CASE ~s.on /\ HasTarget(game)
  <2> DEFINE t     == Target(game)
             bytes == Patched(game, s.rom[t], s.codes, s.count, "data")[s.count]
             codes == Remember(game, s.rom[t], s.codes, s.count)
             r     == [s.rom EXCEPT ![t] = bytes]
  <2>1. t \in CartSlots
    BY <1>3, GameFacts
  <2>2. s.rom[t] \in [DOMAIN Image(game, t) -> Bytes]
    BY <1>1, <2>1, ROMFields
  <2>3. bytes \in [DOMAIN Image(game, t) -> Bytes]
    <3>1. s.count \in Nat /\ s.count \in 0 .. s.count
      BY <1>1
    <3>2. \A k \in 0 .. s.count - 1 : s.codes[k]["data"] \in Value
      BY <1>1, TableSides
    <3> HIDE DEF t
    <3> QED BY <2>2, <3>1, <3>2, PatchedSteps
  <2>4. codes \in Table /\ \A k \in 0 .. MAXCHEATS - 1 : Alike(codes[k], s.codes[k])
    BY <1>1, <1>3, <2>2, RememberFacts
  <2>5. SwitchOn(s) = [s EXCEPT !.rom = r, !.codes = codes, !.on = TRUE]
    <3>1. [s EXCEPT !.rom[t] = bytes, !.codes = codes, !.on = TRUE]
            = [s EXCEPT !.rom = r, !.codes = codes, !.on = TRUE]
      BY DEF States
    <3> QED BY <1>3, <3>1 DEF SwitchOn
  <2> HIDE DEF t, bytes, codes
  <2>6. r \in ROMs(game)
    BY <1>1, <2>1, <2>3, ROMChange
  <2> HIDE DEF r
  <2>7. /\ SwitchOn(s) \in States(game)
        /\ SwitchOn(s).rom = r /\ SwitchOn(s).codes = codes /\ SwitchOn(s).on = TRUE
        /\ SwitchOn(s).count = s.count /\ SwitchOn(s).ram = s.ram
    <3>1. TRUE \in BOOLEAN
      OBVIOUS
    <3> QED BY <2>4, <2>5, <2>6, <3>1 DEF States
  <2>8. SwitchOn(s).on = (s.on \/ HasTarget(game))
    <3>1. (s.on \/ HasTarget(game)) = TRUE
      BY <1>3 DEF HasTarget
    <3> QED BY <2>7, <3>1
  <2> QED BY <1>3, <2>4, <2>7, <2>8 DEF r, bytes, codes, t
<1> QED BY <1>1, <1>2, <1>3

LEMMA SwitchOffFacts ==
  ASSUME game \in Known, shown \in Shown, NEW s \in States(game)
  PROVE  /\ SwitchOff(s) \in States(game)
         /\ SwitchOff(s).count = s.count /\ SwitchOff(s).codes = s.codes
         /\ s.on = FALSE \/ ~HasTarget(game) => SwitchOff(s) = s
         /\ SwitchOff(s).on = (s.on /\ ~HasTarget(game))
         /\ s.on /\ HasTarget(game) =>
              /\ SwitchOff(s).rom =
                   [s.rom EXCEPT ![Target(game)] =
                      Patched(game, s.rom[Target(game)], s.codes, s.count, "orig")[s.count]]
              /\ SwitchOff(s).ram = StoreAll(s.ram, shown, s.codes, s.count, "orig")
<1>1. s.rom \in ROMs(game) /\ s.codes \in Table /\ s.count \in 0 .. MAXCHEATS
      /\ s.on \in BOOLEAN /\ s.ram \in Memory
  BY StateFields
<1>2. CASE ~s.on \/ ~HasTarget(game)
  <2>1. SwitchOff(s) = s
    BY <1>2 DEF SwitchOff
  <2>2. s.on = (s.on /\ ~HasTarget(game))
    BY <1>1, <1>2 DEF HasTarget
  <2> QED BY <1>2, <2>1, <2>2
<1>3. CASE s.on /\ HasTarget(game)
  <2> DEFINE t     == Target(game)
             bytes == Patched(game, s.rom[t], s.codes, s.count, "orig")[s.count]
             m     == StoreAll(s.ram, shown, s.codes, s.count, "orig")
             r     == [s.rom EXCEPT ![t] = bytes]
  <2>1. t \in CartSlots
    BY <1>3, GameFacts
  <2>2. s.rom[t] \in [DOMAIN Image(game, t) -> Bytes]
    BY <1>1, <2>1, ROMFields
  <2>3. s.count \in Nat /\ s.count \in 0 .. s.count
    BY <1>1
  <2>4. \A k \in 0 .. s.count - 1 : s.codes[k]["orig"] \in Value
    BY <1>1, TableSides
  <2>5. bytes \in [DOMAIN Image(game, t) -> Bytes]
    <3> HIDE DEF t
    <3> QED BY <2>2, <2>3, <2>4, PatchedSteps
  <2>6. m \in Memory
    <3>1. shown \in Banks \cup {NoBank}
      BY DEF Shown
    <3> QED BY <1>1, <2>3, <2>4, <3>1, StoredFacts
  <2>7. SwitchOff(s) = [s EXCEPT !.rom = r, !.ram = m, !.on = FALSE]
    <3>1. [s EXCEPT !.rom[t] = bytes, !.ram = m, !.on = FALSE]
            = [s EXCEPT !.rom = r, !.ram = m, !.on = FALSE]
      BY DEF States
    <3> QED BY <1>3, <3>1 DEF SwitchOff
  <2> HIDE DEF t, bytes, m
  <2>8. r \in ROMs(game)
    BY <1>1, <2>1, <2>5, ROMChange
  <2> HIDE DEF r
  <2>9. /\ SwitchOff(s) \in States(game)
        /\ SwitchOff(s).rom = r /\ SwitchOff(s).ram = m /\ SwitchOff(s).on = FALSE
        /\ SwitchOff(s).count = s.count /\ SwitchOff(s).codes = s.codes
    <3>1. FALSE \in BOOLEAN
      OBVIOUS
    <3> QED BY <2>6, <2>7, <2>8, <3>1 DEF States
  <2>10. (s.on /\ ~HasTarget(game)) = FALSE
    BY <1>3
  <2> QED BY <1>3, <2>9, <2>10 DEF r, bytes, m, t
<1> QED BY <1>1, <1>2, <1>3

-----------------------------------------------------------------------------
\* Files

\* A table as lines are added to it: the rest of the state is as it was.
Adding(g, s) ==
  {x \in [rom : {s.rom}, codes : Table, count : 0 .. MAXCHEATS, on : {s.on}, ram : {s.ram}] :
     AllFit(g, x.codes, x.count)}

LEMMA CodeOfType ==
  ASSUME NEW line \in Line, NEW orig \in Value
  PROVE  CodeOf(line, orig) \in Code
<1>1. /\ line.digits \in {8, 4, 0} /\ line.kind \in 0 .. 2 /\ line.addr \in Nat
      /\ line.hexes \in {2, 4} /\ line.data \in Value
  BY DEF Line
<1>2. <<line.data[1], 0>> \in Value
  BY <1>1, Constants DEF Value
<1> QED BY <1>1, <1>2 DEF CodeOf, Code

LEMMA AddCheatFacts ==
  ASSUME NEW g, NEW s, NEW x \in Adding(g, s), NEW line \in Line,
         CodeFits(g, CodeOf(line, <<0, 0>>))
  PROVE  AddCheat(x, line) \in Adding(g, s)
<1>1. /\ x \in [rom : {s.rom}, codes : Table, count : 0 .. MAXCHEATS, on : {s.on}, ram : {s.ram}]
      /\ AllFit(g, x.codes, x.count)
  BY DEF Adding
<1>2. CASE x.count >= MAXCHEATS \/ line.digits = 0
  BY <1>2 DEF AddCheat
<1>3. CASE ~(x.count >= MAXCHEATS \/ line.digits = 0)
  <2> DEFINE n == x.count
             c == CodeOf(line, x.codes[n].orig)
             codes == [x.codes EXCEPT ![n] = c]
             y == [x EXCEPT !.codes = codes, !.count = n + 1]
  <2>1. n \in 0 .. MAXCHEATS - 1 /\ n + 1 \in 0 .. MAXCHEATS
    BY <1>1, <1>3, Constants
  <2>2. x.codes[n] \in Code /\ x.codes \in [0 .. MAXCHEATS - 1 -> Code]
    BY <1>1, <2>1 DEF Table
  <2>3. c \in Code
    BY <2>2, CodeFields, CodeOfType
  <2>4. CodeFits(g, c)
    BY DEF CodeFits, ForROM, CodeOf
  <2>5. AddCheat(x, line) = y
    BY <1>1, <1>3 DEF AddCheat
  <2> HIDE DEF c
  <2>6. codes \in Table /\ codes[n] = c /\ \A k \in 0 .. n - 1 : codes[k] = x.codes[k]
    <3>1. \A k \in 0 .. n - 1 : k # n /\ k \in 0 .. MAXCHEATS - 1
      BY <2>1, Constants
    <3> QED BY <2>1, <2>2, <2>3, <3>1 DEF Table
  <2> HIDE DEF codes
  <2>7. AllFit(g, codes, n + 1)
    <3> SUFFICES ASSUME NEW k \in 0 .. (n + 1) - 1 PROVE CodeFits(g, codes[k])
      BY DEF AllFit
    <3>1. CASE k = n
      BY <2>4, <2>6, <3>1
    <3>2. CASE k # n
      <4>1. k \in 0 .. n - 1
        BY <2>1, <3>2
      <4> QED BY <1>1, <2>6, <4>1 DEF AllFit
    <3> QED BY <3>1, <3>2
  <2>8. /\ y.codes = codes /\ y.count = n + 1
        /\ y \in [rom : {s.rom}, codes : Table, count : 0 .. MAXCHEATS, on : {s.on}, ram : {s.ram}]
    BY <1>1, <2>1, <2>6
  <2> HIDE DEF y, n
  <2> QED BY <2>5, <2>7, <2>8 DEF Adding
<1> QED BY <1>2, <1>3

\* LoadCHT() with cheats off, as when a game is loaded.
LEMMA LoadCHTFacts ==
  ASSUME NEW g \in Games, NEW s, s.codes \in Table, s.on = FALSE,
         s \in [rom : {s.rom}, codes : Table, count : {s.count}, on : {s.on}, ram : {s.ram}]
  PROVE  LoadCHT(s, g.lines) \in Adding(g, s)
<1> DEFINE lines == g.lines
           n == Len(lines)
           V == Adding(g, s)
           Next1(k, x) == IF k = 0 THEN ResetCheats(s) ELSE AddCheat(x, lines[k])
           P == CHOOSE added : added = [k \in 0 .. n |-> Next1(k, added[k - 1])]
           step == [p \in Nat \X V |->
                      IF p[1] \in 1 .. n THEN AddCheat(p[2], lines[p[1]]) ELSE p[2]]
<1>1. ResetCheats(s) \in V
  <2>1. ResetCheats(s) = [s EXCEPT !.count = 0]
    BY DEF ResetCheats, SwitchOff
  <2>2. 0 \in 0 .. MAXCHEATS
    BY Constants
  <2> DEFINE y == [s EXCEPT !.count = 0]
  <2>3. /\ y.count = 0
        /\ y \in [rom : {s.rom}, codes : Table, count : 0 .. MAXCHEATS, on : {s.on}, ram : {s.ram}]
    BY <2>2
  <2>4. AllFit(g, y.codes, 0)
    BY DEF AllFit
  <2> HIDE DEF y
  <2>5. AllFit(g, y.codes, y.count)
    BY <2>3, <2>4
  <2> QED BY <2>1, <2>3, <2>5 DEF Adding, y
<1>2. n \in Nat /\ \A k \in 1 .. n : lines[k] \in Line /\ CodeFits(g, CodeOf(lines[k], <<0, 0>>))
  <2>1. lines \in Seq(Line)
    BY GameFacts DEF Known
  <2>2. n \in Nat /\ DOMAIN lines = 1 .. n /\ \A k \in 1 .. n : lines[k] \in Line
    BY <2>1
  <2> HIDE DEF lines
  <2> QED BY <2>2, FitAssumption DEF lines
<1> HIDE DEF lines, V
<1>3. \A k \in 1 .. n, x \in V : AddCheat(x, lines[k]) \in V
  BY <1>2, AddCheatFacts DEF V
<1>4. step \in Steps(V)
  <2>1. ASSUME NEW p \in Nat \X V
        PROVE  (IF p[1] \in 1 .. n THEN AddCheat(p[2], lines[p[1]]) ELSE p[2]) \in V
    BY <1>3
  <2> QED BY <2>1 DEF Steps
<1>5. PICK f \in [0 .. n -> V] :
        f[0] = ResetCheats(s) /\ \A k \in 1 .. n : f[k] = step[<<k, f[k - 1]>>]
  <2> HIDE DEF step
  <2>1. Courses(V, ResetCheats(s), step, n) # {}
    BY <1>1, <1>2, <1>4, Recursion
  <2> QED BY <2>1 DEF Courses
<1>6. \A k \in 1 .. n : f[k] = AddCheat(f[k - 1], lines[k])
  <2> TAKE k \in 1 .. n
  <2>1. f[k - 1] \in V /\ <<k, f[k - 1]>> \in Nat \X V
    BY <1>2
  <2>2. step[<<k, f[k - 1]>>] = AddCheat(f[k - 1], lines[k])
    BY <2>1
  <2> QED BY <1>5, <2>2
<1>7. f = [k \in 0 .. n |-> Next1(k, f[k - 1])]
  <2>1. \A k \in 0 .. n : f[k] = Next1(k, f[k - 1])
    BY <1>2, <1>5, <1>6
  <2> QED BY <2>1
<1>8. P = [k \in 0 .. n |-> Next1(k, P[k - 1])]
  BY <1>7
<1>9. LoadCHT(s, g.lines) = SwitchTo(P[n], s.on)
  BY DEF LoadCHT, lines
<1> HIDE DEF P, step
<1>10. P[0] = ResetCheats(s) /\ \A k \in 1 .. n : P[k] = AddCheat(P[k - 1], lines[k])
  BY <1>2, <1>8
<1> DEFINE S == {k \in Nat : P[k] \in V}
<1>11. \A k \in 0 .. n : k \in S
  <2>1. 0 \in S
    BY <1>1, <1>10
  <2>2. ASSUME NEW k \in 1 .. n, k - 1 \in S PROVE k \in S
    BY <1>3, <1>10, <2>2
  <2> HIDE DEF S, n
  <2> QED BY <1>2, <2>1, <2>2, BoundedInduction DEF n
<1>12. P[n] \in V
  BY <1>2, <1>11
<1>13. SwitchTo(P[n], s.on) = P[n]
  <2>1. P[n].on = FALSE
    BY <1>12 DEF V, Adding
  <2> QED BY <2>1 DEF SwitchTo, SwitchOff
<1> QED BY <1>9, <1>12, <1>13 DEF V

-----------------------------------------------------------------------------
\* The bytes of the cartridge

CodesIn(g, table, n) == {k \in 0 .. n - 1 : ForROM(g, table[k])}
ApartIn(table, codes) ==
  \A j, k \in codes :
    j # k => \A i \in {table[j].addr, table[j].addr + 1} :
               ~(Covers(table[j], i) /\ Covers(table[k], i))
OverlaidIn(table, bytes, codes) ==
  [i \in DOMAIN bytes |->
     IF \E k \in codes : Covers(table[k], i)
     THEN LET k == CHOOSE j \in codes : Covers(table[j], i)
          IN table[k].data[i - table[k].addr + 1]
     ELSE bytes[i]]

\* The same, without a choice: r has the values of the codes, on one side.
Holds(table, side, bytes, codes, r) ==
  \A i \in DOMAIN bytes :
    /\ \A k \in codes : Covers(table[k], i) => r[i] = table[k][side][i - table[k].addr + 1]
    /\ (\A k \in codes : ~Covers(table[k], i)) => r[i] = bytes[i]

\* Codes that are apart do not cover the same byte.
LEMMA OneCovers ==
  ASSUME NEW table, NEW codes, ApartIn(table, codes), NEW j \in codes, NEW k \in codes, NEW i,
         Covers(table[j], i), Covers(table[k], i)
  PROVE  j = k
<1>1. i \in {table[j].addr, table[j].addr + 1}
  BY DEF Covers
<1> QED BY <1>1 DEF ApartIn

LEMMA OverlaidHolds ==
  ASSUME NEW table, NEW codes, ApartIn(table, codes), NEW D, NEW bytes \in [D -> Bytes],
         NEW r \in [D -> Bytes]
  PROVE  r = OverlaidIn(table, bytes, codes) <=> Holds(table, "data", bytes, codes, r)
<1> DEFINE Chosen(i) == CHOOSE j \in codes : Covers(table[j], i)
           At(i) == IF \E k \in codes : Covers(table[k], i)
                    THEN table[Chosen(i)].data[i - table[Chosen(i)].addr + 1] ELSE bytes[i]
<1>1. OverlaidIn(table, bytes, codes) = [i \in D |-> At(i)]
  BY DEF OverlaidIn
<1>2. ASSUME NEW i, NEW k \in codes, Covers(table[k], i)
      PROVE  Chosen(i) = k /\ At(i) = table[k].data[i - table[k].addr + 1]
  <2>1. Chosen(i) \in codes /\ Covers(table[Chosen(i)], i)
    BY <1>2
  <2> HIDE DEF Chosen
  <2>2. Chosen(i) = k
    BY <1>2, <2>1, OneCovers
  <2> QED BY <1>2, <2>2
<1>3. ASSUME NEW i, \A k \in codes : ~Covers(table[k], i)
      PROVE  At(i) = bytes[i]
  BY <1>3
<1> HIDE DEF At
<1>4. r = [i \in D |-> At(i)] <=> \A i \in D : r[i] = At(i)
  OBVIOUS
<1>5. ASSUME NEW i \in D
      PROVE  r[i] = At(i) <=>
               /\ \A k \in codes : Covers(table[k], i) =>
                    r[i] = table[k]["data"][i - table[k].addr + 1]
               /\ (\A k \in codes : ~Covers(table[k], i)) => r[i] = bytes[i]
  <2>1. CASE \E k \in codes : Covers(table[k], i)
    <3>1. PICK k \in codes : Covers(table[k], i)
      BY <2>1
    <3>2. At(i) = table[k].data[i - table[k].addr + 1]
      BY <1>2, <3>1
    <3>3. \A j \in codes : Covers(table[j], i) => j = k
      BY <3>1, OneCovers
    <3> QED BY <3>1, <3>2, <3>3
  <2>2. CASE \A k \in codes : ~Covers(table[k], i)
    BY <1>3, <2>2
  <2> QED BY <2>1, <2>2
<1> QED BY <1>1, <1>4, <1>5 DEF Holds

\* What is patched holds the values of the codes, up to any of them.
LEMMA PatchedHolds ==
  ASSUME NEW g, NEW N \in Nat, NEW bytes \in [0 .. N - 1 -> Bytes], NEW table \in Table,
         NEW n \in 0 .. MAXCHEATS, NEW side \in {"data", "orig"},
         ApartIn(table, CodesIn(g, table, n)), NEW k \in 0 .. n
  PROVE  Holds(table, side, bytes, {j \in CodesIn(g, table, n) : j < k},
               Patched(g, bytes, table, n, side)[k])
<1> DEFINE P == Patched(g, bytes, table, n, side)
           C == CodesIn(g, table, n)
           D == 0 .. N - 1
           Upto(q) == {j \in C : j < q}
           S == {q \in Nat : Holds(table, side, bytes, Upto(q), P[q])}
<1>1. n \in Nat /\ \A j \in 0 .. n - 1 : table[j] \in Code /\ table[j][side] \in Value
  BY TableSides
<1>2. /\ P[0] = bytes
      /\ \A q \in 1 .. n : P[q] = InROM(g, table, side, q - 1, P[q - 1])
      /\ \A q \in 0 .. n : P[q] \in [D -> Bytes]
  BY <1>1, PatchedSteps
<1>3. C \subseteq 0 .. n - 1 /\ \A j \in 0 .. n - 1 : j \in C <=> ForROM(g, table[j])
  BY DEF CodesIn
<1> HIDE DEF P, C
<1>4. 0 \in S
  <2>1. Upto(0) = {}
    <3>1. \A j \in 0 .. n - 1 : ~(j < 0)
      BY <1>1
    <3> QED BY <1>3, <3>1
  <2> QED BY <1>2, <2>1 DEF Holds
<1>5. ASSUME NEW q \in 1 .. n, q - 1 \in S PROVE q \in S
  <2> DEFINE p == q - 1
             c == table[p]
             old == P[p]
             new == P[q]
  <2>1. p \in 0 .. n - 1 /\ p \in 0 .. n /\ q \in Nat
    BY <1>1
  <2>2. c \in Code /\ c.addr \in Nat
    BY <1>1, <2>1, CodeFields
  <2>3. Holds(table, side, bytes, Upto(p), old)
    BY <1>5
  <2>4. new = IF ForROM(g, c) THEN Poke(old, c, c[side]) ELSE old
    BY <1>2 DEF InROM
  <2>5. old \in [D -> Bytes]
    BY <1>2, <2>1
  <2>6. \A j \in C : j < q <=> j < p \/ j = p
    BY <1>1, <1>3, <2>1
  <2> HIDE DEF old, new
  <2> SUFFICES ASSUME NEW i \in D
               PROVE  /\ \A j \in Upto(q) : Covers(table[j], i) =>
                           new[i] = table[j][side][i - table[j].addr + 1]
                      /\ (\A j \in Upto(q) : ~Covers(table[j], i)) => new[i] = bytes[i]
    BY <2>1 DEF Holds, new
  <2>7. /\ \A j \in Upto(p) : Covers(table[j], i) =>
             old[i] = table[j][side][i - table[j].addr + 1]
        /\ (\A j \in Upto(p) : ~Covers(table[j], i)) => old[i] = bytes[i]
    BY <2>3 DEF Holds
  <2>8. CASE p \notin C
    <3>1. new = old
      BY <1>3, <2>1, <2>4, <2>8
    <3>2. Upto(q) = Upto(p)
      BY <2>6, <2>8
    <3> QED BY <2>7, <3>1, <3>2
  <2>9. CASE p \in C /\ ~Covers(c, i)
    <3>1. new[i] = old[i]
      BY <1>3, <2>1, <2>4, <2>5, <2>9 DEF Poke, Covers
    <3>2. \A j \in C : Covers(table[j], i) => (j \in Upto(q) <=> j \in Upto(p))
      BY <2>6, <2>9
    <3> QED BY <2>7, <3>1, <3>2
  <2>10. CASE p \in C /\ Covers(c, i)
    <3>1. new[i] = c[side][i - c.addr + 1]
      <4>1. new[i] = IF i = c.addr THEN c[side][1]
                     ELSE IF c.size > 1 /\ i = c.addr + 1 THEN c[side][2] ELSE old[i]
        BY <1>3, <2>1, <2>4, <2>5, <2>10 DEF Poke
      <4>2. CASE i = c.addr
        <5>1. i - c.addr + 1 = 1
          BY <2>2, <4>2
        <5> QED BY <4>1, <4>2, <5>1
      <4>3. CASE i # c.addr /\ c.size > 1 /\ i = c.addr + 1
        <5>1. i - c.addr + 1 = 2
          BY <2>2, <4>3
        <5> QED BY <4>1, <4>3, <5>1
      <4> QED BY <2>10, <4>2, <4>3 DEF Covers
    <3>2. \A j \in C : Covers(table[j], i) => j = p
      BY <2>10, OneCovers DEF C
    <3>3. p \in Upto(q)
      BY <2>6, <2>10
    <3> QED BY <2>10, <3>1, <3>2, <3>3
  <2> QED BY <2>8, <2>9, <2>10
<1> HIDE DEF S
<1>6. k \in S
  BY <1>1, <1>4, <1>5, BoundedInduction
<1> QED BY <1>6 DEF S, P, C

\* The cartridge that Cheats() takes, and others: with the values of the codes, if
\* these are apart, while cheats are on, and then each remembers what it covers.
ROMGood(g, r, table, n, on) ==
  LET codes == CodesIn(g, table, n) IN
  /\ \A s \in CartSlots :
       IF s = Target(g) /\ HasTarget(g)
       THEN ApartIn(table, codes) =>
              Holds(table, "data", Image(g, s), IF on THEN codes ELSE {}, r[s])
       ELSE r[s] = Image(g, s)
  /\ on /\ HasTarget(g) /\ ApartIn(table, codes) =>
       \A k \in codes : table[k].orig = Peek(Image(g, Target(g)), table[k])

\* What Holds, CodesIn and ApartIn say does not depend on the remembered bytes.
LEMMA SameCodes ==
  ASSUME NEW g, NEW n \in 0 .. MAXCHEATS, NEW old, NEW new,
         \A k \in 0 .. MAXCHEATS - 1 : Alike(new[k], old[k])
  PROVE  /\ CodesIn(g, new, n) = CodesIn(g, old, n)
         /\ ApartIn(new, CodesIn(g, new, n)) <=> ApartIn(old, CodesIn(g, old, n))
         /\ \A bytes, codes, r : codes \subseteq 0 .. MAXCHEATS - 1 =>
              (Holds(new, "data", bytes, codes, r) <=> Holds(old, "data", bytes, codes, r))
<1>1. \A k \in 0 .. n - 1 : k \in 0 .. MAXCHEATS - 1
  BY Constants
<1>2. \A k \in 0 .. MAXCHEATS - 1 :
        /\ ForROM(g, new[k]) <=> ForROM(g, old[k])
        /\ new[k].addr = old[k].addr /\ new[k]["data"] = old[k]["data"]
        /\ \A i : Covers(new[k], i) <=> Covers(old[k], i)
  BY DEF Alike, ForROM, Covers
<1>3. CodesIn(g, new, n) = CodesIn(g, old, n) /\ CodesIn(g, old, n) \subseteq 0 .. MAXCHEATS - 1
  BY <1>1, <1>2 DEF CodesIn
<1>4. ApartIn(new, CodesIn(g, new, n)) <=> ApartIn(old, CodesIn(g, old, n))
  <2> DEFINE C == CodesIn(g, old, n)
  <2>1. \A k \in C : new[k].addr = old[k].addr /\ \A i : Covers(new[k], i) <=> Covers(old[k], i)
    BY <1>2, <1>3
  <2> HIDE DEF C
  <2>2. ASSUME NEW t, NEW u, ApartIn(t, C),
               \A k \in C : t[k].addr = u[k].addr /\ \A i : Covers(t[k], i) <=> Covers(u[k], i)
        PROVE  ApartIn(u, C)
    <3> SUFFICES ASSUME NEW j \in C, NEW k \in C, j # k,
                        NEW i \in {u[j].addr, u[j].addr + 1}
                 PROVE  ~(Covers(u[j], i) /\ Covers(u[k], i))
      BY DEF ApartIn
    <3>1. i \in {t[j].addr, t[j].addr + 1}
      BY <2>2
    <3>2. ~(Covers(t[j], i) /\ Covers(t[k], i))
      BY <2>2, <3>1 DEF ApartIn
    <3> QED BY <2>2, <3>2
  <2>3. ApartIn(new, C) <=> ApartIn(old, C)
    BY <2>1, <2>2
  <2> QED BY <1>3, <2>3 DEF C
<1>5. ASSUME NEW bytes, NEW codes, NEW r, codes \subseteq 0 .. MAXCHEATS - 1
      PROVE  Holds(new, "data", bytes, codes, r) <=> Holds(old, "data", bytes, codes, r)
  <2>1. \A k \in codes : /\ new[k].addr = old[k].addr /\ new[k]["data"] = old[k]["data"]
                         /\ \A i : Covers(new[k], i) <=> Covers(old[k], i)
    BY <1>2, <1>5
  <2> QED BY <2>1 DEF Holds
<1> QED BY <1>3, <1>4, <1>5

\* Without codes nothing but the bytes themselves holds.
LEMMA HoldsNone ==
  ASSUME NEW D, NEW bytes \in [D -> Bytes], NEW r \in [D -> Bytes], NEW table, NEW side
  PROVE  Holds(table, side, bytes, {}, r) <=> r = bytes
<1>1. Holds(table, side, bytes, {}, r) <=> \A i \in D : r[i] = bytes[i]
  BY DEF Holds
<1> QED BY <1>1

LEMMA UptoAll ==
  ASSUME NEW g, NEW table, NEW n \in 0 .. MAXCHEATS
  PROVE  {j \in CodesIn(g, table, n) : j < n} = CodesIn(g, table, n)
<1>1. \A j \in 0 .. n - 1 : j < n
  BY Constants
<1> QED BY <1>1 DEF CodesIn

LEMMA SwitchOnROM ==
  ASSUME game \in Known, NEW s \in States(game), AllFit(game, s.codes, s.count),
         ROMGood(game, s.rom, s.codes, s.count, s.on)
  PROVE  ROMGood(game, SwitchOn(s).rom, SwitchOn(s).codes, SwitchOn(s).count, SwitchOn(s).on)
<1> DEFINE t  == Target(game)
           n  == s.count
           I  == Image(game, t)
           u  == SwitchOn(s)
           B  == Patched(game, s.rom[t], s.codes, n, "data")
           C  == CodesIn(game, s.codes, n)
<1>1. s.rom \in ROMs(game) /\ s.codes \in Table /\ n \in 0 .. MAXCHEATS /\ s.on \in BOOLEAN
  BY StateFields
<1>2. CASE s.on \/ ~HasTarget(game)
  BY <1>2, SwitchOnFacts
<1>3. CASE ~s.on /\ HasTarget(game)
  <2>1. /\ u.rom = [s.rom EXCEPT ![t] = B[n]]
        /\ u.codes = Remember(game, s.rom[t], s.codes, n)
        /\ u.count = n /\ u.on = TRUE
        /\ \A k \in 0 .. MAXCHEATS - 1 : Alike(u.codes[k], s.codes[k])
    <3>1. (s.on \/ HasTarget(game)) = TRUE
      BY <1>3 DEF HasTarget
    <3> QED BY <1>3, <3>1, SwitchOnFacts
  <2> SUFFICES ROMGood(game, u.rom, u.codes, n, TRUE)
    BY <2>1
  <2>2. t \in CartSlots
    BY <1>3, GameFacts
  <2> DEFINE N == game.roms[t] * PageBytes
  <2>3. N \in Nat /\ DOMAIN I = 0 .. N - 1 /\ I \in [0 .. N - 1 -> Bytes]
    BY <2>2, ImageFacts
  <2>4. s.rom[t] \in [0 .. N - 1 -> Bytes]
    BY <1>1, <2>2, <2>3, ROMFields
  <2> HIDE DEF u, N
  <2>5. /\ CodesIn(game, u.codes, n) = C
        /\ ApartIn(u.codes, C) <=> ApartIn(s.codes, C)
        /\ C \subseteq 0 .. MAXCHEATS - 1
        /\ \A bytes, codes, r : codes \subseteq 0 .. MAXCHEATS - 1 =>
             (Holds(u.codes, "data", bytes, codes, r) <=> Holds(s.codes, "data", bytes, codes, r))
    <3>1. C \subseteq 0 .. MAXCHEATS - 1
      BY <1>1, Constants DEF CodesIn
    <3> HIDE DEF n
    <3> QED BY <1>1, <2>1, <3>1, SameCodes
  <2>6. B[n] \in [0 .. N - 1 -> Bytes]
    <3>1. n \in Nat /\ n \in 0 .. n /\ \A k \in 0 .. n - 1 : s.codes[k]["data"] \in Value
      BY <1>1, TableSides
    <3> QED BY <2>4, <3>1, PatchedSteps
  <2>7. u.rom[t] = B[n] /\ \A x \in CartSlots : x # t => u.rom[x] = s.rom[x]
    <3>1. B[n] \in [DOMAIN Image(game, t) -> Bytes]
      BY <2>3, <2>6
    <3> HIDE DEF t, B, n
    <3> QED BY <1>1, <2>1, <2>2, <3>1, ROMChange
  <2>8. \A x \in CartSlots : x # t => u.rom[x] = Image(game, x)
    BY <2>7 DEF ROMGood
  <2> SUFFICES ASSUME ApartIn(s.codes, C)
               PROVE  /\ Holds(s.codes, "data", I, C, B[n])
                      /\ \A k \in C : u.codes[k].orig = Peek(I, u.codes[k])
    <3>1. \A x \in CartSlots : x = t \/ x # t
      OBVIOUS
    <3> HIDE DEF B, C, n, t
    <3> QED BY <1>3, <2>1, <2>2, <2>5, <2>7, <2>8 DEF ROMGood, t, C, n
  <2>9. s.rom[t] = I
    <3>1. Holds(s.codes, "data", I, {}, s.rom[t])
      BY <1>3, <2>2 DEF ROMGood
    <3> HIDE DEF t
    <3> QED BY <2>3, <2>4, <3>1, HoldsNone DEF t
  <2>10. \A k \in 0 .. n : Holds(s.codes, "data", I, {j \in C : j < k}, B[k])
    <3> HIDE DEF t, n, N
    <3> QED BY <1>1, <2>3, <2>9, PatchedHolds
  <2>11. Holds(s.codes, "data", I, C, B[n])
    <3>1. n \in 0 .. n
      BY <1>1
    <3> QED BY <1>1, <2>10, <3>1, UptoAll
  <2>12. ASSUME NEW k \in C PROVE u.codes[k].orig = Peek(I, u.codes[k])
    <3> DEFINE c == s.codes[k]
    <3>1. k \in 0 .. n - 1 /\ k \in 0 .. n /\ k < n /\ k \in 0 .. MAXCHEATS - 1 /\ ForROM(game, c)
      BY <1>1, Constants DEF CodesIn
    <3>2. c \in Code /\ c.addr \in Nat /\ c.size \in {1, 2}
      BY <1>1, <3>1, CodeFields DEF Table
    <3>3. u.codes[k].orig = Peek(B[k], c)
      BY <1>1, <1>3, <2>1, <2>3, <2>4, <3>1, RememberFacts
    <3>4. c.addr \in DOMAIN I /\ (c.size > 1 => c.addr + 1 \in DOMAIN I)
      BY <1>3, <3>1, <3>2, FitsIn DEF AllFit
    <3>5. \A i \in DOMAIN I : Covers(c, i) => B[k][i] = I[i]
      <4> SUFFICES ASSUME NEW i \in DOMAIN I, Covers(c, i) PROVE B[k][i] = I[i]
        OBVIOUS
      <4>1. \A j \in {j \in C : j < k} : ~Covers(s.codes[j], i)
        <5>1. \A j \in {j \in C : j < k} : j \in C /\ j # k
          BY <3>1
        <5> QED BY <5>1, OneCovers
      <4> QED BY <2>10, <3>1, <4>1 DEF Holds
    <3>6. Covers(c, c.addr) /\ (c.size > 1 => Covers(c, c.addr + 1))
      BY DEF Covers
    <3>7. Peek(B[k], c) = Peek(I, c)
      BY <3>4, <3>5, <3>6 DEF Peek
    <3>8. Peek(I, c) = Peek(I, u.codes[k])
      BY <2>1, <3>1 DEF Alike, Peek
    <3> QED BY <3>3, <3>7, <3>8
  <2> QED BY <2>11, <2>12
<1>4. (s.on \/ ~HasTarget(game)) \/ (~s.on /\ HasTarget(game))
  OBVIOUS
<1> QED BY <1>2, <1>3, <1>4, Zenon

LEMMA SwitchOffROM ==
  ASSUME game \in Known, shown \in Shown, NEW s \in States(game),
         ROMGood(game, s.rom, s.codes, s.count, s.on),
         AllFit(game, s.codes, s.count)
  PROVE  ROMGood(game, SwitchOff(s).rom, SwitchOff(s).codes, SwitchOff(s).count, SwitchOff(s).on)
<1> DEFINE t  == Target(game)
           n  == s.count
           I  == Image(game, t)
           u  == SwitchOff(s)
           B  == Patched(game, s.rom[t], s.codes, n, "orig")
           C  == CodesIn(game, s.codes, n)
<1>1. s.rom \in ROMs(game) /\ s.codes \in Table /\ n \in 0 .. MAXCHEATS /\ s.on \in BOOLEAN
  BY StateFields
<1>2. CASE ~s.on \/ ~HasTarget(game)
  BY <1>1, <1>2, SwitchOffFacts
<1>3. CASE s.on /\ HasTarget(game)
  <2>1. /\ u.rom = [s.rom EXCEPT ![t] = B[n]]
        /\ u.codes = s.codes /\ u.count = n /\ u.on = FALSE
    <3>1. (s.on /\ ~HasTarget(game)) = FALSE
      BY <1>3
    <3> QED BY <1>3, <3>1, SwitchOffFacts
  <2> SUFFICES ROMGood(game, u.rom, u.codes, n, FALSE)
    BY <2>1
  <2>2. t \in CartSlots
    BY <1>3, GameFacts
  <2> DEFINE N == game.roms[t] * PageBytes
  <2>3. N \in Nat /\ DOMAIN I = 0 .. N - 1 /\ I \in [0 .. N - 1 -> Bytes]
    BY <2>2, ImageFacts
  <2>4. s.rom[t] \in [0 .. N - 1 -> Bytes]
    BY <1>1, <2>2, <2>3, ROMFields
  <2> HIDE DEF u, N
  <2>5. n \in Nat /\ n \in 0 .. n /\ \A k \in 0 .. n - 1 : /\ s.codes[k]["orig"] \in Value
                                                          /\ s.codes[k] \in Code
    BY <1>1, TableSides
  <2>6. B[n] \in [0 .. N - 1 -> Bytes]
    BY <2>4, <2>5, PatchedSteps
  <2>7. u.rom[t] = B[n] /\ \A x \in CartSlots : x # t => u.rom[x] = s.rom[x]
    <3>1. B[n] \in [DOMAIN Image(game, t) -> Bytes]
      BY <2>3, <2>6
    <3> HIDE DEF t, B, n
    <3> QED BY <1>1, <2>1, <2>2, <3>1, ROMChange
  <2>8. \A x \in CartSlots : x # t => u.rom[x] = Image(game, x)
    BY <2>7 DEF ROMGood
  <2> SUFFICES ASSUME ApartIn(s.codes, C)
               PROVE  Holds(s.codes, "data", I, {}, B[n])
    <3>1. \A x \in CartSlots : x = t \/ x # t
      OBVIOUS
    <3> HIDE DEF B, C, n, t
    <3> QED BY <1>3, <2>1, <2>2, <2>7, <2>8 DEF ROMGood, t, C, n
  <2>9. Holds(s.codes, "data", I, C, s.rom[t])
    BY <1>3, <2>2 DEF ROMGood
  <2>10. Holds(s.codes, "orig", s.rom[t], C, B[n])
    <3>1. Holds(s.codes, "orig", s.rom[t], {j \in C : j < n}, B[n])
      <4> HIDE DEF t, N, n
      <4>1. \A k \in 0 .. n : Holds(s.codes, "orig", s.rom[t], {j \in C : j < k}, B[k])
        BY <1>1, <2>3, <2>4, PatchedHolds
      <4> QED BY <2>5, <4>1
    <3> QED BY <1>1, <3>1, UptoAll
  <2>11. ASSUME NEW i \in 0 .. N - 1 PROVE B[n][i] = I[i]
    <3>1. CASE \E k \in C : Covers(s.codes[k], i)
      <4>1. PICK k \in C : Covers(s.codes[k], i)
        BY <3>1
      <4> DEFINE c == s.codes[k]
      <4>2. k \in 0 .. n - 1 /\ ForROM(game, c)
        BY DEF CodesIn
      <4>3. c \in Code /\ c.addr \in Nat
        BY <2>5, <4>2, CodeFields
      <4>4. c.orig = Peek(I, c)
        BY <1>3 DEF ROMGood
      <4>5. B[n][i] = c["orig"][i - c.addr + 1]
        BY <2>4, <2>10, <4>1 DEF Holds
      <4>6. CASE i = c.addr
        <5>1. i - c.addr + 1 = 1
          BY <4>3, <4>6
        <5> HIDE DEF c, I, B, n
        <5> QED BY <4>4, <4>5, <4>6, <5>1 DEF Peek
      <4>7. CASE i # c.addr
        <5>1. c.size > 1 /\ i = c.addr + 1
          BY <4>1, <4>7 DEF Covers
        <5>2. i - c.addr + 1 = 2
          BY <4>3, <5>1
        <5> HIDE DEF c, I, B, n
        <5> QED BY <4>4, <4>5, <5>1, <5>2 DEF Peek
      <4> QED BY <4>6, <4>7
    <3>2. CASE \A k \in C : ~Covers(s.codes[k], i)
      <4>1. B[n][i] = s.rom[t][i]
        BY <2>4, <2>10, <3>2 DEF Holds
      <4>2. s.rom[t][i] = I[i]
        BY <2>3, <2>9, <3>2 DEF Holds
      <4> QED BY <4>1, <4>2
    <3> QED BY <3>1, <3>2
  <2> QED
    <3> HIDE DEF I, B, n, C, t
    <3>1. Holds(s.codes, "data", I, {}, B[n]) <=> \A i \in 0 .. N - 1 : B[n][i] = I[i]
      BY <2>3 DEF Holds
    <3> QED BY <2>11, <3>1
<1>4. (~s.on \/ ~HasTarget(game)) \/ (s.on /\ HasTarget(game))
  OBVIOUS
<1> QED BY <1>2, <1>3, <1>4, Zenon

\* A cartridge without cheats is as good for any other table.
LEMMA ROMOff ==
  ASSUME NEW g, NEW r, NEW table, NEW n, ROMGood(g, r, table, n, FALSE),
         ApartIn(table, CodesIn(g, table, n)), NEW other, NEW m
  PROVE  ROMGood(g, r, other, m, FALSE)
<1> SUFFICES ASSUME NEW s \in CartSlots, s = Target(g), HasTarget(g)
             PROVE  Holds(other, "data", Image(g, s), {}, r[s])
  BY DEF ROMGood
<1>1. Holds(table, "data", Image(g, s), {}, r[s])
  BY DEF ROMGood
<1> QED BY <1>1 DEF Holds

-----------------------------------------------------------------------------
\* The invariant

Typed ==
  /\ game \in Known
  /\ rom \in ROMs(game)
  /\ CheatCodes \in Table /\ CheatCount \in 0 .. MAXCHEATS /\ CheatsON \in BOOLEAN
  /\ ram \in Memory /\ truth \in Memory
  /\ shown \in Shown /\ touched \in BOOLEAN
  /\ MCFCount \in {0, Len(game.mcf)} /\ current_cheat \in 0 .. MCFCount
  /\ AllFit(game, CheatCodes, CheatCount)
  /\ CheatsON => HasTarget(game)

InCells(c) == c.addr \in Cells /\ (c.size > 1 => c.addr + 1 \in Cells)

\* The entries of a .MCF file that could be applied so far, and the last of them.
Done(g, at) == {k \in 1 .. at : Applicable(g.mcf[k])}
LastOf(T) == CHOOSE k \in T : \A j \in T : j <= k

\* With a .MCF file there is one code at most, for RAM, and F7's counter says which.
SteppedTo(g, at, table, n, on) ==
  /\ n \in {0, 1} /\ (n = 1 => table[0].kind = 1)
  /\ on => n = 1 /\ InCells(table[0])
  /\ on <=> (Done(g, at) # {} /\ HasTarget(g))
  /\ Done(g, at) # {} => /\ n = 1
                        /\ table[0].addr = g.mcf[LastOf(Done(g, at))].addr
                        /\ table[0].data = g.mcf[LastOf(Done(g, at))].data

Stepping == MCFCount > 0 => SteppedTo(game, current_cheat, CheatCodes, CheatCount, CheatsON)

\* RAM differs from what it would be in the cells of the code that is on, in the
\* bank that is shown, and the code remembers what these would be.
Lent(m, would, bank, c, on) ==
  /\ ~on => m = would
  /\ on =>
       /\ \A b \in Banks, a \in Cells : m[b][a] = would[b][a] \/ (b = bank /\ Covers(c, a))
       /\ bank \in Banks =>
            \A a \in Cells : Covers(c, a) => c.orig[a - c.addr + 1] = would[bank][a]

GivenBack == MCFCount > 0 /\ ~touched => Lent(ram, truth, shown, CheatCodes[0], CheatsON)

ROMInv == ROMGood(game, rom, CheatCodes, CheatCount, CheatsON)

Inv == Typed /\ ROMInv /\ Stepping /\ GivenBack

LEMMA StateTyped ==
  ASSUME Typed
  PROVE  /\ State \in States(game)
         /\ State.rom = rom /\ State.codes = CheatCodes /\ State.count = CheatCount
         /\ State.on = CheatsON /\ State.ram = ram
BY DEF Typed, States, State

\* What an operation on the state leaves is typed.
LEMMA LeavesTyped ==
  ASSUME Typed, NEW u \in States(game), AllFit(game, u.codes, u.count), u.on => HasTarget(game),
         Leaves(u), game' = game, truth' \in Memory, shown' \in Shown, touched' \in BOOLEAN,
         MCFCount' = MCFCount, current_cheat' \in 0 .. MCFCount
  PROVE  Typed'
<1>1. /\ rom' \in ROMs(game') /\ CheatCodes' \in Table /\ CheatCount' \in 0 .. MAXCHEATS
      /\ CheatsON' \in BOOLEAN /\ ram' \in Memory
  BY StateFields DEF Leaves
<1>2. AllFit(game', CheatCodes', CheatCount') /\ (CheatsON' => HasTarget(game'))
  BY DEF Leaves
<1>3. game' \in Known /\ MCFCount' \in {0, Len(game'.mcf)} /\ current_cheat' \in 0 .. MCFCount'
  BY DEF Typed
<1> QED BY <1>1, <1>2, <1>3 DEF Typed

LEMMA LeavesROM ==
  ASSUME NEW u, ROMGood(game, u.rom, u.codes, u.count, u.on), Leaves(u), game' = game
  PROVE  ROMInv'
<1>1. /\ rom' = u.rom /\ CheatCodes' = u.codes /\ CheatCount' = u.count /\ CheatsON' = u.on
  BY DEF Leaves
<1>2. ROMGood(game', rom', CheatCodes', CheatCount', CheatsON')
  BY <1>1
<1> QED BY <1>2 DEF ROMInv

\* A value in memory.
LEMMA StoreFacts ==
  ASSUME NEW m \in Memory, NEW bank \in Shown, NEW c, c.addr \in Nat, InCells(c),
         NEW v \in Value
  PROVE  \A b \in Banks, a \in Cells :
           Store(m, bank, c, v)[b][a] =
             IF b = bank /\ Covers(c, a) THEN v[a - c.addr + 1] ELSE m[b][a]
<1> SUFFICES ASSUME NEW b \in Banks, NEW a \in Cells
             PROVE  Store(m, bank, c, v)[b][a] =
                      IF b = bank /\ Covers(c, a) THEN v[a - c.addr + 1] ELSE m[b][a]
  OBVIOUS
<1>1. CASE bank = NoBank
  <2>1. b # bank
    BY <1>1, CheatsAssumption
  <2> QED BY <1>1, <2>1 DEF Store, WrZ80
<1>2. CASE bank # NoBank
  <2> DEFINE first == [m EXCEPT ![bank][c.addr] = v[1]]
             both  == [first EXCEPT ![bank][c.addr + 1] = v[2]]
  <2>1. bank \in Banks
    BY <1>2 DEF Shown
  <2>2. v[1] \in Bytes /\ v[2] \in Bytes
    BY DEF Value
  <2>3. Store(m, bank, c, v) = IF c.size > 1 THEN both ELSE first
    BY <1>2 DEF Store, WrZ80
  <2>4. first \in Memory /\ first[b][a] = IF b = bank /\ a = c.addr THEN v[1] ELSE m[b][a]
    BY <2>1, <2>2 DEF Memory
  <2> HIDE DEF first
  <2>5. both[b][a] = IF b = bank /\ a = c.addr + 1 THEN v[2] ELSE first[b][a]
    BY <2>1, <2>2, <2>4 DEF Memory
  <2> HIDE DEF both
  <2>6. CASE b # bank
    BY <2>3, <2>4, <2>5, <2>6
  <2>7. CASE b = bank /\ a = c.addr
    <3>1. a - c.addr + 1 = 1 /\ a # c.addr + 1 /\ Covers(c, a)
      BY <2>7 DEF Covers
    <3> QED BY <2>3, <2>4, <2>5, <2>7, <3>1
  <2>8. CASE b = bank /\ a # c.addr /\ a = c.addr + 1
    <3>1. a - c.addr + 1 = 2 /\ (Covers(c, a) <=> c.size > 1)
      BY <2>8 DEF Covers
    <3> QED BY <2>3, <2>4, <2>5, <2>8, <3>1
  <2>9. CASE b = bank /\ a # c.addr /\ a # c.addr + 1
    <3>1. ~Covers(c, a)
      BY <2>9 DEF Covers
    <3> QED BY <2>3, <2>4, <2>5, <2>9, <3>1
  <2> QED BY <2>6, <2>7, <2>8, <2>9
<1> QED BY <1>1, <1>2

LEMMA MemoryIs ==
  ASSUME NEW m \in Memory, NEW n \in Memory, \A b \in Banks, a \in Cells : m[b][a] = n[b][a]
  PROVE  m = n
<1>1. \A b \in Banks : m[b] \in [Cells -> Bytes] /\ n[b] \in [Cells -> Bytes]
  BY DEF Memory
<1>2. \A b \in Banks : m[b] = n[b]
  <2> TAKE b \in Banks
  <2>1. m[b] = [a \in Cells |-> m[b][a]] /\ n[b] = [a \in Cells |-> n[b][a]]
    BY <1>1
  <2>2. \A a \in Cells : m[b][a] = n[b][a]
    OBVIOUS
  <2> QED BY <2>1, <2>2
<1>3. m = [b \in Banks |-> m[b]] /\ n = [b \in Banks |-> n[b]]
  BY DEF Memory
<1> QED BY <1>2, <1>3

\* Switched off, a .MCF file's cheat gives back what RAM would be.
LEMMA OffRAM ==
  ASSUME Typed, Stepping, GivenBack, MCFCount > 0, ~touched
  PROVE  SwitchOff(State).ram = truth
<1> DEFINE c == CheatCodes[0]
<1>1. Lent(ram, truth, shown, c, CheatsON)
  BY DEF GivenBack
<1>2. CASE ~CheatsON
  <2>1. SwitchOff(State) = State
    BY <1>2, StateTyped DEF SwitchOff
  <2> QED BY <1>1, <1>2, <2>1, StateTyped DEF Lent
<1>3. CASE CheatsON
  <2>1. HasTarget(game) /\ CheatCount = 1 /\ c.kind = 1 /\ InCells(c)
    BY <1>3 DEF Typed, Stepping, SteppedTo
  <2>2. SwitchOff(State).ram = StoreAll(ram, shown, CheatCodes, 1, "orig")
    BY <1>3, <2>1, StateTyped, SwitchOffFacts DEF Typed
  <2>3. c \in Code /\ ram \in Memory /\ truth \in Memory /\ shown \in Shown
    BY Constants DEF Typed, Table
  <2>4. c.orig \in Value /\ c["orig"] = c.orig /\ c.addr \in Nat
    BY <2>3, CodeFields
  <2>5. StoreAll(ram, shown, CheatCodes, 1, "orig") = Store(ram, shown, c, c.orig)
    <3>1. \A k \in 0 .. 1 - 1 : CheatCodes[k]["orig"] \in Value
      BY <2>4
    <3>2. StoreAll(ram, shown, CheatCodes, 1, "orig") = InRAM(shown, CheatCodes, "orig", 0, ram)
      BY <2>3, <3>1, StoredFacts DEF Shown
    <3> QED BY <2>1, <2>4, <3>2 DEF InRAM
  <2> DEFINE m == Store(ram, shown, c, c.orig)
  <2>6. m \in Memory
    BY <2>3, <2>4, StoreType DEF Shown
  <2>7. \A b \in Banks, a \in Cells : m[b][a] = truth[b][a]
    <3> TAKE b \in Banks, a \in Cells
    <3>1. m[b][a] = IF b = shown /\ Covers(c, a) THEN c.orig[a - c.addr + 1] ELSE ram[b][a]
      BY <2>1, <2>3, <2>4, StoreFacts
    <3>2. ram[b][a] = truth[b][a] \/ (b = shown /\ Covers(c, a))
      BY <1>1, <1>3 DEF Lent
    <3>3. b = shown /\ Covers(c, a) => c.orig[a - c.addr + 1] = truth[b][a]
      BY <1>1, <1>3 DEF Lent
    <3> HIDE DEF c, m
    <3> QED BY <3>1, <3>2, <3>3
  <2> HIDE DEF m
  <2>8. m = truth
    BY <2>3, <2>6, <2>7, MemoryIs
  <2> QED BY <2>2, <2>5, <2>8 DEF m
<1> QED BY <1>2, <1>3

\* The codes of a .MCF file are for RAM.
LEMMA NoneForROM ==
  ASSUME NEW g, NEW table, NEW n \in {0, 1}, n = 1 => table[0].kind = 1
  PROVE  /\ CodesIn(g, table, n) = {} /\ AllFit(g, table, n)
         /\ ApartIn(table, CodesIn(g, table, n))
<1>1. \A k \in 0 .. n - 1 : n = 1 /\ k = 0
  OBVIOUS
<1>2. \A k \in 0 .. n - 1 : ~ForROM(g, table[k])
  BY <1>1 DEF ForROM
<1>3. CodesIn(g, table, n) = {}
  BY <1>2 DEF CodesIn
<1> QED BY <1>2, <1>3 DEF AllFit, CodeFits, ApartIn

\* ApplyMCFCheat() leaves the code of the entry, which remembers the bytes there.
ByEntry(entry, m, c) ==
  /\ c.kind = 1 /\ c.addr = entry.addr /\ c.data = entry.data /\ c.size = entry.size
  /\ c.orig = <<RdZ80(m, shown, entry.addr),
                IF entry.size > 1 THEN RdZ80(m, shown, entry.addr + 1) ELSE 0>>

LEMMA ApplyFacts ==
  ASSUME Typed, ROMInv, Stepping, MCFCount > 0,
         NEW entry \in Entry, Applicable(entry), EntryFits(entry)
  PROVE  LET u == SwitchOn(ApplyMCFCheat(State, entry)) IN
         /\ u \in States(game) /\ u.count = 1 /\ u.on = HasTarget(game)
         /\ u.ram = SwitchOff(State).ram
         /\ ByEntry(entry, u.ram, u.codes[0])
         /\ ROMGood(game, u.rom, u.codes, u.count, u.on)
<1> DEFINE off  == SwitchOff(State)
           orig == <<RdZ80(off.ram, shown, entry.addr),
                     IF entry.size > 1 THEN RdZ80(off.ram, shown, entry.addr + 1) ELSE 0>>
           c == [kind |-> 1, addr |-> entry.addr, data |-> entry.data, orig |-> orig,
                 size |-> entry.size]
           codes == [off.codes EXCEPT ![0] = c]
           y == [off EXCEPT !.codes = codes, !.count = 1]
           u == SwitchOn(y)
<1>1. game \in Known /\ shown \in Shown /\ State \in States(game) /\ (State.on => HasTarget(game))
  BY StateTyped DEF Typed
<1>2. /\ off \in States(game) /\ off.count = CheatCount /\ off.codes = CheatCodes
      /\ off.on = FALSE
  <2>1. off \in States(game) /\ off.count = CheatCount /\ off.codes = CheatCodes
        /\ off.on = (State.on /\ ~HasTarget(game))
    BY <1>1, StateTyped, SwitchOffFacts
  <2>2. off.on \in BOOLEAN
    BY <2>1, StateFields
  <2> QED BY <1>1, <2>1, <2>2
<1>3. /\ off.rom \in ROMs(game) /\ off.codes \in Table /\ off.ram \in Memory
  BY <1>2, StateFields
<1>4. entry.addr \in Cells /\ (entry.size > 1 => entry.addr + 1 \in Cells)
      /\ entry.size \in {1, 2} /\ entry.addr \in Nat /\ entry.data \in Value
  BY DEF EntryFits, Applicable, Entry
<1>5. orig \in Value
  <2>1. \A a \in Cells : RdZ80(off.ram, shown, a) \in Bytes
    BY <1>1, <1>3, Constants DEF RdZ80, Shown, Memory
  <2> QED BY <1>4, <2>1, Constants DEF Value
<1>6. ROMGood(game, off.rom, off.codes, off.count, FALSE)
  <2>1. AllFit(game, State.codes, State.count)
        /\ ROMGood(game, State.rom, State.codes, State.count, State.on)
    BY StateTyped DEF Typed, ROMInv
  <2>2. ROMGood(game, off.rom, off.codes, off.count, off.on)
    BY <1>1, <2>1, SwitchOffROM
  <2> QED BY <1>2, <2>2
<1>7. SwitchOn(ApplyMCFCheat(State, entry)) = SwitchOn(SwitchTo(y, CheatsON))
  <2> DEFINE reset == [off EXCEPT !.count = 0]
             blank == [kind |-> 1, addr |-> entry.addr, data |-> entry.data,
                       orig |-> <<0, 0>>, size |-> entry.size]
             z == [reset EXCEPT !.codes[0] = [blank EXCEPT !.orig = orig], !.count = 1]
  <2>1. off \in [rom : ROMs(game), codes : Table, count : 0 .. MAXCHEATS, on : BOOLEAN,
                 ram : Memory]
    BY <1>2 DEF States
  <2> HIDE DEF off
  <2>2. reset.ram = off.ram /\ reset.codes = off.codes
    BY <2>1
  <2>3. ApplyMCFCheat(State, entry) = SwitchTo(z, CheatsON)
    BY <2>2, StateTyped DEF ApplyMCFCheat, ResetCheats, off
  <2>4. [blank EXCEPT !.orig = orig] = c
    OBVIOUS
  <2> HIDE DEF c, blank, orig
  <2>5. z = y
    BY <2>1, <2>4
  <2> QED BY <2>3, <2>5
<1> HIDE DEF orig
<1>8. c \in Code /\ c.kind = 1 /\ ByEntry(entry, off.ram, c)
  <2>1. c \in Code
    BY <1>4, <1>5 DEF Code
  <2>2. ByEntry(entry, off.ram, c)
    BY DEF ByEntry, orig
  <2> QED BY <2>1, <2>2
<1> HIDE DEF c
<1>9. codes \in Table /\ codes[0] = c
  BY <1>3, <1>8, Constants DEF Table
<1> HIDE DEF codes, off
<1>10. /\ y \in States(game) /\ y.codes = codes /\ y.count = 1 /\ y.on = FALSE
       /\ y.rom = off.rom /\ y.ram = off.ram
  <2>1. 1 \in 0 .. MAXCHEATS
    BY Constants
  <2> QED BY <1>2, <1>9, <2>1 DEF States
<1> HIDE DEF y
<1>11. AllFit(game, y.codes, y.count) /\ ROMGood(game, y.rom, y.codes, y.count, y.on)
  <2>1. AllFit(game, y.codes, y.count)
    BY <1>8, <1>9, <1>10, NoneForROM
  <2>2. CheatCount \in {0, 1} /\ (CheatCount = 1 => CheatCodes[0].kind = 1)
    BY DEF Stepping, SteppedTo
  <2>3. ApartIn(off.codes, CodesIn(game, off.codes, off.count))
    BY <1>2, <2>2, NoneForROM
  <2>4. ROMGood(game, y.rom, y.codes, y.count, FALSE)
    BY <1>6, <1>10, <2>3, ROMOff
  <2> QED BY <1>10, <2>1, <2>4
<1>12. /\ u \in States(game) /\ u.count = 1 /\ u.on = HasTarget(game) /\ u.ram = off.ram
       /\ Alike(u.codes[0], c)
       /\ u.codes[0].orig = c.orig
       /\ ROMGood(game, u.rom, u.codes, u.count, u.on)
  <2>1. ROMGood(game, u.rom, u.codes, u.count, u.on)
    BY <1>1, <1>10, <1>11, SwitchOnROM
  <2>2. 0 \in 0 .. MAXCHEATS - 1
    BY Constants
  <2>3. /\ u \in States(game) /\ u.count = 1 /\ u.ram = off.ram /\ u.on = (FALSE \/ HasTarget(game))
        /\ Alike(u.codes[0], c)
    BY <1>1, <1>9, <1>10, <1>11, <2>2, SwitchOnFacts
  <2>4. u.codes[0].orig = c.orig
    <3>1. CASE ~HasTarget(game)
      BY <1>9, <1>10, <3>1 DEF SwitchOn
    <3>2. CASE HasTarget(game)
      <4> DEFINE bytes == y.rom[Target(game)]
      <4>1. u.codes = Remember(game, bytes, codes, 1)
        <5>1. u.codes = Remember(game, bytes, y.codes, y.count)
          BY <1>1, <1>10, <1>11, <3>2, SwitchOnFacts
        <5> HIDE DEF u, bytes
        <5> QED BY <1>10, <5>1
      <4>2. bytes \in [DOMAIN Image(game, Target(game)) -> Bytes]
        BY <1>1, <1>3, <1>10, <3>2, GameFacts, ROMFields
      <4>3. ~ForROM(game, codes[0])
        BY <1>8, <1>9 DEF ForROM
      <4>4. AllFit(game, codes, 1) /\ 1 \in 0 .. MAXCHEATS
        BY <1>10, <1>11, Constants
      <4> HIDE DEF bytes
      <4>5. Remember(game, bytes, codes, 1)[0].orig = codes[0].orig
        BY <1>1, <1>9, <2>2, <3>2, <4>2, <4>3, <4>4, RememberFacts
      <4> QED BY <1>9, <4>1, <4>5
    <3> QED BY <3>1, <3>2
  <2>5. u.on \in BOOLEAN /\ HasTarget(game) \in BOOLEAN
    BY <2>3 DEF HasTarget
  <2> QED BY <2>1, <2>3, <2>4, <2>5
<1>13. SwitchOn(SwitchTo(y, CheatsON)) = u
  <2>1. CASE CheatsON
    <3>1. HasTarget(game)
      BY <2>1 DEF Typed
    <3>2. SwitchOn(u) = u
      BY <1>12, <3>1 DEF SwitchOn
    <3> QED BY <2>1, <3>2 DEF SwitchTo
  <2>2. CASE ~CheatsON
    BY <1>10, <2>2 DEF SwitchTo, SwitchOff
  <2> QED BY <2>1, <2>2
<1>14. ByEntry(entry, u.ram, u.codes[0])
  BY <1>8, <1>12 DEF ByEntry, Alike
<1> HIDE DEF u
<1>15. SwitchOn(ApplyMCFCheat(State, entry)) = u
  BY <1>7, <1>13 DEF u
<1> QED BY <1>12, <1>14, <1>15 DEF off

-----------------------------------------------------------------------------
\* F7's counter

LEMMA Counter ==
  ASSUME NEW n \in Nat, NEW c \in 0 .. n
  PROVE  (c + 1) % (n + 1) = IF c = n THEN 0 ELSE c + 1
OBVIOUS

LEMMA LastIs ==
  ASSUME NEW n \in Nat, NEW T, T \subseteq 1 .. n, n \in T
  PROVE  LastOf(T) = n
<1>1. n \in T /\ \A j \in T : j <= n
  OBVIOUS
<1>2. LastOf(T) \in T /\ \A j \in T : j <= LastOf(T)
  BY <1>1 DEF LastOf
<1>3. LastOf(T) \in 1 .. n /\ n <= LastOf(T)
  <2>1. LastOf(T) \in T /\ n <= LastOf(T)
    BY <1>1, <1>2, Zenon
  <2> QED BY <2>1
<1> QED BY <1>3

LEMMA DoneFacts ==
  ASSUME NEW g, NEW at \in Nat
  PROVE  /\ Done(g, 0) = {}
         /\ Applicable(g.mcf[at + 1]) =>
              Done(g, at + 1) # {} /\ LastOf(Done(g, at + 1)) = at + 1
         /\ ~Applicable(g.mcf[at + 1]) => Done(g, at + 1) = Done(g, at)
<1>1. Done(g, 0) = {}
  BY DEF Done
<1>2. ASSUME Applicable(g.mcf[at + 1])
      PROVE  Done(g, at + 1) # {} /\ LastOf(Done(g, at + 1)) = at + 1
  <2>1. at + 1 \in Done(g, at + 1) /\ Done(g, at + 1) \subseteq 1 .. (at + 1)
    BY <1>2 DEF Done
  <2> QED BY <2>1, LastIs
<1>3. ASSUME ~Applicable(g.mcf[at + 1]) PROVE Done(g, at + 1) = Done(g, at)
  <2>1. \A k \in 1 .. (at + 1) : k = at + 1 \/ k \in 1 .. at
    OBVIOUS
  <2>2. \A k \in 1 .. at : k \in 1 .. (at + 1)
    OBVIOUS
  <2> QED BY <1>3, <2>1, <2>2 DEF Done
<1> QED BY <1>1, <1>2, <1>3

\* With a .MCF file, an entry that F7 reaches.
LEMMA EntryFacts ==
  ASSUME Typed, MCFCount > 0, NEW k \in 1 .. MCFCount
  PROVE  game.mcf[k] \in Entry /\ EntryFits(game.mcf[k])
<1>1. MCFCount = Len(game.mcf) /\ game.mcf \in Seq(Entry) /\ game \in Known
  BY GameFacts DEF Typed
<1>2. k \in DOMAIN game.mcf /\ game.mcf[k] \in Entry /\ game.mcf # <<>>
  BY <1>1
<1>3. game \in Games
  BY <1>1, <1>2 DEF Known, Nothing
<1> QED BY <1>2, <1>3, FitAssumption

\* What is believed of RAM, after F7.
LEMMA BelieveFacts ==
  ASSUME Typed, Believe, ram' \in Memory
  PROVE  /\ truth' \in Memory /\ touched' \in BOOLEAN
         /\ CheatsON' \/ MCFCount = 0 => truth' = truth /\ touched' = touched
         /\ ~CheatsON' /\ MCFCount # 0 =>
              touched' = FALSE /\ truth' = IF touched THEN ram' ELSE truth
<1>1. truth \in Memory /\ touched \in BOOLEAN
  BY DEF Typed
<1>2. CASE CheatsON' \/ MCFCount = 0
  BY <1>1, <1>2 DEF Believe
<1>3. CASE ~(CheatsON' \/ MCFCount = 0)
  <2>1. truth' = (IF touched THEN ram' ELSE truth) /\ touched' = FALSE
    BY <1>3 DEF Believe
  <2>2. touched' \in BOOLEAN
    BY <2>1
  <2> QED BY <1>1, <1>3, <2>1, <2>2
<1> QED BY <1>2, <1>3

LEMMA CountIs ==
  ASSUME Typed
  PROVE  MCFCount \in Nat /\ current_cheat \in 0 .. MCFCount
<1>1. Len(game.mcf) \in Nat
  BY GameFacts DEF Typed
<1> QED BY <1>1 DEF Typed

\* F7 past the last entry: the cheats are off, and RAM is the program's again.
LEMMA CycleEnds ==
  ASSUME Inv, F7Cycle, current_cheat' = 0
  PROVE  Inv'
<1> DEFINE u == SwitchOff(State)
<1>1. /\ Typed /\ ROMInv /\ Stepping /\ GivenBack /\ MCFCount > 0
      /\ game' = game /\ MCFCount' = MCFCount /\ shown' = shown /\ Believe /\ Leaves(u)
  BY DEF Inv, F7Cycle
<1>2. game \in Known /\ shown \in Shown /\ State \in States(game)
      /\ AllFit(game, State.codes, State.count)
      /\ ROMGood(game, State.rom, State.codes, State.count, State.on)
  BY <1>1, StateTyped DEF Typed, ROMInv
<1>3. /\ u \in States(game) /\ u.count = CheatCount /\ u.codes = CheatCodes
      /\ u.on = FALSE
      /\ ROMGood(game, u.rom, u.codes, u.count, u.on)
  <2>1. u \in States(game) /\ u.count = State.count /\ u.codes = State.codes
        /\ u.on = (State.on /\ ~HasTarget(game))
    BY <1>2, SwitchOffFacts
  <2>2. u.on = FALSE
    BY <1>1, <2>1, StateTyped DEF Typed
  <2>3. ROMGood(game, u.rom, u.codes, u.count, u.on)
    BY <1>2, SwitchOffROM
  <2> QED BY <1>1, <2>1, <2>2, <2>3, StateTyped
<1>4. ~touched => u.ram = truth
  BY <1>1, OffRAM
<1>5. u.ram \in Memory
  BY <1>3, StateFields
<1> HIDE DEF u
<1>6. CheatCodes' = CheatCodes /\ CheatCount' = CheatCount /\ CheatsON' = FALSE /\ ram' = u.ram
  BY <1>1, <1>3 DEF Leaves
<1>7. /\ truth' \in Memory /\ touched' \in BOOLEAN
      /\ truth' = IF touched THEN ram' ELSE truth
  <2>1. MCFCount # 0 /\ ram' \in Memory /\ CheatsON' = FALSE
    BY <1>1, <1>5, <1>6
  <2>2. truth' \in Memory /\ touched' \in BOOLEAN
    BY <1>1, <2>1, BelieveFacts
  <2>3. truth' = IF touched THEN ram' ELSE truth
    BY <1>1, <2>1, BelieveFacts
  <2> QED BY <2>2, <2>3
<1>8. Typed'
  <2>1. AllFit(game, u.codes, u.count)
    BY <1>1, <1>3 DEF Typed
  <2>2. current_cheat' \in 0 .. MCFCount
    BY <1>1, CountIs
  <2>3. shown' \in Shown
    BY <1>1, <1>2
  <2> QED BY <1>1, <1>3, <1>7, <2>1, <2>2, <2>3, LeavesTyped
<1>9. ROMInv'
  BY <1>1, <1>3, LeavesROM
<1>10. Stepping'
  <2>1. Done(game, 0) = {}
    BY DoneFacts
  <2>2. CheatCount \in {0, 1} /\ (CheatCount = 1 => CheatCodes[0].kind = 1)
    BY <1>1 DEF Stepping, SteppedTo
  <2>3. SteppedTo(game, 0, CheatCodes, CheatCount, FALSE)
    BY <2>1, <2>2 DEF SteppedTo
  <2> QED BY <1>1, <1>6, <2>3 DEF Stepping
<1>11. GivenBack'
  <2>1. ram' = truth'
    BY <1>4, <1>6, <1>7
  <2> QED BY <1>6, <2>1 DEF GivenBack, Lent
<1> QED BY <1>8, <1>9, <1>10, <1>11 DEF Inv

\* F7 to an entry that can be applied: it takes the place of the one before.
LEMMA CycleApplies ==
  ASSUME Inv, F7Cycle, current_cheat' # 0, Applicable(game.mcf[current_cheat'])
  PROVE  Inv'
<1> DEFINE entry == game.mcf[current_cheat']
           u == SwitchOn(ApplyMCFCheat(State, entry))
<1>1. /\ Typed /\ ROMInv /\ Stepping /\ GivenBack /\ MCFCount > 0
      /\ game' = game /\ MCFCount' = MCFCount /\ shown' = shown /\ Believe /\ Leaves(u)
      /\ current_cheat' = (current_cheat + 1) % (MCFCount + 1)
  BY DEF Inv, F7Cycle
<1>2. current_cheat' = current_cheat + 1 /\ current_cheat' \in 1 .. MCFCount
      /\ current_cheat \in Nat
  BY <1>1, CountIs, Counter
<1>3. entry \in Entry /\ EntryFits(entry)
  BY <1>1, <1>2, EntryFacts
<1>4. /\ u \in States(game) /\ u.count = 1 /\ u.on = HasTarget(game)
      /\ u.ram = SwitchOff(State).ram
      /\ ByEntry(entry, u.ram, u.codes[0])
      /\ ROMGood(game, u.rom, u.codes, u.count, u.on)
  BY <1>1, <1>3, ApplyFacts
<1>5. ~touched => u.ram = truth
  BY <1>1, <1>4, OffRAM
<1>6. u.ram \in Memory /\ u.on \in BOOLEAN /\ u.codes \in Table
  BY <1>4, StateFields
<1> HIDE DEF u
<1>7. /\ CheatCodes' = u.codes /\ CheatCount' = 1 /\ CheatsON' = HasTarget(game) /\ ram' = u.ram
      /\ rom' = u.rom
  BY <1>1, <1>4 DEF Leaves
<1>8. /\ truth' \in Memory /\ touched' \in BOOLEAN
      /\ CheatsON' => truth' = truth
      /\ CheatsON' => touched' = touched
      /\ ~CheatsON' => truth' = IF touched THEN ram' ELSE truth
  <2>1. MCFCount # 0 /\ ram' \in Memory
    BY <1>1, <1>6, <1>7
  <2>2. truth' \in Memory /\ touched' \in BOOLEAN
    BY <1>1, <2>1, BelieveFacts
  <2>3. CheatsON' => truth' = truth /\ touched' = touched
    BY <1>1, <2>1, BelieveFacts
  <2>4. ~CheatsON' => truth' = IF touched THEN ram' ELSE truth
    BY <1>1, <2>1, BelieveFacts
  <2> QED BY <2>2, <2>3, <2>4
<1>9. /\ u.codes[0].kind = 1 /\ u.codes[0].addr = entry.addr /\ u.codes[0].data = entry.data
      /\ InCells(u.codes[0])
  BY <1>3, <1>4 DEF ByEntry, EntryFits, InCells
<1>10. Typed'
  <2>1. AllFit(game, u.codes, u.count)
    BY <1>4, <1>9, NoneForROM
  <2>2. current_cheat' \in 0 .. MCFCount
    BY <1>2
  <2>3. shown' \in Shown
    BY <1>1 DEF Typed
  <2> QED BY <1>1, <1>4, <1>8, <2>1, <2>2, <2>3, LeavesTyped
<1>11. ROMInv'
  BY <1>1, <1>4, LeavesROM
<1>12. Stepping'
  <2> DEFINE at == current_cheat'
  <2>1. Done(game, at) # {} /\ LastOf(Done(game, at)) = at
    BY <1>2, DoneFacts
  <2>2. SteppedTo(game, at, u.codes, 1, HasTarget(game))
    BY <1>9, <2>1 DEF SteppedTo
  <2> QED BY <1>1, <1>7, <2>2 DEF Stepping
<1>13. GivenBack'
  <2> SUFFICES ASSUME ~touched'
               PROVE  Lent(ram', truth', shown', CheatCodes'[0], CheatsON')
    BY DEF GivenBack
  <2>1. CASE ~CheatsON'
    <3>1. ram' = truth'
      BY <1>5, <1>7, <1>8, <2>1
    <3> QED BY <2>1, <3>1 DEF Lent
  <2>2. CASE CheatsON'
    <3> DEFINE c == u.codes[0]
    <3>1. ram' = truth' /\ u.ram = truth'
      BY <1>5, <1>7, <1>8, <2>2
    <3>2. ASSUME shown \in Banks, NEW a \in Cells, Covers(c, a)
          PROVE  c.orig[a - c.addr + 1] = truth'[shown][a]
      <4>1. shown # NoBank
        BY <3>2, CheatsAssumption
      <4>2. c.addr = entry.addr /\ c.size = entry.size
            /\ c.orig = <<u.ram[shown][c.addr],
                          IF c.size > 1 THEN u.ram[shown][c.addr + 1] ELSE 0>>
        BY <1>4, <4>1 DEF ByEntry, RdZ80
      <4>3. c.addr \in Nat
        BY <1>3, <4>2 DEF Entry
      <4> HIDE DEF c
      <4>4. CASE a = c.addr
        <5>1. a - c.addr + 1 = 1
          BY <4>3, <4>4
        <5> QED BY <3>1, <4>2, <4>4, <5>1
      <4>5. CASE a = c.addr + 1 /\ c.size > 1
        <5>1. a - c.addr + 1 = 2
          BY <4>3, <4>5
        <5> QED BY <3>1, <4>2, <4>5, <5>1
      <4> QED BY <3>2, <4>4, <4>5 DEF Covers
    <3> QED BY <1>1, <1>7, <2>2, <3>1, <3>2 DEF Lent
  <2> QED BY <2>1, <2>2
<1> QED BY <1>10, <1>11, <1>12, <1>13 DEF Inv

\* F7 to an entry that cannot be applied: the one before stays.
LEMMA CyclePasses ==
  ASSUME Inv, F7Cycle, current_cheat' # 0, ~Applicable(game.mcf[current_cheat'])
  PROVE  Inv'
<1>1. /\ Typed /\ ROMInv /\ Stepping /\ GivenBack /\ MCFCount > 0
      /\ game' = game /\ MCFCount' = MCFCount /\ shown' = shown /\ Believe /\ Leaves(State)
      /\ current_cheat' = (current_cheat + 1) % (MCFCount + 1)
  BY DEF Inv, F7Cycle
<1>2. current_cheat' = current_cheat + 1 /\ current_cheat' \in 0 .. MCFCount
      /\ current_cheat \in Nat
  BY <1>1, CountIs, Counter
<1>3. /\ rom' = rom /\ CheatCodes' = CheatCodes /\ CheatCount' = CheatCount
      /\ CheatsON' = CheatsON /\ ram' = ram
  BY <1>1, StateTyped DEF Leaves
<1>4. /\ truth' \in Memory /\ touched' \in BOOLEAN
      /\ CheatsON => truth' = truth
      /\ CheatsON => touched' = touched
      /\ ~CheatsON => truth' = IF touched THEN ram ELSE truth
  <2>1. MCFCount # 0 /\ ram' \in Memory
    BY <1>1, <1>3 DEF Typed
  <2>2. truth' \in Memory /\ touched' \in BOOLEAN
    BY <1>1, <2>1, BelieveFacts
  <2>3. CheatsON => truth' = truth /\ touched' = touched
    BY <1>1, <1>3, <2>1, BelieveFacts
  <2>4. ~CheatsON => truth' = IF touched THEN ram ELSE truth
    BY <1>1, <1>3, <2>1, BelieveFacts
  <2> QED BY <2>2, <2>3, <2>4
<1>5. Typed'
  BY <1>1, <1>2, <1>3, <1>4 DEF Typed
<1>6. ROMInv'
  BY <1>1, <1>3 DEF ROMInv
<1>7. Stepping'
  <2>1. Done(game, current_cheat') = Done(game, current_cheat)
    BY <1>2, DoneFacts
  <2> QED BY <1>1, <1>3, <2>1 DEF Stepping, SteppedTo
<1>8. GivenBack'
  <2>1. CASE CheatsON
    <3> SUFFICES ASSUME ~touched'
                 PROVE  Lent(ram, truth, shown, CheatCodes[0], CheatsON)
      BY <1>1, <1>3, <1>4, <2>1 DEF GivenBack
    <3>1. ~touched
      BY <1>4, <2>1
    <3> QED BY <1>1, <3>1 DEF GivenBack
  <2>2. CASE ~CheatsON
    <3>1. ~touched => ram = truth
      BY <1>1, <2>2 DEF GivenBack, Lent
    <3>2. ram' = truth'
      BY <1>3, <1>4, <2>2, <3>1
    <3> QED BY <1>3, <2>2, <3>2 DEF GivenBack, Lent
  <2> QED BY <2>1, <2>2
<1> QED BY <1>5, <1>6, <1>7, <1>8 DEF Inv

LEMMA F7CyclePreserves ==
  ASSUME Inv, F7Cycle
  PROVE  Inv'
BY CycleEnds, CycleApplies, CyclePasses

\* F7 with a .CHT file.
LEMMA F7TogglePreserves ==
  ASSUME Inv, F7Toggle
  PROVE  Inv'
<1> DEFINE u == SwitchTo(State, ~CheatsON)
<1>1. /\ Typed /\ ROMInv /\ MCFCount = 0
      /\ game' = game /\ MCFCount' = 0 /\ current_cheat' = current_cheat /\ shown' = shown
      /\ Believe /\ Leaves(u)
  BY DEF Inv, F7Toggle
<1>2. /\ game \in Known /\ shown \in Shown /\ State \in States(game)
      /\ AllFit(game, State.codes, State.count)
      /\ ROMGood(game, State.rom, State.codes, State.count, State.on)
      /\ State.on => HasTarget(game)
  BY <1>1, StateTyped DEF Typed, ROMInv
<1>3. /\ u \in States(game) /\ AllFit(game, u.codes, u.count) /\ (u.on => HasTarget(game))
      /\ ROMGood(game, u.rom, u.codes, u.count, u.on)
  <2>1. CASE CheatsON
    <3>1. u = SwitchOff(State)
      BY <2>1 DEF SwitchTo
    <3>2. /\ SwitchOff(State) \in States(game)
          /\ SwitchOff(State).count = State.count /\ SwitchOff(State).codes = State.codes
      BY <1>2, SwitchOffFacts
    <3>3. SwitchOff(State).on => HasTarget(game)
      BY <1>1, <2>1 DEF Typed
    <3>4. LET v == SwitchOff(State) IN ROMGood(game, v.rom, v.codes, v.count, v.on)
      BY <1>2, SwitchOffROM
    <3> HIDE DEF u
    <3> QED BY <1>2, <3>1, <3>2, <3>3, <3>4
  <2>2. CASE ~CheatsON
    <3> DEFINE v == SwitchOn(State)
    <3>1. u = v
      BY <2>2 DEF SwitchTo
    <3>2. v \in States(game) /\ v.count = State.count /\ v.on = (State.on \/ HasTarget(game))
      BY <1>2, SwitchOnFacts
    <3>3. \A k \in 0 .. MAXCHEATS - 1 : Alike(v.codes[k], State.codes[k])
      BY <1>2, SwitchOnFacts
    <3>4. ROMGood(game, v.rom, v.codes, v.count, v.on)
      BY <1>2, SwitchOnROM
    <3>5. v.on => HasTarget(game)
      BY <1>2, <3>2
    <3> HIDE DEF u, v
    <3>6. AllFit(game, v.codes, v.count)
      <4> SUFFICES ASSUME NEW k \in 0 .. State.count - 1
                   PROVE  CodeFits(game, v.codes[k])
        BY <3>2 DEF AllFit
      <4>1. k \in 0 .. MAXCHEATS - 1
        BY <1>2, StateFields, TableSides
      <4>2. Alike(v.codes[k], State.codes[k]) /\ CodeFits(game, State.codes[k])
        BY <1>2, <3>3, <4>1 DEF AllFit
      <4> QED BY <4>2 DEF CodeFits, ForROM, Alike
    <3> QED BY <3>1, <3>2, <3>4, <3>5, <3>6
  <2> QED BY <2>1, <2>2
<1>4. u.ram \in Memory
  BY <1>3, StateFields
<1> HIDE DEF u
<1>5. truth' \in Memory /\ touched' \in BOOLEAN
  BY <1>1, <1>4, BelieveFacts DEF Leaves
<1>6. Typed'
  <2>1. MCFCount' = MCFCount /\ current_cheat' \in 0 .. MCFCount /\ shown' \in Shown
    BY <1>1, <1>2, CountIs
  <2> QED BY <1>1, <1>3, <1>5, <2>1, LeavesTyped
<1>7. ROMInv'
  BY <1>1, <1>3, LeavesROM
<1>8. Stepping' /\ GivenBack'
  BY <1>1 DEF Stepping, GivenBack
<1> QED BY <1>6, <1>7, <1>8 DEF Inv

-----------------------------------------------------------------------------
\* RAM: a frame, the program

LEMMA FramePreserves ==
  ASSUME Inv, Frame
  PROVE  Inv'
<1> DEFINE m == StoreAll(ram, shown, CheatCodes, CheatCount, "data")
           c == CheatCodes[0]
<1>1. /\ Typed /\ ROMInv /\ Stepping /\ GivenBack /\ CheatsON /\ ram' = m
      /\ game' = game /\ rom' = rom /\ CheatCodes' = CheatCodes /\ CheatCount' = CheatCount
      /\ CheatsON' = CheatsON /\ MCFCount' = MCFCount /\ current_cheat' = current_cheat
      /\ shown' = shown /\ truth' = truth /\ touched' = touched
  BY DEF Inv, Frame, cheats
<1>2. /\ ram \in Memory /\ truth \in Memory /\ shown \in Shown /\ CheatCodes \in Table
      /\ CheatCount \in 0 .. MAXCHEATS
  BY <1>1 DEF Typed
<1>3. m \in Memory
  BY <1>2, TableSides, StoredFacts DEF Shown
<1>4. Typed'
  BY <1>1, <1>3 DEF Typed
<1>5. ROMInv' /\ Stepping'
  BY <1>1 DEF ROMInv, Stepping
<1>6. GivenBack'
  <2> SUFFICES ASSUME MCFCount > 0, ~touched
               PROVE  Lent(m, truth, shown, c, TRUE)
    BY <1>1 DEF GivenBack
  <2>1. CheatCount = 1 /\ c.kind = 1 /\ InCells(c)
    BY <1>1 DEF Stepping, SteppedTo
  <2>2. Lent(ram, truth, shown, c, TRUE)
    BY <1>1 DEF GivenBack
  <2>3. c \in Code /\ c.data \in Value /\ c.addr \in Nat /\ c["data"] = c.data
    <3>1. c \in Code
      BY <1>2, Constants DEF Table
    <3> QED BY <3>1, CodeFields
  <2>4. m = Store(ram, shown, c, c.data)
    <3>1. \A k \in 0 .. 1 - 1 : CheatCodes[k]["data"] \in Value
      BY <2>3
    <3>2. m = InRAM(shown, CheatCodes, "data", 0, ram)
      BY <1>2, <2>1, <3>1, StoredFacts DEF Shown
    <3> QED BY <2>1, <2>3, <3>2 DEF InRAM
  <2> HIDE DEF m, c
  <2>5. ASSUME NEW b \in Banks, NEW a \in Cells
        PROVE  m[b][a] = truth[b][a] \/ (b = shown /\ Covers(c, a))
    <3>1. m[b][a] = IF b = shown /\ Covers(c, a) THEN c.data[a - c.addr + 1] ELSE ram[b][a]
      BY <1>2, <2>1, <2>3, <2>4, StoreFacts
    <3>2. ram[b][a] = truth[b][a] \/ (b = shown /\ Covers(c, a))
      BY <2>2 DEF Lent
    <3> QED BY <3>1, <3>2
  <2> QED BY <2>2, <2>5 DEF Lent
<1> QED BY <1>4, <1>5, <1>6 DEF Inv

\* With a .MCF file, the cells of the code that is on.
LEMMA CheatedIs ==
  ASSUME CheatCount = 1, CheatCodes[0].kind = 1, NEW a, Covers(CheatCodes[0], a)
  PROVE  a \in Cheated
<1>1. 0 \in {j \in Codes : CheatCodes[j].kind = 1}
  BY DEF Codes
<1> QED BY <1>1 DEF Cheated, Covers

LEMMA ProgramWritesPreserves ==
  ASSUME Inv, ProgramWrites
  PROVE  Inv'
<1>1. PICK a \in Cells, w \in Written :
        /\ shown # NoBank
        /\ ram' = WrZ80(ram, shown, a, w)
        /\ IF MCFCount = 0 THEN UNCHANGED <<truth, touched>>
           ELSE /\ truth' = WrZ80(truth, shown, a, w)
                /\ touched' = (touched \/ (CheatsON /\ a \in Cheated))
  BY DEF ProgramWrites
<1>2. /\ Typed /\ ROMInv /\ Stepping /\ GivenBack
      /\ game' = game /\ rom' = rom /\ CheatCodes' = CheatCodes /\ CheatCount' = CheatCount
      /\ CheatsON' = CheatsON /\ MCFCount' = MCFCount /\ current_cheat' = current_cheat
      /\ shown' = shown
  BY DEF Inv, ProgramWrites, cheats
<1>3. ram \in Memory /\ truth \in Memory /\ shown \in Banks /\ w \in Bytes /\ touched \in BOOLEAN
  BY <1>1, <1>2, Constants DEF Typed, Shown
<1>4. WrZ80(ram, shown, a, w) \in Memory /\ WrZ80(truth, shown, a, w) \in Memory
  BY <1>3, WriteType
<1>5. ram' \in Memory /\ truth' \in Memory /\ touched' \in BOOLEAN
  <2>1. CASE MCFCount = 0
    BY <1>1, <1>3, <1>4, <2>1
  <2>2. CASE MCFCount # 0
    <3>1. touched' = (touched \/ (CheatsON /\ a \in Cheated))
      BY <1>1, <2>2
    <3>2. touched' \in BOOLEAN
      BY <3>1
    <3> QED BY <1>1, <1>4, <2>2, <3>2
  <2> QED BY <2>1, <2>2
<1>6. Typed'
  BY <1>2, <1>5 DEF Typed
<1>7. ROMInv' /\ Stepping'
  BY <1>2 DEF ROMInv, Stepping
<1>8. GivenBack'
  <2> DEFINE c == CheatCodes[0]
  <2> SUFFICES ASSUME MCFCount > 0, ~touched'
               PROVE  Lent(ram', truth', shown, c, CheatsON)
    BY <1>2 DEF GivenBack
  <2>1. /\ ram' = [ram EXCEPT ![shown][a] = w] /\ truth' = [truth EXCEPT ![shown][a] = w]
        /\ ~touched /\ ~(CheatsON /\ a \in Cheated)
    <3>1. MCFCount # 0
      BY <1>2, CountIs
    <3>2. /\ ram' = WrZ80(ram, shown, a, w) /\ truth' = WrZ80(truth, shown, a, w)
          /\ touched' = (touched \/ (CheatsON /\ a \in Cheated))
      BY <1>1, <3>1
    <3> QED BY <1>1, <3>2 DEF WrZ80
  <2>2. Lent(ram, truth, shown, c, CheatsON)
    BY <1>2, <2>1 DEF GivenBack
  <2>3. CASE ~CheatsON
    BY <2>1, <2>2, <2>3 DEF Lent
  <2>4. CASE CheatsON
    <3>1. ~Covers(c, a)
      <4>1. CheatCount = 1 /\ c.kind = 1
        BY <1>2, <2>4 DEF Stepping, SteppedTo
      <4> QED BY <2>1, <2>4, <4>1, CheatedIs
    <3>2. \A b \in Banks, i \in Cells :
            /\ ram'[b][i] = IF b = shown /\ i = a THEN w ELSE ram[b][i]
            /\ truth'[b][i] = IF b = shown /\ i = a THEN w ELSE truth[b][i]
      BY <1>3, <2>1 DEF Memory
    <3> HIDE DEF c
    <3>3. \A b \in Banks, i \in Cells :
            ram'[b][i] = truth'[b][i] \/ (b = shown /\ Covers(c, i))
      BY <2>2, <2>4, <3>2 DEF Lent
    <3>4. \A i \in Cells : Covers(c, i) => c.orig[i - c.addr + 1] = truth'[shown][i]
      <4> TAKE i \in Cells
      <4> HAVE Covers(c, i)
      <4>1. i # a /\ c.orig[i - c.addr + 1] = truth[shown][i]
        BY <1>3, <2>2, <2>4, <3>1 DEF Lent
      <4> QED BY <1>3, <3>2, <4>1
    <3> QED BY <2>4, <3>3, <3>4 DEF Lent
  <2> QED BY <2>3, <2>4
<1> QED BY <1>6, <1>7, <1>8 DEF Inv

LEMMA ProgramShowsPreserves ==
  ASSUME Inv, ProgramShows
  PROVE  Inv'
<1>1. /\ shown' \in Shown /\ touched' = (touched \/ (MCFCount > 0 /\ CheatsON))
      /\ Typed /\ ROMInv /\ Stepping /\ GivenBack
      /\ game' = game /\ rom' = rom /\ CheatCodes' = CheatCodes /\ CheatCount' = CheatCount
      /\ CheatsON' = CheatsON /\ MCFCount' = MCFCount /\ current_cheat' = current_cheat
      /\ ram' = ram /\ truth' = truth
  BY DEF Inv, ProgramShows, cheats, Shown
<1>2. touched' \in BOOLEAN
  BY <1>1
<1>3. Typed'
  BY <1>1, <1>2 DEF Typed
<1>4. ROMInv' /\ Stepping'
  BY <1>1 DEF ROMInv, Stepping
<1>5. GivenBack'
  <2> SUFFICES ASSUME MCFCount > 0, ~touched' PROVE Lent(ram, truth, shown', CheatCodes[0], CheatsON)
    BY <1>1 DEF GivenBack
  <2>1. ~touched /\ ~CheatsON
    BY <1>1
  <2> QED BY <1>1, <2>1 DEF GivenBack, Lent
<1> QED BY <1>3, <1>4, <1>5 DEF Inv

-----------------------------------------------------------------------------
\* Loading

LEMMA FreshFacts ==
  /\ Fresh \in Memory
  /\ EmptyTable \in Table
  /\ CheatCodes \in Table => Forgotten \in Table
  /\ \A g \in Known : [s \in CartSlots |-> Image(g, s)] \in ROMs(g)
<1>1. Fresh \in Memory
  BY Constants DEF Fresh, Memory
<1>2. Blank \in Code
  BY Constants DEF Blank, Code, Value
<1>3. EmptyTable \in Table
  BY <1>2 DEF EmptyTable, Table
<1>4. ASSUME CheatCodes \in Table PROVE Forgotten \in Table
  <2>1. \A k \in 0 .. MAXCHEATS - 1 : CheatCodes[k].orig \in Value
    BY <1>4, CodeFields DEF Table
  <2>2. \A k \in 0 .. MAXCHEATS - 1 : [Blank EXCEPT !.orig = CheatCodes[k].orig] \in Code
    BY <1>2, <2>1 DEF Code
  <2>3. DOMAIN CheatCodes = 0 .. MAXCHEATS - 1
    BY <1>4 DEF Table
  <2> QED BY <2>2, <2>3 DEF Forgotten, Table
<1>5. ASSUME NEW g \in Known PROVE [s \in CartSlots |-> Image(g, s)] \in ROMs(g)
  <2> DEFINE r == [s \in CartSlots |-> Image(g, s)]
  <2>1. \A s \in CartSlots : r[s] \in [DOMAIN Image(g, s) -> Bytes]
    BY ImageFacts
  <2> HIDE DEF r
  <2>2. r = [s \in CartSlots |-> r[s]]
    BY DEF r
  <2> QED BY <2>1, <2>2 DEF ROMs, r
<1> QED BY <1>1, <1>3, <1>4, <1>5

\* Without cheats, the cartridges as they are made are good.
LEMMA MadeROM ==
  ASSUME NEW g \in Known, NEW table, NEW n
  PROVE  ROMGood(g, [s \in CartSlots |-> Image(g, s)], table, n, FALSE)
<1> SUFFICES ASSUME NEW s \in CartSlots
             PROVE  Holds(table, "data", Image(g, s), {}, Image(g, s))
  BY DEF ROMGood
<1> QED BY ImageFacts, HoldsNone

LEMMA InitInv ==
  ASSUME Init
  PROVE  Inv
<1>1. Typed
  <2>1. Nothing \in Known /\ NoBank \in Shown /\ 0 \in 0 .. MAXCHEATS
    BY Constants DEF Known, Shown
  <2>2. AllFit(game, CheatCodes, CheatCount)
    BY DEF Init, AllFit
  <2>3. game \in Known /\ CheatCodes \in Table /\ CheatCount \in 0 .. MAXCHEATS
        /\ ram \in Memory /\ truth \in Memory /\ shown \in Shown
    BY <2>1, FreshFacts DEF Init
  <2>4. rom \in ROMs(game)
    BY <2>1, FreshFacts DEF Init
  <2>5. CheatsON = FALSE /\ touched = FALSE /\ MCFCount = 0 /\ current_cheat \in 0 .. MCFCount
    BY DEF Init
  <2>6. CheatsON \in BOOLEAN /\ touched \in BOOLEAN
    BY <2>5
  <2> QED BY <2>2, <2>3, <2>4, <2>5, <2>6 DEF Typed
<1>2. ROMInv
  BY MadeROM DEF Init, ROMInv, Known
<1>3. Stepping /\ GivenBack
  BY DEF Init, Stepping, GivenBack
<1> QED BY <1>1, <1>2, <1>3 DEF Inv

LEMMA LoadGamePreserves ==
  ASSUME Inv, LoadGame
  PROVE  Inv'
<1>1. PICK g \in Games : Load(g, Forgotten)
  BY DEF LoadGame
<1> DEFINE start == [rom |-> [s \in CartSlots |-> Image(g, s)], codes |-> Forgotten,
                     count |-> 0, on |-> FALSE, ram |-> Fresh]
           u == LoadCHT(start, g.lines)
<1>2. /\ game' = g /\ Leaves(u)
      /\ MCFCount' = IF u.count > 0 THEN 0 ELSE Len(g.mcf)
      /\ current_cheat' = 0 /\ shown' \in Shown /\ truth' = Fresh /\ touched' = FALSE
  BY <1>1 DEF Load, Shown
<1>3. g \in Known /\ Forgotten \in Table
  BY FreshFacts DEF Known, Inv, Typed
<1>4. u \in Adding(g, start)
  <2>1. start.codes \in Table /\ start.on = FALSE
        /\ start \in [rom : {start.rom}, codes : Table, count : {start.count}, on : {start.on},
                      ram : {start.ram}]
    BY <1>3
  <2> HIDE DEF start
  <2> QED BY <2>1, LoadCHTFacts
<1> HIDE DEF u
<1>5. /\ u.codes \in Table /\ u.count \in 0 .. MAXCHEATS /\ AllFit(g, u.codes, u.count)
      /\ u.rom = [s \in CartSlots |-> Image(g, s)] /\ u.on = FALSE /\ u.ram = Fresh
  BY <1>4 DEF Adding
<1>6. /\ rom' = [s \in CartSlots |-> Image(g, s)] /\ CheatCodes' = u.codes
      /\ CheatCount' = u.count /\ CheatsON' = FALSE /\ ram' = Fresh
  BY <1>2, <1>5 DEF Leaves
<1>7. Typed'
  <2>1. MCFCount' \in {0, Len(game'.mcf)} /\ current_cheat' \in 0 .. MCFCount'
    <3>1. Len(g.mcf) \in Nat
      BY <1>3, GameFacts
    <3> QED BY <1>2, <3>1
  <2>2. AllFit(game', CheatCodes', CheatCount') /\ rom' \in ROMs(game')
    BY <1>2, <1>3, <1>5, <1>6, FreshFacts
  <2> QED BY <1>2, <1>3, <1>5, <1>6, <2>1, <2>2, FreshFacts DEF Typed
<1>8. ROMInv'
  BY <1>2, <1>3, <1>6, MadeROM DEF ROMInv
<1>9. Stepping'
  <2> SUFFICES ASSUME MCFCount' > 0
               PROVE  SteppedTo(g, 0, u.codes, 0, FALSE)
    <3>1. MCFCount' > 0 => u.count = 0
      BY <1>2, <1>5
    <3> QED BY <1>2, <1>6, <3>1 DEF Stepping
  <2>1. Done(g, 0) = {}
    BY DoneFacts
  <2> QED BY <2>1 DEF SteppedTo
<1>10. GivenBack'
  BY <1>2, <1>6 DEF GivenBack, Lent
<1> QED BY <1>7, <1>8, <1>9, <1>10 DEF Inv

-----------------------------------------------------------------------------
\* What follows from the invariant

LEMMA InvType ==
  ASSUME Inv
  PROVE  TypeOK
<1>1. Typed
  BY DEF Inv
<1>2. \A s \in CartSlots : rom[s] \in [DOMAIN Image(game, s) -> Bytes]
  BY <1>1, ROMFields DEF Typed
<1> QED BY <1>1, <1>2 DEF Typed, TypeOK, Known, Table, Memory, Shown

LEMMA InvROM ==
  ASSUME Inv
  PROVE  ROMsAsMade
<1>1. game \in Known /\ rom \in ROMs(game) /\ CheatCodes \in Table /\ CheatCount \in 0 .. MAXCHEATS
      /\ CheatsON \in BOOLEAN
  BY DEF Inv, Typed
<1> DEFINE codes == CodesIn(game, CheatCodes, CheatCount)
<1>2. ROMCodes = codes
  BY DEF ROMCodes, Codes, CodesIn
<1>3. Apart(ROMCodes) <=> ApartIn(CheatCodes, codes)
  BY <1>2 DEF Apart, ApartIn
<1>4. \A s \in CartSlots :
        IF s = Target(game) /\ HasTarget(game)
        THEN ApartIn(CheatCodes, codes) =>
               Holds(CheatCodes, "data", Image(game, s), IF CheatsON THEN codes ELSE {}, rom[s])
        ELSE rom[s] = Image(game, s)
  BY DEF Inv, ROMInv, ROMGood
<1> HIDE DEF codes
<1> SUFFICES ASSUME NEW s \in CartSlots, s = Target(game), HasTarget(game), Apart(ROMCodes)
             PROVE  rom[s] = Overlaid(Image(game, s), IF CheatsON THEN ROMCodes ELSE {})
  BY <1>4 DEF ROMsAsMade
<1> DEFINE put == IF CheatsON THEN codes ELSE {}
<1>5. ApartIn(CheatCodes, put)
  BY <1>3 DEF ApartIn
<1>6. Holds(CheatCodes, "data", Image(game, s), put, rom[s])
  BY <1>3, <1>4
<1>7. /\ Image(game, s) \in [DOMAIN Image(game, s) -> Bytes]
      /\ rom[s] \in [DOMAIN Image(game, s) -> Bytes]
  BY <1>1, ImageFacts, ROMFields
<1>8. Overlaid(Image(game, s), put) = OverlaidIn(CheatCodes, Image(game, s), put)
  BY DEF Overlaid, OverlaidIn
<1> HIDE DEF put
<1>9. rom[s] = OverlaidIn(CheatCodes, Image(game, s), put)
  BY <1>5, <1>6, <1>7, OverlaidHolds
<1> QED BY <1>2, <1>8, <1>9 DEF put

LEMMA InvOne ==
  ASSUME Inv
  PROVE  OneCheatAtATime
<1>1. Stepping /\ GivenBack
  BY DEF Inv
<1>2. RAMGivenBack
  <2> SUFFICES ASSUME MCFCount > 0, ~touched, NEW b \in Banks, NEW a \in Cells
               PROVE  (CheatsON /\ a \in Cheated) \/ ram[b][a] = truth[b][a]
    BY DEF RAMGivenBack
  <2>1. Lent(ram, truth, shown, CheatCodes[0], CheatsON)
    BY <1>1 DEF GivenBack
  <2>2. CASE ~CheatsON
    BY <2>1, <2>2 DEF Lent
  <2>3. CASE CheatsON
    <3>1. CheatCount = 1 /\ CheatCodes[0].kind = 1
      BY <1>1, <2>3 DEF Stepping, SteppedTo
    <3>2. Covers(CheatCodes[0], a) => a \in Cheated
      BY <3>1, CheatedIs
    <3> QED BY <2>1, <2>3, <3>2 DEF Lent
  <2> QED BY <2>2, <2>3
<1>3. CheatIsCurrent
  <2> SUFFICES ASSUME MCFCount > 0
               PROVE  /\ CheatsON <=> (Done(game, current_cheat) # {} /\ HasTarget(game))
                      /\ Done(game, current_cheat) # {} =>
                           LET last == LastOf(Done(game, current_cheat)) IN
                           /\ CheatCount = 1 /\ CheatCodes[0].kind = 1
                           /\ CheatCodes[0].addr = game.mcf[last].addr
                           /\ CheatCodes[0].data = game.mcf[last].data
    BY DEF CheatIsCurrent, Done, LastOf
  <2> QED BY <1>1 DEF Stepping, SteppedTo
<1> QED BY <1>2, <1>3 DEF OneCheatAtATime

-----------------------------------------------------------------------------
\* The theorems

LEMMA Invariance == Spec => []Inv
<1>1. Init => Inv
  BY InitInv
<1>2. Inv /\ [Next]_vars => Inv'
  <2> SUFFICES ASSUME Inv, [Next]_vars PROVE Inv'
    OBVIOUS
  <2>1. CASE LoadGame
    BY <2>1, LoadGamePreserves
  <2>2. CASE F7Cycle
    BY <2>2, F7CyclePreserves
  <2>3. CASE F7Toggle
    BY <2>3, F7TogglePreserves
  <2>4. CASE Frame
    BY <2>4, FramePreserves
  <2>5. CASE ProgramWrites
    BY <2>5, ProgramWritesPreserves
  <2>6. CASE ProgramShows
    BY <2>6, ProgramShowsPreserves
  <2>7. CASE UNCHANGED vars
    BY <2>7 DEF vars, cheats, Inv, Typed, ROMInv, Stepping, GivenBack
  <2> QED BY <2>1, <2>2, <2>3, <2>4, <2>5, <2>6, <2>7 DEF Next
<1> QED BY <1>1, <1>2, PTL DEF Spec

\* Every variable of the cheats has its type: no more codes are counted than the
\* table of MSX.c holds, libretro.c's counter stays among the entries of the .MCF
\* file, and patching keeps the size of each cartridge.
THEOREM TypeCorrect == Spec => []TypeOK
BY Invariance, InvType, PTL

\* Whatever is loaded and however often F7 is pressed, Cheats() of MSX.c leaves
\* the cartridge it found with the values of all codes while they are on and with
\* its own bytes while they are off, if no two codes share a byte, and every other
\* cartridge as it was.
THEOREM ROMsCorrect == Spec => []ROMsAsMade
BY Invariance, InvROM, PTL

\* With a .MCF file, F7 of libretro.c and ApplyMCFCheat() of MSX.c agree on the
\* cheat that is on, and each one gives back the bytes it took when the next takes
\* its place, unless the program wrote them or moved its pages meanwhile.
THEOREM OneCheatCorrect == Spec => []OneCheatAtATime
BY Invariance, InvOne, PTL
=============================================================================
