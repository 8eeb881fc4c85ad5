------------------------------- MODULE Cheats -------------------------------
(***************************************************************************)
(* The cheats of a game: a .CHT file of codes that patch a cartridge's ROM *)
(* or write RAM in every frame, or a .MCF file of RAM values that F7 steps *)
(* through.  They are modelled together with the RAM that the program      *)
(* shows at the cheats' addresses, and writes.                             *)
(*                                                                         *)
(* A 16 bit value is the pair of its low and its high byte.  The address   *)
(* of a code is split into its upper eight bits, the kind of the code, and *)
(* the rest.  The cheated addresses of RAM lie above BFFFh, where a write  *)
(* to what is not RAM does nothing, and below FFFFh.                       *)
(***************************************************************************)
EXTENDS Naturals, Sequences, FiniteSets

CONSTANTS
  Bytes,        \* values of a byte
  Written,      \* those that the program writes
  PageBytes,    \* bytes of an 8kB page
  Games,        \* what can be loaded, see GameOK
  Banks,        \* pages of RAM the program can show at the cheats' addresses
  Cells,        \* the addresses there, 0 .. n
  NoBank,       \* shown when there is no RAM at them
  NORAM,        \* read from what is not there
  MAXCHEATS

CartSlots == 0 .. 2             \* A, B and the first one of the system

(***************************************************************************)
(* The codes of a file.  A line has eight or four digits for the address,  *)
(* or cannot be parsed, and two or four for the value.                     *)
(***************************************************************************)
Value == Bytes \X Bytes
Line == [digits: {8, 4, 0}, kind: 0 .. 2, addr: Nat, hexes: {2, 4}, data: Value]

\* An entry of a .MCF file, whose size follows from its value; a value of
\* more than 16 bits is left to its size.
Entry == [addr: Nat, data: Value, size: {1, 2, 4}]

\* roms: 8kB pages of each cartridge, 0 for none; flat: those with 64kB
\* that fill their slot; cart: the slot the game itself is in.
GameOK(g) ==
  /\ g.roms \in [CartSlots -> {0, 1, 2, 4, 8, 16}]
  /\ g.flat \subseteq CartSlots
  /\ g.cart \in {0, 1}
  /\ g.lines \in Seq(Line)
  /\ g.mcf \in Seq(Entry)

ASSUME CheatsAssumption ==
  /\ PageBytes \in Nat \ {0}
  /\ MAXCHEATS \in Nat \ {0}
  /\ {0, 1, NORAM} \cup Written \subseteq Bytes
  /\ NoBank \notin Banks
  /\ \A g \in Games : GameOK(g)

VARIABLES
  game,             \* the loaded one
  rom,              \* ROMData[]
  CheatCodes, CheatCount, CheatsON,
  MCFCount,         \* entries of MCFEntries[], which are game.mcf
  current_cheat,    \* of libretro.c: the entry F7 has reached
  ram,              \* the banks
  shown,            \* the one at the cheats' addresses
  truth,            \* with a .MCF file, the banks as they would be without
  touched           \* cheats, unless the program used the cheated bytes too

cheats == <<CheatCodes, CheatCount, CheatsON>>
vars == <<game, rom, cheats, MCFCount, current_cheat, ram, shown, truth, touched>>

Code == [kind: 0 .. 2, addr: Nat, data: Value, orig: Value, size: {1, 2}]
Codes == 0 .. CheatCount - 1

Blank == [kind |-> 0, addr |-> 0, data |-> <<0, 0>>, orig |-> <<0, 0>>, size |-> 1]

(***************************************************************************)
(* The address space.                                                      *)
(***************************************************************************)
RdZ80(m, bank, a) == IF bank = NoBank THEN NORAM ELSE m[bank][a]

WrZ80(m, bank, a, b) ==
  IF bank = NoBank THEN m ELSE [m EXCEPT ![bank][a] = b]

\* A value of one byte or two.
Store(m, bank, c, v) ==
  LET first == WrZ80(m, bank, c.addr, v[1])
  IN IF c.size > 1 THEN WrZ80(first, bank, c.addr + 1, v[2]) ELSE first

\* The banks after the codes of RAM among the first n, each with the value
\* that "side" names.
StoreAll(m, bank, table, n, side) ==
  LET done[k \in 0 .. n] ==
        IF k = 0 THEN m
        ELSE IF table[k - 1].kind = 1
        THEN Store(done[k - 1], bank, table[k - 1], table[k - 1][side])
        ELSE done[k - 1]
  IN done[n]

(***************************************************************************)
(* Cheats(): the cartridge and the size of its ROM, and the codes for it.  *)
(***************************************************************************)
ROMMask(g, s) == IF g.roms[s] > 4 /\ s \notin g.flat THEN g.roms[s] - 1 ELSE 0

HasTarget(g) == \E s \in {1, 2} : g.roms[s] # 0
Target(g) == IF g.roms[1] # 0 THEN 1 ELSE 2
Size(g) == (ROMMask(g, Target(g)) + 1) * 2 * PageBytes

ForROM(g, c) == c.kind = 0 /\ c.addr + c.size <= Size(g)

Poke(bytes, c, v) ==
  [i \in DOMAIN bytes |-> IF i = c.addr THEN v[1]
                          ELSE IF c.size > 1 /\ i = c.addr + 1 THEN v[2]
                          ELSE bytes[i]]

Peek(bytes, c) ==
  <<bytes[c.addr], IF c.size > 1 THEN bytes[c.addr + 1] ELSE 0>>

\* Codes are put in and taken out in the order of the table.
Patched(g, bytes, table, n, side) ==
  LET done[k \in 0 .. n] ==
        IF k = 0 THEN bytes
        ELSE IF ForROM(g, table[k - 1])
        THEN Poke(done[k - 1], table[k - 1], table[k - 1][side])
        ELSE done[k - 1]
  IN done

\* Mutant: what a code covers is read after all codes are in.
Remember_TooLate(g, bytes, table, n) ==
  LET after == Patched(g, bytes, table, n, "data")[n]
  IN [k \in DOMAIN table |->
        IF k < n /\ ForROM(g, table[k])
        THEN [table[k] EXCEPT !.orig = Peek(after, table[k])]
        ELSE table[k]]

Remember(g, bytes, table, n) ==
  LET before == Patched(g, bytes, table, n, "data")
  IN [k \in DOMAIN table |->
        IF k < n /\ ForROM(g, table[k])
        THEN [table[k] EXCEPT !.orig = Peek(before[k], table[k])]
        ELSE table[k]]

\* What a call of Cheats() finds and leaves: the state that it changes.
State == [rom |-> rom, codes |-> CheatCodes, count |-> CheatCount,
          on |-> CheatsON, ram |-> ram]

SwitchOn(s) ==
  IF s.on \/ ~HasTarget(game) THEN s
  ELSE [s EXCEPT
    !.rom[Target(game)] = Patched(game, @, s.codes, s.count, "data")[s.count],
    !.codes = Remember(game, s.rom[Target(game)], @, s.count),
    !.on = TRUE]

SwitchOff(s) ==
  IF ~s.on \/ ~HasTarget(game) THEN s
  ELSE [s EXCEPT
    !.rom[Target(game)] = Patched(game, @, s.codes, s.count, "orig")[s.count],
    !.ram = StoreAll(@, shown, s.codes, s.count, "orig"),
    !.on = FALSE]

SwitchTo(s, on) == IF on THEN SwitchOn(s) ELSE SwitchOff(s)

ResetCheats(s) == [SwitchOff(s) EXCEPT !.count = 0]

Leaves(s) ==
  /\ rom' = s.rom
  /\ CheatCodes' = s.codes
  /\ CheatCount' = s.count
  /\ CheatsON' = s.on
  /\ ram' = s.ram

(***************************************************************************)
(* Files.                                                                  *)
(***************************************************************************)
\* Mutant: no test for a full table.
AddCheat_Unbounded(s, line) ==
  IF line.digits = 0 THEN s ELSE [s EXCEPT !.count = @ + 1]

\* Only eight digits with four for the value make two bytes.
CodeOf(line, orig) ==
  LET two == line.digits = 8 /\ line.hexes = 4
  IN [kind |-> IF line.digits = 8 THEN line.kind ELSE 1,
      addr |-> line.addr,
      data |-> IF two THEN line.data ELSE <<line.data[1], 0>>,
      orig |-> orig,
      size |-> IF two THEN 2 ELSE 1]

\* The byte that a code covers is not read.
AddCheat(s, line) ==
  IF s.count >= MAXCHEATS \/ line.digits = 0 THEN s
  ELSE [s EXCEPT !.codes[s.count] = CodeOf(line, @.orig), !.count = @ + 1]

LoadCHT(s, lines) ==
  LET added[k \in 0 .. Len(lines)] ==
        IF k = 0 THEN ResetCheats(s) ELSE AddCheat(added[k - 1], lines[k])
  IN SwitchTo(added[Len(lines)], s.on)

\* Mutant: the bytes are read before the cheat that is on is taken out.
ApplyMCFCheat_ReadsFirst(s, entry) ==
  LET c == [kind |-> 1, addr |-> entry.addr, data |-> entry.data,
            orig |-> <<RdZ80(s.ram, shown, entry.addr),
                       IF entry.size > 1
                       THEN RdZ80(s.ram, shown, entry.addr + 1) ELSE 0>>,
            size |-> entry.size]
  IN SwitchTo([ResetCheats(s) EXCEPT !.codes[0] = c, !.count = 1], s.on)

\* ApplyMCFCheat(): the entry becomes the only code, in RAM.
ApplyMCFCheat(s, entry) ==
  LET off == ResetCheats(s)
      c == [kind |-> 1, addr |-> entry.addr, data |-> entry.data,
            orig |-> <<0, 0>>, size |-> entry.size]
      orig == <<RdZ80(off.ram, shown, c.addr),
                IF c.size > 1 THEN RdZ80(off.ram, shown, c.addr + 1) ELSE 0>>
  IN SwitchTo([off EXCEPT !.codes[0] = [c EXCEPT !.orig = orig], !.count = 1],
              s.on)

Applicable(entry) == entry.size <= 2

\* The codes of a file are for addresses that its game has.
CodeFits(g, c) ==
  HasTarget(g) /\ ForROM(g, c) => c.addr + c.size <= g.roms[Target(g)] * PageBytes
EntryFits(entry) ==
  Applicable(entry) =>
    entry.addr \in Cells /\ (entry.size > 1 => entry.addr + 1 \in Cells)

ASSUME FitAssumption ==
  \A g \in Games :
    /\ \A i \in DOMAIN g.lines : CodeFits(g, CodeOf(g.lines[i], <<0, 0>>))
    /\ \A i \in DOMAIN g.mcf : EntryFits(g.mcf[i])

(***************************************************************************)
(* What happens.                                                           *)
(***************************************************************************)
Fresh == [b \in Banks |-> [a \in Cells |-> 0]]

\* Any contents, in which neighbours differ.
Image(g, s) == [i \in 0 .. g.roms[s] * PageBytes - 1 |-> (i + s) % 2]

\* retro_load_game(): StartMSX() loads the cartridges and forgets the codes,
\* not the table they were in, of which only what an entry remembers can
\* matter; load_core_specific_cheats() takes the .MCF file when the .CHT file
\* has no code.
Forgotten == [k \in DOMAIN CheatCodes |->
                [Blank EXCEPT !.orig = CheatCodes[k].orig]]

Load(g, table) ==
  LET start == [rom |-> [s \in CartSlots |-> Image(g, s)], codes |-> table,
                count |-> 0, on |-> FALSE, ram |-> Fresh]
      codes == LoadCHT(start, g.lines)
  IN /\ game' = g
     /\ Leaves(codes)
     /\ MCFCount' = IF codes.count > 0 THEN 0 ELSE Len(g.mcf)
     /\ current_cheat' = 0
     /\ shown' \in Banks \cup {NoBank}
     /\ truth' = Fresh
     /\ touched' = FALSE

LoadGame == \E g \in Games : Load(g, Forgotten)

\* The cells that the program shares with the codes.
Cheated ==
  UNION {{CheatCodes[k].addr} \cup
         (IF CheatCodes[k].size > 1 THEN {CheatCodes[k].addr + 1} ELSE {}) :
         k \in {j \in Codes : CheatCodes[j].kind = 1}}

\* After the cheats have been switched off, what is there is the truth.
Believe ==
  IF CheatsON' \/ MCFCount = 0 THEN UNCHANGED <<truth, touched>>
  ELSE /\ truth' = IF touched THEN ram' ELSE truth
       /\ touched' = FALSE

\* F7, with a .MCF file: an entry that cannot be applied is passed over,
\* and the one before it stays.
F7Cycle ==
  /\ MCFCount > 0
  /\ current_cheat' = (current_cheat + 1) % (MCFCount + 1)
  /\ LET entry == game.mcf[current_cheat']
     IN Leaves(IF current_cheat' = 0 THEN SwitchOff(State)
               ELSE IF Applicable(entry)
               THEN SwitchOn(ApplyMCFCheat(State, entry))
               ELSE State)
  /\ Believe
  /\ UNCHANGED <<game, MCFCount, shown>>

\* F7, with a .CHT file.
F7Toggle ==
  /\ MCFCount = 0
  /\ Leaves(SwitchTo(State, ~CheatsON))
  /\ Believe
  /\ UNCHANGED <<game, MCFCount, current_cheat, shown>>

\* Scanline 192 of every frame: ApplyCheats().
Frame ==
  /\ CheatsON /\ CheatCount > 0
  /\ ram' = StoreAll(ram, shown, CheatCodes, CheatCount, "data")
  /\ UNCHANGED <<game, rom, cheats, MCFCount, current_cheat, shown, truth, touched>>

\* The program writes RAM, or shows another page.
ProgramWrites ==
  \E a \in Cells, b \in Written :
    /\ shown # NoBank
    /\ ram' = WrZ80(ram, shown, a, b)
    /\ IF MCFCount = 0 THEN UNCHANGED <<truth, touched>>
       ELSE /\ truth' = WrZ80(truth, shown, a, b)
            /\ touched' = (touched \/ (CheatsON /\ a \in Cheated))
    /\ UNCHANGED <<game, rom, cheats, MCFCount, current_cheat, shown>>

ProgramShows ==
  \E bank \in (Banks \cup {NoBank}) \ {shown} :
    /\ shown' = bank
    /\ touched' = (touched \/ (MCFCount > 0 /\ CheatsON))
    /\ UNCHANGED <<game, rom, cheats, MCFCount, current_cheat, ram, truth>>

EmptyTable == [k \in 0 .. MAXCHEATS - 1 |-> Blank]

Nothing == [roms |-> [s \in CartSlots |-> 0], flat |-> {}, cart |-> 0,
            lines |-> <<>>, mcf |-> <<>>]

\* No game yet: the one that is loaded decides.
Init ==
  /\ game = Nothing
  /\ rom = [s \in CartSlots |-> Image(Nothing, s)]
  /\ CheatCodes = EmptyTable
  /\ CheatCount = 0
  /\ CheatsON = FALSE
  /\ MCFCount = 0
  /\ current_cheat = 0
  /\ ram = Fresh
  /\ shown = NoBank
  /\ truth = Fresh
  /\ touched = FALSE

Next ==
  \/ LoadGame
  \/ F7Cycle
  \/ F7Toggle
  \/ Frame
  \/ ProgramWrites
  \/ ProgramShows

Spec == Init /\ [][Next]_vars

(***************************************************************************)
(* Properties.                                                             *)
(***************************************************************************)
TypeOK ==
  /\ game \in Games \cup {Nothing}
  /\ \A s \in CartSlots : rom[s] \in [DOMAIN Image(game, s) -> Bytes]
  /\ CheatCodes \in [0 .. MAXCHEATS - 1 -> Code]
  /\ CheatCount \in 0 .. MAXCHEATS
  /\ CheatsON \in BOOLEAN
  /\ MCFCount \in {0, Len(game.mcf)}
  /\ current_cheat \in 0 .. MCFCount
  /\ {ram, truth} \subseteq [Banks -> [Cells -> Bytes]]
  /\ shown \in Banks \cup {NoBank}
  /\ touched \in BOOLEAN

Covers(c, i) == i = c.addr \/ (c.size > 1 /\ i = c.addr + 1)

ROMCodes == {k \in Codes : ForROM(game, CheatCodes[k])}

Apart(codes) ==
  \A j, k \in codes :
    j # k => \A i \in {CheatCodes[j].addr, CheatCodes[j].addr + 1} :
               ~(Covers(CheatCodes[j], i) /\ Covers(CheatCodes[k], i))

Overlaid(bytes, codes) ==
  [i \in DOMAIN bytes |->
     IF \E k \in codes : Covers(CheatCodes[k], i)
     THEN LET k == CHOOSE j \in codes : Covers(CheatCodes[j], i)
          IN CheatCodes[k].data[i - CheatCodes[k].addr + 1]
     ELSE bytes[i]]

\* If no two codes share a byte, the cartridge that Cheats() found holds the
\* values of all codes while cheats are on, and its own bytes while they are
\* off; no other cartridge is ever changed.
ROMsAsMade ==
  \A s \in CartSlots :
    IF s = Target(game) /\ HasTarget(game)
    THEN Apart(ROMCodes) =>
           rom[s] = Overlaid(Image(game, s), IF CheatsON THEN ROMCodes ELSE {})
    ELSE rom[s] = Image(game, s)

\* With a .MCF file, RAM is what the program made it, but for the bytes of the
\* cheat that is on: stepping to the next cheat, and past the last one, gives
\* the bytes back, unless the program wrote them or moved its pages meanwhile.
RAMGivenBack ==
  MCFCount > 0 /\ ~touched =>
    \A b \in Banks, a \in Cells :
      (CheatsON /\ a \in Cheated) \/ ram[b][a] = truth[b][a]

\* With a .MCF file, the table of MSX.c follows F7's counter in libretro.c: the
\* last entry up to it that could be applied is the only code, and is on; none
\* is after the last step of the cycle, and none ever without a cartridge.
CheatIsCurrent ==
  MCFCount > 0 =>
    LET done == {k \in 1 .. current_cheat : Applicable(game.mcf[k])}
        last == CHOOSE k \in done : \A j \in done : j <= k
    IN /\ CheatsON <=> (done # {} /\ HasTarget(game))
       /\ done # {} => /\ CheatCount = 1
                       /\ CheatCodes[0].kind = 1
                       /\ CheatCodes[0].addr = game.mcf[last].addr
                       /\ CheatCodes[0].data = game.mcf[last].data

\* Stepping through a .MCF file with F7, whatever the program does to RAM
\* meanwhile, one cheat at most is in force: the one that the counter means.
OneCheatAtATime == RAMGivenBack /\ CheatIsCurrent

\* README.md on F7: once it has been pressed, the codes for Game.rom are in
\* the ROM of the game.
GamePatched ==
  CheatsON /\ Apart(ROMCodes) =>
    \A k \in ROMCodes :
      CheatCodes[k].addr + CheatCodes[k].size <= game.roms[game.cart] * PageBytes
      => rom[game.cart][CheatCodes[k].addr] = CheatCodes[k].data[1]
=============================================================================
