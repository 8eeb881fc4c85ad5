------------------------------ MODULE MCCheats ------------------------------
(***************************************************************************)
(* Values of the constants of Cheats for TLC: games with each kind of file *)
(* and each place of a cartridge.                                          *)
(***************************************************************************)
EXTENDS Cheats, TLC

Roms(a, b, c) == (0 :> a) @@ (1 :> b) @@ (2 :> c)

OfROM(a, h, lo, hi) ==
  [digits |-> 8, kind |-> 0, addr |-> a, hexes |-> h, data |-> <<lo, hi>>]
OfRAM(d, a, h, lo, hi) ==
  [digits |-> d, kind |-> 1, addr |-> a, hexes |-> h, data |-> <<lo, hi>>]
Unreadable == [OfROM(0, 2, 0, 0) EXCEPT !.digits = 0]
OtherKind == [OfROM(0, 4, 2, 2) EXCEPT !.kind = 2]

Step(a, lo, hi, size) == [addr |-> a, data |-> <<lo, hi>>, size |-> size]

\* In slot A, with FMPAC in the system's slot; codes of both kinds and one
\* more than there is room for.
SlotA == [roms |-> Roms(4, 0, 8), flat |-> {}, cart |-> 0, mcf |-> <<>>,
          lines |-> <<OfROM(2, 4, 2, 2), Unreadable, OfRAM(8, 0, 4, 1, 2),
                      OfROM(0, 2, 2, 0), OfROM(5, 2, 2, 0)>>]

\* In slot B, behind Game Master, of 32kB: a code of the first half, one of
\* the second; RAM with four digits, which end up as one byte.
SlotB == [roms |-> Roms(16, 4, 8), flat |-> {}, cart |-> 1, mcf |-> <<>>,
          lines |-> <<OfROM(0, 4, 2, 2), OfROM(3, 2, 2, 0), OfRAM(4, 1, 4, 2, 1)>>]

\* A MegaROM in slot B, whose codes overlap.
Overlapping == [roms |-> Roms(0, 8, 0), flat |-> {}, cart |-> 1, mcf |-> <<>>,
                lines |-> <<OfROM(6, 4, 2, 2), OfROM(7, 2, 1, 0)>>]

\* 64kB that fill their slot.
Flat == [roms |-> Roms(8, 8, 0), flat |-> {0, 1}, cart |-> 1,
         mcf |-> <<Step(0, 1, 0, 1)>>,
         lines |-> <<OfROM(1, 2, 2, 0), OfROM(1, 4, 2, 2), OtherKind>>]

\* RAM values, with FMPAC; the third one does not fit.
Steps == [roms |-> Roms(4, 0, 8), flat |-> {}, cart |-> 0,
          lines |-> <<Unreadable>>,
          mcf |-> <<Step(0, 1, 0, 1), Step(0, 2, 1, 2), Step(1, 1, 0, 4),
                    Step(1, 2, 0, 1)>>]

\* The same from a disk, without any cartridge.
NoCart == [roms |-> Roms(0, 0, 0), flat |-> {}, cart |-> 0, lines |-> <<>>,
           mcf |-> <<Step(1, 1, 0, 1)>>]

BankSymmetry == Permutations(Banks)

AllGames == {SlotA, SlotB, Overlapping, Flat, Steps, NoCart}
=============================================================================
