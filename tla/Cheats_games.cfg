CONSTANTS
  Bytes = {0, 1, 2}
  Written = {0, 1}
  PageBytes = 1
  Games <- AllGames
  Banks = {b1, b2}
  Cells = {0, 1}
  NoBank = none
  NORAM = 2
  MAXCHEATS = 3
SYMMETRY BankSymmetry
SPECIFICATION Spec
INVARIANTS TypeOK ROMsAsMade OneCheatAtATime
