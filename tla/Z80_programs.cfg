CONSTANTS
  Programs <- MCPrograms
  Vector = 255
  Interrupts = 2
  Ticks <- MCTicks
  Longest = 40
SPECIFICATION Spec
INVARIANTS TypeOK EndsAsPromised InterruptsInvisible
PROPERTIES ProgramsEnd
