---------------------------- MODULE MCMemoryMap ----------------------------
(***************************************************************************)
(* Values of the constants of MemoryMap for TLC.                           *)
(***************************************************************************)
EXTENDS MemoryMap

\* A cartridge of the type in one of the slots A and B, a flat ROM in the other.
InSlot(cart, type) ==
  [c \in Carts |-> IF c = cart THEN type ELSE IF c < 2 THEN "PLAIN" ELSE "EMPTY"]

\* From page 3 down, A8h: slots 3, 1, 1, 0 or 2, 2, 1, 2, where the cartridge
\* of slot 1 is shown in page 1 alone.  FFFFh: subslots 3, 1, 1, 0 or, with RAM
\* in page 3, 2, 2, 1, 2.  The addresses are a bank, a 16kB bank and an SRAM
\* register of each mapper, the SCC, RAM.  3Fh is the last page, and SRAM to the
\* mappers that have it, and turns the SCC on.
Switching(type) ==
  [carts |-> InSlot(0, type), slotBytes |-> {\hD4, \hA6},
   bytes |-> {\h05, \h3F}, ports |-> {3}, saves |-> 0,
   addrs |-> {\h6000, \h7000, \h8000, \h9000, \h9800, \hB000, \hBFFE, \hC000}]

\* Few values where a state of the machine and a saved one are combined: slots
\* 2, 2, 2, 0 or 3, 1, 1, 0, with RAM or none in page 3 for subslots A8h or D4h.
\* 4Dh and 69h are the FMPAC's key, and SRAM to an ASCII mapper of 8 pages.
Saving(type) ==
  [carts |-> InSlot(1, type), slotBytes |-> {\hA8, \hD4},
   bytes |-> {\h05, \h4D, \h69}, ports |-> {}, saves |-> 1,
   addrs |-> {\h5FFE, \h5FFF, \h7000, \h7FF7, \h8000}]

MCPrograms == {Switching(type) : type \in CartTypes \ {"FMPAC"}}
              \cup {Saving(type) : type \in {"GEN16", "ASCII8", "FMPAC"}}
SRAMProgram == {Switching("ASCII16")}
=============================================================================
