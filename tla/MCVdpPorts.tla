---------------------------- MODULE MCVdpPorts -----------------------------
(***************************************************************************)
(* Values of the constants of VdpPorts for TLC: two pages of two bytes,    *)
(* screen modes with every kind of table, and programs that use tables,    *)
(* memory and colours one at a time, with registers of the others as after *)
(* a reset.                                                                *)
(***************************************************************************)
EXTENDS VdpPorts

\* SCREENs 0, 1, 4 and 7, the text mode of 80 columns and mode bits that stand for none.
MCValues == [r \in Number |->
  CASE r = 0 -> {0, 4, 10}
    [] r = 1 -> {0, 16}
    [] r \in {2, 3, 4, 5, 6, 11, 16} -> {35}
    [] r = 14 -> {45}
    [] r = 10 -> {10}
    [] r = 17 -> {10, 16, 138}
    [] OTHER -> {0}]
MCRegs == Special

\* A state saved in SCREEN 4 whose latches wait for second bytes.
Saved == [VDP |-> [VDPInit EXCEPT ![0] = 4, ![1] = 0, ![14] = 1],
          VRAM |-> [p \in 0 .. Pages - 1 |-> [a \in 0 .. PageSize - 1 |-> NoRAM]],
          VAddr |-> PageSize - 1, VDPData |-> NoRAM, VKey |-> FALSE, ALatch |-> 0,
          PKey |-> TRUE, PLatch |-> 0, Palette |-> PalInit]
MCSavedStates == {Saved, [Saved EXCEPT !.VDP[0] = 12, !.VDP[14] = 0]}

Rest(regs) == \A r \in regs : VDP[r] = VDPInit[r]
Written(regs) == {r \in regs : VDP[r] # VDPInit[r]}
TablesRest == Rest({2, 3, 4, 5, 6, 10, 11})
MemoryRests == /\ Rest({14}) /\ VAddr = 0 /\ VDPData = NoRAM
               /\ \A p \in DOMAIN VRAM : \A a \in DOMAIN VRAM[p] : VRAM[p][a] = NoRAM
ColoursRest == Rest({16}) /\ PLatch = 0 /\ PKey /\ Palette = PalInit
UsesTables == /\ MemoryRests /\ ColoursRest
              /\ Cardinality(Written({2, 3, 4, 5, 6, 10, 11, 17})) <= 2
UsesMemory == /\ TablesRest /\ ColoursRest /\ Rest({17})
              /\ current \in {{}, Tables} /\ ALatch \in {0, 10, 35, 45}
UsesColours == /\ TablesRest /\ MemoryRests /\ Rest({0, 1})
               /\ \A c \in 1 .. 14 : Palette[c] = <<>>
OneAtATime == /\ UsesTables \/ UsesMemory \/ UsesColours
              /\ VDP[17] % 64 \in {0, 10, 11, 16, 17}
=============================================================================
