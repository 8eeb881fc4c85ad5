---------------------------- MODULE MCInterrupts ----------------------------
(***************************************************************************)
(* Values of the constants of Interrupts for TLC: frames of 7 or 8         *)
(* scanlines that have the events of a real frame in the same order, and   *)
(* scanlines of a few cycles.                                              *)
(***************************************************************************)
EXTENDS Interrupts

By(n192, n212, p212) == [v \in {"N192", "N212", "P212"} |->
  CASE v = "N192" -> n192 [] v = "N212" -> n212 [] v = "P212" -> p212]

MCBorder     == By(1, 2, 2)
MCVBlankLine == By(2, 3, 5)
MCCoincEnd   == By(4, 5, 6)
MCLastLine   == By(6, 6, 7)
MCCycles     == [op \in Ops |-> IF op = "other" THEN {1, 2} ELSE {1}]

Halted == [PowerOn EXCEPT !.IFF1 = TRUE, !.IFF2 = TRUE, !.HALT = TRUE, !.F = FALSE,
                          !.IE0 = TRUE, !.VRefresh = FALSE, !.ScanLine = ExitLine]
MCSavedStates == {Halted}
=============================================================================
