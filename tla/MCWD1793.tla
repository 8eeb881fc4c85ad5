------------------------------ MODULE MCWD1793 ------------------------------
(***************************************************************************)
(* Values of the constants of WD1793 for TLC.                              *)
(***************************************************************************)
EXTENDS WD1793

\* FORCE-IRQ, RESTORE, SEEK, STEPs in and out, a read of a sector, of all to
\* the end and of one on side 1, writes to the end, a header, both of a track.
MCCommands == {\hD8, \h00, \h10, \h50, \h60, \h80, \h90, \h8A, \hB0, \hC0,
               \hE0, \hF0}
\* A side of the drive that flush_disk() saves, the other one of the other drive.
MCSelects == {<<0, 0>>, <<1, 1>>}

\* As an int: below zero, nothing, and more than a sector.
MCWildLengths == {-1, 0, 3}
=============================================================================
