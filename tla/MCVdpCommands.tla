---------------------------- MODULE MCVdpCommands ----------------------------
(***************************************************************************)
(* Values of the constants of VdpCommands for TLC: a screen of few pixels, *)
(* where lines of 4 or 8 of them lie in 8 columns, as those of 256 or 512  *)
(* in 512.                                                                 *)
(***************************************************************************)
EXTENDS VdpCommands

SmallPPL  == [m \in Screens5To8 |-> IF m \in {5, 8} THEN 4 ELSE 8]
SmallPPB  == [m \in Screens5To8 |-> CASE m = 6 -> 4 [] m = 8 -> 1 [] OTHER -> 2]
SmallRows == [m \in Screens5To8 |-> IF m <= 6 THEN 3 ELSE 2]

Arg(sx, sy, dx, dy, nx, ny) ==
  [NoArgs EXCEPT !.sx = sx, !.sy = sy, !.dx = dx, !.dy = dy, !.nx = nx, !.ny = ny]
\* Lines as wide as the screen, and a rectangle that leaves it on the left and
\* above, which is also written while a command runs.
Below == Arg(0, 1, 0, 0, 0, 2)
Above == [Arg(2, 1, 3, 2, 2, 2) EXCEPT !.left = TRUE, !.up = TRUE, !.ymajor = TRUE]
SomeArgs  == {Below, Above}
OtherArgs == {Above}
\* A state saved in the middle of a command.
Busy == {[mode |-> 5, ce |-> TRUE, tr |-> FALSE, bd |-> FALSE, reg |-> NoArgs]}
=============================================================================
