---------------------------- MODULE MCDiskControl ----------------------------
(***************************************************************************)
(* Values of the constants of DiskControl for TLC.                         *)
(***************************************************************************)
EXTENDS DiskControl

CONSTANTS game1, game2, user  \* two disks of a game, and a user disk

TwoDisks == <<game1, game2>>
=============================================================================
