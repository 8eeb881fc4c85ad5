--------------------------- MODULE SectorTransfer ---------------------------
(***************************************************************************)
(* What the disk controller promises to the program that drives it: every  *)
(* data transfer is one sector, a run of sectors up to the end of its      *)
(* track, or a sector header; it is announced by DRQ, moves consecutive    *)
(* bytes of the disk that was selected when the command was given, raises  *)
(* IRQ with its last byte, and ends in no other way than by a stop.  Of    *)
(* transfers begun with the head past the last track of the disk it        *)
(* promises no more than that they are announced.                          *)
(***************************************************************************)
EXTENDS Integers

CONSTANTS
  Drives,      \* drives that can hold a disk
  Tracks,      \* tracks of a disk
  Heads,       \* where the head can be, on a track of the disk and past them
  Sectors,     \* sectors of a track
  SecSize,     \* bytes of a sector
  HeaderSize   \* bytes of a sector header

\* A transfer: where its next byte is, and where it stops.
Transfer ==
  [mode : {"read", "write"}, area : {"track", "header"}, drive : Drives,
   track : 0 .. Heads - 1, side : 0 .. 1, next : Nat, end : Nat]
Wild == [mode : {"wild"}, track : Tracks .. Heads - 1]
Idle == [mode |-> "idle"]

VARIABLES
  todo,  \* the transfer under way
  line   \* what the controller signals: "none", "DRQ" or "IRQ"
vars == <<todo, line>>

TypeOK ==
  /\ todo \in Transfer \cup Wild \cup {Idle}
  /\ line \in {"none", "DRQ", "IRQ"}

Init == todo = Idle /\ line = "none"

\* One sector, the sectors from one to the end of the track, or a header.
WholeSectors(t) ==
  /\ t.area = "track" /\ t.track < Tracks
  /\ \E s \in 1 .. Sectors :
       t.next = (s - 1) * SecSize /\ t.end \in {s * SecSize, Sectors * SecSize}
WholeHeader(t) ==
  /\ t.area = "header" /\ t.mode = "read"
  /\ t.next = 0 /\ t.end = HeaderSize

Begin ==
  /\ todo = Idle
  /\ todo' \in Transfer
  /\ WholeSectors(todo') \/ WholeHeader(todo')
  /\ line' = "DRQ"

BeginWild == todo = Idle /\ todo' \in Wild /\ line' = "DRQ"

Byte ==
  /\ todo \notin Wild \cup {Idle}
  /\ IF todo.next + 1 < todo.end
     THEN todo' = [todo EXCEPT !.next = @ + 1] /\ line' = line
     ELSE todo' = Idle /\ line' = "IRQ"

\* A command that arrives during a transfer is lost, and with it the signal.
Ignore == todo # Idle /\ todo' = todo /\ line' = "none"

\* FORCE-IRQ, the watchdog, a reset.
Stop == todo' = Idle /\ line' \in {"none", "IRQ"}

Next == Begin \/ BeginWild \/ Byte \/ Ignore \/ Stop
Spec == Init /\ [][Next]_vars
=============================================================================
