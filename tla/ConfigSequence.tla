-------------------------- MODULE ConfigSequence --------------------------
(***************************************************************************)
(* What configuring the transmitter promises, without bus, clock or        *)
(* handshake: the writes of the ROM reach the target one at a time and in  *)
(* order, a refused write is the last one, and the outcome is "done" only  *)
(* when every write was made and none refused.  ConfigSystem implements    *)
(* it; a write is abstract here when the target sees STOP.                 *)
(***************************************************************************)
EXTENDS Naturals, Sequences

CONSTANT Writes     \* the sequence to be written

VARIABLES
  attempt,    \* index of the write under way
  written,    \* what the target has recorded
  nacked,     \* a byte of this write was refused
  outcome

vars == <<attempt, written, nacked, outcome>>

Init ==
  /\ attempt = 1 /\ written = << >> /\ nacked = FALSE /\ outcome = "running"

Underway == outcome = "running" /\ Len(written) = attempt - 1
Complete == outcome = "running" /\ Len(written) = attempt

Refuse ==
  /\ Underway /\ ~nacked
  /\ nacked' = TRUE
  /\ UNCHANGED <<attempt, written, outcome>>

(* No abort: a refused write still runs to its STOP (D10).                 *)
Write ==
  /\ Underway
  /\ written' = Append(written, Writes[attempt])
  /\ UNCHANGED <<attempt, nacked, outcome>>

Advance ==
  /\ Complete /\ ~nacked /\ attempt < Len(Writes)
  /\ attempt' = attempt + 1
  /\ UNCHANGED <<written, nacked, outcome>>

Finish ==
  /\ Complete /\ ~nacked /\ attempt = Len(Writes)
  /\ outcome' = "done"
  /\ UNCHANGED <<attempt, written, nacked>>

Fail ==
  /\ Complete /\ nacked
  /\ outcome' = "error"
  /\ UNCHANGED <<attempt, written, nacked>>

Next == Refuse \/ Write \/ Advance \/ Finish \/ Fail

Spec == Init /\ [][Next]_vars

=============================================================================
