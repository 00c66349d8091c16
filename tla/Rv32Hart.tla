------------------------------ MODULE Rv32Hart ------------------------------
(***************************************************************************)
(* What the machine promises each of its harts: to run as if it were       *)
(* alone.  One hart, its rows and its device calls, and a budget that may  *)
(* end it at any moment.                                                   *)
(***************************************************************************)
EXTENDS Rv32Step

CONSTANTS Id, Images

VARIABLES hart, rows, calls
hartVars == <<hart, rows, calls>>

AloneInit ==
  /\ \E image \in Images : hart = HartWith(image)
  /\ rows = <<>> /\ calls = <<>>

Running == hart.halted = "no"

AloneStep ==
  /\ Running
  /\ \E o \in Outcomes(Id, hart) :
       /\ hart' = o.hart
       /\ rows' = Append(rows, o.row)
       /\ calls' = calls \o o.calls

(* Retires an instruction, if the budget allowed one, and runs out of it.  *)
AloneBudget ==
  /\ Running
  /\ \/ /\ hart' = [hart EXCEPT !.halted = "budget"]
        /\ rows' = Append(rows, HaltRow(Id, "budget", hart.pc, None))
        /\ UNCHANGED calls
     \/ \E o \in Outcomes(Id, hart) :
          /\ o.row.halt = "no"
          /\ hart' = [o.hart EXCEPT !.halted = "budget"]
          /\ rows' = rows \o <<o.row, HaltRow(Id, "budget", o.hart.pc, None)>>
          /\ calls' = calls \o o.calls

AloneNext == AloneStep \/ AloneBudget
Alone == AloneInit /\ [][AloneNext]_hartVars

=============================================================================
