------------------------- MODULE MCI2CController -------------------------
(***************************************************************************)
(* The controller on its own, its inputs free at every clock edge: start_i *)
(* may come, go and come back in mid-transaction, the payload may change   *)
(* from one edge to the next, the target may answer anything.              *)
(***************************************************************************)
EXTENDS I2CController

(* Two payloads that differ in every bit of every byte.                    *)
MCPayloads ==
  {[dev_addr |-> 57, reg_addr |-> 65, data |-> 0],
   [dev_addr |-> 70, reg_addr |-> 190, data |-> 255]}

=============================================================================
