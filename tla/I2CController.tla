-------------------------- MODULE I2CController --------------------------
(***************************************************************************)
(* rtl/i2c_controller.sv: the write-only I2C controller.                   *)
(*                                                                         *)
(* One step is one rising edge of clk_i.  Every register reads the values  *)
(* from before the edge, as non-blocking assignments do, so an edge is the *)
(* conjunction of the divider, of the registers the SystemVerilog          *)
(* assertions look at, and of the FSM.  The FSM moves only on a tick of    *)
(* the divider.  Reset is asynchronous: an action of its own.              *)
(*                                                                         *)
(* sda_oe and scl_oe are TRUE when the line is pulled low; sda_i is TRUE   *)
(* when the resolved line is high.                                         *)
(***************************************************************************)
EXTENDS Naturals

CONSTANTS
  CLK_DIV,    \* clk_i cycles between two ticks (the module's parameter)
  Payloads    \* the (dev_addr_i, reg_addr_i, data_i) triples offered

ClkDivOK == CLK_DIV \in Nat \ {0}
PayloadsOK ==
  Payloads \subseteq [dev_addr : 0..127, reg_addr : 0..255, data : 0..255]

ASSUME ClkDivAssumption == ClkDivOK
ASSUME PayloadsAssumption == PayloadsOK

VARIABLES
  count,                          \* the divider
  state, byte_idx, bit_cnt, phase,
  sda_oe, scl_oe,                 \* what the controller does to the lines
  busy_o, done_o, ack_err_o,
  scl_oe_d, sda_oe_d, state_d,    \* last edge's values, for the assertions
  scl_low_cnt                     \* 16 bits: clocks SCL has been low

fsmVars  == <<state, byte_idx, bit_cnt, phase, sda_oe, scl_oe, busy_o, ack_err_o>>
watchVars == <<scl_oe_d, sda_oe_d, state_d, scl_low_cnt>>
vars == <<count, fsmVars, done_o, watchVars>>

States == {"IDLE", "START", "SEND_BYTE", "ACK", "STOP", "DONE"}
W16 == 65536

-----------------------------------------------------------------------------
(* What reset leaves in every register; also the power-up state, because   *)
(* the board holds reset low from configuration on.                        *)
Init ==
  /\ count = 0
  /\ state = "IDLE" /\ byte_idx = 0 /\ bit_cnt = 0 /\ phase = 0
  /\ sda_oe = FALSE /\ scl_oe = FALSE
  /\ busy_o = FALSE /\ done_o = FALSE /\ ack_err_o = FALSE
  /\ scl_oe_d = FALSE /\ sda_oe_d = FALSE /\ state_d = "IDLE"
  /\ scl_low_cnt = 0

Reset ==
  /\ count' = 0
  /\ state' = "IDLE" /\ byte_idx' = 0 /\ bit_cnt' = 0 /\ phase' = 0
  /\ sda_oe' = FALSE /\ scl_oe' = FALSE
  /\ busy_o' = FALSE /\ done_o' = FALSE /\ ack_err_o' = FALSE
  /\ scl_oe_d' = FALSE /\ sda_oe_d' = FALSE /\ state_d' = "IDLE"
  /\ scl_low_cnt' = 0

tick == count = CLK_DIV - 1

(* Mutant: the divider wraps one clock late.                               *)
Divide_WrapsLate == count' = IF count = CLK_DIV THEN 0 ELSE count + 1

Divide == count' = IF tick THEN 0 ELSE count + 1

(* The registers that exist for the two concurrent assertions.             *)
Watch ==
  /\ scl_oe_d' = scl_oe
  /\ sda_oe_d' = sda_oe
  /\ state_d' = state
  /\ scl_low_cnt' = IF scl_oe THEN (scl_low_cnt + 1) % W16 ELSE 0

(* The byte on its way out is a combinational function of the inputs: the  *)
(* controller latches none of them.                                        *)
tx_byte(p) ==
  CASE byte_idx = 0 -> 2 * p.dev_addr
    [] byte_idx = 1 -> p.reg_addr
    [] OTHER        -> p.data

BitOf(byte, i) == (byte \div 2^i) % 2

-----------------------------------------------------------------------------
(* The FSM, one action per arm of the case statement.  Drive says what the *)
(* arm does to the two lines.                                              *)

Drive(sda, scl) == sda_oe' = sda /\ scl_oe' = scl

IdleArm(start_i) ==
  /\ state = "IDLE"
  /\ Drive(FALSE, FALSE)
  /\ \/ start_i  /\ state' = "START" /\ busy_o' = TRUE
     \/ ~start_i /\ UNCHANGED <<state, busy_o>>
  /\ UNCHANGED <<byte_idx, bit_cnt, phase, ack_err_o>>

StartArm ==
  /\ state = "START"
  /\ Drive(TRUE, FALSE)
  /\ state' = "SEND_BYTE"
  /\ bit_cnt' = 7 /\ phase' = 0 /\ byte_idx' = 0
  /\ UNCHANGED <<busy_o, ack_err_o>>

(* Phase 0: SCL low, the next data bit onto SDA.                           *)
BitSetup(p) ==
  /\ state = "SEND_BYTE" /\ phase = 0
  /\ Drive(BitOf(tx_byte(p), bit_cnt) = 0, TRUE)
  /\ phase' = 1
  /\ UNCHANGED <<state, byte_idx, bit_cnt, busy_o, ack_err_o>>

(* Mutant: SDA is let go while SCL rises.                                  *)
BitSample_DropsSda ==
  /\ state = "SEND_BYTE" /\ phase = 1
  /\ Drive(FALSE, FALSE)
  /\ phase' = 0
  /\ \/ bit_cnt = 0 /\ state' = "ACK"     /\ UNCHANGED bit_cnt
     \/ bit_cnt # 0 /\ UNCHANGED state    /\ bit_cnt' = bit_cnt - 1
  /\ UNCHANGED <<byte_idx, busy_o, ack_err_o>>

(* Phase 1: SCL released, the target samples.                              *)
BitSample ==
  /\ state = "SEND_BYTE" /\ phase = 1
  /\ Drive(sda_oe, FALSE)
  /\ phase' = 0
  /\ \/ bit_cnt = 0 /\ state' = "ACK"     /\ UNCHANGED bit_cnt
     \/ bit_cnt # 0 /\ UNCHANGED state    /\ bit_cnt' = bit_cnt - 1
  /\ UNCHANGED <<byte_idx, busy_o, ack_err_o>>

(* Mutant: the controller keeps its last bit on SDA in the ninth clock.    *)
AckSetup_HoldsSda ==
  /\ state = "ACK" /\ phase = 0
  /\ Drive(sda_oe, TRUE)
  /\ phase' = 1
  /\ UNCHANGED <<state, byte_idx, bit_cnt, busy_o, ack_err_o>>

(* Phase 0 of the ninth clock: SDA released to the target.                 *)
AckSetup ==
  /\ state = "ACK" /\ phase = 0
  /\ Drive(FALSE, TRUE)
  /\ phase' = 1
  /\ UNCHANGED <<state, byte_idx, bit_cnt, busy_o, ack_err_o>>

(* Mutant: the bit counter is not reloaded for the next byte.              *)
AckSample_NoReload(sda_i) ==
  /\ state = "ACK" /\ phase = 1
  /\ Drive(sda_oe, FALSE)
  /\ phase' = 0
  /\ ack_err_o' = (ack_err_o \/ sda_i)
  /\ byte_idx' = (byte_idx + 1) % 4
  /\ \/ byte_idx = 2 /\ state' = "STOP"      /\ bit_cnt' = 2
     \/ byte_idx # 2 /\ state' = "SEND_BYTE" /\ UNCHANGED bit_cnt
  /\ UNCHANGED busy_o

(* Mutant: ack_err_o follows the last byte instead of sticking.            *)
AckSample_NotSticky(sda_i) ==
  /\ state = "ACK" /\ phase = 1
  /\ Drive(sda_oe, FALSE)
  /\ phase' = 0
  /\ ack_err_o' = sda_i
  /\ byte_idx' = (byte_idx + 1) % 4
  /\ \/ byte_idx = 2 /\ state' = "STOP"      /\ bit_cnt' = 2
     \/ byte_idx # 2 /\ state' = "SEND_BYTE" /\ bit_cnt' = 7
  /\ UNCHANGED busy_o

(* Phase 1: sample the answer.  A NACK is remembered, not acted upon (D10).*)
AckSample(sda_i) ==
  /\ state = "ACK" /\ phase = 1
  /\ Drive(sda_oe, FALSE)
  /\ phase' = 0
  /\ ack_err_o' = (ack_err_o \/ sda_i)
  /\ byte_idx' = (byte_idx + 1) % 4
  /\ \/ byte_idx = 2 /\ state' = "STOP"      /\ bit_cnt' = 2
     \/ byte_idx # 2 /\ state' = "SEND_BYTE" /\ bit_cnt' = 7
  /\ UNCHANGED busy_o

(* Mutant: SCL stays low for a second tick of STOP.                        *)
StopArm_SclLate ==
  /\ state = "STOP"
  /\ \/ bit_cnt = 2 /\ Drive(TRUE, TRUE) /\ bit_cnt' = 1 /\ UNCHANGED state
     \/ bit_cnt = 1 /\ Drive(TRUE, TRUE) /\ bit_cnt' = 0 /\ UNCHANGED state
     \/ /\ bit_cnt \notin {1, 2}
        /\ Drive(FALSE, FALSE)
        /\ state' = "DONE" /\ UNCHANGED bit_cnt
  /\ UNCHANGED <<byte_idx, phase, busy_o, ack_err_o>>

(* STOP walks bit_cnt 2 -> 1 -> 0: both low, SCL up, SDA up.               *)
StopArm ==
  /\ state = "STOP"
  /\ \/ bit_cnt = 2 /\ Drive(TRUE, TRUE)  /\ bit_cnt' = 1 /\ UNCHANGED state
     \/ bit_cnt = 1 /\ Drive(TRUE, FALSE) /\ bit_cnt' = 0 /\ UNCHANGED state
     \/ /\ bit_cnt \notin {1, 2}
        /\ Drive(FALSE, FALSE)
        /\ state' = "DONE" /\ UNCHANGED bit_cnt
  /\ UNCHANGED <<byte_idx, phase, busy_o, ack_err_o>>

DoneArm ==
  /\ state = "DONE"
  /\ state' = "IDLE"
  /\ busy_o' = FALSE
  /\ UNCHANGED <<byte_idx, bit_cnt, phase, sda_oe, scl_oe, ack_err_o>>

FSM(start_i, p, sda_i) ==
  \/ IdleArm(start_i)
  \/ StartArm
  \/ BitSetup(p)
  \/ BitSample
  \/ AckSetup
  \/ AckSample(sda_i)
  \/ StopArm
  \/ DoneArm

(* Mutant: done_o is set and never cleared.                                *)
Clk_DoneSticks(start_i, p, sda_i) ==
  /\ Divide
  /\ Watch
  /\ \/ tick  /\ FSM(start_i, p, sda_i) /\ done_o' = (done_o \/ state = "DONE")
     \/ ~tick /\ UNCHANGED <<fsmVars, done_o>>

(* done_o is cleared at every tick and set by the DONE arm.                *)
Clk(start_i, p, sda_i) ==
  /\ Divide
  /\ Watch
  /\ \/ tick  /\ FSM(start_i, p, sda_i) /\ done_o' = (state = "DONE")
     \/ ~tick /\ UNCHANGED <<fsmVars, done_o>>

(* On its own the controller meets an environment that may do anything.    *)
Edge == \E start_i, sda_i \in BOOLEAN, p \in Payloads : Clk(start_i, p, sda_i)

Next == Edge \/ Reset

Spec == Init /\ [][Next]_vars

-----------------------------------------------------------------------------
(* Properties.                                                             *)

NumbersOK ==
  /\ count \in 0..CLK_DIV - 1
  /\ byte_idx \in 0..3 /\ bit_cnt \in 0..7 /\ phase \in 0..1
  /\ scl_low_cnt \in 0..W16 - 1

StatesOK == state \in States /\ state_d \in States

LinesOK ==
  /\ sda_oe \in BOOLEAN /\ scl_oe \in BOOLEAN
  /\ sda_oe_d \in BOOLEAN /\ scl_oe_d \in BOOLEAN

FlagsOK == busy_o \in BOOLEAN /\ done_o \in BOOLEAN /\ ack_err_o \in BOOLEAN

(* Every register stays within its width.                                  *)
TypeOK == NumbersOK /\ StatesOK /\ LinesOK /\ FlagsOK

(* The assertion p_scl_low_width: whenever SCL is let go it was low for    *)
(* one tick, counted and compared modulo 2^16 as the RTL does.             *)
p_scl_low_width == scl_oe_d /\ ~scl_oe => scl_low_cnt = CLK_DIV % W16

(* The assertion p_sda_stable_while_scl_high: SDA moves only together with *)
(* SCL going low, or to make a START or a STOP.                            *)
p_sda_stable_while_scl_high ==
  sda_oe # sda_oe_d => (scl_oe /\ ~scl_oe_d) \/ state_d \in {"START", "STOP"}

(* The controller holds the bus only inside a transaction: not busy means  *)
(* both lines released, also right after a reset in mid-byte.              *)
BusFreeWhenNotBusy == ~busy_o => ~sda_oe /\ ~scl_oe

(* done_o belongs to the transaction that ended: by the time the next one  *)
(* is accepted it is gone, so a caller that starts again at once cannot    *)
(* take it for the new transaction's.                                      *)
NoStaleDone == done_o => ~busy_o /\ state = "IDLE"

=============================================================================
