--------------------------- MODULE ConfigSystem ---------------------------
(***************************************************************************)
(* The 50 MHz side of rtl/de10nano_top.sv: the power-on reset, the ROM     *)
(* walker, the I2C controller, and the target at the other end of the      *)
(* open-drain bus.  A clock edge moves all of them at once; KEY0 resets    *)
(* the FPGA at any moment, and never the target.                           *)
(***************************************************************************)
EXTENDS Naturals, Sequences, SequencesExt

CONSTANTS CLK_DIV, NUM_REGS, POR_CYCLES,
          MaxPresses    \* bound: how often KEY0 is pressed

(* The target answers one clock after it saw an edge, so the lines must    *)
(* hold still for at least two (tb/sim_i2c.cpp: "lines only move on ticks, *)
(* 250 clk cycles apart").                                                 *)
ASSUME SlowBusAssumption == CLK_DIV \in Nat /\ CLK_DIV >= 2
ASSUME PressesAssumption == MaxPresses \in Nat

VARIABLES
  btn_n, rst_cnt, d0, d1,                                  \* reset
  cfg_state, rom_idx,                                      \* walker
  count, state, byte_idx, bit_cnt, phase, sda_oe, scl_oe,  \* controller
  busy_o, done_o, ack_err_o, scl_oe_d, sda_oe_d, state_d, scl_low_cnt,
  target, history, prev_sda, prev_scl,                     \* bus and target
  presses,    \* ghost: presses of KEY0 so far
  mark,       \* ghost: writes recorded before the last press
  refused     \* ghost: the target declined a byte since the last press

Rst == INSTANCE ResetTree
Cfg == INSTANCE Adv7513Config
Ctl == INSTANCE I2CController WITH Payloads <- Cfg!Requests
Tgt == INSTANCE I2CTarget

ASSUME NumRegsAssumption == Cfg!NumRegsOK
ASSUME PorAssumption == Rst!PorOK

rstVars == <<btn_n, rst_cnt, d0, d1>>
dutVars == <<cfg_state, rom_idx, count, state, byte_idx, bit_cnt, phase,
             sda_oe, scl_oe, busy_o, done_o, ack_err_o,
             scl_oe_d, sda_oe_d, state_d, scl_low_cnt>>
busVars == <<target, history, prev_sda, prev_scl>>
ghosts  == <<presses, mark, refused>>
vars == <<rstVars, dutVars, busVars, ghosts>>

rst_50m_n == Rst!rst_50m_n

-----------------------------------------------------------------------------
Init ==
  /\ Rst!Init /\ Cfg!Init /\ Ctl!Init /\ Tgt!Init
  /\ presses = 0 /\ mark = 0 /\ refused = FALSE

(* Both modules under one edge, each reading the other's outputs from      *)
(* before it; in reset their registers stay at the reset values.           *)
DutEdge ==
  IF rst_50m_n
  THEN /\ Cfg!Clk(busy_o, done_o, ack_err_o)
       /\ Ctl!Clk(Cfg!start_o, Cfg!request, Tgt!sda_line(sda_oe))
  ELSE UNCHANGED dutVars

Clk ==
  /\ Rst!Clk
  /\ DutEdge
  /\ \E ack \in BOOLEAN :
       /\ Tgt!Observe(sda_oe', scl_oe', ack)
       /\ refused' = (refused \/ Tgt!Refuses(scl_oe', ack))
  /\ UNCHANGED <<presses, mark>>

(* The lines are released the moment the reset arrives, both at once since *)
(* one asynchronous reset clears both drivers; the target sees whatever    *)
(* edges that makes.                                                       *)
PressKey0 ==
  /\ presses < MaxPresses
  /\ Rst!Press /\ Cfg!Reset /\ Ctl!Reset
  /\ Tgt!Observe(FALSE, FALSE, TRUE)
  /\ presses' = presses + 1
  /\ mark' = Len(history')
  /\ refused' = FALSE

ReleaseKey0 == Rst!Release /\ UNCHANGED <<dutVars, busVars, ghosts>>

Next == Clk \/ PressKey0 \/ ReleaseKey0

Spec == Init /\ [][Next]_vars

(* clk_50m_i is a free-running oscillator.  Nobody has to release KEY0.    *)
FairSpec == Spec /\ WF_vars(Clk)

-----------------------------------------------------------------------------
(* Derived views.                                                          *)
Halted == Cfg!done_o \/ Cfg!error_o

Expected ==
  [i \in 1..NUM_REGS |-> <<114, Cfg!ROM[i].addr, Cfg!ROM[i].data>>]

WritesSinceReset == SubSeq(history, mark + 1, Len(history))

-----------------------------------------------------------------------------
(* Safety.                                                                 *)

(* At each falling edge of SCL the target has taken exactly the bits the   *)
(* controller has put out: the two ends count bytes and bits alike         *)
(* (SEND_BYTE, ACK and STOP of i2c_controller.sv).  A lost or an extra     *)
(* clock, or a START or STOP made by accident, shifts every later byte.    *)
BothEndsAgree ==
  /\ state = "SEND_BYTE" /\ phase = 1 =>
       /\ target.in_frame
       /\ target.byte_index = byte_idx
       /\ target.bitpos = 7 - bit_cnt
  /\ state = "ACK" =>
       /\ target.in_frame
       /\ target.byte_index = byte_idx
       /\ target.bitpos = 8
  /\ state = "STOP" /\ bit_cnt < 2 => target.byte_index = 3

(* SDA has one driver at a time: while the target holds it low for its     *)
(* acknowledge the controller has let go, so what the ACK arm samples is   *)
(* the target's answer and not the controller's own last bit.              *)
OneDriverOnSda ==
  target.pull_low => ~sda_oe /\ (state = "ACK" \/ (phase = 0 /\ ~scl_oe) \/ state = "STOP")

(* A refused byte is never lost between the controller's sticky flag and   *)
(* the walker, and the walker never reports an error nobody caused: it     *)
(* ends in STATE_ERROR exactly when the target declined a byte.            *)
ErrorExactlyOnNack == Halted => (Cfg!error_o <=> refused)

Released == state = "IDLE" /\ ~busy_o /\ ~sda_oe /\ ~scl_oe

(* A board in reset lets go of both lines, from the press of KEY0 in the   *)
(* middle of a bit to the edge that ends the power-on delay.  When the     *)
(* walker has stopped, the bus is free: no frame is left open at the       *)
(* target either, whatever a reset before it has left there.               *)
QuietAtRest ==
  /\ ~rst_50m_n => Released
  /\ Halted => Released /\ ~target.in_frame /\ ~target.pull_low

(* cfg_done (LED0) is never lit over an unconfigured transmitter: since    *)
(* the last reset the target recorded exactly the ROM's writes, wherever   *)
(* in a transfer that reset fell.                                          *)
DoneMeansConfigured ==
  Cfg!done_o => WritesSinceReset = Expected /\ ~refused

(* Between accepting a start and reporting done the controller reads the   *)
(* payload from the walker's outputs and keeps no copy (D3): they may not  *)
(* move under it, but for a reset that also ends the transfer.             *)
PayloadHeldWhileBusy ==
  [][busy_o /\ busy_o' => Cfg!request' = Cfg!request]_vars

(* Liveness.  Whatever the target answers and wherever KEY0 struck, once   *)
(* the key stays released the walker halts for good: the tick-based        *)
(* controller and the clock-based walker never wait for each other.        *)
Settles == <>[]btn_n => <>[]Halted

-----------------------------------------------------------------------------
(* Without presses of KEY0 the system implements ConfigSequence.           *)
Outcome == CASE Cfg!done_o  -> "done"
             [] Cfg!error_o -> "error"
             [] OTHER       -> "running"

Abs == INSTANCE ConfigSequence
         WITH Writes <- Expected, attempt <- rom_idx + 1,
              written <- history, nacked <- ack_err_o, outcome <- Outcome

(* Every step is a step of the abstract sequence or leaves it alone: one   *)
(* write per ROM entry, in order, a refused one last.                      *)
ImplementsSequence == Abs!Spec

=============================================================================
