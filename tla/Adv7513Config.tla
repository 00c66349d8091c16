-------------------------- MODULE Adv7513Config --------------------------
(***************************************************************************)
(* rtl/adv7513_config.sv: the ROM walker that configures the HDMI          *)
(* transmitter through the I2C controller.  It runs on every clock edge,   *)
(* the controller only on ticks, so each handshake signal is held until    *)
(* the other side must have seen it.                                       *)
(***************************************************************************)
EXTENDS Naturals, Sequences

CONSTANT NUM_REGS       \* how many entries of the ROM are walked

VARIABLES cfg_state, rom_idx

vars == <<cfg_state, rom_idx>>

FsmStates == {"START_TX", "WAIT_DONE", "STATE_DONE", "STATE_ERROR"}

Entry(a, d) == [addr |-> a, data |-> d]

FullROM ==
  << Entry(65, 0),                        \* 41: power up
     Entry(152, 3), Entry(154, 224), Entry(156, 48), Entry(157, 97),
     Entry(162, 164), Entry(163, 164), Entry(224, 208), Entry(249, 0),
     Entry(21, 0), Entry(22, 0), Entry(23, 0),
     Entry(175, 0) >>                     \* AF: DVI mode

ROM == SubSeq(FullROM, 1, NUM_REGS)

NumRegsOK == NUM_REGS \in 1..Len(FullROM)

-----------------------------------------------------------------------------
(* The outputs are combinational.                                          *)
start_o == cfg_state = "START_TX"
done_o  == cfg_state = "STATE_DONE"
error_o == cfg_state = "STATE_ERROR"

(* What the walker presents to the controller: 7'h39 and the ROM entry.    *)
RequestFor(e) == [dev_addr |-> 57, reg_addr |-> e.addr, data |-> e.data]
Requests == {RequestFor(ROM[i]) : i \in 1..NUM_REGS}
request == RequestFor(ROM[rom_idx + 1])

Init == cfg_state = "START_TX" /\ rom_idx = 0

(* Mutant: the ROM index survives a reset.                                 *)
Reset_KeepsIndex == cfg_state' = "START_TX" /\ UNCHANGED rom_idx

Reset == cfg_state' = "START_TX" /\ rom_idx' = 0

(* Mutant: start_o is a one-clock pulse.                                   *)
StartTx_Pulse(busy_i) ==
  /\ cfg_state = "START_TX"
  /\ cfg_state' = "WAIT_DONE"
  /\ UNCHANGED rom_idx

(* Mutant: the index moves when the transfer begins.                       *)
StartTx_MovesOn(busy_i) ==
  /\ cfg_state = "START_TX"
  /\ cfg_state' = IF busy_i THEN "WAIT_DONE" ELSE "START_TX"
  /\ rom_idx' = IF busy_i THEN rom_idx + 1 ELSE rom_idx

(* D1: start_o is held until the controller says busy.                     *)
StartTx(busy_i) ==
  /\ cfg_state = "START_TX"
  /\ cfg_state' = IF busy_i THEN "WAIT_DONE" ELSE "START_TX"
  /\ UNCHANGED rom_idx

(* Mutant: done_i, a tick long, counts again on each of its clocks.        *)
WaitDone_Recounts(done_i, ack_err_i) ==
  /\ cfg_state = "WAIT_DONE"
  /\ \/ ~done_i /\ UNCHANGED vars
     \/ done_i /\ ack_err_i /\ cfg_state' = "STATE_ERROR" /\ UNCHANGED rom_idx
     \/ /\ done_i /\ ~ack_err_i
        /\ IF rom_idx = NUM_REGS - 1
             THEN cfg_state' = "STATE_DONE" /\ UNCHANGED rom_idx
             ELSE UNCHANGED cfg_state /\ rom_idx' = rom_idx + 1

(* Mutant: a NACK halts the walker at once, before the STOP.               *)
WaitDone_Aborts(done_i, ack_err_i) ==
  /\ cfg_state = "WAIT_DONE"
  /\ \/ ~done_i /\ ~ack_err_i /\ UNCHANGED vars
     \/ ack_err_i /\ cfg_state' = "STATE_ERROR" /\ UNCHANGED rom_idx
     \/ /\ done_i /\ ~ack_err_i
        /\ IF rom_idx = NUM_REGS - 1
             THEN cfg_state' = "STATE_DONE" /\ UNCHANGED rom_idx
             ELSE cfg_state' = "START_TX" /\ rom_idx' = rom_idx + 1

WaitDone(done_i, ack_err_i) ==
  /\ cfg_state = "WAIT_DONE"
  /\ \/ ~done_i /\ UNCHANGED vars
     \/ done_i /\ ack_err_i /\ cfg_state' = "STATE_ERROR" /\ UNCHANGED rom_idx
     \/ /\ done_i /\ ~ack_err_i
        /\ \/ /\ rom_idx = NUM_REGS - 1
              /\ cfg_state' = "STATE_DONE" /\ UNCHANGED rom_idx
           \/ /\ rom_idx # NUM_REGS - 1
              /\ cfg_state' = "START_TX"
              /\ rom_idx' = rom_idx + 1

Halted == cfg_state \in {"STATE_DONE", "STATE_ERROR"} /\ UNCHANGED vars

Clk(busy_i, done_i, ack_err_i) ==
  StartTx(busy_i) \/ WaitDone(done_i, ack_err_i) \/ Halted

=============================================================================
