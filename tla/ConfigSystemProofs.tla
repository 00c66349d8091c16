------------------------- MODULE ConfigSystemProofs -------------------------
(***************************************************************************)
(* The configuration system, for every divider, ROM length, power-on delay *)
(* and number of presses of KEY0.  The inductive invariant follows a write *)
(* through the controller's states and says in each what the target has    *)
(* taken of it; after a press in the middle of an acknowledge it follows   *)
(* the write that the target takes for the rest of the one before.         *)
(***************************************************************************)
EXTENDS ConfigSystem, TLAPS

(* What the wires and registers hold.                                      *)
Octet == 0..255
Targets ==
  [in_frame : BOOLEAN, pull_low : BOOLEAN, buf : Octet, bitpos : 0..9,
   byte_index : 0..3, rx_bytes : [1..3 -> Octet]]

DutOK ==
  /\ count \in 0..CLK_DIV - 1
  /\ state \in Ctl!States /\ cfg_state \in Cfg!FsmStates
  /\ sda_oe \in BOOLEAN /\ scl_oe \in BOOLEAN
  /\ busy_o \in BOOLEAN /\ done_o \in BOOLEAN /\ ack_err_o \in BOOLEAN
  /\ rom_idx \in 0..NUM_REGS - 1

BusOK ==
  /\ target \in Targets
  /\ history \in Seq([1..3 -> Octet]) /\ mark \in 0..Len(history)
  /\ refused \in BOOLEAN /\ presses \in 0..MaxPresses
  /\ prev_sda \in BOOLEAN /\ prev_scl = ~scl_oe

(* The handshake.  The walker holds start_o until the clock after busy_o   *)
(* rises and waits for done_o, which it sees on the clock after it rises.  *)
Handshake ==
  /\ busy_o <=> state # "IDLE"
  /\ done_o => state = "IDLE"
  /\ busy_o => \/ cfg_state = "WAIT_DONE"
               \/ cfg_state = "START_TX" /\ state = "START" /\ count = 0
  /\ cfg_state = "WAIT_DONE" /\ ~busy_o => done_o /\ count = 0
  /\ cfg_state \in {"START_TX", "STATE_DONE"} => ~ack_err_o
  /\ cfg_state = "STATE_ERROR" => ack_err_o
  /\ cfg_state = "STATE_DONE" => rom_idx = NUM_REGS - 1

(* The target sees SDA as it is, but in the clock after it answered, and   *)
(* in the clock after a press took an acknowledge for a START.             *)
SdaSeen ==
  \/ prev_sda = Tgt!sda_line(sda_oe)
  \/ count = 0 /\ scl_oe
  \/ /\ count = 0 /\ state = "IDLE" /\ ~prev_sda
     /\ ~target.pull_low /\ target.byte_index = 0

(* Where the controller is in a write, and what it drives there.           *)
AtRest   == state \in {"IDLE", "START"} /\ ~sda_oe /\ ~scl_oe
Setting  == /\ state = "SEND_BYTE" /\ phase = 0 /\ ~scl_oe
            /\ byte_idx \in 0..2 /\ bit_cnt \in 0..7
Sampling == /\ state = "SEND_BYTE" /\ phase = 1 /\ scl_oe
            /\ byte_idx \in 0..2 /\ bit_cnt \in 0..7
Asking   == state = "ACK" /\ phase = 0 /\ ~scl_oe /\ byte_idx \in 0..2
Hearing  == state = "ACK" /\ phase = 1 /\ scl_oe /\ ~sda_oe /\ byte_idx \in 0..2
Ending   == state = "STOP" /\ bit_cnt = 2 /\ ~scl_oe /\ ~sda_oe
Lowered  == state = "STOP" /\ bit_cnt = 1 /\ scl_oe /\ sda_oe
Raised   == state = "STOP" /\ bit_cnt = 0 /\ ~scl_oe /\ sda_oe
Over     == state = "DONE" /\ ~scl_oe /\ ~sda_oe

(* The bytes of the request, and what the target has of them: those in     *)
(* rx_bytes, and the leading bits of the next one.                         *)
ByteOf(j) ==
  IF j = 0 THEN 114 ELSE IF j = 1 THEN Cfg!request.reg_addr ELSE Cfg!request.data
Taken(n) == \A j \in 0..2 : j < n => target.rx_bytes[j + 1] = ByteOf(j)
LeadingBits(b) == target.buf = ByteOf(byte_idx) \div 2^b
Past == state = "DONE" \/ (state = "IDLE" /\ cfg_state # "START_TX")

(* The target takes the bits the controller puts out: it is ready for one, *)
(* or for the first of the next byte; a bit is out; all bits of a byte are *)
(* in; the answer to it is out; the third byte is answered; all are taken. *)
BitDue ==
  /\ Setting /\ target.in_frame /\ ~target.pull_low
  /\ target.byte_index = byte_idx /\ target.bitpos = 7 - bit_cnt
  /\ LeadingBits(bit_cnt + 1) /\ Taken(byte_idx)
ByteDue ==
  /\ Setting /\ target.in_frame /\ ~sda_oe /\ bit_cnt = 7 /\ byte_idx # 0
  /\ target.byte_index = byte_idx - 1 /\ target.bitpos = 9
  /\ target.buf = ByteOf(byte_idx - 1) /\ Taken(byte_idx - 1)
BitOut ==
  /\ Sampling /\ target.in_frame /\ ~target.pull_low
  /\ target.byte_index = byte_idx /\ target.bitpos = 7 - bit_cnt
  /\ LeadingBits(bit_cnt + 1) /\ Taken(byte_idx)
  /\ sda_oe = (Ctl!BitOf(ByteOf(byte_idx), bit_cnt) = 0)
BitsIn ==
  /\ Asking /\ target.in_frame /\ ~target.pull_low
  /\ target.byte_index = byte_idx /\ target.bitpos = 8
  /\ LeadingBits(0) /\ Taken(byte_idx)
AnswerOut ==
  /\ Hearing /\ target.in_frame
  /\ target.byte_index = byte_idx /\ target.bitpos = 8
  /\ LeadingBits(0) /\ Taken(byte_idx)
LastAnswered ==
  /\ Ending /\ target.in_frame /\ target.byte_index = 2 /\ target.bitpos = 9
  /\ target.buf = ByteOf(2) /\ Taken(2)
AllTaken ==
  /\ Lowered \/ Raised
  /\ target.in_frame /\ ~target.pull_low /\ target.byte_index = 3 /\ Taken(3)

InStep ==
  \/ AtRest /\ ~target.pull_low /\ (Past => ~target.in_frame)
  \/ BitDue \/ ByteDue \/ BitOut \/ BitsIn \/ AnswerOut \/ LastAnswered \/ AllTaken
  \/ Over /\ ~target.in_frame /\ ~target.pull_low

(* What has been refused and what has been written since the last press.   *)
Accounted ==
  /\ refused = (ack_err_o \/ (Hearing /\ ~target.pull_low))
  /\ Len(history) = mark + (IF Past THEN rom_idx + 1 ELSE rom_idx)
  /\ \A i \in 1..NUM_REGS : mark + i <= Len(history) => history[mark + i] = Expected[i]

(* A press during an acknowledge leaves the target holding SDA low, so it  *)
(* sees no START: it takes the next write's first byte for the rest of its *)
(* frame, is ahead by at least a byte from there on, and has no answer     *)
(* left for the last one.                                                  *)
Ahead(pos) ==
  /\ target.in_frame /\ ~target.pull_low /\ byte_idx < target.byte_index
  /\ target.byte_index < 3 => target.bitpos = pos
Astray ==
  /\ presses > 0
  /\ \/ /\ AtRest /\ ~Past /\ target.in_frame /\ target.pull_low
        /\ target.bitpos = 9 /\ target.byte_index < 3
     \/ Setting /\ Ahead(7 - bit_cnt)
     \/ /\ Setting /\ bit_cnt = 7 /\ target.in_frame /\ target.bitpos = 9
        /\ byte_idx <= target.byte_index /\ target.byte_index < 3
     \/ Sampling /\ Ahead(7 - bit_cnt)
     \/ Asking /\ Ahead(8)
     \/ /\ Hearing /\ target.in_frame /\ byte_idx < target.byte_index
        /\ IF target.byte_index < 3 THEN target.bitpos = 8 ELSE ~target.pull_low
     \/ /\ Ending \/ Lowered \/ Raised
        /\ target.in_frame /\ ~target.pull_low /\ target.byte_index = 3 /\ ack_err_o
     \/ /\ Past /\ ~sda_oe /\ ~scl_oe
        /\ ~target.in_frame /\ ~target.pull_low /\ ack_err_o

IInv ==
  /\ DutOK /\ BusOK /\ Handshake /\ SdaSeen
  /\ (InStep /\ Accounted) \/ Astray
  /\ presses = 0 => mark = 0

-----------------------------------------------------------------------------
LEMMA Parameters ==
  /\ CLK_DIV \in Nat /\ CLK_DIV >= 2
  /\ NUM_REGS \in Nat /\ NUM_REGS >= 1 /\ NUM_REGS <= 13
  /\ MaxPresses \in Nat
<1>1. Len(Cfg!FullROM) = 13
  BY DEF Cfg!FullROM
<1> QED BY <1>1, SlowBusAssumption, PressesAssumption, NumRegsAssumption DEF Cfg!NumRegsOK

(* The ways the system steps: the key, a look at the lines with nothing    *)
(* clocked, an edge of the controller's divider, a tick.                   *)
Looks(ack) ==
  /\ Tgt!Observe(sda_oe', scl_oe', ack)
  /\ refused' = (refused \/ Tgt!Refuses(scl_oe', ack))
  /\ UNCHANGED <<presses, mark>>
Walks == Cfg!Clk(busy_o, done_o, ack_err_o)
Ticks == /\ count = CLK_DIV - 1 /\ count' = 0
         /\ Ctl!FSM(Cfg!start_o, Cfg!request, Tgt!sda_line(sda_oe))
         /\ done_o' = (state = "DONE")
Waits == /\ count # CLK_DIV - 1 /\ count' = count + 1
         /\ UNCHANGED <<state, byte_idx, bit_cnt, phase, sda_oe, scl_oe, busy_o,
                        ack_err_o, done_o>>

LEMMA WaysToStep ==
  ASSUME [Next]_vars
  PROVE  \/ PressKey0
         \/ UNCHANGED <<dutVars, busVars, ghosts>>
         \/ \E ack \in BOOLEAN : Looks(ack) /\ UNCHANGED dutVars
         \/ \E ack \in BOOLEAN : Looks(ack) /\ Walks /\ Waits
         \/ \E ack \in BOOLEAN : Looks(ack) /\ Walks /\ Ticks
<1>1. CASE Clk
  <2>1. PICK ack \in BOOLEAN : Looks(ack)
    BY <1>1 DEF Clk, Looks
  <2>2. CASE ~rst_50m_n
    BY <1>1, <2>1, <2>2 DEF Clk, DutEdge
  <2>3. CASE rst_50m_n
    <3>1. Walks /\ Ctl!Clk(Cfg!start_o, Cfg!request, Tgt!sda_line(sda_oe))
      BY <1>1, <2>3 DEF Clk, DutEdge, Walks
    <3>2. Waits \/ Ticks
      BY <3>1 DEF Ctl!Clk, Ctl!Divide, Ctl!tick, Ctl!fsmVars, Waits, Ticks
    <3> QED BY <2>1, <3>1, <3>2
  <2> QED BY <2>2, <2>3
<1>2. CASE ReleaseKey0 \/ UNCHANGED vars
  BY <1>2 DEF ReleaseKey0, vars
<1> QED BY <1>1, <1>2 DEF Next

-----------------------------------------------------------------------------
(* The handshake.                                                          *)

LEMMA PressResets ==
  ASSUME PressKey0
  PROVE  DutOK' /\ Handshake'
<1>1. 0 \in 0..CLK_DIV - 1 /\ 0 \in 0..NUM_REGS - 1
  BY Parameters
<1>2. /\ cfg_state' = "START_TX" /\ rom_idx' = 0 /\ count' = 0 /\ state' = "IDLE"
      /\ ~sda_oe' /\ ~scl_oe' /\ ~busy_o' /\ ~done_o' /\ ~ack_err_o'
      /\ sda_oe' \in BOOLEAN /\ scl_oe' \in BOOLEAN /\ busy_o' \in BOOLEAN
      /\ done_o' \in BOOLEAN /\ ack_err_o' \in BOOLEAN
  BY DEF PressKey0, Cfg!Reset, Ctl!Reset
<1>3. DutOK'
  BY <1>1, <1>2 DEF DutOK, Ctl!States, Cfg!FsmStates
<1>4. Handshake'
  BY <1>2 DEF Handshake
<1> QED BY <1>3, <1>4

LEMMA WaitingWalks ==
  ASSUME DutOK, Handshake, Walks, Waits
  PROVE  DutOK' /\ Handshake'
<1>1. count' \in 0..CLK_DIV - 1
  BY Parameters DEF DutOK, Waits
<1>2. \/ cfg_state = "START_TX" /\ busy_o /\ cfg_state' = "WAIT_DONE" /\ rom_idx' = rom_idx
      \/ cfg_state = "START_TX" /\ ~busy_o /\ cfg_state' = "START_TX" /\ rom_idx' = rom_idx
      \/ cfg_state = "WAIT_DONE" /\ ~done_o /\ cfg_state' = "WAIT_DONE" /\ rom_idx' = rom_idx
      \/ /\ cfg_state = "WAIT_DONE" /\ done_o /\ ack_err_o
         /\ cfg_state' = "STATE_ERROR" /\ rom_idx' = rom_idx
      \/ /\ cfg_state = "WAIT_DONE" /\ done_o /\ ~ack_err_o /\ rom_idx = NUM_REGS - 1
         /\ cfg_state' = "STATE_DONE" /\ rom_idx' = rom_idx
      \/ /\ cfg_state = "WAIT_DONE" /\ done_o /\ ~ack_err_o /\ rom_idx # NUM_REGS - 1
         /\ cfg_state' = "START_TX" /\ rom_idx' = rom_idx + 1
      \/ cfg_state \in {"STATE_DONE", "STATE_ERROR"} /\ cfg_state' = cfg_state /\ rom_idx' = rom_idx
  BY DEF Walks, Cfg!Clk, Cfg!StartTx, Cfg!WaitDone, Cfg!Halted, Cfg!vars
<1>3. rom_idx' \in 0..NUM_REGS - 1 /\ cfg_state' \in Cfg!FsmStates
  BY <1>2, Parameters DEF DutOK, Cfg!FsmStates
<1>4. DutOK'
  BY <1>1, <1>3 DEF DutOK, Waits
<1>5. Handshake'
  BY <1>2, <1>1, Parameters DEF DutOK, Handshake, Waits
<1> QED BY <1>4, <1>5

(* At a tick the walker has nothing to see.                                *)
LEMMA TickingHolds ==
  ASSUME DutOK, Handshake, Walks, Ticks
  PROVE  /\ cfg_state' = cfg_state /\ rom_idx' = rom_idx /\ count # 0
         /\ cfg_state = "START_TX" => state = "IDLE"
         /\ Cfg!request' = Cfg!request
<1>1. count # 0
  BY Parameters DEF Ticks
<1>2. cfg_state = "START_TX" => ~busy_o /\ state = "IDLE"
  BY <1>1 DEF Handshake
<1>3. cfg_state = "WAIT_DONE" => ~done_o
  BY <1>1 DEF Handshake
<1>4. cfg_state' = cfg_state /\ rom_idx' = rom_idx
  BY <1>2, <1>3 DEF Walks, Cfg!Clk, Cfg!StartTx, Cfg!WaitDone, Cfg!Halted, Cfg!vars
<1> QED BY <1>1, <1>2, <1>4 DEF Cfg!request

LEMMA TickingWalks ==
  ASSUME DutOK, Handshake, Walks, Ticks
  PROVE  DutOK' /\ Handshake'
<1>1. cfg_state' = cfg_state /\ rom_idx' = rom_idx /\ cfg_state = "START_TX" => state = "IDLE"
  BY TickingHolds
<1>2. count' \in 0..CLK_DIV - 1 /\ count' = 0
  BY Parameters DEF Ticks
<1>3. Tgt!sda_line(sda_oe) \in BOOLEAN
  BY DEF Tgt!sda_line
<1>4. DutOK'
  BY <1>1, <1>2, <1>3, TickingHolds
     DEF DutOK, Ticks, Ctl!FSM, Ctl!IdleArm, Ctl!StartArm, Ctl!BitSetup, Ctl!BitSample,
         Ctl!AckSetup, Ctl!AckSample, Ctl!StopArm, Ctl!DoneArm, Ctl!Drive, Ctl!States
<1>5. Handshake'
  <2>1. \/ /\ state = "IDLE" /\ cfg_state = "START_TX" /\ state' = "START" /\ busy_o'
           /\ ack_err_o' = ack_err_o
        \/ /\ state = "IDLE" /\ cfg_state # "START_TX" /\ state' = "IDLE" /\ busy_o' = busy_o
           /\ ack_err_o' = ack_err_o
        \/ /\ state = "ACK" /\ state' \in {"ACK", "SEND_BYTE", "STOP"} /\ busy_o' = busy_o
        \/ /\ state \in {"START", "SEND_BYTE", "STOP"}
           /\ state' \in {"SEND_BYTE", "ACK", "STOP", "DONE"} /\ busy_o' = busy_o
           /\ ack_err_o' = ack_err_o
        \/ state = "DONE" /\ state' = "IDLE" /\ ~busy_o' /\ ack_err_o' = ack_err_o
    BY DEF Ticks, Ctl!FSM, Ctl!IdleArm, Ctl!StartArm, Ctl!BitSetup, Ctl!BitSample,
           Ctl!AckSetup, Ctl!AckSample, Ctl!StopArm, Ctl!DoneArm, Cfg!start_o
  <2>2. done_o' <=> state = "DONE"
    BY DEF Ticks
  <2> QED BY <1>1, <1>2, <2>1, <2>2, TickingHolds DEF Handshake, DutOK, Cfg!FsmStates
<1> QED BY <1>4, <1>5

LEMMA StepsKeepHandshake ==
  ASSUME DutOK, Handshake, [Next]_vars
  PROVE  DutOK' /\ Handshake'
<1>1. CASE UNCHANGED dutVars
  BY <1>1 DEF dutVars, DutOK, Handshake
<1> QED BY <1>1, WaysToStep, PressResets, WaitingWalks, TickingWalks

LEMMA StartsWell == Init => DutOK /\ Handshake
<1> SUFFICES ASSUME Init PROVE DutOK /\ Handshake
  OBVIOUS
<1>1. 0 \in 0..CLK_DIV - 1 /\ 0 \in 0..NUM_REGS - 1
  BY Parameters
<1>2. /\ cfg_state = "START_TX" /\ rom_idx = 0 /\ count = 0 /\ state = "IDLE"
      /\ ~sda_oe /\ ~scl_oe /\ ~busy_o /\ ~done_o /\ ~ack_err_o
      /\ sda_oe \in BOOLEAN /\ scl_oe \in BOOLEAN /\ busy_o \in BOOLEAN
      /\ done_o \in BOOLEAN /\ ack_err_o \in BOOLEAN
  BY DEF Init, Cfg!Init, Ctl!Init
<1>3. DutOK
  BY <1>1, <1>2 DEF DutOK, Ctl!States, Cfg!FsmStates
<1>4. Handshake
  BY <1>2 DEF Handshake
<1> QED BY <1>3, <1>4

(* rtl/adv7513_config.sv and rtl/i2c_controller.sv keep no copy of the     *)
(* payload: the walker's outputs hold still while the controller is busy.  *)
THEOREM PayloadHeld == Spec => PayloadHeldWhileBusy
<1>1. ASSUME Handshake, DutOK, [Next]_vars, busy_o, busy_o'
      PROVE  Cfg!request' = Cfg!request
  <2>1. CASE PressKey0
    BY <1>1, <2>1 DEF PressKey0, Ctl!Reset
  <2>2. CASE UNCHANGED dutVars
    BY <2>2 DEF dutVars, Cfg!request
  <2>3. CASE Walks /\ Waits
    <3>1. ~done_o
      BY <1>1 DEF Handshake
    <3>2. rom_idx' = rom_idx
      BY <2>3, <3>1 DEF Walks, Cfg!Clk, Cfg!StartTx, Cfg!WaitDone, Cfg!Halted, Cfg!vars
    <3> QED BY <3>2 DEF Cfg!request
  <2>4. CASE Walks /\ Ticks
    BY <1>1, <2>4, TickingHolds
  <2> QED BY <1>1, <2>1, <2>2, <2>3, <2>4, WaysToStep
<1> QED BY <1>1, StartsWell, StepsKeepHandshake, PTL DEF Spec, PayloadHeldWhileBusy

-----------------------------------------------------------------------------
(* What the target makes of a look at the lines.                           *)

(* SDA as the target sees it now, and whether it saw it so before.         *)
Sda(s) == Tgt!sda_line(s)

LEMMA LookStill ==
  ASSUME NEW s \in BOOLEAN, NEW c \in BOOLEAN, NEW ack, Tgt!Observe(s, c, ack),
         target \in Targets, prev_scl = ~c, c \/ prev_sda = Sda(s)
  PROVE  target' = target /\ history' = history
BY DEF Tgt!Observe, Tgt!sda_line, Tgt!scl_line, Sda

LEMMA LookFall ==
  ASSUME NEW s \in BOOLEAN, NEW ack, Tgt!Observe(s, TRUE, ack), target \in Targets, prev_scl
  PROVE  target' = Tgt!on_scl_fall(target, ack) /\ history' = history
BY DEF Tgt!Observe, Tgt!sda_line, Tgt!scl_line

LEMMA LookRise ==
  ASSUME NEW s \in BOOLEAN, NEW ack, Tgt!Observe(s, FALSE, ack), target \in Targets,
         ~prev_scl, prev_sda = Sda(s)
  PROVE  target' = Tgt!on_scl_rise(target, Sda(s)) /\ history' = history
BY DEF Tgt!Observe, Tgt!sda_line, Tgt!scl_line, Sda

LEMMA LookStart ==
  ASSUME NEW ack, Tgt!Observe(TRUE, FALSE, ack), target \in Targets, prev_scl, prev_sda
  PROVE  target' = Tgt!on_start(target) /\ history' = history
BY DEF Tgt!Observe, Tgt!sda_line, Tgt!scl_line

LEMMA LookStop ==
  ASSUME NEW ack, Tgt!Observe(FALSE, FALSE, ack), target \in Targets, prev_scl,
         prev_sda = FALSE, ~target.pull_low
  PROVE  /\ target' = Tgt!on_stop(target)
         /\ history' = IF Tgt!Recorded(target) THEN Append(history, target.rx_bytes) ELSE history
BY DEF Tgt!Observe, Tgt!sda_line, Tgt!scl_line

LEMMA LookPrev ==
  ASSUME NEW s, NEW c, NEW ack, Tgt!Observe(s, c, ack)
  PROVE  prev_sda' = Sda(s) /\ prev_scl' = ~c
BY DEF Tgt!Observe, Tgt!scl_line, Sda

LEMMA Fall ==
  ASSUME NEW t \in Targets, NEW u, NEW ack \in BOOLEAN, u = Tgt!on_scl_fall(t, ack)
  PROVE  /\ u \in Targets /\ u.in_frame = t.in_frame
         /\ ~t.in_frame \/ t.byte_index = 3 => u = t
         /\ t.in_frame /\ t.byte_index < 3 /\ t.bitpos = 8 =>
              u.pull_low = ack /\ u.buf = t.buf /\ u.bitpos = 8
              /\ u.byte_index = t.byte_index /\ u.rx_bytes = t.rx_bytes
         /\ t.in_frame /\ t.byte_index < 3 /\ t.bitpos = 9 =>
              u.pull_low = FALSE /\ u.buf = 0 /\ u.bitpos = 0
              /\ u.byte_index = t.byte_index + 1
              /\ u.rx_bytes = [t.rx_bytes EXCEPT ![t.byte_index + 1] = t.buf]
         /\ t.in_frame /\ t.byte_index < 3 /\ t.bitpos < 8 => u = t
<1>0. /\ t = [in_frame |-> t.in_frame, pull_low |-> t.pull_low, buf |-> t.buf,
              bitpos |-> t.bitpos, byte_index |-> t.byte_index, rx_bytes |-> t.rx_bytes]
      /\ t.in_frame \in BOOLEAN /\ t.pull_low \in BOOLEAN /\ t.buf \in Octet
      /\ t.bitpos \in 0..9 /\ t.byte_index \in 0..3 /\ t.rx_bytes \in [1..3 -> Octet]
  BY DEF Targets
<1>1. CASE ~t.in_frame \/ t.byte_index = 3
  BY <1>0, <1>1 DEF Tgt!on_scl_fall, Tgt!N_BYTES
<1>2. CASE t.in_frame /\ t.byte_index < 3 /\ t.bitpos = 8
  <2>1. u = [t EXCEPT !.pull_low = ack]
    BY <1>0, <1>2 DEF Tgt!on_scl_fall, Tgt!N_BYTES
  <2>2. u = [in_frame |-> t.in_frame, pull_low |-> ack, buf |-> t.buf,
             bitpos |-> t.bitpos, byte_index |-> t.byte_index, rx_bytes |-> t.rx_bytes]
    BY <1>0, <2>1
  <2>3. u \in Targets
    BY <1>0, <2>2 DEF Targets
  <2> QED BY <1>0, <1>2, <2>2, <2>3
<1>3. CASE t.in_frame /\ t.byte_index < 3 /\ t.bitpos = 9
  <2>1. u = [t EXCEPT !.rx_bytes[t.byte_index + 1] = t.buf, !.byte_index = @ + 1,
                      !.pull_low = FALSE, !.buf = 0, !.bitpos = 0]
    BY <1>0, <1>3 DEF Tgt!on_scl_fall, Tgt!N_BYTES
  <2>2. [t.rx_bytes EXCEPT ![t.byte_index + 1] = t.buf] \in [1..3 -> Octet]
    BY <1>0
  <2>3. u = [in_frame |-> t.in_frame, pull_low |-> FALSE, buf |-> 0, bitpos |-> 0,
             byte_index |-> t.byte_index + 1,
             rx_bytes |-> [t.rx_bytes EXCEPT ![t.byte_index + 1] = t.buf]]
    BY <1>0, <2>1
  <2>4. t.byte_index + 1 \in 0..3 /\ 0 \in Octet /\ 0 \in 0..9
    BY <1>0, <1>3 DEF Octet
  <2>5. u \in Targets
    BY <1>0, <2>2, <2>3, <2>4 DEF Targets
  <2> QED BY <1>0, <1>3, <2>3, <2>5
<1>4. CASE t.in_frame /\ t.byte_index < 3 /\ t.bitpos < 8
  <2>1. t.bitpos # 8 /\ t.bitpos # 9 /\ ~(t.byte_index >= 3)
    BY <1>0, <1>4
  <2>2. u = t
    BY <1>4, <2>1 DEF Tgt!on_scl_fall, Tgt!N_BYTES
  <2> QED BY <1>0, <1>4, <2>1, <2>2
<1>5. \/ ~t.in_frame \/ t.byte_index = 3
      \/ t.in_frame /\ t.byte_index < 3 /\ t.bitpos = 8
      \/ t.in_frame /\ t.byte_index < 3 /\ t.bitpos = 9
      \/ t.in_frame /\ t.byte_index < 3 /\ t.bitpos < 8
  BY <1>0
<1> QED BY ONLY <1>1, <1>2, <1>3, <1>4, <1>5

LEMMA Rise ==
  ASSUME NEW t \in Targets, NEW u, NEW sda \in BOOLEAN, u = Tgt!on_scl_rise(t, sda)
  PROVE  /\ u \in Targets /\ u.in_frame = t.in_frame /\ u.pull_low = t.pull_low
         /\ u.byte_index = t.byte_index /\ u.rx_bytes = t.rx_bytes
         /\ ~t.in_frame \/ t.byte_index = 3 => u = t
         /\ t.in_frame /\ t.byte_index < 3 /\ t.bitpos < 8 =>
              u.bitpos = t.bitpos + 1 /\ u.buf = (2 * t.buf + (IF sda THEN 1 ELSE 0)) % 256
         /\ t.in_frame /\ t.byte_index < 3 /\ t.bitpos >= 8 => u.bitpos = 9 /\ u.buf = t.buf
<1>0. /\ t = [in_frame |-> t.in_frame, pull_low |-> t.pull_low, buf |-> t.buf,
              bitpos |-> t.bitpos, byte_index |-> t.byte_index, rx_bytes |-> t.rx_bytes]
      /\ t.in_frame \in BOOLEAN /\ t.pull_low \in BOOLEAN /\ t.buf \in Octet
      /\ t.bitpos \in 0..9 /\ t.byte_index \in 0..3 /\ t.rx_bytes \in [1..3 -> Octet]
  BY DEF Targets
<1>1. CASE ~t.in_frame \/ t.byte_index = 3
  BY <1>0, <1>1 DEF Tgt!on_scl_rise, Tgt!N_BYTES
<1>2. CASE t.in_frame /\ t.byte_index < 3 /\ t.bitpos < 8
  <2> DEFINE b == (2 * t.buf + (IF sda THEN 1 ELSE 0)) % 256
  <2>0. ~(t.byte_index >= 3)
    BY <1>0, <1>2
  <2>4. u = [t EXCEPT !.buf = b, !.bitpos = t.bitpos + 1]
    BY <1>2, <2>0 DEF Tgt!on_scl_rise, Tgt!N_BYTES
  <2>2. b \in Octet /\ t.bitpos + 1 \in 0..9
    BY <1>0, <1>2 DEF Octet
  <2> HIDE DEF b
  <2>1. u = [in_frame |-> t.in_frame, pull_low |-> t.pull_low, buf |-> b,
             bitpos |-> t.bitpos + 1, byte_index |-> t.byte_index, rx_bytes |-> t.rx_bytes]
    BY <1>0, <2>4
  <2>3. u \in Targets
    BY <1>0, <2>1, <2>2 DEF Targets
  <2> QED BY <1>0, <1>2, <2>1, <2>3 DEF b
<1>3. CASE t.in_frame /\ t.byte_index < 3 /\ t.bitpos >= 8
  <2>0. ~(t.byte_index >= 3) /\ ~(t.bitpos < 8)
    BY <1>0, <1>3
  <2>4. u = [t EXCEPT !.bitpos = 9]
    BY <1>3, <2>0 DEF Tgt!on_scl_rise, Tgt!N_BYTES
  <2>1. u = [in_frame |-> t.in_frame, pull_low |-> t.pull_low, buf |-> t.buf,
             bitpos |-> 9, byte_index |-> t.byte_index, rx_bytes |-> t.rx_bytes]
    BY <1>0, <2>4
  <2>2. u \in Targets
    BY <1>0, <2>1 DEF Targets
  <2> QED BY <1>0, <1>3, <2>1, <2>2
<1> QED BY <1>0, <1>1, <1>2, <1>3

LEMMA Start ==
  ASSUME NEW t \in Targets, NEW u, u = Tgt!on_start(t)
  PROVE  /\ u \in Targets /\ u.in_frame /\ ~u.pull_low /\ u.buf = 0 /\ u.bitpos = 0
         /\ u.byte_index = 0
<1>1. u = [in_frame |-> TRUE, pull_low |-> FALSE, buf |-> 0, bitpos |-> 0,
           byte_index |-> 0, rx_bytes |-> t.rx_bytes]
  BY DEF Tgt!on_start, Targets
<1> QED BY <1>1 DEF Targets, Octet

LEMMA Stop ==
  ASSUME NEW t \in Targets, NEW u, u = Tgt!on_stop(t)
  PROVE  /\ u \in Targets /\ ~u.in_frame /\ ~u.pull_low
         /\ u.byte_index = t.byte_index /\ u.bitpos = t.bitpos
         /\ u.rx_bytes = t.rx_bytes /\ u.buf = t.buf
<1>1. u = [in_frame |-> FALSE, pull_low |-> FALSE, buf |-> t.buf, bitpos |-> t.bitpos,
           byte_index |-> t.byte_index, rx_bytes |-> t.rx_bytes]
  BY DEF Tgt!on_stop, Targets
<1> QED BY <1>1 DEF Targets

-----------------------------------------------------------------------------
(* The bits of a byte, most significant first.                             *)

LEMMA Powers ==
  ASSUME NEW b
  PROVE  /\ (b = 0 => 2^b = 1)
         /\ (b = 1 => 2^b = 2)
         /\ (b = 2 => 2^b = 4)
         /\ (b = 3 => 2^b = 8)
         /\ (b = 4 => 2^b = 16)
         /\ (b = 5 => 2^b = 32)
         /\ (b = 6 => 2^b = 64)
         /\ (b = 7 => 2^b = 128)
         /\ (b = 8 => 2^b = 256)
<1>1. /\ 2^0 = 1
      /\ 2^1 = 2
      /\ 2^2 = 4
      /\ 2^3 = 8
      /\ 2^4 = 16
      /\ 2^5 = 32
      /\ 2^6 = 64
      /\ 2^7 = 128
      /\ 2^8 = 256
  BY SMT
<1>2. /\ (b = 0 => 2^b = 2^0)
      /\ (b = 1 => 2^b = 2^1)
      /\ (b = 2 => 2^b = 2^2)
      /\ (b = 3 => 2^b = 2^3)
      /\ (b = 4 => 2^b = 2^4)
      /\ (b = 5 => 2^b = 2^5)
      /\ (b = 6 => 2^b = 2^6)
      /\ (b = 7 => 2^b = 2^7)
      /\ (b = 8 => 2^b = 2^8)
  BY Zenon
<1> QED BY <1>1, <1>2, ZenonT(60)

LEMMA NextBit ==
  ASSUME NEW B, B \in Octet, NEW b, b \in 0..7
  PROVE  /\ (2 * (B \div 2^(b + 1)) + Ctl!BitOf(B, b)) % 256 = B \div 2^b
         /\ Ctl!BitOf(B, b) \in {0, 1}
<1> DEFINE c == b + 1
<1>1. c = b + 1 /\ c \in 1..8
  OBVIOUS
<1> HIDE DEF c
<1>2. /\ (b = 0 => 2^b = 1 /\ 2^c = 2)
      /\ (b = 1 => 2^b = 2 /\ 2^c = 4)
      /\ (b = 2 => 2^b = 4 /\ 2^c = 8)
      /\ (b = 3 => 2^b = 8 /\ 2^c = 16)
      /\ (b = 4 => 2^b = 16 /\ 2^c = 32)
      /\ (b = 5 => 2^b = 32 /\ 2^c = 64)
      /\ (b = 6 => 2^b = 64 /\ 2^c = 128)
      /\ (b = 7 => 2^b = 128 /\ 2^c = 256)
  BY <1>1, Powers
<1> DEFINE p == 2^b
           q == 2^c
<1>3. \/ (p = 1 /\ q = 2)
      \/ (p = 2 /\ q = 4)
      \/ (p = 4 /\ q = 8)
      \/ (p = 8 /\ q = 16)
      \/ (p = 16 /\ q = 32)
      \/ (p = 32 /\ q = 64)
      \/ (p = 64 /\ q = 128)
      \/ (p = 128 /\ q = 256)
  BY <1>2
<1>5. 2^(b + 1) = q
  BY <1>1
<1> HIDE DEF p, q
<1>4. /\ (2 * (B \div q) + ((B \div p) % 2)) % 256 = B \div p
      /\ (B \div p) % 2 \in {0, 1}
  <2>1. CASE p = 1 /\ q = 2
    BY <2>1 DEF Octet
  <2>2. CASE p = 2 /\ q = 4
    BY <2>2 DEF Octet
  <2>3. CASE p = 4 /\ q = 8
    BY <2>3 DEF Octet
  <2>4. CASE p = 8 /\ q = 16
    BY <2>4 DEF Octet
  <2>5. CASE p = 16 /\ q = 32
    BY <2>5 DEF Octet
  <2>6. CASE p = 32 /\ q = 64
    BY <2>6 DEF Octet
  <2>7. CASE p = 64 /\ q = 128
    BY <2>7 DEF Octet
  <2>8. CASE p = 128 /\ q = 256
    BY <2>8 DEF Octet
  <2> QED BY <1>3, <2>1, <2>2, <2>3, <2>4, <2>5, <2>6, <2>7, <2>8
<1> QED BY <1>4, <1>5 DEF p, Ctl!BitOf

LEMMA WholeByte ==
  ASSUME NEW B, B \in Octet
  PROVE  B \div 2^8 = 0 /\ B \div 2^0 = B
<1>1. 2^8 = 256 /\ 2^0 = 1
  OBVIOUS
<1>2. B \div 256 = 0 /\ B \div 1 = B
  BY DEF Octet
<1> QED BY <1>1, <1>2

(* The ROM holds bytes, and the walker presents them in its order.         *)
LEMMA RomOfBytes ==
  /\ \A i \in 1..NUM_REGS : Cfg!ROM[i].addr \in Octet /\ Cfg!ROM[i].data \in Octet
  /\ Expected = [i \in 1..NUM_REGS |-> <<114, Cfg!ROM[i].addr, Cfg!ROM[i].data>>]
<1>1. \A i \in 1..13 : Cfg!FullROM[i].addr \in Octet /\ Cfg!FullROM[i].data \in Octet
  BY SMTT(30) DEF Cfg!FullROM, Cfg!Entry, Octet
<1>2. Cfg!FullROM = [i \in 1..13 |-> Cfg!FullROM[i]]
  BY DEF Cfg!FullROM
<1>3. \A i \in 1..NUM_REGS : Cfg!ROM[i] = Cfg!FullROM[i]
  BY <1>2, Parameters DEF Cfg!ROM
<1> QED BY <1>1, <1>3, Parameters DEF Expected

LEMMA RequestOfBytes ==
  ASSUME DutOK
  PROVE  /\ \A j \in 0..2 : ByteOf(j) \in Octet
         /\ ByteOf(0) = 114 /\ ByteOf(1) = Cfg!ROM[rom_idx + 1].addr
         /\ ByteOf(2) = Cfg!ROM[rom_idx + 1].data
         /\ byte_idx \in 0..2 => Ctl!tx_byte(Cfg!request) = ByteOf(byte_idx)
         /\ Expected[rom_idx + 1] = <<ByteOf(0), ByteOf(1), ByteOf(2)>>
<1>1. rom_idx + 1 \in 1..NUM_REGS
  BY Parameters DEF DutOK
<1>2. /\ ByteOf(0) = 114 /\ ByteOf(1) = Cfg!ROM[rom_idx + 1].addr
      /\ ByteOf(2) = Cfg!ROM[rom_idx + 1].data
  BY DEF ByteOf, Cfg!request, Cfg!RequestFor
<1>3. \A j \in 0..2 : ByteOf(j) \in Octet
  <2>1. \A j \in 0..2 : j = 0 \/ j = 1 \/ j = 2
    OBVIOUS
  <2>2. ByteOf(0) \in Octet /\ ByteOf(1) \in Octet /\ ByteOf(2) \in Octet
    <3>1. Cfg!ROM[rom_idx + 1].addr \in Octet /\ Cfg!ROM[rom_idx + 1].data \in Octet
      BY <1>1, RomOfBytes
    <3>2. 114 \in Octet
      BY DEF Octet
    <3> QED BY <1>2, <3>1, <3>2
  <2> QED BY <2>1, <2>2
<1>4. byte_idx \in 0..2 => Ctl!tx_byte(Cfg!request) = ByteOf(byte_idx)
  BY DEF Ctl!tx_byte, ByteOf, Cfg!request, Cfg!RequestFor
<1> QED BY <1>1, <1>2, <1>3, <1>4, RomOfBytes

-----------------------------------------------------------------------------
(* Every look leaves the target and its record well formed.                *)

LEMMA LookTypes ==
  ASSUME NEW s, s \in BOOLEAN, NEW c, c \in BOOLEAN, NEW ack, ack \in BOOLEAN,
         Tgt!Observe(s, c, ack), target \in Targets, history \in Seq([1..3 -> Octet])
  PROVE  /\ target' \in Targets /\ history' \in Seq([1..3 -> Octet])
         /\ Len(history') >= Len(history)
         /\ prev_sda' = Sda(s) /\ prev_scl' = ~c
         /\ prev_sda' \in BOOLEAN
<1> DEFINE sda == Tgt!sda_line(s)
           scl == Tgt!scl_line(c)
           start == prev_sda /\ ~sda /\ scl
           stop == ~prev_sda /\ sda /\ scl
           t1 == IF start THEN Tgt!on_start(target) ELSE target
           t2 == IF stop THEN Tgt!on_stop(t1) ELSE t1
           t3 == IF scl /\ ~prev_scl THEN Tgt!on_scl_rise(t2, sda) ELSE t2
           t4 == IF ~scl /\ prev_scl THEN Tgt!on_scl_fall(t3, ack) ELSE t3
<1>1. /\ target' = t4 /\ prev_sda' = sda /\ prev_scl' = scl
      /\ history' = IF stop /\ Tgt!Recorded(t1) THEN Append(history, t1.rx_bytes) ELSE history
  BY DEF Tgt!Observe
<1>2. sda \in BOOLEAN /\ scl = ~c /\ sda = Sda(s)
  BY DEF Tgt!sda_line, Tgt!scl_line, Sda
<1> HIDE DEF sda, scl
<1>3. t1 \in Targets
  BY Start
<1> HIDE DEF t1
<1>4. t2 \in Targets
  BY <1>3, Stop
<1> HIDE DEF t2
<1>5. t3 \in Targets
  BY <1>2, <1>4, Rise
<1> HIDE DEF t3
<1>6. t4 \in Targets
  BY <1>5, Fall
<1> HIDE DEF t4
<1>7. t1.rx_bytes \in [1..3 -> Octet]
  BY <1>3 DEF Targets
<1>8. history' \in Seq([1..3 -> Octet]) /\ Len(history') >= Len(history)
  BY <1>1, <1>7
<1> QED BY <1>1, <1>2, <1>6, <1>8

LEMMA LooksKeepBus ==
  ASSUME NEW ack, ack \in BOOLEAN, Looks(ack), BusOK,
         sda_oe' \in BOOLEAN, scl_oe' \in BOOLEAN
  PROVE  BusOK' /\ prev_sda' = Sda(sda_oe')
<1>1. /\ target' \in Targets /\ history' \in Seq([1..3 -> Octet])
      /\ Len(history') >= Len(history)
      /\ prev_sda' = Sda(sda_oe') /\ prev_scl' = ~scl_oe'
      /\ prev_sda' \in BOOLEAN
  BY LookTypes DEF Looks, BusOK
<1>2. refused' \in BOOLEAN
  BY DEF Looks, BusOK, Tgt!Refuses
<1>3. mark' \in 0..Len(history') /\ presses' \in 0..MaxPresses
  BY <1>1 DEF Looks, BusOK
<1> QED BY <1>1, <1>2, <1>3 DEF BusOK

-----------------------------------------------------------------------------
(* Looks at lines that did not move.                                       *)

(* Nothing is refused while SCL keeps its level or rises.                  *)
LEMMA NothingRefused ==
  ASSUME NEW ack, Looks(ack), BusOK, scl_oe' = scl_oe \/ ~scl_oe'
  PROVE  refused' = refused
BY DEF Looks, BusOK, Tgt!Refuses

(* Either the target has seen the lines as they are, or it sees the STOP   *)
(* of a frame that a press of the key opened by accident.                  *)
LEMMA QuietLook ==
  ASSUME NEW ack, ack \in BOOLEAN, Looks(ack), DutOK, BusOK, SdaSeen,
         (InStep /\ Accounted) \/ Astray,
         sda_oe' = sda_oe, scl_oe' = scl_oe
  PROVE  /\ history' = history /\ refused' = refused
         /\ presses' = presses /\ mark' = mark
         /\ prev_sda' = Tgt!sda_line(sda_oe)'
         /\ \/ target' = target
            \/ /\ state = "IDLE" /\ ~target.pull_low
               /\ ~target'.in_frame /\ ~target'.pull_low
<1>1. /\ sda_oe \in BOOLEAN /\ scl_oe \in BOOLEAN /\ target \in Targets
      /\ prev_scl = ~scl_oe /\ prev_sda \in BOOLEAN
      /\ Tgt!Observe(sda_oe, scl_oe, ack)
  BY DEF DutOK, BusOK, Looks
<1>2. prev_sda' = Sda(sda_oe)
  BY <1>1, LookPrev
<1>3. refused' = refused
  BY NothingRefused
<1>4. CASE prev_sda = Tgt!sda_line(sda_oe) \/ scl_oe
  <2>1. target' = target /\ history' = history
    BY <1>1, <1>4, LookStill DEF Sda
  <2> QED BY <1>2, <1>3, <2>1 DEF Looks, Sda, Tgt!sda_line
<1>5. CASE ~(prev_sda = Tgt!sda_line(sda_oe) \/ scl_oe)
  <2>1. state = "IDLE" /\ ~prev_sda /\ ~target.pull_low /\ target.byte_index = 0 /\ ~scl_oe
    BY <1>5 DEF SdaSeen
  <2>2. ~sda_oe
    BY <2>1 DEF InStep, Astray, AtRest, Setting, Sampling, Asking, Hearing, Ending,
                Lowered, Raised, Over, BitDue, ByteDue,
             BitOut, BitsIn, AnswerOut, LastAnswered, AllTaken, Past
  <2>3. Tgt!Observe(FALSE, FALSE, ack) /\ prev_scl /\ prev_sda = FALSE
    BY <1>1, <2>1, <2>2
  <2>4. target' = Tgt!on_stop(target) /\ ~Tgt!Recorded(target)
    <3>1. target' = Tgt!on_stop(target)
      BY <1>1, <2>1, <2>3, LookStop
    <3>2. ~Tgt!Recorded(target)
      BY <2>1 DEF Tgt!Recorded, Tgt!N_BYTES
    <3> QED BY <3>1, <3>2
  <2>5. history' = history
    BY <1>1, <2>1, <2>3, <2>4, LookStop
  <2>6. ~target'.in_frame /\ ~target'.pull_low
    BY <1>1, <2>4, Stop
  <2>7. prev_sda' = Tgt!sda_line(sda_oe)'
    BY <1>2, <2>1, <2>2, <2>6 DEF Sda, Tgt!sda_line
  <2> QED BY <1>3, <2>1, <2>5, <2>6, <2>7 DEF Looks
<1> QED BY <1>4, <1>5

(* The states of the controller exclude each other.                        *)
LEMMA Idling ==
  ASSUME state = "IDLE", (InStep /\ Accounted) \/ Astray
  PROVE  /\ ~sda_oe /\ ~scl_oe
         /\ \/ /\ ~target.pull_low /\ (Past => ~target.in_frame) /\ Accounted
            \/ /\ presses > 0 /\ ~Past /\ target.in_frame /\ target.pull_low
               /\ target.bitpos = 9 /\ target.byte_index < 3
            \/ /\ presses > 0 /\ Past /\ ~target.in_frame /\ ~target.pull_low /\ ack_err_o
BY DEF InStep, Astray, AtRest, Setting, Sampling, Asking, Hearing, Ending,
       Lowered, Raised, Over, BitDue, ByteDue,
             BitOut, BitsIn, AnswerOut, LastAnswered, AllTaken, Past

LEMMA ResetHolds ==
  ASSUME IInv, NEW ack, ack \in BOOLEAN, Looks(ack), UNCHANGED dutVars
  PROVE  IInv'
<1>1. DutOK' /\ Handshake'
  BY DEF IInv, DutOK, Handshake, dutVars
<1>2. /\ history' = history /\ refused' = refused
      /\ presses' = presses /\ mark' = mark
      /\ prev_sda' = Tgt!sda_line(sda_oe)'
      /\ \/ target' = target
         \/ /\ state = "IDLE" /\ ~target.pull_low
            /\ ~target'.in_frame /\ ~target'.pull_low
  BY QuietLook DEF IInv, dutVars
<1>3. BusOK'
  BY LooksKeepBus DEF IInv, dutVars, DutOK
<1>4. SdaSeen'
  BY <1>2 DEF SdaSeen
<1>5. ((InStep /\ Accounted) \/ Astray)'
  <2>1. CASE target' = target
    <3>1. ((InStep /\ Accounted) \/ Astray)' = ((InStep /\ Accounted) \/ Astray)
      BY <1>2, <2>1
         DEF InStep, Accounted, Astray, AtRest, Setting, Sampling, Asking, Hearing, Ending,
             Lowered, Raised, Over, BitDue, ByteDue,
             BitOut, BitsIn, AnswerOut, LastAnswered, AllTaken, Past, Ahead, Taken, LeadingBits, ByteOf, dutVars,
             Cfg!request
    <3> QED BY <3>1 DEF IInv
  <2>2. CASE /\ state = "IDLE" /\ ~target.pull_low
             /\ ~target'.in_frame /\ ~target'.pull_low
    <3>1. \/ Accounted /\ ~sda_oe /\ ~scl_oe
          \/ presses > 0 /\ Past /\ ack_err_o /\ ~sda_oe /\ ~scl_oe
      BY <2>2, Idling DEF IInv
    <3>2. InStep'
      BY <2>2, <3>1 DEF InStep, AtRest, dutVars
    <3>3. Accounted => Accounted'
      BY <1>2, <2>2 DEF Accounted, Past, Hearing, dutVars, Cfg!request, Expected
    <3>4. presses > 0 /\ Past /\ ack_err_o /\ ~sda_oe /\ ~scl_oe => Astray'
      BY <1>2, <2>2 DEF Astray, Past, dutVars
    <3> QED BY <3>1, <3>2, <3>3, <3>4
  <2> QED BY <1>2, <2>1, <2>2
<1>6. (presses = 0 => mark = 0)'
  BY <1>2 DEF IInv
<1> QED BY <1>1, <1>3, <1>4, <1>5, <1>6 DEF IInv

-----------------------------------------------------------------------------
(* A clock between two ticks: only the walker moves.                       *)

LEMMA WaitingKeeps ==
  ASSUME IInv, NEW ack, ack \in BOOLEAN, Looks(ack), Walks, Waits
  PROVE  IInv'
<1>1. DutOK' /\ Handshake'
  BY WaitingWalks DEF IInv
<1>2. /\ history' = history /\ refused' = refused
      /\ presses' = presses /\ mark' = mark
      /\ prev_sda' = Tgt!sda_line(sda_oe)'
      /\ \/ target' = target
         \/ /\ state = "IDLE" /\ ~target.pull_low
            /\ ~target'.in_frame /\ ~target'.pull_low
  BY QuietLook DEF IInv, Waits
<1>3. BusOK'
  BY LooksKeepBus DEF IInv, DutOK, Waits
<1>4. SdaSeen'
  BY <1>2 DEF SdaSeen
<1>5. /\ state' = state /\ byte_idx' = byte_idx /\ bit_cnt' = bit_cnt /\ phase' = phase
      /\ sda_oe' = sda_oe /\ scl_oe' = scl_oe /\ ack_err_o' = ack_err_o
  BY DEF Waits
<1>6. \/ cfg_state' = cfg_state /\ rom_idx' = rom_idx
      \/ cfg_state = "START_TX" /\ state # "IDLE" /\ cfg_state' = "WAIT_DONE" /\ rom_idx' = rom_idx
      \/ /\ cfg_state = "WAIT_DONE" /\ state = "IDLE"
         /\ \/ cfg_state' \in {"STATE_DONE", "STATE_ERROR"} /\ rom_idx' = rom_idx
            \/ cfg_state' = "START_TX" /\ rom_idx' = rom_idx + 1 /\ ~ack_err_o
  BY DEF IInv, Handshake, Walks, Cfg!Clk, Cfg!StartTx, Cfg!WaitDone, Cfg!Halted, Cfg!vars
<1>7. ((InStep /\ Accounted) \/ Astray)'
  <2>1. CASE state # "IDLE"
    <3>1. target' = target /\ rom_idx' = rom_idx
      BY <1>2, <1>6, <2>1
    <3>2. Past' = Past
      BY <1>5, <2>1 DEF Past
    <3>3. ((InStep /\ Accounted) \/ Astray)' = ((InStep /\ Accounted) \/ Astray)
      BY <1>2, <1>5, <3>1, <3>2
         DEF InStep, Accounted, Astray, AtRest, Setting, Sampling, Asking, Hearing, Ending,
             Lowered, Raised, Over, BitDue, ByteDue,
             BitOut, BitsIn, AnswerOut, LastAnswered, AllTaken, Ahead, Taken, LeadingBits, ByteOf, Cfg!request
    <3> QED BY <3>3 DEF IInv
  <2>2. CASE state = "IDLE"
    <3>1. state' = "IDLE" /\ ~sda_oe' /\ ~scl_oe' /\ AtRest'
      BY <1>5, <2>2, Idling DEF IInv, AtRest
    <3>2. CASE /\ ~target.pull_low /\ (Past => ~target.in_frame) /\ Accounted
      <4>1. ~target'.pull_low /\ (Past' => ~target'.in_frame)
        BY <1>2, <1>5, <1>6, <2>2, <3>2 DEF Past
      <4>2. InStep'
        BY <3>1, <4>1 DEF InStep
      <4>3. refused' = (ack_err_o' \/ (Hearing' /\ ~target'.pull_low))
        BY <1>2, <1>5, <2>2, <3>2 DEF Accounted, Hearing
      <4>4. Len(history') = mark' + (IF Past' THEN rom_idx' + 1 ELSE rom_idx')
        BY <1>2, <1>5, <1>6, <2>2, <3>2 DEF Accounted, Past
      <4>5. Accounted'
        BY <1>2, <3>2, <4>3, <4>4 DEF Accounted, Expected
      <4> QED BY <4>2, <4>5
    <3>3. CASE /\ presses > 0 /\ ~Past /\ target.in_frame /\ target.pull_low
               /\ target.bitpos = 9 /\ target.byte_index < 3
      BY <1>2, <1>5, <1>6, <2>2, <3>1, <3>3 DEF Astray, AtRest, Past
    <3>4. CASE presses > 0 /\ Past /\ ~target.in_frame /\ ~target.pull_low /\ ack_err_o
      <4>1. Past' /\ ~target'.in_frame /\ ~target'.pull_low
        BY <1>2, <1>5, <1>6, <2>2, <3>4 DEF Past
      <4> QED BY <1>2, <1>5, <3>1, <3>4, <4>1 DEF Astray
    <3> QED BY <2>2, <3>2, <3>3, <3>4, Idling DEF IInv
  <2> QED BY <2>1, <2>2
<1>8. (presses = 0 => mark = 0)'
  BY <1>2 DEF IInv
<1> QED BY <1>1, <1>3, <1>4, <1>7, <1>8 DEF IInv

-----------------------------------------------------------------------------
(* A press of the key.                                                     *)

(* The target holds SDA in the ninth clock of a byte, and only there.      *)
LEMMA Pulling ==
  ASSUME (InStep /\ Accounted) \/ Astray, target \in Targets, target.pull_low
  PROVE  /\ target.in_frame /\ target.byte_index < 3
         /\ \/ scl_oe /\ target.bitpos = 8
            \/ ~scl_oe /\ target.bitpos = 9
<1>1. target.byte_index \in 0..3
  BY DEF Targets
<1> QED BY <1>1
     DEF InStep, Astray, AtRest, Setting, Sampling, Asking, Hearing, Ending,
         Lowered, Raised, Over, BitDue, ByteDue,
             BitOut, BitsIn, AnswerOut, LastAnswered, AllTaken, Ahead, Past

(* What the target makes of the lines when both are let go at once.        *)
LEMMA LetGo ==
  ASSUME NEW t, t = target, t \in Targets, prev_sda \in BOOLEAN, prev_scl \in BOOLEAN,
         Tgt!Observe(FALSE, FALSE, TRUE), NEW u, u = target',
         t.pull_low => t.in_frame /\ t.byte_index < 3 /\ t.bitpos = (IF prev_scl THEN 9 ELSE 8)
  PROVE  /\ prev_sda' = (~t.pull_low)
         /\ \/ ~u.pull_low /\ ~t.pull_low
            \/ ~u.pull_low /\ t.pull_low /\ u.byte_index = 0
            \/ /\ t.pull_low /\ u.pull_low /\ u.in_frame
               /\ u.bitpos = 9 /\ u.byte_index < 3
<1>1. /\ t.pull_low \in BOOLEAN /\ t.in_frame \in BOOLEAN
      /\ t.byte_index \in 0..3 /\ t.bitpos \in 0..9
  BY DEF Targets
<1> DEFINE sda == ~t.pull_low
           t1 == IF prev_sda /\ ~sda THEN Tgt!on_start(t) ELSE t
           t2 == IF ~prev_sda /\ sda THEN Tgt!on_stop(t1) ELSE t1
           t3 == IF ~prev_scl THEN Tgt!on_scl_rise(t2, sda) ELSE t2
<1>2. u = t3 /\ prev_sda' = (~t.pull_low)
  BY <1>1 DEF Tgt!Observe, Tgt!sda_line, Tgt!scl_line
<1>3. sda \in BOOLEAN /\ sda = (~t.pull_low)
  BY <1>1
<1> HIDE DEF sda
<1>4. /\ t1 \in Targets
      /\ IF prev_sda /\ ~sda
         THEN ~t1.pull_low /\ t1.byte_index = 0
         ELSE t1 = t
  BY Start
<1> HIDE DEF t1
<1>5. /\ t2 \in Targets
      /\ IF ~prev_sda /\ sda
         THEN ~t2.pull_low
         ELSE t2 = t1
  BY <1>4, Stop
<1> HIDE DEF t2
<1>6. CASE prev_scl
  <2>1. u = t2
    BY <1>2, <1>6
  <2> QED BY <1>1, <1>2, <1>3, <1>4, <1>5, <1>6, <2>1
<1>7. CASE ~prev_scl
  <2>1. u = Tgt!on_scl_rise(t2, sda)
    BY <1>2, <1>7
  <2>2. /\ u.in_frame = t2.in_frame /\ u.pull_low = t2.pull_low
        /\ u.byte_index = t2.byte_index
        /\ t2.in_frame /\ t2.byte_index < 3 /\ t2.bitpos >= 8 => u.bitpos = 9
    <3> HIDE DEF t3
    <3>1. t2 \in Targets /\ sda \in BOOLEAN
      BY <1>3, <1>5
    <3>2. ASSUME NEW v, v = Tgt!on_scl_rise(t2, sda)
          PROVE  /\ v.in_frame = t2.in_frame /\ v.pull_low = t2.pull_low
                 /\ v.byte_index = t2.byte_index
                 /\ (t2.in_frame /\ t2.byte_index < 3 /\ t2.bitpos >= 8) => v.bitpos = 9
      BY <3>1, <3>2, Rise
    <3> QED BY <2>1, <3>2
  <2> QED BY <1>1, <1>2, <1>3, <1>4, <1>5, <1>7, <2>2
<1> QED BY <1>6, <1>7

LEMMA PressKeeps ==
  ASSUME IInv, PressKey0
  PROVE  IInv'
<1>1. DutOK' /\ Handshake'
  BY PressResets
<1>2. /\ target \in Targets /\ history \in Seq([1..3 -> Octet])
      /\ prev_sda \in BOOLEAN /\ prev_scl = ~scl_oe /\ prev_scl \in BOOLEAN
      /\ presses \in 0..MaxPresses /\ scl_oe \in BOOLEAN
  BY DEF IInv, BusOK, DutOK
<1>3. /\ Tgt!Observe(FALSE, FALSE, TRUE)
      /\ presses' = presses + 1 /\ presses < MaxPresses
      /\ mark' = Len(history') /\ refused' = FALSE
      /\ cfg_state' = "START_TX" /\ rom_idx' = 0 /\ count' = 0 /\ state' = "IDLE"
      /\ ~sda_oe' /\ ~scl_oe' /\ ~ack_err_o' /\ ack_err_o' \in BOOLEAN
  BY DEF PressKey0, Cfg!Reset, Ctl!Reset
<1>4. /\ target' \in Targets /\ history' \in Seq([1..3 -> Octet])
      /\ prev_scl' = TRUE /\ prev_sda' \in BOOLEAN
  BY <1>2, <1>3, LookTypes
<1>5. target.pull_low => /\ target.in_frame /\ target.byte_index < 3
                         /\ target.bitpos = (IF prev_scl THEN 9 ELSE 8)
  BY <1>2, Pulling DEF IInv
<1>6. /\ prev_sda' = (~target.pull_low)
      /\ \/ ~target'.pull_low /\ ~target.pull_low
         \/ ~target'.pull_low /\ target.pull_low /\ target'.byte_index = 0
         \/ /\ target.pull_low /\ target'.pull_low /\ target'.in_frame
            /\ target'.bitpos = 9 /\ target'.byte_index < 3
  BY <1>2, <1>3, <1>5, LetGo
<1>7. BusOK'
  <2>1. presses' \in 0..MaxPresses /\ presses' > 0
    BY <1>2, <1>3, Parameters
  <2>2. mark' \in 0..Len(history')
    BY <1>3, <1>4
  <2> QED BY <1>3, <1>4, <2>1, <2>2 DEF BusOK
<1>8. target.pull_low \in BOOLEAN /\ target'.pull_low \in BOOLEAN
  BY <1>2, <1>4 DEF Targets
<1>9. SdaSeen'
  <2>1. Tgt!sda_line(sda_oe)' = (~target'.pull_low)
    BY <1>3 DEF Tgt!sda_line
  <2> QED BY <1>3, <1>6, <1>8, <2>1 DEF SdaSeen
<1>10. ~Past' /\ AtRest'
  BY <1>3 DEF Past, AtRest
<1>11. Accounted'
  <2>1. refused' = (ack_err_o' \/ (Hearing' /\ ~target'.pull_low))
    BY <1>3 DEF Hearing
  <2>2. Len(history') = mark' + (IF Past' THEN rom_idx' + 1 ELSE rom_idx')
    BY <1>3, <1>4, <1>10
  <2>3. \A i \in 1..NUM_REGS : ~(mark' + i <= Len(history'))
    BY <1>3, <1>4, Parameters
  <2> QED BY <2>1, <2>2, <2>3 DEF Accounted
<1>12. InStep' \/ Astray'
  <2>1. CASE ~target'.pull_low
    BY <1>10, <2>1 DEF InStep
  <2>2. CASE target'.pull_low /\ target'.in_frame /\ target'.bitpos = 9 /\ target'.byte_index < 3
    <3>1. presses' > 0
      BY <1>2, <1>3
    <3> QED BY <1>10, <2>2, <3>1 DEF Astray
  <2> QED BY <1>6, <2>1, <2>2
<1>13. (presses = 0 => mark = 0)'
  BY <1>2, <1>3
<1> QED BY <1>1, <1>7, <1>9, <1>11, <1>12, <1>13 DEF IInv

-----------------------------------------------------------------------------
(* A tick, arm by arm.                                                     *)

Ticking(ack) == IInv /\ ack \in BOOLEAN /\ Looks(ack) /\ Walks /\ Ticks

(* By the time of a tick the target has seen the lines as they are, and    *)
(* the walker has nothing left to see.                                     *)
LEMMA AtATick ==
  ASSUME NEW ack, Ticking(ack)
  PROVE  /\ prev_sda = Sda(sda_oe) /\ prev_scl = ~scl_oe /\ ack \in BOOLEAN
         /\ sda_oe \in BOOLEAN /\ scl_oe \in BOOLEAN
         /\ target \in Targets /\ history \in Seq([1..3 -> Octet])
         /\ Tgt!Observe(sda_oe', scl_oe', ack)
         /\ cfg_state' = cfg_state /\ rom_idx' = rom_idx /\ Cfg!request' = Cfg!request
         /\ presses' = presses /\ mark' = mark /\ count' = 0
         /\ cfg_state = "START_TX" => state = "IDLE"
         /\ (InStep /\ Accounted) \/ Astray
<1>1. DutOK /\ Handshake /\ BusOK /\ SdaSeen /\ Walks /\ Ticks
  BY DEF Ticking, IInv
<1>2. /\ cfg_state' = cfg_state /\ rom_idx' = rom_idx /\ count # 0
      /\ cfg_state = "START_TX" => state = "IDLE"
      /\ Cfg!request' = Cfg!request
  BY <1>1, TickingHolds
<1>3. prev_sda = Sda(sda_oe)
  <2>1. CASE scl_oe /\ count = 0
    BY <1>2, <2>1
  <2>2. CASE prev_sda = Tgt!sda_line(sda_oe)
    BY <2>2 DEF Sda
  <2> QED BY <1>1, <1>2, <2>1, <2>2 DEF SdaSeen
<1> QED BY <1>1, <1>2, <1>3 DEF Ticking, IInv, Looks, DutOK, BusOK, Ticks

(* What is on record stays accounted for as long as nothing is recorded.   *)
LEMMA AccountedStays ==
  ASSUME Accounted, history' = history, mark' = mark, rom_idx' = rom_idx, Past' = Past,
         refused' = (ack_err_o' \/ (Hearing' /\ ~target'.pull_low))
  PROVE  Accounted'
BY DEF Accounted, Expected

LEMMA IdleKeeps ==
  ASSUME NEW ack, Ticking(ack), Ctl!IdleArm(Cfg!start_o)
  PROVE  ((InStep /\ Accounted) \/ Astray)' /\ prev_sda' = Tgt!sda_line(sda_oe)'
<1>1. /\ state = "IDLE" /\ sda_oe' = FALSE /\ scl_oe' = FALSE /\ ack_err_o' = ack_err_o
      /\ \/ cfg_state = "START_TX" /\ state' = "START"
         \/ cfg_state # "START_TX" /\ state' = "IDLE"
  BY DEF Ctl!IdleArm, Ctl!Drive, Cfg!start_o
<1>2. ~sda_oe /\ ~scl_oe
  BY <1>1, Idling, AtATick
<1>3. target' = target /\ history' = history /\ prev_sda' = Sda(sda_oe')
  <2>1. Tgt!Observe(FALSE, FALSE, ack) /\ prev_sda = Sda(FALSE) /\ prev_scl = ~FALSE
    BY <1>1, <1>2, AtATick
  <2>2. target' = target /\ history' = history
    BY <2>1, AtATick, LookStill
  <2>3. prev_sda' = Sda(sda_oe')
    BY AtATick, LookPrev
  <2> QED BY <2>2, <2>3
<1>4. Past' = Past
  BY <1>1, AtATick DEF Past
<1>5. refused' = refused
  BY <1>1, NothingRefused DEF Ticking, IInv
<1>6. AtRest'
  BY <1>1 DEF AtRest
<1>7. CASE ~target.pull_low /\ (Past => ~target.in_frame) /\ Accounted
  <2>1. refused' = (ack_err_o' \/ (Hearing' /\ ~target'.pull_low))
    BY <1>1, <1>5, <1>7 DEF Accounted, Hearing
  <2>2. Accounted'
    BY <1>3, <1>4, <1>7, <2>1, AccountedStays, AtATick
  <2>3. InStep'
    BY <1>3, <1>4, <1>6, <1>7 DEF InStep
  <2> QED BY <1>3, <2>2, <2>3 DEF Sda, Tgt!sda_line
<1>8. CASE /\ presses > 0 /\ ~Past /\ target.in_frame /\ target.pull_low
           /\ target.bitpos = 9 /\ target.byte_index < 3
  <2>1. Astray'
    BY <1>3, <1>4, <1>6, <1>8, AtATick DEF Astray
  <2> QED BY <1>3, <2>1 DEF Sda, Tgt!sda_line
<1>9. CASE presses > 0 /\ Past /\ ~target.in_frame /\ ~target.pull_low /\ ack_err_o
  <2>1. Astray'
    BY <1>1, <1>3, <1>4, <1>9, AtATick DEF Astray
  <2> QED BY <1>3, <2>1 DEF Sda, Tgt!sda_line
<1> QED BY <1>1, <1>7, <1>8, <1>9, Idling, AtATick

LEMMA StartKeeps ==
  ASSUME NEW ack, Ticking(ack), Ctl!StartArm
  PROVE  ((InStep /\ Accounted) \/ Astray)' /\ prev_sda' = Tgt!sda_line(sda_oe)'
<1>1. /\ state = "START" /\ sda_oe' = TRUE /\ scl_oe' = FALSE /\ ack_err_o' = ack_err_o
      /\ state' = "SEND_BYTE" /\ bit_cnt' = 7 /\ phase' = 0 /\ byte_idx' = 0
  BY DEF Ctl!StartArm, Ctl!Drive
<1>2. /\ ~sda_oe /\ ~scl_oe /\ ~Past
      /\ \/ ~target.pull_low /\ Accounted
         \/ /\ presses > 0 /\ target.in_frame /\ target.pull_low
            /\ target.bitpos = 9 /\ target.byte_index < 3
  BY <1>1, AtATick
     DEF InStep, Astray, AtRest, Setting, Sampling, Asking, Hearing, Ending,
         Lowered, Raised, Over, BitDue, ByteDue,
             BitOut, BitsIn, AnswerOut, LastAnswered, AllTaken, Past
<1>3. Tgt!Observe(TRUE, FALSE, ack) /\ prev_scl /\ prev_sda = Sda(FALSE)
  BY <1>1, <1>2, AtATick
<1>4. prev_sda' = FALSE
  BY <1>3, LookPrev DEF Sda, Tgt!sda_line
<1>5. Tgt!sda_line(sda_oe)' = FALSE
  BY <1>1 DEF Tgt!sda_line
<1>6. ~Past' /\ ~Hearing' /\ Setting'
  BY <1>1 DEF Past, Hearing, Setting
<1>7. refused' = refused
  BY <1>1, NothingRefused DEF Ticking, IInv
<1>8. CASE ~target.pull_low /\ Accounted
  <2>1. prev_sda
    BY <1>3, <1>8 DEF Sda, Tgt!sda_line
  <2>2. target' = Tgt!on_start(target) /\ history' = history
    BY <1>3, <2>1, LookStart, AtATick
  <2>3. /\ target'.in_frame /\ ~target'.pull_low /\ target'.buf = 0
        /\ target'.bitpos = 0 /\ target'.byte_index = 0
    BY <2>2, Start, AtATick
  <2>4. LeadingBits(bit_cnt + 1)'
    <3>1. ByteOf(0) = 114 /\ 2^8 = 256
      BY DEF ByteOf
    <3>2. target'.buf = 114 \div 2^8
      BY <2>3, <3>1
    <3>3. bit_cnt' + 1 = 8
      BY <1>1
    <3> QED BY <1>1, <3>2, <3>3 DEF LeadingBits, ByteOf
  <2>5. Taken(byte_idx)'
    BY <1>1 DEF Taken
  <2>6. InStep'
    <3>1. BitDue'
      BY <1>1, <1>6, <2>3, <2>4, <2>5 DEF BitDue
    <3> QED BY <3>1 DEF InStep
  <2>7. refused' = (ack_err_o' \/ (Hearing' /\ ~target'.pull_low))
    BY <1>1, <1>6, <1>7, <1>8 DEF Accounted, Hearing
  <2>8. Accounted'
    BY <1>2, <1>6, <1>8, <2>2, <2>7, AccountedStays, AtATick DEF Past
  <2> QED BY <1>4, <1>5, <2>6, <2>8
<1>9. CASE /\ presses > 0 /\ target.in_frame /\ target.pull_low
           /\ target.bitpos = 9 /\ target.byte_index < 3
  <2>1. prev_sda = FALSE
    BY <1>3, <1>9 DEF Sda, Tgt!sda_line
  <2>2. prev_sda = Sda(TRUE) /\ prev_scl = ~FALSE
    BY <1>3, <2>1 DEF Sda, Tgt!sda_line
  <2>3. target' = target
    BY <1>3, <2>2, LookStill, AtATick
  <2>4. byte_idx' <= target'.byte_index
    <3>1. target \in Targets
      BY AtATick
    <3>2. target.byte_index >= 0
      BY <3>1 DEF Targets
    <3> QED BY <1>1, <2>3, <3>2
  <2>5. Astray'
    BY <1>1, <1>6, <1>9, <2>3, <2>4, AtATick DEF Astray
  <2> QED BY <1>4, <1>5, <2>5
<1> QED BY <1>2, <1>8, <1>9

(* The request does not move at a tick, so neither do its bytes.           *)
LEMMA BytesStay ==
  ASSUME NEW ack, Ticking(ack)
  PROVE  \A j \in 0..2 : ByteOf(j)' = ByteOf(j)
BY AtATick DEF ByteOf

LEMMA FallAtATick ==
  ASSUME NEW ack, Ticking(ack), sda_oe' \in BOOLEAN, scl_oe' = TRUE, ~scl_oe
  PROVE  /\ history' = history /\ target' \in Targets /\ target'.in_frame = target.in_frame
         /\ (~target.in_frame \/ target.byte_index = 3 => target' = target)
         /\ (target.in_frame /\ target.byte_index < 3 /\ target.bitpos = 8 =>
              /\ target'.pull_low = ack /\ target'.buf = target.buf /\ target'.bitpos = 8
              /\ target'.byte_index = target.byte_index /\ target'.rx_bytes = target.rx_bytes)
         /\ (target.in_frame /\ target.byte_index < 3 /\ target.bitpos = 9 =>
              /\ target'.pull_low = FALSE /\ target'.buf = 0 /\ target'.bitpos = 0
              /\ target'.byte_index = target.byte_index + 1
              /\ target'.rx_bytes = [target.rx_bytes EXCEPT ![target.byte_index + 1] = target.buf])
         /\ (target.in_frame /\ target.byte_index < 3 /\ target.bitpos < 8 => target' = target)
         /\ (~(target.in_frame /\ target.byte_index < 3 /\ target.bitpos = 8) =>
              refused' = refused)
<1>1. /\ target \in Targets /\ ack \in BOOLEAN /\ prev_scl
      /\ Tgt!Observe(sda_oe', TRUE, ack)
  BY AtATick
<1>2. target' = Tgt!on_scl_fall(target, ack) /\ history' = history
  BY <1>1, LookFall
<1>3. ~(target.in_frame /\ target.byte_index < 3 /\ target.bitpos = 8) => refused' = refused
  <2>1. refused \in BOOLEAN /\ refused' = (refused \/ Tgt!Refuses(scl_oe', ack))
    BY DEF Ticking, IInv, BusOK, Looks
  <2> QED BY <2>1 DEF Tgt!Refuses, Tgt!N_BYTES
<1>4. ASSUME NEW t, t = target, NEW u, u = target'
      PROVE  /\ u \in Targets /\ u.in_frame = t.in_frame
             /\ (~t.in_frame \/ t.byte_index = 3 => u = t)
             /\ (t.in_frame /\ t.byte_index < 3 /\ t.bitpos = 8 =>
                  /\ u.pull_low = ack /\ u.buf = t.buf /\ u.bitpos = 8
                  /\ u.byte_index = t.byte_index /\ u.rx_bytes = t.rx_bytes)
             /\ (t.in_frame /\ t.byte_index < 3 /\ t.bitpos = 9 =>
                  /\ u.pull_low = FALSE /\ u.buf = 0 /\ u.bitpos = 0
                  /\ u.byte_index = t.byte_index + 1
                  /\ u.rx_bytes = [t.rx_bytes EXCEPT ![t.byte_index + 1] = t.buf])
             /\ (t.in_frame /\ t.byte_index < 3 /\ t.bitpos < 8 => u = t)
  <2>1. t \in Targets /\ ack \in BOOLEAN /\ u = Tgt!on_scl_fall(t, ack)
    BY <1>1, <1>2, <1>4
  <2> QED BY <2>1, Fall, ZenonT(60)
<1> QED BY <1>2, <1>3, <1>4, ZenonT(60)

LEMMA RiseAtATick ==
  ASSUME NEW ack, Ticking(ack), sda_oe' = sda_oe, scl_oe' = FALSE, scl_oe
  PROVE  /\ history' = history /\ refused' = refused
         /\ prev_sda' = Tgt!sda_line(sda_oe)'
         /\ target' \in Targets /\ target'.in_frame = target.in_frame
         /\ target'.pull_low = target.pull_low
         /\ target'.byte_index = target.byte_index /\ target'.rx_bytes = target.rx_bytes
         /\ (~target.in_frame \/ target.byte_index = 3 => target' = target)
         /\ (target.in_frame /\ target.byte_index < 3 /\ target.bitpos < 8 =>
              /\ target'.bitpos = target.bitpos + 1
              /\ target'.buf = (2 * target.buf + (IF Sda(sda_oe) THEN 1 ELSE 0)) % 256)
         /\ (target.in_frame /\ target.byte_index < 3 /\ target.bitpos >= 8 =>
              target'.bitpos = 9 /\ target'.buf = target.buf)
<1>1. /\ target \in Targets /\ ack \in BOOLEAN /\ ~prev_scl /\ prev_sda = Sda(sda_oe)
      /\ Tgt!Observe(sda_oe, FALSE, ack) /\ sda_oe \in BOOLEAN /\ Sda(sda_oe) \in BOOLEAN
  BY AtATick DEF Sda, Tgt!sda_line
<1>2. target' = Tgt!on_scl_rise(target, Sda(sda_oe)) /\ history' = history
  BY <1>1, LookRise
<1>3. refused' = refused
  BY NothingRefused DEF Ticking, IInv
<1>4. ASSUME NEW t, t = target, NEW u, u = target', NEW sda, sda = Sda(sda_oe)
      PROVE  /\ u \in Targets /\ u.in_frame = t.in_frame /\ u.pull_low = t.pull_low
             /\ u.byte_index = t.byte_index /\ u.rx_bytes = t.rx_bytes
             /\ (~t.in_frame \/ t.byte_index = 3 => u = t)
             /\ (t.in_frame /\ t.byte_index < 3 /\ t.bitpos < 8 =>
                  /\ u.bitpos = t.bitpos + 1
                  /\ u.buf = (2 * t.buf + (IF sda THEN 1 ELSE 0)) % 256)
             /\ (t.in_frame /\ t.byte_index < 3 /\ t.bitpos >= 8 =>
                  u.bitpos = 9 /\ u.buf = t.buf)
  <2>1. t \in Targets /\ sda \in BOOLEAN /\ u = Tgt!on_scl_rise(t, sda)
    BY <1>1, <1>2, <1>4
  <2> QED BY <2>1, Rise
<1>5. prev_sda' = Sda(sda_oe)
  BY <1>1, LookPrev
<1>6. prev_sda' = Tgt!sda_line(sda_oe)'
  BY <1>4, <1>5 DEF Sda, Tgt!sda_line
<1> QED BY <1>2, <1>3, <1>4, <1>6

(* What is known in each state of the controller within a byte.            *)
LEMMA SettingBits ==
  ASSUME (InStep /\ Accounted) \/ Astray, state = "SEND_BYTE", phase = 0
  PROVE  /\ Setting
         /\ \/ (BitDue \/ ByteDue) /\ Accounted
            \/ presses > 0 /\ Ahead(7 - bit_cnt)
            \/ /\ presses > 0 /\ bit_cnt = 7 /\ target.in_frame /\ target.bitpos = 9
               /\ byte_idx <= target.byte_index /\ target.byte_index < 3
<1>1. ~AtRest /\ ~Sampling /\ ~Asking /\ ~Hearing /\ ~Ending /\ ~Lowered /\ ~Raised /\ ~Over
      /\ ~Past
  BY DEF AtRest, Sampling, Asking, Hearing, Ending, Lowered, Raised, Over, Past
<1>2. BitDue \/ ByteDue => Setting
  BY DEF BitDue, ByteDue
<1>3. ~BitOut /\ ~BitsIn /\ ~AnswerOut /\ ~LastAnswered /\ ~AllTaken
  BY <1>1 DEF BitOut, BitsIn, AnswerOut, LastAnswered, AllTaken
<1> QED BY <1>1, <1>2, <1>3 DEF InStep, Astray

LEMMA SamplingBits ==
  ASSUME (InStep /\ Accounted) \/ Astray, state = "SEND_BYTE", phase = 1
  PROVE  /\ Sampling
         /\ (BitOut /\ Accounted) \/ (presses > 0 /\ Ahead(7 - bit_cnt))
<1>1. ~AtRest /\ ~Setting /\ ~Asking /\ ~Hearing /\ ~Ending /\ ~Lowered /\ ~Raised /\ ~Over
      /\ ~Past
  BY DEF AtRest, Setting, Asking, Hearing, Ending, Lowered, Raised, Over, Past
<1>2. BitOut => Sampling
  BY DEF BitOut
<1>3. ~BitDue /\ ~ByteDue /\ ~BitsIn /\ ~AnswerOut /\ ~LastAnswered /\ ~AllTaken
  BY <1>1 DEF BitDue, ByteDue, BitsIn, AnswerOut, LastAnswered, AllTaken
<1> QED BY <1>1, <1>2, <1>3 DEF InStep, Astray

LEMMA AskingBits ==
  ASSUME (InStep /\ Accounted) \/ Astray, state = "ACK", phase = 0
  PROVE  /\ Asking
         /\ (BitsIn /\ Accounted) \/ (presses > 0 /\ Ahead(8))
<1>1. ~AtRest /\ ~Setting /\ ~Sampling /\ ~Hearing /\ ~Ending /\ ~Lowered /\ ~Raised /\ ~Over
      /\ ~Past
  BY DEF AtRest, Setting, Sampling, Hearing, Ending, Lowered, Raised, Over, Past
<1>2. BitsIn => Asking
  BY DEF BitsIn
<1>3. ~BitDue /\ ~ByteDue /\ ~BitOut /\ ~AnswerOut /\ ~LastAnswered /\ ~AllTaken
  BY <1>1 DEF BitDue, ByteDue, BitOut, AnswerOut, LastAnswered, AllTaken
<1> QED BY <1>1, <1>2, <1>3 DEF InStep, Astray

LEMMA HearingBits ==
  ASSUME (InStep /\ Accounted) \/ Astray, state = "ACK", phase = 1
  PROVE  /\ Hearing
         /\ \/ AnswerOut /\ Accounted
            \/ /\ presses > 0 /\ target.in_frame /\ byte_idx < target.byte_index
               /\ IF target.byte_index < 3 THEN target.bitpos = 8 ELSE ~target.pull_low
<1>1. ~AtRest /\ ~Setting /\ ~Sampling /\ ~Asking /\ ~Ending /\ ~Lowered /\ ~Raised /\ ~Over
      /\ ~Past
  BY DEF AtRest, Setting, Sampling, Asking, Ending, Lowered, Raised, Over, Past
<1>2. AnswerOut => Hearing
  BY DEF AnswerOut
<1>3. ~BitDue /\ ~ByteDue /\ ~BitOut /\ ~BitsIn /\ ~LastAnswered /\ ~AllTaken
  BY <1>1 DEF BitDue, ByteDue, BitOut, BitsIn, LastAnswered, AllTaken
<1> QED BY <1>1, <1>2, <1>3 DEF InStep, Astray

LEMMA StoppingBits ==
  ASSUME (InStep /\ Accounted) \/ Astray, state = "STOP"
  PROVE  \/ LastAnswered /\ Accounted
         \/ AllTaken /\ Accounted
         \/ /\ Ending \/ Lowered \/ Raised
            /\ presses > 0
            /\ target.in_frame /\ ~target.pull_low /\ target.byte_index = 3 /\ ack_err_o
<1>1. ~AtRest /\ ~Setting /\ ~Sampling /\ ~Asking /\ ~Hearing /\ ~Over /\ ~Past
  BY DEF AtRest, Setting, Sampling, Asking, Hearing, Over, Past
<1>3. ~BitDue /\ ~ByteDue /\ ~BitOut /\ ~BitsIn /\ ~AnswerOut
  BY <1>1 DEF BitDue, ByteDue, BitOut, BitsIn, AnswerOut
<1> QED BY <1>1, <1>3 DEF InStep, Astray

LEMMA OverBits ==
  ASSUME (InStep /\ Accounted) \/ Astray, state = "DONE"
  PROVE  /\ ~sda_oe /\ ~scl_oe /\ ~target.in_frame /\ ~target.pull_low
         /\ Accounted \/ (presses > 0 /\ ack_err_o)
<1>1. ~AtRest /\ ~Setting /\ ~Sampling /\ ~Asking /\ ~Hearing /\ ~Ending /\ ~Lowered /\ ~Raised
  BY DEF AtRest, Setting, Sampling, Asking, Hearing, Ending, Lowered, Raised
<1>3. ~BitDue /\ ~ByteDue /\ ~BitOut /\ ~BitsIn /\ ~AnswerOut /\ ~LastAnswered /\ ~AllTaken
  BY <1>1 DEF BitDue, ByteDue, BitOut, BitsIn, AnswerOut, LastAnswered, AllTaken
<1> QED BY <1>1, <1>3 DEF InStep, Astray, Over

LEMMA BitSetupKeeps ==
  ASSUME NEW ack, Ticking(ack), Ctl!BitSetup(Cfg!request)
  PROVE  ((InStep /\ Accounted) \/ Astray)' /\ scl_oe'
<1>1. /\ state = "SEND_BYTE" /\ phase = 0 /\ scl_oe' = TRUE /\ phase' = 1
      /\ state' = state /\ byte_idx' = byte_idx /\ bit_cnt' = bit_cnt /\ ack_err_o' = ack_err_o
      /\ sda_oe' = (Ctl!BitOf(Ctl!tx_byte(Cfg!request), bit_cnt) = 0)
  BY DEF Ctl!BitSetup, Ctl!Drive
<1>2. /\ Setting
      /\ \/ (BitDue \/ ByteDue) /\ Accounted
         \/ presses > 0 /\ Ahead(7 - bit_cnt)
         \/ /\ presses > 0 /\ bit_cnt = 7 /\ target.in_frame /\ target.bitpos = 9
            /\ byte_idx <= target.byte_index /\ target.byte_index < 3
  BY <1>1, AtATick, SettingBits
<1>3. ~scl_oe /\ byte_idx \in 0..2 /\ bit_cnt \in 0..7 /\ sda_oe' \in BOOLEAN /\ target \in Targets
  BY <1>1, <1>2, AtATick DEF Setting
<1>4. /\ history' = history /\ target'.in_frame = target.in_frame
      /\ (~target.in_frame \/ target.byte_index = 3 => target' = target)
      /\ (target.in_frame /\ target.byte_index < 3 /\ target.bitpos = 9 =>
              /\ target'.pull_low = FALSE /\ target'.buf = 0 /\ target'.bitpos = 0
              /\ target'.byte_index = target.byte_index + 1
              /\ target'.rx_bytes = [target.rx_bytes EXCEPT ![target.byte_index + 1] = target.buf])
      /\ (target.in_frame /\ target.byte_index < 3 /\ target.bitpos < 8 => target' = target)
      /\ (~(target.in_frame /\ target.byte_index < 3 /\ target.bitpos = 8) => refused' = refused)
  BY <1>1, <1>3, FallAtATick
<1>5. Sampling' /\ Past' = Past /\ ~Hearing' /\ ~Hearing
  BY <1>1, <1>3 DEF Sampling, Past, Hearing
<1>6. target.byte_index \in 0..3 /\ target.bitpos \in 0..9 /\ target.rx_bytes \in [1..3 -> Octet]
  BY <1>3 DEF Targets
<1>7. \A j \in 0..2 : ByteOf(j)' = ByteOf(j) /\ ByteOf(j) \in Octet
  BY BytesStay, RequestOfBytes DEF Ticking, IInv
<1>8. sda_oe' = (Ctl!BitOf(ByteOf(byte_idx), bit_cnt) = 0)
  BY <1>1, <1>3, RequestOfBytes DEF Ticking, IInv
<1>9. ByteOf(byte_idx)' = ByteOf(byte_idx)
  BY <1>1, AtATick DEF ByteOf
<1>10. (sda_oe = (Ctl!BitOf(ByteOf(byte_idx), bit_cnt) = 0))'
  BY <1>1, <1>8, <1>9 DEF Ctl!BitOf
<1>11. CASE BitDue /\ Accounted
  <2>1. target' = target /\ refused' = refused
    <3>1. target.in_frame /\ target.byte_index < 3 /\ target.bitpos < 8
      BY <1>3, <1>11 DEF BitDue
    <3> QED BY <1>4, <1>6, <3>1
  <2>2. LeadingBits(bit_cnt + 1)'
    BY <1>1, <1>9, <1>11, <2>1 DEF BitDue, LeadingBits
  <2>3. Taken(byte_idx)'
    BY <1>1, <1>7, <1>11, <2>1 DEF BitDue, Taken
  <2>4. BitOut'
    BY <1>1, <1>5, <1>10, <1>11, <2>1, <2>2, <2>3 DEF BitOut, BitDue
  <2>5. refused' = (ack_err_o' \/ (Hearing' /\ ~target'.pull_low))
    BY <1>1, <1>5, <1>11, <2>1 DEF Accounted
  <2>6. Accounted'
    BY <1>4, <1>5, <1>11, <2>5, AccountedStays, AtATick
  <2> QED BY <1>1, <2>4, <2>6 DEF InStep
<1>12. CASE ByteDue /\ Accounted
  <2>1. target.in_frame /\ target.byte_index < 3 /\ target.bitpos = 9 /\ bit_cnt = 7
        /\ byte_idx \in 1..2 /\ target.byte_index = byte_idx - 1
    BY <1>3, <1>12 DEF ByteDue
  <2>2. /\ ~target'.pull_low /\ target'.buf = 0 /\ target'.bitpos = 0
        /\ target'.byte_index = byte_idx /\ refused' = refused
        /\ target'.rx_bytes = [target.rx_bytes EXCEPT ![byte_idx] = target.buf]
    BY <1>4, <2>1
  <2>3. LeadingBits(bit_cnt + 1)'
    <3>1. ByteOf(byte_idx) \div 2^8 = 0
      BY <1>3, <1>7, WholeByte
    <3>2. bit_cnt' + 1 = 8
      BY <1>1, <2>1
    <3> QED BY <1>9, <2>2, <3>1, <3>2 DEF LeadingBits
  <2>4. Taken(byte_idx)'
    <3>1. \A j \in 0..2 : j < byte_idx - 1 => target.rx_bytes[j + 1] = ByteOf(j)
      BY <1>12 DEF ByteDue, Taken
    <3>2. \A j \in 0..2 : j < byte_idx => target'.rx_bytes[j + 1] = ByteOf(j)
      <4> SUFFICES ASSUME NEW j \in 0..2, j < byte_idx
                   PROVE  target'.rx_bytes[j + 1] = ByteOf(j)
        OBVIOUS
      <4>1. CASE j = byte_idx - 1
        BY <1>6, <1>12, <2>1, <2>2, <4>1 DEF ByteDue
      <4>2. CASE j # byte_idx - 1
        BY <1>6, <2>1, <2>2, <3>1, <4>2
      <4> QED BY <4>1, <4>2
    <3> QED BY <1>1, <1>7, <3>2 DEF Taken
  <2>5. BitOut'
    BY <1>1, <1>4, <1>5, <1>10, <2>1, <2>2, <2>3, <2>4 DEF BitOut
  <2>6. refused' = (ack_err_o' \/ (Hearing' /\ ~target'.pull_low))
    BY <1>1, <1>5, <1>12, <2>2 DEF Accounted
  <2>7. Accounted'
    BY <1>4, <1>5, <1>12, <2>6, AccountedStays, AtATick
  <2> QED BY <1>1, <2>5, <2>7 DEF InStep
<1>13. CASE presses > 0 /\ Ahead(7 - bit_cnt)
  <2>1. target' = target
    BY <1>3, <1>4, <1>6, <1>13 DEF Ahead
  <2>2. Ahead(7 - bit_cnt)'
    BY <1>1, <1>13, <2>1 DEF Ahead
  <2> QED BY <1>1, <1>5, <1>13, <2>2, AtATick DEF Astray
<1>14. CASE /\ presses > 0 /\ bit_cnt = 7 /\ target.in_frame /\ target.bitpos = 9
            /\ byte_idx <= target.byte_index /\ target.byte_index < 3
  <2>1. Ahead(7 - bit_cnt)'
    BY <1>1, <1>3, <1>4, <1>6, <1>14 DEF Ahead
  <2> QED BY <1>1, <1>5, <1>14, <2>1, AtATick DEF Astray
<1> QED BY <1>2, <1>11, <1>12, <1>13, <1>14

LEMMA BitSampleKeeps ==
  ASSUME NEW ack, Ticking(ack), Ctl!BitSample
  PROVE  ((InStep /\ Accounted) \/ Astray)' /\ prev_sda' = Tgt!sda_line(sda_oe)'
<1>1. /\ state = "SEND_BYTE" /\ phase = 1 /\ scl_oe' = FALSE /\ sda_oe' = sda_oe /\ phase' = 0
      /\ byte_idx' = byte_idx /\ ack_err_o' = ack_err_o
      /\ \/ bit_cnt = 0 /\ state' = "ACK"
         \/ bit_cnt # 0 /\ state' = "SEND_BYTE" /\ bit_cnt' = bit_cnt - 1
  BY DEF Ctl!BitSample, Ctl!Drive
<1>2. /\ Sampling
      /\ (BitOut /\ Accounted) \/ (presses > 0 /\ Ahead(7 - bit_cnt))
  BY <1>1, AtATick, SamplingBits
<1>3. scl_oe /\ byte_idx \in 0..2 /\ bit_cnt \in 0..7 /\ sda_oe \in BOOLEAN /\ target \in Targets
  BY <1>2, AtATick DEF Sampling
<1>4. /\ history' = history /\ refused' = refused
      /\ prev_sda' = Tgt!sda_line(sda_oe)'
      /\ target'.in_frame = target.in_frame
      /\ target'.pull_low = target.pull_low
      /\ target'.byte_index = target.byte_index /\ target'.rx_bytes = target.rx_bytes
      /\ (target.in_frame /\ target.byte_index < 3 /\ target.bitpos < 8 =>
              /\ target'.bitpos = target.bitpos + 1
              /\ target'.buf = (2 * target.buf + (IF Sda(sda_oe) THEN 1 ELSE 0)) % 256)
  BY <1>1, <1>3, RiseAtATick
<1>5. /\ Past' = Past /\ ~Hearing' /\ ~Hearing
      /\ \/ bit_cnt = 0 /\ Asking'
         \/ bit_cnt # 0 /\ Setting' /\ bit_cnt' = bit_cnt - 1
  BY <1>1, <1>3 DEF Setting, Asking, Past, Hearing
<1>6. target.byte_index \in 0..3 /\ target.bitpos \in 0..9
  BY <1>3 DEF Targets
<1>7. ByteOf(byte_idx)' = ByteOf(byte_idx)
  BY <1>1, AtATick DEF ByteOf
<1>8. \A j \in 0..2 : ByteOf(j)' = ByteOf(j) /\ ByteOf(j) \in Octet
  BY BytesStay, RequestOfBytes DEF Ticking, IInv
<1>9. CASE BitOut /\ Accounted
  <2>1. /\ target.in_frame /\ ~target.pull_low /\ target.byte_index = byte_idx
        /\ target.bitpos = 7 - bit_cnt
        /\ target.buf = ByteOf(byte_idx) \div 2^(bit_cnt + 1)
        /\ Taken(byte_idx)
        /\ sda_oe = (Ctl!BitOf(ByteOf(byte_idx), bit_cnt) = 0)
    BY <1>9 DEF BitOut, LeadingBits
  <2>2. /\ target'.bitpos = 8 - bit_cnt
        /\ target'.buf = (2 * target.buf + (IF Sda(sda_oe) THEN 1 ELSE 0)) % 256
    BY <1>3, <1>4, <2>1
  <2>3. (IF Sda(sda_oe) THEN 1 ELSE 0) = Ctl!BitOf(ByteOf(byte_idx), bit_cnt)
    <3>1. Ctl!BitOf(ByteOf(byte_idx), bit_cnt) \in {0, 1}
      BY <1>3, <1>8, NextBit
    <3>2. Sda(sda_oe) = ~sda_oe
      BY <2>1 DEF Sda, Tgt!sda_line
    <3> QED BY <2>1, <3>1, <3>2
  <2>4. target'.buf = ByteOf(byte_idx) \div 2^bit_cnt
    <3>1. (2 * (ByteOf(byte_idx) \div 2^(bit_cnt + 1)) + Ctl!BitOf(ByteOf(byte_idx), bit_cnt)) % 256
            = ByteOf(byte_idx) \div 2^bit_cnt
      BY <1>3, <1>8, NextBit
    <3> QED BY <2>1, <2>2, <2>3, <3>1
  <2>5. Taken(byte_idx)'
    BY <1>1, <1>4, <1>8, <2>1 DEF Taken
  <2>6. refused' = (ack_err_o' \/ (Hearing' /\ ~target'.pull_low))
    BY <1>1, <1>4, <1>5, <1>9 DEF Accounted
  <2>7. Accounted'
    BY <1>4, <1>5, <1>9, <2>6, AccountedStays, AtATick
  <2>8. CASE bit_cnt = 0
    <3>1. LeadingBits(0)'
      BY <1>7, <2>4, <2>8 DEF LeadingBits
    <3>2. target'.bitpos = 8
      BY <2>2, <2>8
    <3>3. BitsIn'
      BY <1>1, <1>4, <1>5, <2>1, <2>5, <2>8, <3>1, <3>2 DEF BitsIn
    <3> QED BY <1>4, <2>7, <3>3 DEF InStep
  <2>9. CASE bit_cnt # 0
    <3>1. bit_cnt' + 1 = bit_cnt /\ target'.bitpos = 7 - bit_cnt'
      BY <1>3, <1>5, <2>2, <2>9
    <3>2. LeadingBits(bit_cnt + 1)'
      BY <1>7, <2>4, <3>1 DEF LeadingBits
    <3>3. BitDue'
      BY <1>1, <1>4, <1>5, <2>1, <2>5, <2>9, <3>1, <3>2 DEF BitDue
    <3> QED BY <1>4, <2>7, <3>3 DEF InStep
  <2> QED BY <2>8, <2>9
<1>10. CASE presses > 0 /\ Ahead(7 - bit_cnt)
  <2>1. /\ target'.in_frame /\ ~target'.pull_low /\ byte_idx' < target'.byte_index
        /\ target'.byte_index < 3 => target'.bitpos = 8 - bit_cnt
    BY <1>1, <1>3, <1>4, <1>6, <1>10 DEF Ahead
  <2>2. CASE bit_cnt = 0
    <3>1. Ahead(8)'
      BY <2>1, <2>2 DEF Ahead
    <3> QED BY <1>4, <1>5, <1>10, <2>2, <3>1, AtATick DEF Astray
  <2>3. CASE bit_cnt # 0
    <3>1. Ahead(7 - bit_cnt)'
      BY <1>3, <1>5, <2>1, <2>3 DEF Ahead
    <3> QED BY <1>4, <1>5, <1>10, <2>3, <3>1, AtATick DEF Astray
  <2> QED BY <2>2, <2>3
<1> QED BY <1>2, <1>9, <1>10

LEMMA AckSetupKeeps ==
  ASSUME NEW ack, Ticking(ack), Ctl!AckSetup
  PROVE  ((InStep /\ Accounted) \/ Astray)' /\ scl_oe'
<1>1. /\ state = "ACK" /\ phase = 0 /\ scl_oe' = TRUE /\ sda_oe' = FALSE /\ phase' = 1
      /\ state' = state /\ byte_idx' = byte_idx /\ ack_err_o' = ack_err_o
  BY DEF Ctl!AckSetup, Ctl!Drive
<1>2. /\ Asking
      /\ (BitsIn /\ Accounted) \/ (presses > 0 /\ Ahead(8))
  BY <1>1, AtATick, AskingBits
<1>3. ~scl_oe /\ byte_idx \in 0..2 /\ sda_oe' \in BOOLEAN /\ target \in Targets /\ ack \in BOOLEAN
  BY <1>1, <1>2, AtATick DEF Asking
<1>4. /\ history' = history /\ target'.in_frame = target.in_frame
      /\ (~target.in_frame \/ target.byte_index = 3 => target' = target)
      /\ (target.in_frame /\ target.byte_index < 3 /\ target.bitpos = 8 =>
              /\ target'.pull_low = ack /\ target'.buf = target.buf /\ target'.bitpos = 8
              /\ target'.byte_index = target.byte_index /\ target'.rx_bytes = target.rx_bytes)
  BY <1>1, <1>3, FallAtATick
<1>5. Hearing' /\ Past' = Past /\ ~Hearing
  BY <1>1, <1>3 DEF Past, Hearing
<1>6. target.byte_index \in 0..3
  BY <1>3 DEF Targets
<1>7. ByteOf(byte_idx)' = ByteOf(byte_idx)
  BY <1>1, AtATick DEF ByteOf
<1>8. \A j \in 0..2 : ByteOf(j)' = ByteOf(j)
  BY BytesStay
<1>9. CASE BitsIn /\ Accounted
  <2>1. target.in_frame /\ target.byte_index < 3 /\ target.bitpos = 8
        /\ target.byte_index = byte_idx
    BY <1>3, <1>9 DEF BitsIn
  <2>2. /\ target'.pull_low = ack /\ target'.buf = target.buf /\ target'.bitpos = 8
        /\ target'.byte_index = byte_idx /\ target'.rx_bytes = target.rx_bytes
    BY <1>4, <2>1
  <2>3. LeadingBits(0)'
    BY <1>7, <1>9, <2>2 DEF BitsIn, LeadingBits
  <2>4. Taken(byte_idx)'
    BY <1>1, <1>8, <1>9, <2>2 DEF BitsIn, Taken
  <2>5. AnswerOut'
    BY <1>1, <1>4, <1>5, <2>1, <2>2, <2>3, <2>4 DEF AnswerOut
  <2>6. refused' = (refused \/ ~ack)
    <3>1. refused' = (refused \/ Tgt!Refuses(scl_oe', ack)) /\ prev_scl
      BY <1>3, AtATick DEF Ticking, Looks
    <3>2. Tgt!Refuses(scl_oe', ack) = ~ack
      BY <1>1, <2>1, <3>1 DEF Tgt!Refuses, Tgt!N_BYTES
    <3> QED BY <3>1, <3>2
  <2>7. refused' = (ack_err_o' \/ (Hearing' /\ ~target'.pull_low))
    <3>1. refused = ack_err_o
      BY <1>5, <1>9 DEF Accounted, Ticking, IInv, DutOK
    <3> QED BY <1>1, <1>5, <2>2, <2>6, <3>1
  <2>8. Accounted'
    BY <1>4, <1>5, <1>9, <2>7, AccountedStays, AtATick
  <2> QED BY <1>1, <2>5, <2>8 DEF InStep
<1>10. CASE presses > 0 /\ Ahead(8)
  <2>1. /\ target'.in_frame /\ byte_idx' < target'.byte_index
        /\ IF target'.byte_index < 3 THEN target'.bitpos = 8 ELSE ~target'.pull_low
    BY <1>1, <1>4, <1>6, <1>10 DEF Ahead
  <2> QED BY <1>1, <1>5, <1>10, <2>1, AtATick DEF Astray
<1> QED BY <1>2, <1>9, <1>10

LEMMA DoneKeeps ==
  ASSUME NEW ack, Ticking(ack), Ctl!DoneArm
  PROVE  ((InStep /\ Accounted) \/ Astray)' /\ prev_sda' = Tgt!sda_line(sda_oe)'
<1>1. /\ state = "DONE" /\ state' = "IDLE" /\ sda_oe' = sda_oe /\ scl_oe' = scl_oe
      /\ ack_err_o' = ack_err_o
  BY DEF Ctl!DoneArm
<1>2. /\ ~sda_oe /\ ~scl_oe /\ ~target.in_frame /\ ~target.pull_low
      /\ Accounted \/ (presses > 0 /\ ack_err_o)
  BY <1>1, AtATick, OverBits
<1>3. target' = target /\ history' = history
  BY <1>1, <1>2, AtATick, LookStill
<1>4. prev_sda' = Sda(sda_oe')
  BY AtATick, LookPrev
<1>5. prev_sda' = Tgt!sda_line(sda_oe)'
  BY <1>1, <1>3, <1>4 DEF Sda, Tgt!sda_line
<1>6. Past' = Past /\ Past' /\ ~Hearing' /\ ~Hearing /\ AtRest'
  BY <1>1, <1>2, AtATick DEF Past, Hearing, AtRest
<1>7. refused' = refused
  BY <1>1, NothingRefused DEF Ticking, IInv
<1>8. CASE Accounted
  <2>1. refused' = (ack_err_o' \/ (Hearing' /\ ~target'.pull_low))
    BY <1>1, <1>6, <1>7, <1>8 DEF Accounted
  <2>2. Accounted'
    BY <1>3, <1>6, <1>8, <2>1, AccountedStays, AtATick
  <2> QED BY <1>2, <1>3, <1>5, <1>6, <2>2 DEF InStep
<1>9. CASE presses > 0 /\ ack_err_o
  BY <1>1, <1>2, <1>3, <1>5, <1>6, <1>9, AtATick DEF Astray
<1> QED BY <1>2, <1>8, <1>9

LEMMA AckSampleKeeps ==
  ASSUME NEW ack, Ticking(ack), Ctl!AckSample(Tgt!sda_line(sda_oe))
  PROVE  ((InStep /\ Accounted) \/ Astray)' /\ prev_sda' = Tgt!sda_line(sda_oe)'
<1>1. /\ state = "ACK" /\ phase = 1 /\ scl_oe' = FALSE /\ sda_oe' = sda_oe /\ phase' = 0
      /\ ack_err_o' = (ack_err_o \/ Tgt!sda_line(sda_oe))
      /\ byte_idx' = (byte_idx + 1) % 4
      /\ \/ byte_idx = 2 /\ state' = "STOP" /\ bit_cnt' = 2
         \/ byte_idx # 2 /\ state' = "SEND_BYTE" /\ bit_cnt' = 7
  BY DEF Ctl!AckSample, Ctl!Drive
<1>2. /\ Hearing
      /\ \/ AnswerOut /\ Accounted
         \/ /\ presses > 0 /\ target.in_frame /\ byte_idx < target.byte_index
            /\ IF target.byte_index < 3 THEN target.bitpos = 8 ELSE ~target.pull_low
  BY <1>1, AtATick, HearingBits
<1>3. scl_oe /\ ~sda_oe /\ byte_idx \in 0..2 /\ sda_oe' = FALSE /\ target \in Targets
  BY <1>1, <1>2, AtATick DEF Hearing
<1>4. /\ history' = history /\ refused' = refused
      /\ prev_sda' = Tgt!sda_line(sda_oe)'
      /\ target'.in_frame = target.in_frame
      /\ target'.pull_low = target.pull_low
      /\ target'.byte_index = target.byte_index /\ target'.rx_bytes = target.rx_bytes
      /\ (~target.in_frame \/ target.byte_index = 3 => target' = target)
      /\ (target.in_frame /\ target.byte_index < 3 /\ target.bitpos >= 8 =>
              target'.bitpos = 9 /\ target'.buf = target.buf)
  BY <1>1, <1>3, RiseAtATick
<1>5. byte_idx' = byte_idx + 1 /\ Tgt!sda_line(sda_oe) = ~target.pull_low
  BY <1>1, <1>3 DEF Tgt!sda_line
<1>6. /\ Past' = Past /\ ~Hearing'
      /\ \/ byte_idx = 2 /\ Ending'
         \/ byte_idx \in 0..1 /\ Setting' /\ bit_cnt' = 7
  BY <1>1, <1>3, <1>5 DEF Setting, Ending, Past, Hearing
<1>7. target.byte_index \in 0..3 /\ target.bitpos \in 0..9 /\ target.pull_low \in BOOLEAN
  BY <1>3 DEF Targets
<1>8. \A j \in 0..2 : ByteOf(j)' = ByteOf(j) /\ ByteOf(j) \in Octet
  BY BytesStay, RequestOfBytes DEF Ticking, IInv
<1>9. CASE AnswerOut /\ Accounted
  <2>1. /\ target.in_frame /\ target.byte_index = byte_idx /\ target.bitpos = 8
        /\ target.buf = ByteOf(byte_idx) \div 2^0 /\ Taken(byte_idx)
    BY <1>9 DEF AnswerOut, LeadingBits
  <2>2. target'.bitpos = 9 /\ target'.buf = ByteOf(byte_idx) /\ target'.byte_index = byte_idx
    <3>1. ByteOf(byte_idx) \div 2^0 = ByteOf(byte_idx)
      BY <1>3, <1>8, WholeByte
    <3> QED BY <1>3, <1>4, <2>1, <3>1
  <2>3. \A j \in 0..2 : j < byte_idx => target'.rx_bytes[j + 1] = ByteOf(j)'
    BY <1>4, <1>8, <2>1 DEF Taken
  <2>4. refused' = (ack_err_o' \/ (Hearing' /\ ~target'.pull_low))
    <3>1. refused = (ack_err_o \/ ~target.pull_low)
      BY <1>2, <1>9 DEF Accounted
    <3> QED BY <1>1, <1>4, <1>5, <1>6, <3>1
  <2>5. Accounted'
    BY <1>4, <1>6, <1>9, <2>4, AccountedStays, AtATick
  <2>6. CASE byte_idx = 2
    <3>1. Taken(2)'
      BY <2>3, <2>6 DEF Taken
    <3>2. target'.buf = ByteOf(2)'
      BY <1>8, <2>2, <2>6
    <3>3. LastAnswered'
      BY <1>4, <1>6, <2>1, <2>2, <2>6, <3>1, <3>2 DEF LastAnswered
    <3> QED BY <1>4, <2>5, <3>3 DEF InStep
  <2>7. CASE byte_idx \in 0..1
    <3>1. byte_idx' - 1 = byte_idx /\ byte_idx' # 0
      BY <1>5, <2>7
    <3>2. Taken(byte_idx - 1)'
      BY <2>3, <3>1 DEF Taken
    <3>3. target'.buf = ByteOf(byte_idx - 1)'
      BY <2>2, <3>1, AtATick DEF ByteOf
    <3>4. ByteDue'
      BY <1>3, <1>4, <1>6, <2>1, <2>2, <2>7, <3>1, <3>2, <3>3 DEF ByteDue
    <3> QED BY <1>4, <2>5, <3>4 DEF InStep
  <2> QED BY <1>3, <2>6, <2>7
<1>10. CASE /\ presses > 0 /\ target.in_frame /\ byte_idx < target.byte_index
            /\ IF target.byte_index < 3 THEN target.bitpos = 8 ELSE ~target.pull_low
  <2>1. CASE target.byte_index < 3
    <3>1. target'.bitpos = 9 /\ byte_idx' <= target'.byte_index /\ target'.byte_index < 3
      BY <1>3, <1>4, <1>5, <1>7, <1>10, <2>1
    <3>2. Setting' /\ bit_cnt' = 7
      BY <1>3, <1>6, <1>7, <1>10, <2>1
    <3> QED BY <1>4, <1>10, <3>1, <3>2, AtATick DEF Astray
  <2>2. CASE target.byte_index = 3
    <3>1. /\ target' = target /\ ~target.pull_low /\ ack_err_o'
      <4>1. ~(target.byte_index < 3)
        BY <2>2
      <4>2. ~target.pull_low
        BY <1>10, <4>1
      <4>3. target' = target
        BY <1>4, <2>2
      <4>4. ack_err_o'
        BY <1>1, <1>5, <4>2
      <4> QED BY <4>2, <4>3, <4>4
    <3>2. CASE byte_idx = 2
      BY <1>4, <1>6, <1>10, <2>2, <3>1, <3>2, AtATick DEF Astray
    <3>3. CASE byte_idx \in 0..1
      <4>1. Ahead(7 - bit_cnt)'
        BY <1>5, <1>10, <2>2, <3>1, <3>3 DEF Ahead
      <4> QED BY <1>4, <1>6, <1>10, <3>3, <4>1, AtATick DEF Astray
    <3> QED BY <1>3, <3>2, <3>3
  <2> QED BY <1>7, <2>1, <2>2
<1> QED BY <1>2, <1>9, <1>10

LEMMA StopKeeps ==
  ASSUME NEW ack, Ticking(ack), Ctl!StopArm
  PROVE  /\ ((InStep /\ Accounted) \/ Astray)'
         /\ scl_oe' \/ prev_sda' = Tgt!sda_line(sda_oe)'
<1>1. /\ state = "STOP" /\ byte_idx' = byte_idx /\ phase' = phase /\ ack_err_o' = ack_err_o
      /\ \/ /\ bit_cnt = 2 /\ sda_oe' = TRUE /\ scl_oe' = TRUE /\ bit_cnt' = 1 /\ state' = "STOP"
         \/ /\ bit_cnt = 1 /\ sda_oe' = TRUE /\ scl_oe' = FALSE /\ bit_cnt' = 0 /\ state' = "STOP"
         \/ /\ bit_cnt \notin {1, 2} /\ sda_oe' = FALSE /\ scl_oe' = FALSE /\ state' = "DONE"
  BY DEF Ctl!StopArm, Ctl!Drive
<1>2. \/ LastAnswered /\ Accounted
      \/ AllTaken /\ Accounted
      \/ /\ Ending \/ Lowered \/ Raised
         /\ presses > 0
         /\ target.in_frame /\ ~target.pull_low /\ target.byte_index = 3 /\ ack_err_o
  BY <1>1, AtATick, StoppingBits
<1>3. /\ target \in Targets /\ ack \in BOOLEAN /\ ~Past /\ ~Hearing /\ ~Hearing'
  BY <1>1, AtATick DEF Past, Hearing
<1>4. target.rx_bytes \in [1..3 -> Octet]
  BY <1>3 DEF Targets
<1>5. \A j \in 0..2 : ByteOf(j)' = ByteOf(j) /\ ByteOf(j) \in Octet
  BY BytesStay, RequestOfBytes DEF Ticking, IInv
<1>6. CASE bit_cnt = 2
  <2>1. /\ sda_oe' = TRUE /\ scl_oe' = TRUE /\ bit_cnt' = 1 /\ state' = "STOP"
        /\ sda_oe' \in BOOLEAN
    BY <1>1, <1>6
  <2>2. Lowered' /\ Past' = Past
    BY <1>1, <2>1 DEF Lowered, Past
  <2>3. ~Lowered /\ ~Raised /\ ~AllTaken
    BY <1>6 DEF Lowered, Raised, AllTaken
  <2>4. ~scl_oe
    BY <1>2, <2>3 DEF LastAnswered, Ending
  <2>5. /\ history' = history /\ target'.in_frame = target.in_frame
        /\ (~target.in_frame \/ target.byte_index = 3 => target' = target)
        /\ (target.in_frame /\ target.byte_index < 3 /\ target.bitpos = 9 =>
              /\ target'.pull_low = FALSE /\ target'.buf = 0 /\ target'.bitpos = 0
              /\ target'.byte_index = target.byte_index + 1
              /\ target'.rx_bytes = [target.rx_bytes EXCEPT ![target.byte_index + 1] = target.buf])
        /\ (~(target.in_frame /\ target.byte_index < 3 /\ target.bitpos = 8) =>
              refused' = refused)
    BY <2>1, <2>4, FallAtATick
  <2>6. CASE LastAnswered /\ Accounted
    <3>1. target.in_frame /\ target.byte_index = 2 /\ target.bitpos = 9
          /\ target.buf = ByteOf(2) /\ Taken(2)
      BY <2>6 DEF LastAnswered
    <3>2. /\ ~target'.pull_low /\ target'.byte_index = 3 /\ refused' = refused
          /\ target'.rx_bytes = [target.rx_bytes EXCEPT ![3] = ByteOf(2)]
      BY <2>5, <3>1
    <3>3. Taken(3)'
      <4>1. \A j \in 0..2 : j < 2 => target.rx_bytes[j + 1] = ByteOf(j)
        BY <3>1 DEF Taken
      <4>2. \A j \in 0..2 : target'.rx_bytes[j + 1] = ByteOf(j)
        <5> SUFFICES ASSUME NEW j \in 0..2 PROVE target'.rx_bytes[j + 1] = ByteOf(j)
          OBVIOUS
        <5>1. CASE j = 2
          BY <1>4, <3>2, <5>1
        <5>2. CASE j # 2
          BY <1>4, <3>2, <4>1, <5>2
        <5> QED BY <5>1, <5>2
      <4> QED BY <1>5, <4>2 DEF Taken
    <3>4. AllTaken'
      BY <2>2, <2>5, <3>1, <3>2, <3>3 DEF AllTaken
    <3>5. refused' = (ack_err_o' \/ (Hearing' /\ ~target'.pull_low))
      BY <1>1, <1>3, <2>6, <3>2 DEF Accounted
    <3>6. Accounted'
      BY <2>2, <2>5, <2>6, <3>5, AccountedStays, AtATick
    <3> QED BY <2>1, <3>4, <3>6 DEF InStep
  <2>7. CASE /\ presses > 0
             /\ target.in_frame /\ ~target.pull_low /\ target.byte_index = 3 /\ ack_err_o
    BY <1>1, <2>1, <2>2, <2>5, <2>7, AtATick DEF Astray
  <2> QED BY <1>2, <2>3, <2>6, <2>7
<1>7. CASE bit_cnt = 1
  <2>1. /\ sda_oe' = TRUE /\ scl_oe' = FALSE /\ bit_cnt' = 0 /\ state' = "STOP"
    BY <1>1, <1>7
  <2>2. Raised' /\ Past' = Past
    BY <1>1, <2>1 DEF Raised, Past
  <2>3. ~Ending /\ ~Raised /\ ~LastAnswered
    BY <1>7 DEF Ending, Raised, LastAnswered
  <2>4. Lowered
    BY <1>2, <2>3 DEF AllTaken
  <2>5. scl_oe /\ sda_oe' = sda_oe
    BY <2>1, <2>4, AtATick DEF Lowered
  <2>6. target.in_frame /\ ~target.pull_low /\ target.byte_index = 3
    BY <1>2, <2>3 DEF AllTaken
  <2>7. /\ history' = history /\ refused' = refused /\ target' = target
        /\ prev_sda' = Tgt!sda_line(sda_oe)'
    BY <2>1, <2>5, <2>6, RiseAtATick
  <2>8. CASE AllTaken /\ Accounted
    <3>1. Taken(3)'
      BY <1>5, <2>7, <2>8 DEF AllTaken, Taken
    <3>2. AllTaken'
      BY <2>2, <2>6, <2>7, <3>1 DEF AllTaken
    <3>3. refused' = (ack_err_o' \/ (Hearing' /\ ~target'.pull_low))
      BY <1>1, <1>3, <2>7, <2>8 DEF Accounted
    <3>4. Accounted'
      BY <2>2, <2>7, <2>8, <3>3, AccountedStays, AtATick
    <3> QED BY <2>7, <3>2, <3>4 DEF InStep
  <2>9. CASE presses > 0 /\ ack_err_o
    BY <1>1, <2>2, <2>6, <2>7, <2>9, AtATick DEF Astray
  <2> QED BY <1>2, <2>3, <2>8, <2>9
<1>8. CASE bit_cnt \notin {1, 2}
  <2>1. sda_oe' = FALSE /\ scl_oe' = FALSE /\ state' = "DONE"
    BY <1>1, <1>8
  <2>2. Past' /\ Over'
    BY <2>1 DEF Past, Over
  <2>3. ~Ending /\ ~Lowered /\ ~LastAnswered
    BY <1>8 DEF Ending, Lowered, LastAnswered
  <2>4. Raised
    BY <1>2, <2>3 DEF AllTaken
  <2>5. target.in_frame /\ ~target.pull_low /\ target.byte_index = 3
    BY <1>2, <2>3 DEF AllTaken
  <2>6. prev_scl /\ prev_sda = FALSE /\ Tgt!Observe(FALSE, FALSE, ack)
    BY <2>1, <2>4, AtATick DEF Raised, Sda, Tgt!sda_line
  <2>7. Tgt!Recorded(target)
    BY <2>5 DEF Tgt!Recorded, Tgt!N_BYTES
  <2>8. target' = Tgt!on_stop(target) /\ history' = Append(history, target.rx_bytes)
    BY <1>3, <2>5, <2>6, <2>7, LookStop
  <2>9. ~target'.in_frame /\ ~target'.pull_low
    BY <1>3, <2>8, Stop
  <2>10. prev_sda' = Tgt!sda_line(sda_oe)'
    <3>1. prev_sda' = Sda(FALSE)
      BY <2>6, LookPrev
    <3> QED BY <2>1, <2>5, <2>9, <3>1 DEF Sda, Tgt!sda_line
  <2>11. CASE AllTaken /\ Accounted
    <3>1. InStep'
      BY <2>2, <2>9 DEF InStep
    <3>2. refused' = refused
      BY <2>1, NothingRefused DEF Ticking, IInv
    <3>3. refused' = (ack_err_o' \/ (Hearing' /\ ~target'.pull_low))
      BY <1>1, <1>3, <2>11, <3>2 DEF Accounted
    <3>4. /\ history \in Seq([1..3 -> Octet]) /\ rom_idx \in 0..NUM_REGS - 1
          /\ mark \in Nat /\ rom_idx' = rom_idx /\ mark' = mark
          /\ Len(history) = mark + rom_idx
          /\ \A i \in 1..NUM_REGS : mark + i <= Len(history) => history[mark + i] = Expected[i]
      BY <1>3, <2>11, AtATick DEF Accounted, Ticking, IInv, BusOK, DutOK
    <3>5. target.rx_bytes = Expected[rom_idx + 1]
      <4>1. target.rx_bytes = <<target.rx_bytes[1], target.rx_bytes[2], target.rx_bytes[3]>>
        BY <1>4
      <4>2. /\ target.rx_bytes[1] = ByteOf(0) /\ target.rx_bytes[2] = ByteOf(1)
            /\ target.rx_bytes[3] = ByteOf(2)
        <5>1. \A j \in 0..2 : j < 3 => target.rx_bytes[j + 1] = ByteOf(j)
          BY <2>11 DEF AllTaken, Taken
        <5>2. 0 + 1 = 1 /\ 1 + 1 = 2 /\ 2 + 1 = 3
          OBVIOUS
        <5> QED BY <5>1, <5>2
      <4> QED BY <4>1, <4>2, RequestOfBytes DEF Ticking, IInv
    <3>6. Len(history') = mark + rom_idx + 1
      BY <1>4, <2>8, <3>4
    <3>7. \A i \in 1..NUM_REGS : mark + i <= Len(history') => history'[mark + i] = Expected[i]
      <4> SUFFICES ASSUME NEW i \in 1..NUM_REGS, mark + i <= Len(history')
                   PROVE  history'[mark + i] = Expected[i]
        OBVIOUS
      <4>1. CASE i = rom_idx + 1
        <5>1. mark + i = Len(history) + 1
          BY <3>4, <4>1, Parameters
        <5>2. history'[Len(history) + 1] = target.rx_bytes
          BY <1>4, <2>8, <3>4
        <5> QED BY <3>5, <4>1, <5>1, <5>2
      <4>2. CASE i # rom_idx + 1
        <5>1. mark + i \in 1..Len(history)
          BY <3>4, <3>6, <4>2, Parameters
        <5>2. history'[mark + i] = history[mark + i]
          BY <1>4, <2>8, <3>4, <5>1
        <5>3. mark + i <= Len(history)
          BY <3>4, <5>1
        <5> QED BY <3>4, <5>2, <5>3
      <4> QED BY <4>1, <4>2
    <3>8. Len(history') = mark' + (IF Past' THEN rom_idx' + 1 ELSE rom_idx')
      BY <2>2, <3>4, <3>6, Parameters
    <3>9. Accounted'
      BY <3>3, <3>4, <3>7, <3>8 DEF Accounted, Expected
    <3> QED BY <2>10, <3>1, <3>9
  <2>12. CASE presses > 0 /\ ack_err_o
    <3>1. Astray'
      BY <1>1, <2>1, <2>2, <2>9, <2>12, AtATick DEF Astray
    <3> QED BY <2>10, <3>1
  <2> QED BY <1>2, <2>3, <2>11, <2>12
<1> QED BY <1>6, <1>7, <1>8

LEMMA TickingKeeps ==
  ASSUME NEW ack, Ticking(ack)
  PROVE  IInv'
<1>1. DutOK' /\ Handshake'
  BY TickingWalks DEF Ticking, IInv
<1>2. BusOK' /\ prev_sda' = Sda(sda_oe')
  <2>1. sda_oe' \in BOOLEAN /\ scl_oe' \in BOOLEAN
    BY <1>1 DEF DutOK
  <2> QED BY <2>1, LooksKeepBus DEF Ticking, IInv
<1>3. Ctl!FSM(Cfg!start_o, Cfg!request, Tgt!sda_line(sda_oe))
  BY DEF Ticking, Ticks
<1>4. /\ ((InStep /\ Accounted) \/ Astray)'
      /\ scl_oe' \/ prev_sda' = Tgt!sda_line(sda_oe)'
  <2>1. CASE Ctl!IdleArm(Cfg!start_o)
    BY <2>1, IdleKeeps
  <2>2. CASE Ctl!StartArm
    BY <2>2, StartKeeps
  <2>3. CASE Ctl!BitSetup(Cfg!request)
    BY <2>3, BitSetupKeeps
  <2>4. CASE Ctl!BitSample
    BY <2>4, BitSampleKeeps
  <2>5. CASE Ctl!AckSetup
    BY <2>5, AckSetupKeeps
  <2>6. CASE Ctl!AckSample(Tgt!sda_line(sda_oe))
    BY <2>6, AckSampleKeeps
  <2>7. CASE Ctl!StopArm
    BY <2>7, StopKeeps
  <2>8. CASE Ctl!DoneArm
    BY <2>8, DoneKeeps
  <2> QED BY <1>3, <2>1, <2>2, <2>3, <2>4, <2>5, <2>6, <2>7, <2>8 DEF Ctl!FSM
<1>5. SdaSeen'
  BY <1>4, AtATick DEF SdaSeen
<1>6. (presses = 0 => mark = 0)'
  BY AtATick DEF Ticking, IInv
<1> QED BY <1>1, <1>2, <1>4, <1>5, <1>6 DEF IInv

-----------------------------------------------------------------------------
(* The invariant.                                                          *)

LEMMA InitHolds == Init => IInv
<1> SUFFICES ASSUME Init PROVE IInv
  OBVIOUS
<1>1. DutOK /\ Handshake
  BY StartsWell
<1>2. /\ cfg_state = "START_TX" /\ rom_idx = 0 /\ count = 0 /\ state = "IDLE"
      /\ ~sda_oe /\ ~scl_oe /\ ack_err_o = FALSE
      /\ presses = 0 /\ mark = 0 /\ refused = FALSE
      /\ history = << >> /\ prev_sda = TRUE /\ prev_scl = TRUE
      /\ target = [in_frame |-> FALSE, pull_low |-> FALSE, buf |-> 0,
                   bitpos |-> 0, byte_index |-> 0, rx_bytes |-> <<0, 0, 0>>]
  BY DEF Init, Cfg!Init, Ctl!Init, Tgt!Init
<1>3. target \in Targets
  <2>1. <<0, 0, 0>> \in [1..3 -> Octet] /\ 0 \in Octet /\ 0 \in 0..9 /\ 0 \in 0..3
    BY DEF Octet
  <2> QED BY <1>2, <2>1 DEF Targets
<1>4. BusOK
  <2>1. /\ history \in Seq([1..3 -> Octet]) /\ Len(history) = 0 /\ 0 \in 0..0
        /\ presses \in 0..MaxPresses
    BY <1>2, Parameters
  <2> QED BY <1>2, <1>3, <2>1 DEF BusOK
<1>5. SdaSeen
  BY <1>2 DEF SdaSeen, Tgt!sda_line
<1>6. InStep /\ ~Past
  BY <1>2 DEF InStep, AtRest, Past
<1>7. Accounted
  <2>1. refused = (ack_err_o \/ (Hearing /\ ~target.pull_low))
    BY <1>2 DEF Hearing
  <2>2. Len(history) = mark + (IF Past THEN rom_idx + 1 ELSE rom_idx)
    BY <1>2, <1>6
  <2>3. \A i \in 1..NUM_REGS : ~(mark + i <= Len(history))
    BY <1>2, Parameters
  <2> QED BY <2>1, <2>2, <2>3 DEF Accounted
<1> QED BY <1>1, <1>2, <1>4, <1>5, <1>6, <1>7 DEF IInv

LEMMA StepHolds == IInv /\ [Next]_vars => IInv'
<1> SUFFICES ASSUME IInv, [Next]_vars PROVE IInv'
  OBVIOUS
<1>1. CASE PressKey0
  BY <1>1, PressKeeps
<1>2. CASE UNCHANGED <<dutVars, busVars, ghosts>>
  BY <1>2, SMTT(30)
     DEF IInv, DutOK, BusOK, Handshake, SdaSeen, InStep, Accounted, Astray, AtRest, Setting,
         Sampling, Asking, Hearing, Ending, Lowered, Raised, Over, BitDue, ByteDue, BitOut,
         BitsIn, AnswerOut, LastAnswered, AllTaken, Past, Ahead, Taken, LeadingBits, ByteOf,
         dutVars, busVars, ghosts, Cfg!request, Tgt!sda_line
<1>3. CASE \E ack \in BOOLEAN : Looks(ack) /\ UNCHANGED dutVars
  BY <1>3, ResetHolds
<1>4. CASE \E ack \in BOOLEAN : Looks(ack) /\ Walks /\ Waits
  BY <1>4, WaitingKeeps
<1>5. CASE \E ack \in BOOLEAN : Looks(ack) /\ Walks /\ Ticks
  BY <1>5, TickingKeeps DEF Ticking
<1> QED BY <1>1, <1>2, <1>3, <1>4, <1>5, WaysToStep

LEMMA Holds == Spec => []IInv
BY InitHolds, StepHolds, PTL DEF Spec

-----------------------------------------------------------------------------
(* What follows from it.                                                   *)

LEMMA HaltedIsIdle ==
  ASSUME IInv, Halted
  PROVE  state = "IDLE" /\ ~busy_o /\ Past
BY DEF IInv, Handshake, Halted, Cfg!done_o, Cfg!error_o, Past

(* The reset tree: the domain leaves reset when the counter is full, which *)
(* it is with the key up, and goes back only with the key; until it leaves *)
(* the registers are as the key or the configuration of the FPGA left them.*)
ResetInv ==
  /\ ~btn_n => rst_cnt = 0
  /\ d0 => rst_cnt = POR_CYCLES
  /\ d1 => d0
  /\ ~d1 => Released

LEMMA ResetKept == ResetInv /\ [Next]_vars => ResetInv'
<1> SUFFICES ASSUME ResetInv, [Next]_vars PROVE ResetInv'
  OBVIOUS
<1>1. CASE Clk
  <2>1. POR_CYCLES # 0
    BY PorAssumption DEF Rst!PorOK
  <2>2. /\ btn_n' = btn_n /\ d0' = (rst_cnt = POR_CYCLES) /\ d1' = (rst_cnt = POR_CYCLES /\ d0)
        /\ rst_cnt' = IF ~btn_n THEN 0 ELSE IF rst_cnt = POR_CYCLES THEN rst_cnt ELSE rst_cnt + 1
    BY <1>1 DEF Clk, Rst!Clk, Rst!sys_rst_n, Rst!Sync!Clk
  <2>3. (~btn_n => rst_cnt = 0)' /\ (d0 => rst_cnt = POR_CYCLES)' /\ (d1 => d0)'
    BY <2>1, <2>2 DEF ResetInv
  <2>4. ASSUME ~d1' PROVE Released'
    <3>1. ~d1
      BY <2>2, <2>4 DEF ResetInv
    <3>2. UNCHANGED dutVars
      BY <1>1, <3>1 DEF Clk, DutEdge, rst_50m_n, Rst!rst_50m_n, Rst!Sync!rst_sync_n_o
    <3> QED BY <3>1, <3>2 DEF ResetInv, Released, dutVars
  <2> QED BY <2>3, <2>4 DEF ResetInv
<1>2. CASE PressKey0
  BY <1>2 DEF PressKey0, Rst!Press, Rst!Sync!Assert, Ctl!Reset, ResetInv, Released
<1>3. CASE ReleaseKey0
  BY <1>3 DEF ReleaseKey0, Rst!Release, ResetInv, Released, dutVars
<1>4. CASE UNCHANGED vars
  BY <1>4 DEF ResetInv, Released, vars, rstVars, dutVars
<1> QED BY <1>1, <1>2, <1>3, <1>4 DEF Next

LEMMA InReset == Spec => []ResetInv
<1>1. Init => ResetInv
  BY DEF Init, Rst!Init, Rst!Sync!Init, Ctl!Init, ResetInv, Released
<1> QED BY <1>1, ResetKept, PTL DEF Spec

(* The board in reset leaves both lines released, and                      *)
(* rtl/adv7513_config.sv halts on a free bus: whatever presses of KEY0 did *)
(* to the target, the write that ran last closed its frame.                *)
THEOREM RestsQuiet == Spec => []QuietAtRest
<1>1. IInv /\ ResetInv => QuietAtRest
  <2> SUFFICES ASSUME IInv, ResetInv PROVE QuietAtRest
    OBVIOUS
  <2>1. Halted => Released /\ ~target.in_frame /\ ~target.pull_low
    BY HaltedIsIdle, Idling DEF IInv, Released
  <2>2. ~rst_50m_n => Released
    BY DEF ResetInv, rst_50m_n, Rst!rst_50m_n, Rst!Sync!rst_sync_n_o
  <2> QED BY <2>1, <2>2 DEF QuietAtRest
<1> QED BY <1>1, Holds, InReset, PTL

(* LED0 of rtl/de10nano_top.sv is never lit over a transmitter that holds  *)
(* anything but the ROM: a press in mid-transfer either leaves no trace in *)
(* the writes that follow or ends in an error.                             *)
THEOREM DoneIsConfigured == Spec => []DoneMeansConfigured
<1>1. IInv => DoneMeansConfigured
  <2> SUFFICES ASSUME IInv, Cfg!done_o PROVE WritesSinceReset = Expected /\ ~refused
    BY DEF DoneMeansConfigured
  <2>1. Halted /\ ~ack_err_o /\ cfg_state = "STATE_DONE"
    BY DEF Halted, IInv, Handshake, Cfg!done_o
  <2>2. Accounted /\ Past /\ state = "IDLE"
    BY <2>1, HaltedIsIdle, Idling DEF IInv
  <2>3. ~refused
    BY <2>1, <2>2 DEF Accounted, Hearing
  <2>4. rom_idx = NUM_REGS - 1
    BY <2>1 DEF IInv, Handshake
  <2>5. /\ Len(history) = mark + NUM_REGS
        /\ \A i \in 1..NUM_REGS : history[mark + i] = Expected[i]
        /\ mark \in Nat /\ history \in Seq([1..3 -> Octet])
    BY <2>2, <2>4, Parameters DEF Accounted, IInv, BusOK
  <2>6. WritesSinceReset = [i \in 1..NUM_REGS |-> history[mark + i]]
    <3>1. /\ mark + 1 \in 1..Len(history) + 1 /\ Len(history) - (mark + 1) + 1 = NUM_REGS
          /\ \A i \in 1..NUM_REGS : i + (mark + 1) - 1 = mark + i
      BY <2>5, Parameters
    <3> DEFINE w == WritesSinceReset
    <3>2. /\ w \in Seq([1..3 -> Octet]) /\ Len(w) = NUM_REGS
          /\ \A i \in 1..NUM_REGS : w[i] = history[mark + i]
      BY <2>5, <3>1, Parameters DEF WritesSinceReset
    <3> HIDE DEF w
    <3>3. w = [i \in 1..NUM_REGS |-> w[i]]
      BY <3>2
    <3>4. w = [i \in 1..NUM_REGS |-> history[mark + i]]
      BY <3>2, <3>3
    <3> QED BY <3>4 DEF w
  <2>7. Expected = [i \in 1..NUM_REGS |-> Expected[i]]
    BY DEF Expected
  <2> QED BY <2>3, <2>5, <2>6, <2>7
<1> QED BY <1>1, Holds, PTL

(* Until KEY0 is pressed the two ends of the bus count bytes and bits of   *)
(* rtl/i2c_controller.sv alike, for every divider and every ROM length.    *)
THEOREM EndsAgree == Spec => [](presses = 0 => BothEndsAgree)
<1>1. IInv => (presses = 0 => BothEndsAgree)
  <2> SUFFICES ASSUME IInv, presses = 0 PROVE BothEndsAgree
    OBVIOUS
  <2>1. InStep
    BY DEF IInv, Astray
  <2>2. ASSUME state = "SEND_BYTE", phase = 1
        PROVE  target.in_frame /\ target.byte_index = byte_idx /\ target.bitpos = 7 - bit_cnt
    BY <2>2, SamplingBits DEF IInv, BitOut
  <2>3. ASSUME state = "ACK"
        PROVE  target.in_frame /\ target.byte_index = byte_idx /\ target.bitpos = 8
    BY <2>1, <2>3
       DEF InStep, AtRest, Setting, Sampling, Ending, Lowered, Raised, Over, BitDue, ByteDue,
           BitOut, BitsIn, AnswerOut, LastAnswered, AllTaken
  <2>4. ASSUME state = "STOP", bit_cnt < 2
        PROVE  target.byte_index = 3
    <3>1. ~LastAnswered
      BY <2>4 DEF LastAnswered, Ending
    <3> QED BY <2>4, <3>1, StoppingBits DEF IInv, AllTaken
  <2> QED BY <2>2, <2>3, <2>4 DEF BothEndsAgree
<1> QED BY <1>1, Holds, PTL

(* Until KEY0 is pressed the acknowledge that rtl/i2c_controller.sv        *)
(* samples is the target's: the two never drive SDA at once.               *)
THEOREM OneDriver == Spec => [](presses = 0 => OneDriverOnSda)
<1>1. IInv => (presses = 0 => OneDriverOnSda)
  <2> SUFFICES ASSUME IInv, presses = 0 PROVE OneDriverOnSda
    OBVIOUS
  <2>1. InStep
    BY DEF IInv, Astray
  <2> QED BY <2>1
       DEF OneDriverOnSda, InStep, AtRest, Setting, Hearing, Ending, Over, BitDue, ByteDue,
           BitOut, BitsIn, AnswerOut, LastAnswered, AllTaken
<1> QED BY <1>1, Holds, PTL

(* Until KEY0 is pressed rtl/adv7513_config.sv ends in its error state     *)
(* exactly when the target declined a byte.                                *)
THEOREM ErrorIffNack == Spec => [](presses = 0 => ErrorExactlyOnNack)
<1>1. IInv => (presses = 0 => ErrorExactlyOnNack)
  <2> SUFFICES ASSUME IInv, presses = 0, Halted PROVE Cfg!error_o <=> refused
    BY DEF ErrorExactlyOnNack
  <2>1. Accounted /\ state = "IDLE"
    BY HaltedIsIdle DEF IInv, Astray
  <2>2. refused = ack_err_o
    BY <2>1 DEF Accounted, Hearing, IInv, DutOK
  <2>3. Cfg!error_o <=> ack_err_o
    BY DEF IInv, Handshake, Halted, Cfg!done_o, Cfg!error_o
  <2> QED BY <2>2, <2>3
<1> QED BY <1>1, Holds, PTL

-----------------------------------------------------------------------------
(* Without presses of KEY0 the system implements ConfigSequence.           *)

(* How many writes are on record, and which.                               *)
Written == IF Past THEN rom_idx + 1 ELSE rom_idx

Unpressed == IInv /\ presses = 0
RecordOK ==
  /\ history = [i \in 1..Written |-> Expected[i]]
  /\ Written \in 0..NUM_REGS /\ Len(history) = Written

LEMMA OnRecord == Unpressed => RecordOK
<1> SUFFICES ASSUME IInv, presses = 0 PROVE RecordOK
  BY DEF Unpressed
<1>1. Accounted /\ mark = 0 /\ history \in Seq([1..3 -> Octet]) /\ rom_idx \in 0..NUM_REGS - 1
  BY DEF IInv, Astray, BusOK, DutOK
<1>2. Len(history) = Written /\ Written \in 0..NUM_REGS
  BY <1>1, Parameters DEF Accounted, Written
<1> HIDE DEF Written
<1>3. \A i \in 1..Written : history[i] = Expected[i]
  BY <1>1, <1>2, Parameters DEF Accounted
<1>4. history = [i \in 1..Written |-> history[i]]
  BY <1>1, <1>2
<1> QED BY <1>2, <1>3, <1>4 DEF RecordOK

(* What a step does to the walker and to the controller's sticky flag.     *)
LEMMA StepsOfTheWalk ==
  ASSUME IInv, [Next]_vars, presses = 0, presses' = 0
  PROVE  \/ /\ cfg_state' = cfg_state /\ rom_idx' = rom_idx /\ Past' = Past
            /\ (ack_err_o' = ack_err_o \/ (ack_err_o' = TRUE /\ state = "ACK"))
         \/ /\ cfg_state' = cfg_state /\ rom_idx' = rom_idx /\ ~Past /\ Past' /\ state = "STOP"
            /\ ack_err_o' = ack_err_o
         \/ /\ cfg_state = "START_TX" /\ cfg_state' = "WAIT_DONE" /\ rom_idx' = rom_idx
            /\ Past' = Past /\ ack_err_o' = ack_err_o
         \/ /\ cfg_state = "WAIT_DONE" /\ Past /\ ack_err_o' = ack_err_o
            /\ \/ ack_err_o /\ cfg_state' = "STATE_ERROR" /\ rom_idx' = rom_idx /\ Past'
               \/ /\ ~ack_err_o /\ rom_idx = NUM_REGS - 1 /\ cfg_state' = "STATE_DONE"
                  /\ rom_idx' = rom_idx /\ Past'
               \/ /\ ~ack_err_o /\ rom_idx # NUM_REGS - 1 /\ cfg_state' = "START_TX"
                  /\ rom_idx' = rom_idx + 1 /\ ~Past'
<1>1. CASE PressKey0
  <2>1. presses' = presses + 1
    BY <1>1 DEF PressKey0
  <2> QED BY <2>1
<1>2. CASE UNCHANGED dutVars
  BY <1>2 DEF dutVars, Past
<1>3. CASE Walks /\ Waits
  <2>1. /\ busy_o <=> state # "IDLE"
        /\ done_o => state = "IDLE"
        /\ state' = state /\ ack_err_o' = ack_err_o
    BY <1>3 DEF IInv, Handshake, Waits
  <2> QED BY <1>3, <2>1
       DEF Walks, Cfg!Clk, Cfg!StartTx, Cfg!WaitDone, Cfg!Halted, Cfg!vars, Past
<1>4. ASSUME NEW ack, Ticking(ack)
      PROVE  \/ /\ cfg_state' = cfg_state /\ rom_idx' = rom_idx /\ Past' = Past
                /\ (ack_err_o' = ack_err_o \/ (ack_err_o' = TRUE /\ state = "ACK"))
             \/ /\ cfg_state' = cfg_state /\ rom_idx' = rom_idx /\ ~Past /\ Past' /\ state = "STOP"
                /\ ack_err_o' = ack_err_o
  <2>1. cfg_state' = cfg_state /\ rom_idx' = rom_idx /\ (cfg_state = "START_TX" => state = "IDLE")
    BY <1>4, AtATick
  <2>2. \/ /\ state = "IDLE" /\ cfg_state = "START_TX" /\ state' = "START"
           /\ ack_err_o' = ack_err_o
        \/ /\ state = "IDLE" /\ cfg_state # "START_TX" /\ state' = "IDLE"
           /\ ack_err_o' = ack_err_o
        \/ /\ state = "ACK" /\ state' \in {"ACK", "SEND_BYTE", "STOP"}
           /\ ack_err_o' = ack_err_o
        \/ /\ state = "ACK" /\ state' \in {"ACK", "SEND_BYTE", "STOP"}
           /\ ack_err_o' = (ack_err_o \/ Tgt!sda_line(sda_oe))
        \/ /\ state \in {"START", "SEND_BYTE"} /\ state' \in {"SEND_BYTE", "ACK"}
           /\ ack_err_o' = ack_err_o
        \/ state = "STOP" /\ state' \in {"STOP", "DONE"} /\ ack_err_o' = ack_err_o
        \/ state = "DONE" /\ state' = "IDLE" /\ ack_err_o' = ack_err_o
    BY <1>4 DEF Ticking, Ticks, Ctl!FSM, Ctl!IdleArm, Ctl!StartArm, Ctl!BitSetup,
                Ctl!BitSample, Ctl!AckSetup, Ctl!AckSample, Ctl!StopArm, Ctl!DoneArm, Cfg!start_o
  <2>3. ack_err_o \in BOOLEAN /\ Tgt!sda_line(sda_oe) \in BOOLEAN
    BY DEF IInv, DutOK, Tgt!sda_line
  <2> QED BY <2>1, <2>2, <2>3 DEF Past
<1> QED BY <1>1, <1>2, <1>3, <1>4, WaysToStep DEF Ticking

LEMMA OutcomeIs ==
  /\ (cfg_state = "STATE_DONE" => Outcome = "done")
  /\ (cfg_state = "STATE_ERROR" => Outcome = "error")
  /\ (cfg_state \in {"START_TX", "WAIT_DONE"} => Outcome = "running")
BY DEF Outcome, Cfg!done_o, Cfg!error_o

LEMMA StepsImplement == Unpressed /\ Unpressed' /\ [Next]_vars => [Abs!Next]_(Abs!vars)
<1> SUFFICES ASSUME Unpressed, Unpressed', [Next]_vars PROVE [Abs!Next]_(Abs!vars)
  OBVIOUS
<1>1. RecordOK
  BY OnRecord
<1>2. RecordOK'
  BY OnRecord, PTL
<1>3. Len(Expected) = NUM_REGS
  BY Parameters DEF Expected
<1>4. /\ IInv /\ presses = 0 /\ presses' = 0
      /\ ack_err_o \in BOOLEAN /\ rom_idx \in 0..NUM_REGS - 1
  BY DEF Unpressed, IInv, DutOK
<1>5. /\ history = [i \in 1..Written |-> Expected[i]] /\ Len(history) = Written
      /\ history' = [i \in 1..Written' |-> Expected[i]] /\ Len(history') = Written'
  BY <1>1, <1>2 DEF RecordOK, Expected
<1>6. CASE /\ cfg_state' = cfg_state /\ rom_idx' = rom_idx /\ Past' = Past
           /\ (ack_err_o' = ack_err_o \/ (ack_err_o' = TRUE /\ state = "ACK"))
  <2>1. Written' = Written /\ history' = history
    BY <1>5, <1>6 DEF Written
  <2>2. Outcome' = Outcome
    BY <1>6 DEF Outcome, Cfg!done_o, Cfg!error_o
  <2>3. CASE ack_err_o' = ack_err_o
    BY <1>6, <2>1, <2>2, <2>3 DEF Abs!vars
  <2>4. CASE ack_err_o' = TRUE /\ ack_err_o = FALSE /\ state = "ACK"
    <3>1. ~Past /\ cfg_state = "WAIT_DONE"
      BY <2>4, <1>4 DEF Past, IInv, Handshake
    <3>2. Outcome = "running" /\ Len(history) = (rom_idx + 1) - 1
      BY <1>4, <1>5, <3>1, OutcomeIs DEF Written
    <3>3. Abs!Refuse
      BY <1>6, <2>1, <2>2, <2>4, <3>2 DEF Abs!Refuse, Abs!Underway
    <3> QED BY <3>3 DEF Abs!Next
  <2> QED BY <1>4, <1>6, <2>3, <2>4
<1>7. CASE /\ cfg_state' = cfg_state /\ rom_idx' = rom_idx /\ ~Past /\ Past' /\ state = "STOP"
           /\ ack_err_o' = ack_err_o
  <2>1. Written = rom_idx /\ Written' = rom_idx + 1
    BY <1>7 DEF Written
  <2>2. Outcome' = Outcome /\ Outcome = "running"
    <3>1. cfg_state = "WAIT_DONE"
      BY <1>4, <1>7 DEF IInv, Handshake
    <3> QED BY <1>7, <3>1, OutcomeIs DEF Outcome, Cfg!done_o, Cfg!error_o
  <2>3. history' = Append(history, Expected[rom_idx + 1])
    <3>1. history = [i \in 1..rom_idx |-> Expected[i]]
      BY <1>5, <2>1
    <3>2. history' = [i \in 1..rom_idx + 1 |-> Expected[i]]
      BY <1>5, <2>1
    <3> QED BY <1>4, <3>1, <3>2
  <2>4. Len(history) = (rom_idx + 1) - 1
    BY <1>4, <1>5, <2>1
  <2>5. Abs!Write
    BY <1>7, <2>2, <2>3, <2>4 DEF Abs!Write, Abs!Underway
  <2> QED BY <2>5 DEF Abs!Next
<1>8. CASE /\ cfg_state = "START_TX" /\ cfg_state' = "WAIT_DONE" /\ rom_idx' = rom_idx
           /\ Past' = Past /\ ack_err_o' = ack_err_o
  <2>1. Written' = Written /\ history' = history
    BY <1>5, <1>8 DEF Written
  <2>2. Outcome' = Outcome
    BY <1>8 DEF Outcome, Cfg!done_o, Cfg!error_o
  <2> QED BY <1>8, <2>1, <2>2 DEF Abs!vars
<1>9. CASE /\ cfg_state = "WAIT_DONE" /\ Past /\ ack_err_o' = ack_err_o
           /\ \/ ack_err_o /\ cfg_state' = "STATE_ERROR" /\ rom_idx' = rom_idx /\ Past'
              \/ /\ ~ack_err_o /\ rom_idx = NUM_REGS - 1 /\ cfg_state' = "STATE_DONE"
                 /\ rom_idx' = rom_idx /\ Past'
              \/ /\ ~ack_err_o /\ rom_idx # NUM_REGS - 1 /\ cfg_state' = "START_TX"
                 /\ rom_idx' = rom_idx + 1 /\ ~Past'
  <2>1. Written = rom_idx + 1 /\ Written' = rom_idx + 1
    BY <1>9 DEF Written
  <2>2. history' = history /\ Len(history) = rom_idx + 1 /\ Outcome = "running"
    BY <1>5, <1>9, <2>1, OutcomeIs
  <2>3. Abs!Complete
    BY <2>2 DEF Abs!Complete
  <2>4. CASE ack_err_o /\ cfg_state' = "STATE_ERROR" /\ rom_idx' = rom_idx
    <3>1. Outcome' = "error"
      BY <2>4 DEF Outcome, Cfg!done_o, Cfg!error_o
    <3>2. Abs!Fail
      BY <1>9, <2>2, <2>3, <2>4, <3>1 DEF Abs!Fail
    <3> QED BY <3>2 DEF Abs!Next
  <2>5. CASE /\ ~ack_err_o /\ rom_idx = NUM_REGS - 1 /\ cfg_state' = "STATE_DONE"
             /\ rom_idx' = rom_idx
    <3>1. Outcome' = "done"
      BY <2>5 DEF Outcome, Cfg!done_o, Cfg!error_o
    <3>2. Abs!Finish
      BY <1>3, <1>4, <1>9, <2>2, <2>3, <2>5, <3>1, Parameters DEF Abs!Finish
    <3> QED BY <3>2 DEF Abs!Next
  <2>6. CASE /\ ~ack_err_o /\ rom_idx # NUM_REGS - 1 /\ cfg_state' = "START_TX"
             /\ rom_idx' = rom_idx + 1
    <3>1. Outcome' = Outcome
      BY <1>9, <2>6 DEF Outcome, Cfg!done_o, Cfg!error_o
    <3>2. Abs!Advance
      BY <1>3, <1>4, <1>9, <2>2, <2>3, <2>6, <3>1, Parameters DEF Abs!Advance
    <3> QED BY <3>2 DEF Abs!Next
  <2> QED BY <1>9, <2>4, <2>5, <2>6
<1> QED BY <1>4, <1>6, <1>7, <1>8, <1>9, StepsOfTheWalk

(* Without presses, and for every ROM length and divider, the walker, the  *)
(* controller and the target together make the writes of the ROM in order, *)
(* and end as ConfigSequence says.                                         *)
THEOREM SequenceImplemented ==
  ASSUME MaxPresses = 0
  PROVE  Spec => ImplementsSequence
<1>1. Init => Abs!Init
  <2> SUFFICES ASSUME Init PROVE Abs!Init
    OBVIOUS
  <2>1. /\ cfg_state = "START_TX" /\ rom_idx = 0 /\ ack_err_o = FALSE /\ history = << >>
    BY DEF Init, Cfg!Init, Ctl!Init, Tgt!Init
  <2>2. Outcome = "running"
    BY <2>1, OutcomeIs
  <2> QED BY <2>1, <2>2 DEF Abs!Init
<1>2. IInv => Unpressed
  BY DEF IInv, BusOK, Unpressed
<1> QED BY <1>1, <1>2, Holds, StepsImplement, PTL DEF Spec, ImplementsSequence, Abs!Spec

(* Without presses the three invariants hold throughout.                   *)
COROLLARY WithoutKey0 ==
  ASSUME MaxPresses = 0
  PROVE  Spec => [](BothEndsAgree /\ OneDriverOnSda /\ ErrorExactlyOnNack)
<1>1. IInv => presses = 0
  BY DEF IInv, BusOK
<1> QED BY <1>1, Holds, EndsAgree, OneDriver, ErrorIffNack, PTL

=============================================================================
