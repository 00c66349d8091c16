----------------------- MODULE I2CControllerProofs -----------------------
(***************************************************************************)
(* The controller's assertions, for every divider CLK_DIV > 0 (also those  *)
(* beyond 2^16, where the 16-bit counter of the assertion wraps) and every *)
(* behaviour of its inputs, resets included.                               *)
(***************************************************************************)
EXTENDS I2CController, TLAPS

(* Where in a transaction SCL can be low, and that nothing is driven       *)
(* outside of one.                                                         *)
Shape ==
  /\ scl_oe => \/ state \in {"SEND_BYTE", "ACK"} /\ phase = 1
               \/ state = "STOP" /\ bit_cnt = 1
  /\ state \in {"IDLE", "DONE"} => ~sda_oe /\ ~scl_oe
  /\ state # "IDLE" => busy_o
  /\ busy_o => state # "IDLE"
  /\ phase = 1 => state \in {"SEND_BYTE", "ACK"}

(* While SCL is low the assertion's counter runs with the divider: SCL     *)
(* falls on a tick and rises on the next.                                  *)
LowCount ==
  /\ scl_oe => scl_low_cnt = count % W16
  /\ p_scl_low_width

(* done_o is up only in the tick after the DONE arm.                       *)
DoneShape == done_o => state = "IDLE"

IInv == TypeOK /\ Shape /\ LowCount /\ DoneShape /\ p_sda_stable_while_scl_high

-----------------------------------------------------------------------------
LEMMA ClkDivPositive == CLK_DIV \in Nat /\ CLK_DIV >= 1
BY ClkDivAssumption DEF ClkDivOK

(* The modular arithmetic of the 16-bit counter.                           *)
LEMMA W16Positive == W16 \in Nat /\ W16 > 0
BY SMT DEF W16

LEMMA WrapRange ==
  ASSUME NEW n \in Nat
  PROVE  n % W16 \in 0..W16 - 1
BY W16Positive, SMT

LEMMA WrapStep ==
  ASSUME NEW n \in Nat
  PROVE  ((n % W16) + 1) % W16 = (n + 1) % W16
BY SMT DEF W16

LEMMA WrapZero == 0 % W16 = 0
BY SMT DEF W16

-----------------------------------------------------------------------------
LEMMA InitInv == Init => IInv
<1> SUFFICES ASSUME Init PROVE IInv
  OBVIOUS
<1>1. NumbersOK
  BY ClkDivPositive, W16Positive, SMT DEF Init, NumbersOK
<1>2. StatesOK /\ LinesOK /\ FlagsOK
  BY DEF Init, StatesOK, LinesOK, FlagsOK, States
<1>3. Shape /\ DoneShape
  BY DEF Init, Shape, DoneShape
<1>4. LowCount /\ p_sda_stable_while_scl_high
  BY DEF Init, LowCount, p_scl_low_width, p_sda_stable_while_scl_high
<1> QED BY <1>1, <1>2, <1>3, <1>4 DEF IInv, TypeOK

LEMMA ResetInv == Reset => IInv'
<1> SUFFICES ASSUME Reset PROVE IInv'
  OBVIOUS
<1>1. NumbersOK'
  BY ClkDivPositive, W16Positive, SMT DEF Reset, NumbersOK
<1>2. StatesOK' /\ LinesOK' /\ FlagsOK'
  BY DEF Reset, StatesOK, LinesOK, FlagsOK, States
<1>3. Shape' /\ DoneShape'
  BY DEF Reset, Shape, DoneShape
<1>4. LowCount' /\ p_sda_stable_while_scl_high'
  BY DEF Reset, LowCount, p_scl_low_width, p_sda_stable_while_scl_high
<1> QED BY <1>1, <1>2, <1>3, <1>4 DEF IInv, TypeOK

-----------------------------------------------------------------------------
(* What an arm of the FSM may do, said once for all of them.               *)

LEMMA FsmNumbers ==
  ASSUME NumbersOK, NEW start_i, NEW sda_i, NEW p, FSM(start_i, p, sda_i)
  PROVE  byte_idx' \in 0..3 /\ bit_cnt' \in 0..7 /\ phase' \in 0..1
<1> USE DEF NumbersOK, Drive
<1>1. CASE IdleArm(start_i) \/ DoneArm \/ AckSetup
  BY <1>1 DEF IdleArm, DoneArm, AckSetup
<1>2. CASE StartArm
  BY <1>2 DEF StartArm
<1>3. CASE BitSetup(p)
  BY <1>3 DEF BitSetup
<1>4. CASE BitSample
  BY <1>4 DEF BitSample
<1>5. CASE AckSample(sda_i)
  BY <1>5 DEF AckSample
<1>6. CASE StopArm
  BY <1>6 DEF StopArm
<1> QED BY <1>1, <1>2, <1>3, <1>4, <1>5, <1>6 DEF FSM

LEMMA FsmFlags ==
  ASSUME StatesOK, LinesOK, FlagsOK,
         NEW start_i \in BOOLEAN, NEW sda_i \in BOOLEAN, NEW p,
         FSM(start_i, p, sda_i)
  PROVE  /\ state' \in States
         /\ sda_oe' \in BOOLEAN /\ scl_oe' \in BOOLEAN
         /\ busy_o' \in BOOLEAN /\ ack_err_o' \in BOOLEAN
BY DEF FSM, IdleArm, StartArm, BitSetup, BitSample, AckSetup, AckSample,
       StopArm, DoneArm, Drive, StatesOK, LinesOK, FlagsOK, States

LEMMA FsmShape ==
  ASSUME StatesOK, Shape, NEW start_i, NEW sda_i, NEW p,
         FSM(start_i, p, sda_i)
  PROVE  Shape' /\ (state = "DONE" => state' = "IDLE")
BY DEF FSM, IdleArm, StartArm, BitSetup, BitSample, AckSetup, AckSample,
       StopArm, DoneArm, Drive, StatesOK, States, Shape

(* SCL never stays low across a tick, and SDA moves only where the         *)
(* assertion allows it.                                                    *)
LEMMA FsmLines ==
  ASSUME LinesOK, Shape,
         NEW start_i, NEW sda_i, NEW p, FSM(start_i, p, sda_i)
  PROVE  /\ scl_oe => ~scl_oe'
         /\ sda_oe' # sda_oe => (scl_oe' /\ ~scl_oe) \/ state \in {"START", "STOP"}
<1> USE DEF LinesOK, Shape, Drive
<1>1. CASE IdleArm(start_i)
  BY <1>1 DEF IdleArm
<1>2. CASE StartArm
  BY <1>2 DEF StartArm
<1>3. CASE BitSetup(p)
  BY <1>3 DEF BitSetup
<1>4. CASE BitSample
  BY <1>4 DEF BitSample
<1>5. CASE AckSetup
  BY <1>5 DEF AckSetup
<1>6. CASE AckSample(sda_i)
  BY <1>6 DEF AckSample
<1>7. CASE StopArm
  BY <1>7 DEF StopArm
<1>8. CASE DoneArm
  BY <1>8 DEF DoneArm
<1> QED BY <1>1, <1>2, <1>3, <1>4, <1>5, <1>6, <1>7, <1>8 DEF FSM

-----------------------------------------------------------------------------
(* One clock edge, the FSM moving or not.                                  *)
LEMMA ClkInv ==
  ASSUME IInv,
         NEW start_i \in BOOLEAN, NEW sda_i \in BOOLEAN, NEW p \in Payloads,
         Clk(start_i, p, sda_i)
  PROVE  IInv'
<1>a. NumbersOK /\ StatesOK /\ LinesOK /\ FlagsOK /\ Shape /\ DoneShape
      /\ LowCount /\ p_sda_stable_while_scl_high
  BY DEF IInv, TypeOK
<1>b. Divide /\ Watch
  BY DEF Clk
<1>1. count' \in 0..CLK_DIV - 1
  BY <1>a, <1>b, ClkDivPositive DEF NumbersOK, Divide, tick
<1>2. scl_low_cnt' \in 0..W16 - 1
  <2>1. scl_low_cnt \in Nat
    BY <1>a DEF NumbersOK
  <2>2. scl_low_cnt + 1 \in Nat
    BY <2>1
  <2>3. (scl_low_cnt + 1) % W16 \in 0..W16 - 1
    BY <2>2, WrapRange, Zenon
  <2>4. 0 \in 0..W16 - 1
    BY W16Positive, SMT
  <2>5. \/ scl_low_cnt' = (scl_low_cnt + 1) % W16
        \/ scl_low_cnt' = 0
    BY <1>b, Zenon DEF Watch
  <2> QED BY <2>3, <2>4, <2>5, Zenon
<1>3. /\ state_d' = state
      /\ scl_oe_d' = scl_oe /\ sda_oe_d' = sda_oe
  BY <1>b DEF Watch
<1>4. CASE tick /\ FSM(start_i, p, sda_i) /\ done_o' = (state = "DONE")
  <2>0. byte_idx' \in 0..3 /\ bit_cnt' \in 0..7 /\ phase' \in 0..1
    BY <1>a, <1>4, FsmNumbers, Zenon
  <2>1. NumbersOK'
    BY <1>1, <1>2, <2>0, Zenon DEF NumbersOK
  <2>2. /\ state' \in States
        /\ sda_oe' \in BOOLEAN /\ scl_oe' \in BOOLEAN
        /\ busy_o' \in BOOLEAN /\ ack_err_o' \in BOOLEAN
    BY <1>a, <1>4, FsmFlags
  <2>3. StatesOK' /\ LinesOK' /\ FlagsOK'
    BY <2>2, <1>a, <1>3, <1>4 DEF StatesOK, LinesOK, FlagsOK
  <2>4. Shape' /\ DoneShape'
    BY <1>a, <1>4, FsmShape DEF DoneShape
  <2>5. LowCount'
    <3>1. count = CLK_DIV - 1 /\ count' = 0
      BY <1>b, <1>4 DEF tick, Divide
    <3>2. CASE scl_oe
      <4>1. ~scl_oe'
        BY <1>a, <1>4, <3>2, FsmLines
      <4>2. scl_low_cnt' = (scl_low_cnt + 1) % W16
        BY <1>b, <3>2 DEF Watch
      <4>3. scl_low_cnt = (CLK_DIV - 1) % W16 /\ CLK_DIV - 1 \in Nat
        BY <1>a, <3>1, <3>2, ClkDivPositive DEF LowCount
      <4>4. scl_low_cnt' = (CLK_DIV - 1 + 1) % W16
        BY <4>2, <4>3, WrapStep
      <4>5. CLK_DIV - 1 + 1 = CLK_DIV
        BY ClkDivPositive
      <4> QED BY <4>1, <4>4, <4>5 DEF LowCount, p_scl_low_width
    <3>3. CASE ~scl_oe
      <4>1. ~scl_oe_d' /\ scl_low_cnt' = 0
        BY <1>b, <3>3 DEF Watch
      <4> QED BY <4>1, <3>1, WrapZero DEF LowCount, p_scl_low_width
    <3> QED BY <3>2, <3>3
  <2>6. p_sda_stable_while_scl_high'
    BY <1>a, <1>3, <1>4, FsmLines DEF p_sda_stable_while_scl_high
  <2> QED BY <2>1, <2>3, <2>4, <2>5, <2>6 DEF IInv, TypeOK
<1>5. CASE ~tick /\ UNCHANGED <<fsmVars, done_o>>
  <2>1. /\ state' = state /\ byte_idx' = byte_idx /\ bit_cnt' = bit_cnt
        /\ phase' = phase /\ sda_oe' = sda_oe /\ scl_oe' = scl_oe
        /\ busy_o' = busy_o /\ done_o' = done_o /\ ack_err_o' = ack_err_o
    BY <1>5 DEF fsmVars
  <2>2. NumbersOK'
    BY <1>a, <1>1, <1>2, <2>1, Zenon DEF NumbersOK
  <2>3. StatesOK' /\ LinesOK' /\ FlagsOK'
    BY <1>a, <1>3, <2>1 DEF StatesOK, LinesOK, FlagsOK
  <2>4. Shape' /\ DoneShape'
    BY <1>a, <2>1 DEF Shape, DoneShape
  <2>5. LowCount'
    <3>1. count \in Nat /\ count' = count + 1
      BY <1>a, <1>b, <1>5, ClkDivPositive DEF Divide, NumbersOK
    <3>2. scl_oe => scl_low_cnt' = (count + 1) % W16
      BY <1>a, <1>b, <3>1, WrapStep DEF Watch, LowCount
    <3> QED BY <1>3, <2>1, <3>1, <3>2 DEF LowCount, p_scl_low_width
  <2>6. p_sda_stable_while_scl_high'
    BY <1>3, <2>1 DEF p_sda_stable_while_scl_high
  <2> QED BY <2>2, <2>3, <2>4, <2>5, <2>6 DEF IInv, TypeOK
<1> QED BY <1>4, <1>5 DEF Clk

LEMMA StutterInv == IInv /\ UNCHANGED vars => IInv'
<1> SUFFICES ASSUME IInv, UNCHANGED vars PROVE IInv'
  OBVIOUS
<1> USE DEF vars, fsmVars, watchVars
<1>1. NumbersOK' /\ StatesOK'
  BY Zenon DEF IInv, TypeOK, NumbersOK, StatesOK
<1>2. LinesOK' /\ FlagsOK'
  BY Zenon DEF IInv, TypeOK, LinesOK, FlagsOK
<1>3. Shape' /\ DoneShape'
  BY DEF IInv, Shape, DoneShape
<1>4. LowCount' /\ p_sda_stable_while_scl_high'
  BY DEF IInv, LowCount, p_scl_low_width, p_sda_stable_while_scl_high
<1> QED BY <1>1, <1>2, <1>3, <1>4 DEF IInv, TypeOK

THEOREM Inductive == Spec => []IInv
<1>1. IInv /\ [Next]_vars => IInv'
  BY ClkInv, ResetInv, StutterInv DEF Next, Edge
<1> QED BY InitInv, <1>1, PTL DEF Spec

-----------------------------------------------------------------------------
(* Every register of the controller keeps to its width.                    *)
THEOREM TypeCorrect == Spec => []TypeOK
<1>1. IInv => TypeOK
  BY DEF IInv
<1> QED BY Inductive, <1>1, PTL

(* i2c_controller.sv's p_scl_low_width never fires, whatever CLK_DIV.      *)
THEOREM SclLowWidth == Spec => []p_scl_low_width
<1>1. IInv => p_scl_low_width
  BY DEF IInv, LowCount
<1> QED BY Inductive, <1>1, PTL

(* i2c_controller.sv's p_sda_stable_while_scl_high never fires.            *)
THEOREM SdaStable == Spec => []p_sda_stable_while_scl_high
<1>1. IInv => p_sda_stable_while_scl_high
  BY DEF IInv
<1> QED BY Inductive, <1>1, PTL

(* Outside a transaction both lines are released.                          *)
THEOREM BusFree == Spec => []BusFreeWhenNotBusy
<1>1. IInv => BusFreeWhenNotBusy
  BY DEF IInv, Shape, BusFreeWhenNotBusy
<1> QED BY Inductive, <1>1, PTL

(* A done_o still up is never taken for the next transaction's.            *)
THEOREM DoneNotStale == Spec => []NoStaleDone
<1>1. IInv => NoStaleDone
  BY DEF IInv, Shape, DoneShape, NoStaleDone
<1> QED BY Inductive, <1>1, PTL

=============================================================================
