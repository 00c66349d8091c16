------------------------------- MODULE Cordic -------------------------------
(***************************************************************************)
(* rtl/apu_cordic.sv: one sample on its way through the pipeline.          *)
(* Samples never meet, so one at a time is all of them; when they arrive   *)
(* is ApuTop's business.                                                   *)
(***************************************************************************)
EXTENDS Integers, Sequences, FiniteSetsExt

CONSTANTS
  N,       \* rotation stages: 16
  W,       \* bits of x and y: 24
  FZ,      \* fractional bits of z: 24
  NA,      \* bits of the phase: 16
  X0,      \* 2547003, the scaled unit vector
  Phases   \* the phases that come in

ASSUME WidthsAssumption ==
  /\ N \in 1..16 /\ W \in 4..24 /\ NA \in 3..16 /\ FZ \in NA..24
  /\ Phases \subseteq 0..2^NA - 1

VARIABLES
  phase_i,    \* the sample
  stage,      \* registers it has passed: 0..N are x_pipe[stage], N+1 is cos_mid
  x, y, z, quadrant,
  cos_o, sin_o,
  exact       \* ghost: no register wrapped on the way
vars == <<phase_i, stage, x, y, z, quadrant, cos_o, sin_o, exact>>

AZ == FZ + 1

(* A signed register of width bits.                                        *)
Reg(value, width) == ((value + 2^(width - 1)) % 2^width) - 2^(width - 1)

(* atan(2^-i) in turns, rounded, in units of 2^-24.                        *)
atan_value ==
  <<2097152, 1238021, 654136, 332050, 166669, 83416, 41718, 20860,
    10430, 5215, 2608, 1304, 652, 326, 163, 81>>
(* Mutant: the second entry is skipped.                                    *)
Atan_Skips(i) == IF i \in 1..14 THEN atan_value[i + 2] ELSE atan_value[i + 1]
Atan(i) == atan_value[i + 1]

-----------------------------------------------------------------------------
(* The fold: a remainder within an eighth of a turn, and its quadrant.     *)
Eighth == 2^(NA - 3)
Quarter == 2^(NA - 2)

fold(phase) ==
  LET remainder == phase % Quarter
      high == remainder >= Eighth
  IN [remainder |-> IF high THEN remainder - Quarter ELSE remainder,
      quadrant |-> ((phase \div Quarter) + (IF high THEN 1 ELSE 0)) % 4]

Enter(phase) ==
  /\ phase_i = phase
  /\ stage = 0
  /\ x = Reg(X0, W) /\ y = 0
  /\ z = Reg(fold(phase).remainder * 2^(FZ - NA), AZ)
  /\ quadrant = fold(phase).quadrant
  /\ cos_o = 0 /\ sin_o = 0
  /\ exact = (z = fold(phase).remainder * 2^(FZ - NA))

Init == \E phase \in Phases : Enter(phase)

(* >>> of a signed register rounds down.                                   *)
(* Mutant: >>, which shifts zeros in.                                      *)
Shifted_Logical(value, i) == (value % 2^W) \div 2^i
Shifted(value, i) == value \div 2^i

(* Against the sign of the angle left.  Mutant: zero is taken as negative. *)
Direction_ZeroBack(angle) == IF angle <= 0 THEN -1 ELSE 1
Direction(angle) == IF angle < 0 THEN -1 ELSE 1

(* One stage.                                                              *)
Rotate ==
  /\ stage < N
  /\ LET d == Direction(z)
         xs == Shifted(x, stage)
         ys == Shifted(y, stage)
     IN /\ x' = Reg(x - d * ys, W)
        /\ y' = Reg(y + d * xs, W)
        /\ z' = Reg(z - d * Atan(stage), AZ)
        /\ exact' = (exact /\ <<x', y', z'>> = <<x - d * ys, y + d * xs, z - d * Atan(stage)>>)
  /\ stage' = stage + 1
  /\ UNCHANGED <<phase_i, quadrant, cos_o, sin_o>>

(* The quadrant back: a swap and a sign.                                   *)
Unfolded(q, a, b) ==
  CASE q = 0 -> <<a, b>>
    [] q = 1 -> <<-b, a>>
    [] q = 2 -> <<-a, -b>>
    [] q = 3 -> <<b, -a>>

(* cos_mid and sin_mid.                                                    *)
Select ==
  /\ stage = N
  /\ cos_o' = Reg(Unfolded(quadrant, x, y)[1], W)
  /\ sin_o' = Reg(Unfolded(quadrant, x, y)[2], W)
  /\ exact' = (exact /\ <<cos_o', sin_o'>> = Unfolded(quadrant, x, y))
  /\ stage' = N + 1
  /\ UNCHANGED <<phase_i, x, y, z, quadrant>>

Next == Rotate \/ Select
Spec == Init /\ [][Next]_vars

-----------------------------------------------------------------------------
(* Properties.                                                             *)

(* What the stages from i on can still turn.                               *)
Reach(i) == MapThenSumSet(Atan, i..N - 1)

(* The table covers what it must at every stage: the angle left is within  *)
(* what the remaining stages can turn, give or take the last one.  An      *)
(* entry that is missing, doubled or out of order, or a fold that leaves   *)
(* too much, makes some phase come out at the wrong angle.                 *)
AngleInReach ==
  stage <= N => LET slack == Atan(N - 1) + N IN z \in -(Reach(stage) + slack)..Reach(stage) + slack

(* tb/cordic_golden.py, "datapath range (RTL needs no saturation logic)".  *)
(* No phase makes any register of any stage wrap.                          *)
NothingWraps == exact

=============================================================================
