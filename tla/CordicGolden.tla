---------------------------- MODULE CordicGolden ----------------------------
(***************************************************************************)
(* tb/cordic_golden.py, cordic_fixed: the oracle the testbench scores the  *)
(* RTL against.  It is written on its own, over integers that do not wrap  *)
(* unless they are masked, with its own table, fold and quadrant select.   *)
(***************************************************************************)
EXTENDS Integers

CONSTANTS N_STAGES, DATA_WIDTH, FRACTIONAL_ANGLE_BITS, PHASE_WIDTH, X0

ANGLE_WIDTH == FRACTIONAL_ANGLE_BITS + 1

ATAN_TABLE == <<2097152, 1238021, 654136, 332050, 166669, 83416, 41718, 20860,
                10430, 5215, 2608, 1304, 652, 326, 163, 81>>

NEGATION_BOUND == 266

sxt(value, width) ==
  LET masked == value % 2^width
  IN IF masked >= 2^(width - 1) THEN masked - 2^width ELSE masked

Folded(phase) ==
  LET quadrant == phase \div 2^(PHASE_WIDTH - 2)
      remainder == phase % 2^(PHASE_WIDTH - 2)
  IN IF remainder >= 2^(PHASE_WIDTH - 3)
     THEN <<(quadrant + 1) % 4, remainder - 2^(PHASE_WIDTH - 2)>>
     ELSE <<quadrant, remainder>>

Stage(v, i) ==
  LET turned == IF v.z < 0
                THEN [x |-> v.x + (v.y \div 2^i), y |-> v.y - (v.x \div 2^i),
                      z |-> v.z + ATAN_TABLE[i + 1]]
                ELSE [x |-> v.x - (v.y \div 2^i), y |-> v.y + (v.x \div 2^i),
                      z |-> v.z - ATAN_TABLE[i + 1]]
  IN [x |-> sxt(turned.x, DATA_WIDTH), y |-> sxt(turned.y, DATA_WIDTH),
      z |-> sxt(turned.z, ANGLE_WIDTH)]

_rotate(phase) ==
  LET start == [x |-> sxt(X0, DATA_WIDTH), y |-> 0,
                z |-> sxt(Folded(phase)[2] * 2^(FRACTIONAL_ANGLE_BITS - PHASE_WIDTH),
                          ANGLE_WIDTH)]
      after[i \in 0..N_STAGES] == IF i = 0 THEN start ELSE Stage(after[i - 1], i - 1)
  IN after[N_STAGES]

Selected(quadrant, x, y) ==
  IF quadrant = 0 THEN <<x, y>>
  ELSE IF quadrant = 1 THEN <<-y, x>>
  ELSE IF quadrant = 2 THEN <<-x, -y>>
  ELSE <<y, -x>>

(* cos and sin of a phase.                                                 *)
cordic_fixed(phase) ==
  LET folded == Folded(phase % 2^PHASE_WIDTH)
      end == _rotate(phase % 2^PHASE_WIDTH)
      out == Selected(folded[1], end.x, end.y)
  IN <<sxt(out[1], DATA_WIDTH), sxt(out[2], DATA_WIDTH)>>

(* selftest, known-answer vectors.                                         *)
KnownAnswers ==
  /\ cordic_fixed(0)     = <<4194303, -70>>
  /\ cordic_fixed(5461)  = <<3632473, 2096982>>
  /\ cordic_fixed(8192)  = <<2965776, 2965867>>
  /\ cordic_fixed(10923) = <<2096982, 3632472>>
  /\ cordic_fixed(16384) = <<70, 4194303>>
  /\ cordic_fixed(24576) = <<-2965867, 2965776>>
  /\ cordic_fixed(32768) = <<-4194303, 70>>
  /\ cordic_fixed(49152) = <<-70, -4194303>>
  /\ cordic_fixed(65354) = <<4193669, -73068>>
  /\ cordic_fixed(65534) = <<4194303, -696>>

(* selftest, symmetries: a quarter and half a turn further are exact,      *)
(* the mirrored phase, which takes other turns, comes near.                *)
Symmetric(phases) ==
  LET table == [phase \in phases |-> cordic_fixed(phase)]
      Turned(phase, by) == table[(phase + by) % 2^PHASE_WIDTH]
      Near(a, b) == a - b \in -NEGATION_BOUND..NEGATION_BOUND
  IN \A phase \in phases :
       LET out == table[phase]
           mirrored == table[-phase % 2^PHASE_WIDTH]
       IN /\ Turned(phase, 2^(PHASE_WIDTH - 2)) = <<-out[2], out[1]>>
          /\ Turned(phase, 2^(PHASE_WIDTH - 1)) = <<-out[1], -out[2]>>
          /\ Near(mirrored[1], out[1]) /\ Near(mirrored[2], -out[2])

=============================================================================
