----------------------------- MODULE MCCordic -----------------------------
(***************************************************************************)
(* The whole circle for the CORDIC, against the golden model.  The wheel   *)
(* that the plasma turns its sines into colours with has no state; TLC     *)
(* evaluates what is said of it with this module.                          *)
(***************************************************************************)
EXTENDS Cordic, PlasmaField

MCSweep == 0..2^NA - 1

Golden == INSTANCE CordicGolden
  WITH N_STAGES <- N, DATA_WIDTH <- W, FRACTIONAL_ANGLE_BITS <- FZ, PHASE_WIDTH <- NA

(* What the golden model's self test asserts of it.                        *)
ASSUME GoldenKnowsItsAnswers == Golden!KnownAnswers
ASSUME GoldenIsSymmetric == Golden!Symmetric(MCSweep)

-----------------------------------------------------------------------------
(* Properties.                                                             *)

Out == stage = N + 1

(* "bit-exact with the RTL at the same widths": the pipeline's output is   *)
(* the golden model's, for every phase.  Rounding of negative shifts, the  *)
(* tie at z = 0, the tables and the folds are written twice and must agree *)
(* to the bit.                                                             *)
MatchesGolden == Out => <<cos_o, sin_o>> = Golden!cordic_fixed(phase_i)

=============================================================================
