---------------------------- MODULE PlasmaField ----------------------------
(***************************************************************************)
(* The hue wheel of rtl/apu_plasma.sv: the colour of a pixel as a function *)
(* of the field F, the sum of the sines of three gratings.                 *)
(***************************************************************************)
EXTENDS Integers

(* F is within +-Full; Full itself stands for three sines of exactly one.  *)
Full == 3 * 2^22

(* 65536 counts to a segment, in 19 bits; the top endpoint stays in the    *)
(* last segment.                                                           *)
Fn(f) == ((f \div 64) + 196608) % 2^19
seg(f) == IF Fn(f) >= 393216 THEN 5 ELSE Fn(f) \div 65536
q3(f) == (Fn(f) \div 2^13) % 8
q2(f) == (Fn(f) \div 2^14) % 4

Colour(r, g, b) == [r3 |-> r, g3 |-> g, b2 |-> b]

rgb(f) ==
  CASE seg(f) = 0 -> Colour(7, q3(f), 0)
    [] seg(f) = 1 -> Colour(7 - q3(f), 7, 0)
    [] seg(f) = 2 -> Colour(0, 7, q2(f))
    [] seg(f) = 3 -> Colour(0, 7 - q3(f), 3)
    [] seg(f) = 4 -> Colour(q3(f), 0, 3)
    [] seg(f) = 5 -> Colour(7, 0, 3 - q2(f))

-----------------------------------------------------------------------------
(* Facts about the wheel, evaluated for every value of F at which a colour *)
(* can change.                                                             *)

Sweep == {64 * 128 * n : n \in -1536..1535}

(* The wheel has no seam: where a colour changes, one channel changes by   *)
(* one.  A segment that starts where the one before did not end, or runs   *)
(* the wrong way, would show as a hard edge in a smooth picture.           *)
ASSUME HueContinuous ==
  LET Apart(a, b) == IF a > b THEN a - b ELSE b - a
  IN \A f \in Sweep \ {-Full} :
       LET c == rgb(f - 1) d == rgb(f)
       IN Apart(c.r3, d.r3) + Apart(c.g3, d.g3) + Apart(c.b2, d.b2) <= 1

(* Opposite values of F have opposite places on the wheel: half a turn     *)
(* apart, colours are complementary.                                       *)
ASSUME HueOpposite ==
  \A f \in Sweep :
    LET c == rgb(f) d == rgb(IF f < 0 THEN f + Full ELSE f - Full)
    IN c.r3 + d.r3 = 7 /\ c.g3 + d.g3 = 7 /\ c.b2 + d.b2 = 3

=============================================================================
