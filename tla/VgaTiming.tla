---------------------------- MODULE VgaTiming ----------------------------
(***************************************************************************)
(* rtl/apu_vga_timing.sv: the raster counters, the registered beam window, *)
(* and the prefetch window that runs DEPTH pixel clocks ahead of it so     *)
(* that a scene which needs DEPTH clocks lands on the beam.                *)
(*                                                                         *)
(* The numbers of rtl/apu_pkg.sv are constants: what is said below holds   *)
(* for any geometry that fits the 10-bit coordinates.                      *)
(***************************************************************************)
EXTENDS Naturals

CONSTANTS
  ACTIVE_W, H_FP, HSYNC_WIDTH, H_BP,    \* 640 16 96 48 on the board
  ACTIVE_H, V_FP, VSYNC_WIDTH, V_BP,    \* 480 10  2 33
  DEPTH                                 \* clocks the scene needs

H_TOTAL == ACTIVE_W + H_FP + HSYNC_WIDTH + H_BP
V_TOTAL == ACTIVE_H + V_FP + VSYNC_WIDTH + V_BP

Positive == Nat \ {0}
COORDS == 1024      \* coord_t is 10 bits wide

GeometryOK ==
  /\ ACTIVE_W \in Positive /\ H_FP \in Positive
  /\ HSYNC_WIDTH \in Positive /\ H_BP \in Positive
  /\ ACTIVE_H \in Positive /\ V_FP \in Positive
  /\ VSYNC_WIDTH \in Positive /\ V_BP \in Positive

WidthsOK == H_TOTAL <= COORDS /\ V_TOTAL <= COORDS

(* "Contract: 1 <= DEPTH <= apu_pkg::H_BP".                                *)
DepthOK == DEPTH \in Positive /\ DEPTH <= H_BP

ASSUME GeometryAssumption == GeometryOK
ASSUME WidthsAssumption == WidthsOK
ASSUME DepthAssumption == DepthOK

H_SYNC_START == ACTIVE_W + H_FP
H_SYNC_END   == H_SYNC_START + HSYNC_WIDTH
V_SYNC_START == ACTIVE_H + V_FP
V_SYNC_END   == V_SYNC_START + VSYNC_WIDTH
PRE_START    == H_TOTAL - DEPTH

VARIABLES
  h_cnt, v_cnt,
  hsync_o, vsync_o, de_o, x_o, y_o, sof_o, sol_o,
  de_pre_o, x_pre_o, y_pre_o, sof_pre_o,
  hsync_low_cnt, vsync_low_cnt, hsync_o_d, vsync_o_d,   \* for the assertions
  hsync_seen_fall, vsync_seen_fall

beamVars  == <<h_cnt, v_cnt, hsync_o, vsync_o, de_o, x_o, y_o, sof_o, sol_o>>
preVars   == <<de_pre_o, x_pre_o, y_pre_o, sof_pre_o>>
watchVars == <<hsync_low_cnt, vsync_low_cnt, hsync_o_d, vsync_o_d,
               hsync_seen_fall, vsync_seen_fall>>
timingVars == <<beamVars, preVars, watchVars>>

-----------------------------------------------------------------------------
(* The combinational block, as functions of the counters.                  *)

LastCol == h_cnt = H_TOTAL - 1
v_wrap == v_cnt = V_TOTAL - 1

h_cnt_next == IF LastCol THEN 0 ELSE h_cnt + 1
(* Mutant: the last line does not wrap.                                    *)
v_cnt_next_Stuck == IF LastCol /\ ~v_wrap THEN v_cnt + 1 ELSE v_cnt

v_cnt_next == IF ~LastCol THEN v_cnt ELSE IF v_wrap THEN 0 ELSE v_cnt + 1

Active(h, v) == h < ACTIVE_W /\ v < ACTIVE_H

(* Mutant: the sync region includes its end.                               *)
hsync_next_Wide == ~(H_SYNC_START <= h_cnt /\ h_cnt <= H_SYNC_END)

hsync_next == ~(H_SYNC_START <= h_cnt /\ h_cnt < H_SYNC_END)
vsync_next == ~(V_SYNC_START <= v_cnt /\ v_cnt < V_SYNC_END)

sol_next == h_cnt_next = 0
sof_next == sol_next /\ v_cnt_next = 0

pre_carry == h_cnt >= PRE_START
h_pre == IF pre_carry THEN h_cnt - PRE_START ELSE h_cnt + DEPTH
v_pre == IF ~pre_carry THEN v_cnt ELSE IF v_wrap THEN 0 ELSE v_cnt + 1
(* Mutants: the phase moves with the beam's frame, or once per line.       *)
sof_pre_next_AtBeam == sof_next
sof_pre_next_EachLine == h_cnt_next = PRE_START

sof_pre_next == h_cnt_next = PRE_START /\ v_wrap

-----------------------------------------------------------------------------
(* Reset starts on the last line of vertical blanking.                     *)
TimingInit ==
  /\ h_cnt = 0 /\ v_cnt = V_TOTAL - 1
  /\ hsync_o = TRUE /\ vsync_o = TRUE /\ de_o = FALSE /\ x_o = 0 /\ y_o = 0
  /\ sof_o = FALSE /\ sol_o = FALSE
  /\ de_pre_o = FALSE /\ x_pre_o = 0 /\ y_pre_o = 0 /\ sof_pre_o = FALSE
  /\ hsync_low_cnt = 0 /\ vsync_low_cnt = 0
  /\ hsync_o_d = TRUE /\ vsync_o_d = TRUE
  /\ hsync_seen_fall = FALSE /\ vsync_seen_fall = FALSE

(* Mutant: reset starts the raster at the origin.                          *)
TimingReset_AtOrigin ==
  /\ h_cnt' = 0 /\ v_cnt' = 0
  /\ hsync_o' = TRUE /\ vsync_o' = TRUE /\ de_o' = FALSE /\ x_o' = 0 /\ y_o' = 0
  /\ sof_o' = FALSE /\ sol_o' = FALSE
  /\ de_pre_o' = FALSE /\ x_pre_o' = 0 /\ y_pre_o' = 0 /\ sof_pre_o' = FALSE
  /\ hsync_low_cnt' = 0 /\ vsync_low_cnt' = 0
  /\ hsync_o_d' = TRUE /\ vsync_o_d' = TRUE
  /\ hsync_seen_fall' = FALSE /\ vsync_seen_fall' = FALSE

TimingReset ==
  /\ h_cnt' = 0 /\ v_cnt' = V_TOTAL - 1
  /\ hsync_o' = TRUE /\ vsync_o' = TRUE /\ de_o' = FALSE /\ x_o' = 0 /\ y_o' = 0
  /\ sof_o' = FALSE /\ sol_o' = FALSE
  /\ de_pre_o' = FALSE /\ x_pre_o' = 0 /\ y_pre_o' = 0 /\ sof_pre_o' = FALSE
  /\ hsync_low_cnt' = 0 /\ vsync_low_cnt' = 0
  /\ hsync_o_d' = TRUE /\ vsync_o_d' = TRUE
  /\ hsync_seen_fall' = FALSE /\ vsync_seen_fall' = FALSE

Counters == h_cnt' = h_cnt_next /\ v_cnt' = v_cnt_next

BeamWindow ==
  /\ hsync_o' = hsync_next /\ vsync_o' = vsync_next
  /\ de_o' = Active(h_cnt, v_cnt) /\ x_o' = h_cnt /\ y_o' = v_cnt
  /\ sof_o' = sof_next /\ sol_o' = sol_next

PrefetchWindow ==
  /\ de_pre_o' = Active(h_pre, v_pre) /\ x_pre_o' = h_pre /\ y_pre_o' = v_pre
  /\ sof_pre_o' = sof_pre_next

(* Registers of 8 and 12 bits count the clocks each sync has been low.     *)
W8 == 256
W12 == 4096

WatchSyncs ==
  /\ hsync_low_cnt' = IF hsync_o THEN 0 ELSE (hsync_low_cnt + 1) % W8
  /\ vsync_low_cnt' = IF vsync_o THEN 0 ELSE (vsync_low_cnt + 1) % W12
  /\ hsync_o_d' = hsync_o /\ vsync_o_d' = vsync_o
  /\ hsync_seen_fall' = (hsync_seen_fall \/ (hsync_o_d /\ ~hsync_o))
  /\ vsync_seen_fall' = (vsync_seen_fall \/ (vsync_o_d /\ ~vsync_o))

TimingClk == Counters /\ BeamWindow /\ PrefetchWindow /\ WatchSyncs

-----------------------------------------------------------------------------
(* The assertions of the module, evaluated at a clock edge outside reset.  *)

(* p_hsync_width: a finished HSYNC pulse was HSYNC_WIDTH clocks long.      *)
p_hsync_width ==
  hsync_o /\ ~hsync_o_d /\ hsync_seen_fall => hsync_low_cnt = HSYNC_WIDTH % W8

(* p_vsync_width: a finished VSYNC pulse was VSYNC_WIDTH whole lines long. *)
p_vsync_width ==
  vsync_o /\ ~vsync_o_d /\ vsync_seen_fall =>
    vsync_low_cnt = (VSYNC_WIDTH * H_TOTAL) % W12

=============================================================================
