--------------------------- MODULE ApuTopProofs ---------------------------
(***************************************************************************)
(* The prefetch of rtl/apu_vga_timing.sv and rtl/apu_top.sv, for every     *)
(* geometry, every DEPTH within the contract and every pattern of resets.  *)
(***************************************************************************)
EXTENDS ApuTop, TLAPS

(* The place the beam reaches k clocks from now, k at most a line.         *)
AheadH(k) == IF h_cnt + k >= H_TOTAL THEN h_cnt + k - H_TOTAL ELSE h_cnt + k
AheadV(k) == IF h_cnt + k < H_TOTAL THEN v_cnt ELSE IF v_wrap THEN 0 ELSE v_cnt + 1

(* (de, x, y) is the pixel the beam shows k clocks from now.               *)
Shows(de, x, y, k) ==
  /\ de <=> Active(AheadH(k), AheadV(k))
  /\ de => x = AheadH(k) /\ y = AheadV(k)

CountersOK == h_cnt \in 0..H_TOTAL - 1 /\ v_cnt \in 0..V_TOTAL - 1

(* The prefetch registers are DEPTH - 1 clocks ahead of the counters, that *)
(* is DEPTH clocks ahead of the beam registers.                            *)
PreInv == Shows(de_pre_o, x_pre_o, y_pre_o, DEPTH - 1)

(* Stage i is i clocks older; the last stage meets the beam.               *)
PipeInv ==
  \A i \in 1..DEPTH - 1 :
    Shows(pipe[i].de, pipe[i].x, pipe[i].y, DEPTH - 1 - i)

OutInv ==
  /\ out.de <=> de_o
  /\ de_o => out.x = x_o /\ out.y = y_o

PhaseInv == \A i \in Stages : pipe[i].de => pipe[i].phase = frame

BeamInv ==
  /\ de_o => /\ x_o < ACTIVE_W /\ h_cnt = x_o + 1
             /\ y_o < ACTIVE_H /\ v_cnt = y_o
             /\ hsync_o /\ vsync_o
  /\ sof_pre_o => h_cnt = PRE_START /\ v_cnt = V_TOTAL - 1

(* The two flops of the synchronizer follow arst_n in order, and until the *)
(* second one is up the timing registers are where reset put them.         *)
ResetInv ==
  /\ d1 \in BOOLEAN /\ d0 \in BOOLEAN /\ arst_n \in BOOLEAN
  /\ d1 => d0
  /\ d0 => arst_n
  /\ ~d1 => h_cnt = 0 /\ v_cnt = V_TOTAL - 1 /\ ~de_o /\ ~de_pre_o /\ ~sof_pre_o

IInv ==
  /\ CountersOK /\ PreInv /\ BeamInv /\ ResetInv
  /\ d1 => PipeInv /\ OutInv /\ PhaseInv

-----------------------------------------------------------------------------
(* The geometry, in the form the steps below use it.                       *)
LEMMA Geometry ==
  /\ H_TOTAL \in Nat /\ V_TOTAL \in Nat /\ DEPTH \in Nat
  /\ ACTIVE_W \in Nat /\ ACTIVE_H \in Nat
  /\ DEPTH >= 1 /\ ACTIVE_W + DEPTH < H_TOTAL
  /\ ACTIVE_H < V_TOTAL - 1 /\ V_TOTAL >= 1
  /\ PRE_START = H_TOTAL - DEPTH
BY GeometryAssumption, DepthAssumption, SMT
   DEF GeometryOK, DepthOK, Positive, H_TOTAL, V_TOTAL, PRE_START

LEMMA SyncGeometry ==
  /\ H_SYNC_START \in Nat /\ H_SYNC_END \in Nat
  /\ V_SYNC_START \in Nat /\ V_SYNC_END \in Nat
  /\ ACTIVE_W < H_SYNC_START /\ H_SYNC_END < H_TOTAL
  /\ H_SYNC_END = H_SYNC_START + HSYNC_WIDTH /\ HSYNC_WIDTH \in Nat
  /\ ACTIVE_H < V_SYNC_START
BY GeometryAssumption, SMT
   DEF GeometryOK, Positive, H_SYNC_START, H_SYNC_END, V_SYNC_START, V_SYNC_END,
       H_TOTAL

(* After a clock, what was k + 1 clocks ahead is k clocks ahead.           *)
LEMMA AheadStep ==
  ASSUME CountersOK, Counters, NEW k \in 0..DEPTH - 1
  PROVE  /\ CountersOK'
         /\ AheadH(k)' = AheadH(k + 1)
         /\ AheadV(k)' = AheadV(k + 1)
BY Geometry, SMT DEF CountersOK, Counters, h_cnt_next, v_cnt_next, LastCol, v_wrap,
   AheadH, AheadV

LEMMA PrefetchIsAhead ==
  ASSUME CountersOK
  PROVE  h_pre = AheadH(DEPTH) /\ v_pre = AheadV(DEPTH)
BY Geometry, SMT DEF CountersOK, h_pre, v_pre, pre_carry, v_wrap, AheadH, AheadV

(* On the last line of blanking nothing up to DEPTH - 1 clocks after its   *)
(* start, or before its end, is active.                                    *)
LEMMA BlankAhead ==
  ASSUME CountersOK, v_cnt = V_TOTAL - 1, NEW k \in Nat, h_cnt + k < H_TOTAL
  PROVE  ~Active(AheadH(k), AheadV(k))
BY Geometry, SMT DEF CountersOK, Active, AheadH, AheadV, v_wrap

-----------------------------------------------------------------------------
(* The clock out of reset.                                                 *)
LEMMA RunCounters ==
  ASSUME IInv, Run
  PROVE  /\ CountersOK'
         /\ \A k \in 0..DEPTH - 1 :
              AheadH(k)' = AheadH(k + 1) /\ AheadV(k)' = AheadV(k + 1)
<1>1. CountersOK /\ Counters
  BY DEF IInv, Run, TimingClk
<1>2. 0 \in 0..DEPTH - 1
  BY Geometry, SMT
<1> QED BY <1>1, <1>2, AheadStep

LEMMA RunPre ==
  ASSUME IInv, Run
  PROVE  PreInv'
<1>1. h_pre = AheadH(DEPTH) /\ v_pre = AheadV(DEPTH)
  BY PrefetchIsAhead DEF IInv
<1>2. /\ de_pre_o' = Active(AheadH(DEPTH), AheadV(DEPTH))
      /\ x_pre_o' = AheadH(DEPTH) /\ y_pre_o' = AheadV(DEPTH)
  BY <1>1 DEF Run, TimingClk, PrefetchWindow
<1>3. DEPTH - 1 \in 0..DEPTH - 1 /\ (DEPTH - 1) + 1 = DEPTH
  BY Geometry, SMT
<1>4. AheadH(DEPTH - 1)' = AheadH(DEPTH) /\ AheadV(DEPTH - 1)' = AheadV(DEPTH)
  BY <1>3, RunCounters
<1> QED BY <1>2, <1>4 DEF PreInv, Shows, Active

(* What sits in a stage after the shift, against the clock before it.      *)
LEMMA RunStage ==
  ASSUME IInv, Run, d1, NEW i \in Stages
  PROVE  Shows(pipe'[i].de, pipe'[i].x, pipe'[i].y, DEPTH - i)
<1>1. CASE i = 1
  <2>1. pipe'[i] = Fed
    BY <1>1 DEF Run, Shift
  <2>2. Shows(de_pre_o, x_pre_o, y_pre_o, DEPTH - i)
    BY <1>1 DEF IInv, PreInv
  <2> QED BY <2>1, <2>2 DEF Fed
<1>2. CASE i # 1
  <2>1. pipe'[i] = pipe[i - 1]
    BY <1>2 DEF Run, Shift
  <2>2. i - 1 \in 1..DEPTH - 1 /\ DEPTH - 1 - (i - 1) = DEPTH - i
    BY <1>2, Geometry, SMT DEF Stages
  <2> QED BY <2>1, <2>2 DEF IInv, PipeInv
<1> QED BY <1>1, <1>2

LEMMA RunPipe ==
  ASSUME IInv, Run, d1
  PROVE  PipeInv' /\ OutInv'
<1>1. PipeInv'
  <2> SUFFICES ASSUME NEW i \in 1..DEPTH - 1
               PROVE  Shows(pipe[i].de, pipe[i].x, pipe[i].y, DEPTH - 1 - i)'
    BY DEF PipeInv
  <2>1. i \in Stages /\ DEPTH - 1 - i \in 0..DEPTH - 1
        /\ (DEPTH - 1 - i) + 1 = DEPTH - i
    BY Geometry, SMT DEF Stages
  <2>2. Shows(pipe'[i].de, pipe'[i].x, pipe'[i].y, DEPTH - i)
    BY <2>1, RunStage
  <2>3. /\ AheadH(DEPTH - 1 - i)' = AheadH(DEPTH - i)
        /\ AheadV(DEPTH - 1 - i)' = AheadV(DEPTH - i)
    BY <2>1, RunCounters
  <2> QED BY <2>2, <2>3 DEF Shows, Active
<1>2. OutInv'
  <2>1. DEPTH \in Stages /\ DEPTH - DEPTH = 0
    BY Geometry, SMT DEF Stages
  <2>2. Shows(pipe'[DEPTH].de, pipe'[DEPTH].x, pipe'[DEPTH].y, 0)
    BY <2>1, RunStage
  <2>3. AheadH(0) = h_cnt /\ AheadV(0) = v_cnt
    BY Geometry, SMT DEF IInv, CountersOK, AheadH, AheadV
  <2>4. de_o' = Active(h_cnt, v_cnt) /\ x_o' = h_cnt /\ y_o' = v_cnt
    BY DEF Run, TimingClk, BeamWindow
  <2> QED BY <2>2, <2>3, <2>4 DEF OutInv, out, Shows
<1> QED BY <1>1, <1>2

(* When the phase moves, the pipe holds nothing but blanking.              *)
LEMMA RunPhase ==
  ASSUME IInv, Run, d1
  PROVE  PhaseInv'
<1> SUFFICES ASSUME NEW i \in Stages, pipe'[i].de
             PROVE  pipe'[i].phase = frame'
  BY DEF PhaseInv
<1>1. ~sof_pre_o
  <2> SUFFICES ASSUME sof_pre_o PROVE FALSE
    OBVIOUS
  <2>1. h_cnt = PRE_START /\ v_cnt = V_TOTAL - 1 /\ CountersOK
    BY DEF IInv, BeamInv
  <2>2. DEPTH - i \in Nat /\ h_cnt + (DEPTH - i) < H_TOTAL
    BY <2>1, Geometry, SMT DEF Stages
  <2>3. ~Active(AheadH(DEPTH - i), AheadV(DEPTH - i))
    BY <2>1, <2>2, BlankAhead
  <2> QED BY <2>3, RunStage DEF Shows
<1>2. frame' = frame
  BY <1>1 DEF Run, PhaseStep
<1>3. CASE i = 1
  BY <1>2, <1>3 DEF Run, Shift, Fed
<1>4. CASE i # 1
  <2>1. pipe'[i] = pipe[i - 1]
    BY <1>4 DEF Run, Shift
  <2>2. i - 1 \in Stages
    BY <1>4, Geometry, SMT DEF Stages
  <2> QED BY <1>2, <2>1, <2>2 DEF IInv, PhaseInv
<1> QED BY <1>3, <1>4

LEMMA RunBeam ==
  ASSUME IInv, Run
  PROVE  BeamInv'
<1>1. CountersOK
  BY DEF IInv
<1>2. /\ h_cnt' = h_cnt_next /\ v_cnt' = v_cnt_next
      /\ hsync_o' = hsync_next /\ vsync_o' = vsync_next
      /\ de_o' = Active(h_cnt, v_cnt) /\ x_o' = h_cnt /\ y_o' = v_cnt
      /\ sof_pre_o' = sof_pre_next
  BY DEF Run, TimingClk, Counters, BeamWindow, PrefetchWindow
<1>3. ASSUME Active(h_cnt, v_cnt)
      PROVE  /\ h_cnt < ACTIVE_W /\ h_cnt_next = h_cnt + 1
             /\ v_cnt < ACTIVE_H /\ v_cnt_next = v_cnt
             /\ hsync_next /\ vsync_next
  BY <1>1, <1>3, Geometry, SyncGeometry, SMT
     DEF CountersOK, Active, h_cnt_next, v_cnt_next, LastCol, hsync_next, vsync_next
<1>4. ASSUME sof_pre_next
      PROVE  h_cnt_next = PRE_START /\ v_cnt_next = V_TOTAL - 1
  BY <1>1, <1>4, Geometry, SMT
     DEF CountersOK, h_cnt_next, v_cnt_next, sof_pre_next, LastCol, v_wrap
<1> QED BY <1>2, <1>3, <1>4 DEF BeamInv

LEMMA RunInv ==
  ASSUME IInv, Run, Sync!Clk(arst_n), UNCHANGED arst_n
  PROVE  IInv'
<1>1. d1
  BY DEF Run, pix_rst_n, Sync!rst_sync_n_o
<1>2. d0 /\ arst_n
  BY <1>1 DEF IInv, ResetInv
<1>3. d0' /\ d1' /\ arst_n' = arst_n
  BY <1>2 DEF Sync!Clk
<1>4. ResetInv'
  BY <1>2, <1>3 DEF IInv, ResetInv, Sync!Clk
<1> QED BY <1>1, <1>4, RunCounters, RunPre, RunPipe, RunPhase, RunBeam DEF IInv

-----------------------------------------------------------------------------
(* The place reset puts the raster: a whole blank line before the frame.   *)
AtReset ==
  /\ h_cnt = 0 /\ v_cnt = V_TOTAL - 1
  /\ de_o = FALSE /\ de_pre_o = FALSE /\ sof_pre_o = FALSE

LEMMA ResetPlace ==
  ASSUME AtReset
  PROVE  /\ CountersOK /\ PreInv /\ BeamInv
         /\ pipe = Empty => PipeInv /\ OutInv /\ PhaseInv
<1>1. CountersOK
  BY Geometry, SMT DEF AtReset, CountersOK
<1>2. ASSUME NEW k \in Nat, k < DEPTH
      PROVE  ~Active(AheadH(k), AheadV(k))
  <2>1. h_cnt + k < H_TOTAL /\ v_cnt = V_TOTAL - 1
    BY <1>2, Geometry, SMT DEF AtReset
  <2> QED BY <1>1, <2>1, BlankAhead
<1>3. PreInv
  <2>1. DEPTH - 1 \in Nat /\ DEPTH - 1 < DEPTH
    BY Geometry, SMT
  <2> QED BY <1>2, <2>1 DEF AtReset, PreInv, Shows
<1>4. BeamInv
  BY DEF AtReset, BeamInv
<1>5. ASSUME pipe = Empty
      PROVE  PipeInv /\ OutInv /\ PhaseInv
  <2>1. \A i \in Stages : pipe[i].de = FALSE
    BY <1>5 DEF Empty, Blank
  <2>2. PipeInv
    <3> SUFFICES ASSUME NEW i \in 1..DEPTH - 1
                 PROVE  Shows(pipe[i].de, pipe[i].x, pipe[i].y, DEPTH - 1 - i)
      BY DEF PipeInv
    <3>1. i \in Stages /\ DEPTH - 1 - i \in Nat /\ DEPTH - 1 - i < DEPTH
      BY Geometry, SMT DEF Stages
    <3> QED BY <1>2, <2>1, <3>1 DEF Shows
  <2>3. DEPTH \in Stages
    BY Geometry, SMT DEF Stages
  <2> QED BY <2>1, <2>2, <2>3 DEF AtReset, OutInv, PhaseInv, out
<1> QED BY <1>1, <1>3, <1>4, <1>5

LEMMA InitInv == Init => IInv
<1> SUFFICES ASSUME Init PROVE IInv
  OBVIOUS
<1>1. AtReset
  BY DEF Init, TimingInit, AtReset
<1>2. ResetInv
  BY <1>1 DEF Init, Sync!Init, ResetInv, AtReset
<1> QED BY <1>1, <1>2, ResetPlace DEF IInv, Init

LEMMA HoldInv ==
  ASSUME IInv, Hold, Sync!Clk(arst_n), UNCHANGED arst_n
  PROVE  IInv'
<1>1. AtReset'
  BY DEF IInv, ResetInv, Hold, pix_rst_n, Sync!rst_sync_n_o, AtReset,
         timingVars, beamVars, preVars
<1>2. pipe' = Empty
  BY DEF Hold
<1>3. ResetInv'
  BY <1>1 DEF IInv, ResetInv, AtReset, Sync!Clk
<1>4. (CountersOK /\ PreInv /\ BeamInv)' /\ (pipe = Empty => PipeInv /\ OutInv /\ PhaseInv)'
  BY <1>1, ResetPlace, PTL
<1> QED BY <1>2, <1>3, <1>4 DEF IInv

LEMMA LoseResetInv ==
  ASSUME IInv, LoseReset
  PROVE  IInv'
<1>1. AtReset'
  BY DEF LoseReset, TimingReset, AtReset
<1>2. ResetInv' /\ ~d1'
  BY <1>1 DEF LoseReset, Sync!Assert, ResetInv, AtReset
<1>3. (CountersOK /\ PreInv /\ BeamInv)'
  BY <1>1, ResetPlace, PTL
<1> QED BY <1>2, <1>3 DEF IInv

LEMMA StillInv ==
  ASSUME IInv, UNCHANGED <<timingVars, d0, d1, sceneVars>>, ResetInv'
  PROVE  IInv'
<1> USE DEF timingVars, beamVars, preVars, sceneVars
<1>1. CountersOK' /\ BeamInv'
  BY DEF IInv, CountersOK, BeamInv
<1>2. \A k : AheadH(k)' = AheadH(k) /\ AheadV(k)' = AheadV(k)
  BY DEF AheadH, AheadV, v_wrap
<1>3. PreInv' /\ (PipeInv => PipeInv')
  BY <1>2 DEF IInv, PreInv, PipeInv, Shows, Active
<1>4. (OutInv => OutInv') /\ (PhaseInv => PhaseInv')
  BY DEF OutInv, PhaseInv, out
<1> QED BY <1>1, <1>3, <1>4 DEF IInv

LEMMA RegainResetInv ==
  ASSUME IInv, RegainReset
  PROVE  IInv'
<1>1. ResetInv'
  BY DEF IInv, ResetInv, RegainReset, timingVars, beamVars, preVars
<1> QED BY <1>1, StillInv DEF RegainReset

LEMMA StutterInv ==
  ASSUME IInv, UNCHANGED vars
  PROVE  IInv'
<1>1. ResetInv'
  BY DEF IInv, ResetInv, vars, timingVars, beamVars, preVars
<1> QED BY <1>1, StillInv DEF vars

THEOREM Inductive == Spec => []IInv
<1>1. IInv /\ [Next]_vars => IInv'
  BY RunInv, HoldInv, LoseResetInv, RegainResetInv, StutterInv DEF Next, Clk
<1> QED BY InitInv, <1>1, PTL DEF Spec

-----------------------------------------------------------------------------
(* D18 of the raster: the scene's window meets the beam's window, for      *)
(* every geometry, every DEPTH up to the back porch and every reset.       *)
THEOREM Prefetched == Spec => []SceneOnBeam
<1>1. IInv => SceneOnBeam
  BY DEF IInv, OutInv, SceneOnBeam, pix_rst_n, Sync!rst_sync_n_o
<1> QED BY Inductive, <1>1, PTL

(* The phase never moves while an active pixel is in the pipeline.         *)
THEOREM NoTearing == Spec => []OnePhasePerFrame
<1>1. IInv => OnePhasePerFrame
  BY DEF IInv, PhaseInv, OnePhasePerFrame, pix_rst_n, Sync!rst_sync_n_o
<1> QED BY Inductive, <1>1, PTL

(* p_de_not_in_hsync and p_de_not_in_vsync hold of the scene's DE.         *)
THEOREM DeClearOfSyncs == Spec => []DeOutsideSyncs
<1>1. IInv => DeOutsideSyncs
  BY DEF IInv, OutInv, BeamInv, DeOutsideSyncs, pix_rst_n, Sync!rst_sync_n_o
<1> QED BY Inductive, <1>1, PTL


-----------------------------------------------------------------------------
(* The widths of the registers.                                            *)
TInv == TypeOK /\ de_pre_o \in BOOLEAN

LEMMA TypeOfReset ==
  /\ 0 \in 0..H_TOTAL - 1 /\ 0 \in 0..V_TOTAL - 1 /\ V_TOTAL - 1 \in 0..V_TOTAL - 1
  /\ 0 \in 0..PHASES - 1
  /\ Empty \in [Stages -> Pixel]
<1>1. PHASES \in Nat /\ PHASES > 0
  BY SceneAssumption, SMT DEF SceneOK, Positive
<1>2. /\ 0 \in 0..H_TOTAL - 1 /\ 0 \in 0..V_TOTAL - 1 /\ V_TOTAL - 1 \in 0..V_TOTAL - 1
      /\ 0 \in 0..PHASES - 1
  BY <1>1, Geometry, SMT
<1>3. Blank \in Pixel
  BY <1>2 DEF Blank, Pixel
<1> QED BY <1>2, <1>3 DEF Empty

LEMMA RunType ==
  ASSUME TInv, Run
  PROVE  TInv'
<1>1. CountersOK /\ h_cnt' = h_cnt_next /\ v_cnt' = v_cnt_next
  BY DEF TInv, TypeOK, CountersOK, Run, TimingClk, Counters
<1>2. h_cnt' \in 0..H_TOTAL - 1 /\ v_cnt' \in 0..V_TOTAL - 1
  BY <1>1, Geometry, SMT DEF CountersOK, h_cnt_next, v_cnt_next, LastCol, v_wrap
<1>3. x_o' \in 0..H_TOTAL - 1 /\ y_o' \in 0..V_TOTAL - 1
  BY <1>1 DEF CountersOK, Run, TimingClk, BeamWindow
<1>4. h_pre \in 0..H_TOTAL - 1 /\ v_pre \in 0..V_TOTAL - 1
  BY <1>1, Geometry, SMT DEF CountersOK, h_pre, v_pre, pre_carry, v_wrap
<1>5. x_pre_o' \in 0..H_TOTAL - 1 /\ y_pre_o' \in 0..V_TOTAL - 1 /\ de_pre_o' \in BOOLEAN
  BY <1>4 DEF Run, TimingClk, PrefetchWindow, Active
<1>6. frame' \in 0..PHASES - 1
  <2>1. PHASES \in Nat /\ PHASES > 0 /\ DRIFT \in Nat /\ frame \in 0..PHASES - 1
    BY SceneAssumption, SMT DEF SceneOK, Positive, TInv, TypeOK
  <2>2. (frame + DRIFT) % PHASES \in 0..PHASES - 1
    BY <2>1, SMT
  <2> QED BY <2>1, <2>2 DEF Run, PhaseStep
<1>7. pipe' \in [Stages -> Pixel]
  <2>1. Fed \in Pixel
    BY DEF TInv, TypeOK, Fed, Pixel
  <2>2. ASSUME NEW i \in Stages, i # 1 PROVE pipe[i - 1] \in Pixel
    <3>1. i - 1 \in Stages
      BY <2>2, Geometry, SMT DEF Stages
    <3> QED BY <3>1 DEF TInv, TypeOK
  <2> QED BY <2>1, <2>2 DEF Run, Shift
<1> QED BY <1>2, <1>3, <1>5, <1>6, <1>7 DEF TInv, TypeOK, Stages, Pixel

(* Every register stays within its width.                                  *)
THEOREM TypeCorrect == Spec => []TypeOK
<1>1. Init => TInv
  BY TypeOfReset DEF Init, TimingInit, TInv, TypeOK
<1>2. TInv /\ [Next]_vars => TInv'
  <2> SUFFICES ASSUME TInv, [Next]_vars PROVE TInv'
    OBVIOUS
  <2>1. CASE Run
    BY <2>1, RunType
  <2>2. CASE Hold
    BY <2>2, TypeOfReset
       DEF Hold, TInv, TypeOK, Pixel, Stages, timingVars, beamVars, preVars
  <2>3. CASE LoseReset
    BY <2>3, TypeOfReset DEF LoseReset, TimingReset, TInv, TypeOK, Pixel, Stages
  <2>4. CASE RegainReset
    BY <2>4 DEF RegainReset, TInv, TypeOK, Pixel, Stages, timingVars, beamVars, preVars,
                sceneVars
  <2>5. CASE UNCHANGED vars
    BY <2>5 DEF vars, TInv, TypeOK, Pixel, Stages, timingVars, beamVars, preVars, sceneVars
  <2> QED BY <2>1, <2>2, <2>3, <2>4, <2>5 DEF Next, Clk
<1>3. TInv => TypeOK
  BY DEF TInv
<1> QED BY <1>1, <1>2, <1>3, PTL DEF Spec

-----------------------------------------------------------------------------
(* What is counted and compared is where the raster is.  The beam registers *)
(* show the place the counters left a clock ago, which is column 0 or the   *)
(* end of the line before.                                                  *)
AtOrigin == h_cnt = 0 /\ v_cnt = 0

PlaceInv ==
  /\ de_o <=> h_cnt >= 1 /\ h_cnt <= ACTIVE_W /\ v_cnt < ACTIVE_H
  /\ sof_o <=> AtOrigin
  /\ sof_pre_o <=> h_cnt = PRE_START /\ v_cnt = V_TOTAL - 1

(* The clocks HSYNC has been low, and those of a pulse that just ended.     *)
HsyncInv ==
  /\ hsync_o <=> ~(H_SYNC_START < h_cnt /\ h_cnt <= H_SYNC_END)
  /\ ~hsync_o => hsync_low_cnt = (h_cnt - (H_SYNC_START + 1)) % W8
  /\ hsync_o /\ ~hsync_o_d => hsync_low_cnt = HSYNC_WIDTH % W8

(* The clocks since VSYNC fell, a clock after the first column of its line. *)
VsyncAge == (v_cnt - V_SYNC_START) * H_TOTAL + h_cnt

VsyncFalls == v_cnt = V_SYNC_START /\ h_cnt = 0
VsyncRises == v_cnt = V_SYNC_END /\ h_cnt = 0

(* Reset may leave VSYNC high where a frame would end its pulse.            *)
VsyncInv ==
  /\ V_SYNC_START <= v_cnt /\ v_cnt < V_SYNC_END /\ ~VsyncFalls => ~vsync_o
  /\ ~vsync_o => /\ (V_SYNC_START <= v_cnt /\ v_cnt < V_SYNC_END) \/ VsyncRises
                 /\ ~VsyncFalls
                 /\ vsync_low_cnt = (VsyncAge - 1) % W12
  /\ vsync_o /\ ~vsync_o_d => vsync_low_cnt = (VSYNC_WIDTH * H_TOTAL) % W12

(* The phase has been stepped once it is past PRE_START of the last line.   *)
StepsInv ==
  steps = IF AtOrigin \/ (v_cnt = V_TOTAL - 1 /\ h_cnt > PRE_START) THEN 1 ELSE 0

(* The active pixels the beam has shown up to two clocks ago.               *)
InLine == IF h_cnt = 0 THEN 0 ELSE IF h_cnt - 1 < ACTIVE_W THEN h_cnt - 1 ELSE ACTIVE_W
Shown == IF v_cnt < ACTIVE_H /\ ~AtOrigin THEN v_cnt * ACTIVE_W + InLine
                                          ELSE ACTIVE_H * ACTIVE_W

PixelsInv ==
  /\ started \in BOOLEAN
  /\ started => pixels = Shown
  /\ ~started => pixels = 0 /\ (AtOrigin \/ v_cnt = V_TOTAL - 1)

JInv == PlaceInv /\ HsyncInv /\ VsyncInv /\ StepsInv /\ PixelsInv

-----------------------------------------------------------------------------
(* Out of reset the pixel that leaves the scene is the beam's; in reset     *)
(* nothing is counted.                                                      *)
LEMMA MoreGeometry ==
  /\ PRE_START \in Nat /\ ACTIVE_W < PRE_START /\ PRE_START < H_TOTAL
  /\ V_SYNC_END < V_TOTAL /\ V_SYNC_START < V_SYNC_END
  /\ V_SYNC_END = V_SYNC_START + VSYNC_WIDTH /\ VSYNC_WIDTH \in Nat
  /\ H_SYNC_START < H_SYNC_END
  /\ ACTIVE_W >= 1 /\ ACTIVE_H >= 1
BY GeometryAssumption, DepthAssumption, SMT
   DEF GeometryOK, DepthOK, Positive, H_TOTAL, V_TOTAL, PRE_START,
       H_SYNC_START, H_SYNC_END, V_SYNC_START, V_SYNC_END

LEMMA RunPlace ==
  ASSUME CountersOK, PlaceInv, Run
  PROVE  PlaceInv'
<1>1. /\ h_cnt' = h_cnt_next /\ v_cnt' = v_cnt_next
      /\ de_o' = Active(h_cnt, v_cnt)
      /\ sof_o' = sof_next /\ sof_pre_o' = sof_pre_next
  BY DEF Run, TimingClk, Counters, BeamWindow, PrefetchWindow
<1>2. Active(h_cnt, v_cnt) <=>
        h_cnt_next >= 1 /\ h_cnt_next <= ACTIVE_W /\ v_cnt_next < ACTIVE_H
  BY Geometry, SMT DEF CountersOK, Active, h_cnt_next, v_cnt_next, LastCol, v_wrap
<1>3. sof_next <=> h_cnt_next = 0 /\ v_cnt_next = 0
  BY DEF sof_next, sol_next
<1>4. sof_pre_next <=> h_cnt_next = PRE_START /\ v_cnt_next = V_TOTAL - 1
  BY Geometry, MoreGeometry, SMT
     DEF CountersOK, sof_pre_next, h_cnt_next, v_cnt_next, LastCol, v_wrap
<1> QED BY <1>1, <1>2, <1>3, <1>4 DEF PlaceInv, AtOrigin

(* A counter that wraps counts modulo its width.                           *)
LEMMA WrapCount ==
  /\ \A n \in Nat : ((n % W8) + 1) % W8 = (n + 1) % W8
  /\ \A n \in Nat : ((n % W12) + 1) % W12 = (n + 1) % W12
  /\ 0 % W8 = 0 /\ 0 % W12 = 0
BY SMT DEF W8, W12

LEMMA RunHsync ==
  ASSUME CountersOK, HsyncInv, Run
  PROVE  HsyncInv'
<1>1. /\ h_cnt' = h_cnt_next /\ hsync_o' = hsync_next
      /\ hsync_low_cnt' = IF hsync_o THEN 0 ELSE (hsync_low_cnt + 1) % W8
      /\ hsync_o_d' = hsync_o
  BY DEF Run, TimingClk, Counters, BeamWindow, WatchSyncs
<1>2. hsync_next <=> ~(H_SYNC_START < h_cnt_next /\ h_cnt_next <= H_SYNC_END)
  BY Geometry, SyncGeometry, SMT DEF CountersOK, hsync_next, h_cnt_next, LastCol
<1>3. ASSUME ~hsync_next
      PROVE  hsync_low_cnt' = (h_cnt_next - (H_SYNC_START + 1)) % W8
  <2>1. h_cnt_next = h_cnt + 1 /\ H_SYNC_START <= h_cnt /\ h_cnt < H_SYNC_END
    BY <1>3, Geometry, SyncGeometry, SMT DEF CountersOK, hsync_next, h_cnt_next, LastCol
  <2>2. CASE hsync_o
    <3>1. h_cnt_next - (H_SYNC_START + 1) = 0
      BY <2>1, <2>2, Geometry, SyncGeometry, SMT DEF CountersOK, HsyncInv
    <3> QED BY <1>1, <2>2, <3>1, WrapCount
  <2>3. CASE ~hsync_o
    <3> DEFINE n == h_cnt - (H_SYNC_START + 1)
    <3>1. n \in Nat /\ n + 1 = h_cnt_next - (H_SYNC_START + 1)
      BY <2>1, <2>3, Geometry, SyncGeometry, SMT DEF CountersOK, HsyncInv
    <3>2. hsync_low_cnt = n % W8
      BY <2>3 DEF HsyncInv
    <3> HIDE DEF n
    <3> QED BY <1>1, <2>3, <3>1, <3>2, WrapCount
  <2> QED BY <2>2, <2>3
<1>4. ASSUME hsync_next, ~hsync_o
      PROVE  hsync_low_cnt' = HSYNC_WIDTH % W8
  <2> DEFINE n == h_cnt - (H_SYNC_START + 1)
  <2>1. n \in Nat /\ n + 1 = HSYNC_WIDTH
    BY <1>4, Geometry, SyncGeometry, SMT DEF CountersOK, HsyncInv, hsync_next
  <2>2. hsync_low_cnt = n % W8
    BY <1>4 DEF HsyncInv
  <2> HIDE DEF n
  <2> QED BY <1>1, <1>4, <2>1, <2>2, WrapCount
<1> QED BY <1>1, <1>2, <1>3, <1>4 DEF HsyncInv

(* A line later is a line's clocks later.                                  *)
LEMMA NextLine ==
  ASSUME NEW a \in Nat, NEW b \in Nat
  PROVE  /\ a * b \in Nat
         /\ (a + 1) * b = a * b + b
         /\ 0 * b = 0
BY SMT

LEMMA VsyncAgeStep ==
  ASSUME CountersOK, Counters, V_SYNC_START <= v_cnt, v_cnt < V_SYNC_END
  PROVE  VsyncAge \in Nat /\ VsyncAge' = VsyncAge + 1
<1> DEFINE a == v_cnt - V_SYNC_START
<1>1. a \in Nat /\ v_cnt < V_TOTAL - 1 /\ h_cnt \in Nat
  BY Geometry, SyncGeometry, MoreGeometry, SMT DEF CountersOK
<1>2. /\ a * H_TOTAL \in Nat /\ (a + 1) * H_TOTAL = a * H_TOTAL + H_TOTAL
  BY <1>1, Geometry, NextLine
<1>3. VsyncAge = a * H_TOTAL + h_cnt
  BY DEF VsyncAge
<1>4. CASE h_cnt = H_TOTAL - 1
  <2>1. h_cnt' = 0 /\ v_cnt' = v_cnt + 1
    BY <1>1, <1>4, Geometry, SMT DEF CountersOK, Counters, h_cnt_next, v_cnt_next, LastCol, v_wrap
  <2>2. v_cnt' - V_SYNC_START = a + 1
    BY <2>1, <1>1, SyncGeometry, SMT DEF CountersOK
  <2>3. VsyncAge' = (v_cnt' - V_SYNC_START) * H_TOTAL + h_cnt'
    BY DEF VsyncAge, H_TOTAL, V_SYNC_START
  <2>4. VsyncAge' = (a + 1) * H_TOTAL + 0
    BY <2>1, <2>2, <2>3
  <2> HIDE DEF a
  <2> QED BY <1>1, <1>2, <1>3, <1>4, <2>4, Geometry, SMT
<1>5. CASE h_cnt # H_TOTAL - 1
  <2>1. h_cnt' = h_cnt + 1 /\ v_cnt' = v_cnt
    BY <1>5 DEF Counters, h_cnt_next, v_cnt_next, LastCol
  <2>2. VsyncAge' = a * H_TOTAL + (h_cnt + 1)
    BY <2>1 DEF VsyncAge
  <2> HIDE DEF a
  <2> QED BY <1>1, <1>2, <1>3, <2>2, SMT
<1> QED BY <1>4, <1>5

LEMMA RunVsync ==
  ASSUME CountersOK, VsyncInv, Run
  PROVE  VsyncInv'
<1>1. /\ Counters /\ h_cnt' = h_cnt_next /\ v_cnt' = v_cnt_next
      /\ vsync_o' = vsync_next
      /\ vsync_low_cnt' = IF vsync_o THEN 0 ELSE (vsync_low_cnt + 1) % W12
      /\ vsync_o_d' = vsync_o
  BY DEF Run, TimingClk, Counters, BeamWindow, WatchSyncs
<1>2. /\ VsyncFalls' <=> v_cnt_next = V_SYNC_START /\ h_cnt_next = 0
      /\ VsyncRises' <=> v_cnt_next = V_SYNC_END /\ h_cnt_next = 0
  BY <1>1 DEF VsyncFalls, VsyncRises
<1>3. V_SYNC_START <= v_cnt_next /\ v_cnt_next < V_SYNC_END /\ ~VsyncFalls' => ~vsync_next
  BY <1>2, Geometry, SyncGeometry, MoreGeometry, SMT
     DEF CountersOK, vsync_next, h_cnt_next, v_cnt_next, LastCol, v_wrap
<1>4. ASSUME ~vsync_next
      PROVE  /\ (V_SYNC_START <= v_cnt_next /\ v_cnt_next < V_SYNC_END) \/ VsyncRises'
             /\ ~VsyncFalls'
             /\ V_SYNC_START <= v_cnt /\ v_cnt < V_SYNC_END
  BY <1>2, <1>4, Geometry, SyncGeometry, MoreGeometry, SMT
     DEF CountersOK, vsync_next, h_cnt_next, v_cnt_next, LastCol, v_wrap
<1>5. ASSUME ~vsync_next
      PROVE  vsync_low_cnt' = (VsyncAge' - 1) % W12
  <2>1. VsyncAge \in Nat /\ VsyncAge' = VsyncAge + 1
    BY <1>1, <1>4, <1>5, VsyncAgeStep
  <2>2. CASE vsync_o
    <3>1. v_cnt - V_SYNC_START = 0 /\ h_cnt = 0
      BY <1>4, <1>5, <2>2, SyncGeometry, SMT DEF CountersOK, VsyncInv, VsyncFalls
    <3>2. VsyncAge = 0
      BY <3>1, Geometry, SMT DEF VsyncAge
    <3>3. VsyncAge' - 1 = 0
      BY <2>1, <3>2, SMT
    <3> QED BY <1>1, <2>2, <3>3, WrapCount
  <2>3. CASE ~vsync_o
    <3>1. vsync_low_cnt = (VsyncAge - 1) % W12 /\ ~VsyncFalls
      BY <2>3 DEF VsyncInv
    <3>2. VsyncAge >= 1
      <4>1. CASE h_cnt >= 1
        <5> DEFINE a == v_cnt - V_SYNC_START
        <5>1. a \in Nat /\ h_cnt \in Nat
          BY <1>4, <1>5, SyncGeometry, Geometry, SMT DEF CountersOK
        <5>2. a * H_TOTAL \in Nat
          BY <5>1, Geometry, NextLine
        <5>3. VsyncAge = a * H_TOTAL + h_cnt
          BY DEF VsyncAge
        <5> HIDE DEF a
        <5> QED BY <4>1, <5>1, <5>2, <5>3, SMT
      <4>2. CASE ~(h_cnt >= 1)
        <5> DEFINE a == v_cnt - V_SYNC_START - 1
        <5>1. a \in Nat /\ v_cnt - V_SYNC_START = a + 1 /\ h_cnt = 0
          BY <1>4, <1>5, <3>1, <4>2, SyncGeometry, Geometry, SMT DEF CountersOK, VsyncFalls
        <5>2. a * H_TOTAL \in Nat /\ (a + 1) * H_TOTAL = a * H_TOTAL + H_TOTAL
          BY <5>1, Geometry, NextLine
        <5>3. VsyncAge = (a + 1) * H_TOTAL + 0
          BY <5>1 DEF VsyncAge
        <5> HIDE DEF a
        <5> QED BY <5>1, <5>2, <5>3, Geometry, SMT
      <4> QED BY <4>1, <4>2
    <3> DEFINE n == VsyncAge - 1
    <3>3. n \in Nat /\ VsyncAge' - 1 = n + 1 /\ vsync_low_cnt = n % W12
      BY <2>1, <3>1, <3>2, SMT
    <3> HIDE DEF n
    <3> QED BY <1>1, <2>3, <3>3, WrapCount
  <2> QED BY <2>2, <2>3
<1>6. ASSUME vsync_next, ~vsync_o
      PROVE  vsync_low_cnt' = (VSYNC_WIDTH * H_TOTAL) % W12
  <2>1. v_cnt = V_SYNC_END /\ h_cnt = 0 /\ vsync_low_cnt = (VsyncAge - 1) % W12
    BY <1>6, SyncGeometry, Geometry, SMT
       DEF CountersOK, VsyncInv, VsyncRises, vsync_next
  <2>2. v_cnt - V_SYNC_START = VSYNC_WIDTH
    BY <2>1, SyncGeometry, MoreGeometry, SMT
  <2>3. VsyncAge = VSYNC_WIDTH * H_TOTAL + 0
    BY <2>1, <2>2 DEF VsyncAge
  <2>4. PICK w \in Nat : VSYNC_WIDTH = w + 1
    <3>1. VSYNC_WIDTH - 1 \in Nat /\ VSYNC_WIDTH = (VSYNC_WIDTH - 1) + 1
      BY SyncGeometry, MoreGeometry, SMT
    <3> QED BY <3>1
  <2>5. w * H_TOTAL \in Nat /\ VSYNC_WIDTH * H_TOTAL = w * H_TOTAL + H_TOTAL
    BY <2>4, Geometry, NextLine
  <2> DEFINE n == VSYNC_WIDTH * H_TOTAL - 1
  <2>6. n \in Nat /\ n + 1 = VSYNC_WIDTH * H_TOTAL /\ VsyncAge - 1 = n
    BY <2>3, <2>5, Geometry, SMT
  <2> HIDE DEF n
  <2> QED BY <1>1, <1>6, <2>1, <2>6, WrapCount
<1>7. (~vsync_o)' => ((V_SYNC_START <= v_cnt' /\ v_cnt' < V_SYNC_END) \/ VsyncRises')
                     /\ ~VsyncFalls' /\ vsync_low_cnt' = (VsyncAge' - 1) % W12
  BY <1>1, <1>4, <1>5
<1>8. (vsync_o /\ ~vsync_o_d)' => vsync_low_cnt' = (VSYNC_WIDTH * H_TOTAL) % W12
  BY <1>1, <1>6
<1>9. V_SYNC_START <= v_cnt' /\ v_cnt' < V_SYNC_END /\ ~VsyncFalls' => ~vsync_o'
  BY <1>1, <1>3
<1> QED BY <1>7, <1>8, <1>9 DEF VsyncInv

LEMMA RunSteps ==
  ASSUME CountersOK, PlaceInv, StepsInv, Run
  PROVE  StepsInv'
<1>1. /\ h_cnt' = h_cnt_next /\ v_cnt' = v_cnt_next
      /\ steps' = Tally(steps, sof_o, sof_pre_o, 2)
  BY DEF Run, TimingClk, Counters, Count, MaxSteps
<1>2. steps' = IF sof_pre_o THEN 1 ELSE IF sof_o THEN 0 ELSE steps
  <2>1. (steps = 1 /\ (AtOrigin \/ (v_cnt = V_TOTAL - 1 /\ h_cnt > PRE_START))) \/ steps = 0
    BY DEF StepsInv
  <2>2. sof_pre_o => steps = 0 /\ ~sof_o
    BY <2>1, Geometry, MoreGeometry, SMT DEF PlaceInv, AtOrigin, CountersOK
  <2> QED BY <1>1, <2>1, <2>2, SMT DEF Tally
<1>3. AtOrigin' \/ (v_cnt' = V_TOTAL - 1 /\ h_cnt' > PRE_START)
        <=> sof_pre_o \/ (~sof_o /\ v_cnt = V_TOTAL - 1 /\ h_cnt > PRE_START)
  BY <1>1, Geometry, MoreGeometry, SMT
     DEF CountersOK, PlaceInv, AtOrigin, h_cnt_next, v_cnt_next, LastCol, v_wrap
<1> QED BY <1>2, <1>3 DEF StepsInv, PlaceInv, PRE_START, H_TOTAL, V_TOTAL

(* A line of active pixels further down fits into the frame.               *)
LEMMA LinesFit ==
  ASSUME NEW v \in Nat, v < ACTIVE_H
  PROVE  /\ v * ACTIVE_W \in Nat
         /\ (v + 1) * ACTIVE_W = v * ACTIVE_W + ACTIVE_W
         /\ v * ACTIVE_W + ACTIVE_W <= ACTIVE_H * ACTIVE_W
<1>1. v * ACTIVE_W \in Nat /\ (v + 1) * ACTIVE_W = v * ACTIVE_W + ACTIVE_W
  BY Geometry, NextLine
<1>2. PICK r \in Nat : ACTIVE_H = (v + 1) + r
  <2>1. ACTIVE_H - (v + 1) \in Nat /\ ACTIVE_H = (v + 1) + (ACTIVE_H - (v + 1))
    BY Geometry, SMT
  <2> QED BY <2>1
<1>3. r * ACTIVE_W \in Nat /\ ((v + 1) + r) * ACTIVE_W = (v + 1) * ACTIVE_W + r * ACTIVE_W
  BY <1>2, Geometry, SMT
<1> QED BY <1>1, <1>2, <1>3, Geometry, SMT

(* A clock after the beam showed an active pixel one more has been shown.  *)
LEMMA ShownStep ==
  ASSUME CountersOK, Counters, PlaceInv, ~AtOrigin
  PROVE  /\ Shown \in Nat
         /\ de_o => Shown < ACTIVE_H * ACTIVE_W
         /\ Shown' = IF de_o THEN Shown + 1 ELSE Shown
<1> DEFINE past == v_cnt * ACTIVE_W
           all == ACTIVE_H * ACTIVE_W
<1>1. /\ h_cnt \in Nat /\ v_cnt \in Nat /\ h_cnt < H_TOTAL /\ v_cnt < V_TOTAL
      /\ h_cnt' = h_cnt_next /\ v_cnt' = v_cnt_next
  BY Geometry, SMT DEF CountersOK, Counters
<1>2. all \in Nat /\ InLine \in Nat /\ InLine <= ACTIVE_W
  <2>1. all \in Nat
    BY Geometry, SMT
  <2>2. InLine \in Nat /\ InLine <= ACTIVE_W
    BY <1>1, Geometry, SMT DEF InLine
  <2> QED BY <2>1, <2>2
<1>3. CASE v_cnt < ACTIVE_H
  <2>1. Shown = past + InLine
    BY <1>3 DEF Shown
  <2>2. /\ past \in Nat /\ (v_cnt + 1) * ACTIVE_W = past + ACTIVE_W
        /\ past + ACTIVE_W <= all
    BY <1>1, <1>3, LinesFit
  <2>3. de_o <=> h_cnt >= 1 /\ h_cnt <= ACTIVE_W
    BY <1>3 DEF PlaceInv
  <2>4. InLine = IF h_cnt = 0 THEN 0 ELSE IF h_cnt - 1 < ACTIVE_W THEN h_cnt - 1 ELSE ACTIVE_W
    BY DEF InLine
  <2>5. CASE h_cnt = H_TOTAL - 1
    <3>1. h_cnt' = 0 /\ v_cnt' = v_cnt + 1 /\ InLine = ACTIVE_W /\ ~de_o
      BY <1>1, <1>3, <2>3, <2>4, <2>5, Geometry, MoreGeometry, SMT
         DEF h_cnt_next, v_cnt_next, LastCol, v_wrap
    <3>2. ~AtOrigin'
      BY <1>1, <3>1, SMT DEF AtOrigin
    <3>3. InLine' = 0
      BY <3>1 DEF InLine
    <3>4. CASE v_cnt + 1 < ACTIVE_H
      <4>1. Shown' = (v_cnt + 1) * ACTIVE_W + 0
        BY <3>1, <3>2, <3>3, <3>4 DEF Shown
      <4> HIDE DEF past, all
      <4> QED BY <2>1, <2>2, <3>1, <4>1, Geometry, SMT
    <3>5. CASE ~(v_cnt + 1 < ACTIVE_H)
      <4>1. Shown' = all
        BY <3>1, <3>5 DEF Shown
      <4>2. v_cnt + 1 = ACTIVE_H
        BY <1>1, <1>3, <3>5, Geometry, SMT
      <4>3. all = past + ACTIVE_W
        BY <2>2, <4>2
      <4> HIDE DEF past, all
      <4> QED BY <2>1, <2>2, <3>1, <4>1, <4>3, Geometry, SMT
    <3> QED BY <3>4, <3>5
  <2>6. CASE h_cnt # H_TOTAL - 1
    <3>1. h_cnt' = h_cnt + 1 /\ v_cnt' = v_cnt
      BY <1>1, <2>6 DEF h_cnt_next, v_cnt_next, LastCol
    <3>2. ~AtOrigin'
      BY <1>1, <3>1, SMT DEF AtOrigin
    <3>3. InLine' = IF h_cnt < ACTIVE_W THEN h_cnt ELSE ACTIVE_W
      BY <1>1, <3>1, Geometry, SMT DEF InLine
    <3>4. Shown' = past + InLine'
      BY <1>3, <3>1, <3>2 DEF Shown
    <3>5. InLine' = IF de_o THEN InLine + 1 ELSE InLine
      BY <1>1, <2>3, <2>4, <3>3, Geometry, SMT
    <3>6. de_o => InLine < ACTIVE_W
      BY <1>1, <2>3, <2>4, Geometry, SMT
    <3>7. /\ Shown \in Nat /\ (de_o => Shown < all)
          /\ Shown' = IF de_o THEN Shown + 1 ELSE Shown
      <4> HIDE DEF past, all
      <4> QED BY <1>2, <2>1, <2>2, <3>4, <3>5, <3>6, Geometry, SMT
    <3> QED BY <3>7
  <2> QED BY <2>5, <2>6
<1>4. CASE ~(v_cnt < ACTIVE_H)
  <2>1. Shown = all /\ ~de_o
    BY <1>4 DEF Shown, PlaceInv
  <2>2. ~(v_cnt' < ACTIVE_H) \/ AtOrigin'
    BY <1>1, <1>4, Geometry, SMT DEF AtOrigin, h_cnt_next, v_cnt_next, LastCol, v_wrap
  <2>3. Shown' = all
    BY <2>2 DEF Shown
  <2> QED BY <1>2, <2>1, <2>3
<1> QED BY <1>3, <1>4

LEMMA RunPixels ==
  ASSUME CountersOK, OutInv, PlaceInv, PixelsInv, Run
  PROVE  PixelsInv'
<1> DEFINE all == ACTIVE_H * ACTIVE_W
<1>1. /\ Counters /\ h_cnt' = h_cnt_next /\ v_cnt' = v_cnt_next
      /\ pixels' = Tally(pixels, sof_o, de_o, ACTIVE_W * ACTIVE_H + 1)
      /\ started' = (started \/ sof_o)
  <2>1. /\ Counters /\ h_cnt' = h_cnt_next /\ v_cnt' = v_cnt_next
        /\ pixels' = Tally(pixels, sof_o, out.de, ACTIVE_W * ACTIVE_H + 1)
        /\ started' = (started \/ sof_o)
    BY DEF Run, TimingClk, Counters, Count, MaxPixels
  <2>2. \A n, max : Tally(n, sof_o, out.de, max) = Tally(n, sof_o, de_o, max)
    BY DEF Tally, OutInv
  <2> QED BY <2>1, <2>2
<1>2. ACTIVE_W * ACTIVE_H = all /\ all \in Nat
  BY Geometry, SMT
<1>3. CASE AtOrigin
  <2>1. sof_o /\ ~de_o
    BY <1>3, SMT DEF PlaceInv, AtOrigin
  <2>2. started' = TRUE /\ pixels' = 0
    BY <1>1, <2>1 DEF Tally
  <2>3. h_cnt' = 1 /\ v_cnt' = 0
    BY <1>1, <1>3, Geometry, MoreGeometry, SMT
       DEF AtOrigin, h_cnt_next, v_cnt_next, LastCol
  <2>4. InLine' = 0
    BY <2>3, MoreGeometry, Geometry, SMT DEF InLine
  <2>5. Shown' = 0 * ACTIVE_W + 0
    BY <2>3, <2>4, MoreGeometry, Geometry, SMT DEF Shown, AtOrigin
  <2>6. 0 * ACTIVE_W + 0 = 0
    BY Geometry, SMT
  <2> QED BY <2>2, <2>5, <2>6 DEF PixelsInv
<1>4. CASE ~AtOrigin
  <2>1. ~sof_o
    BY <1>4 DEF PlaceInv
  <2>2. started' = started
    BY <1>1, <2>1 DEF PixelsInv
  <2>3. pixels' = IF de_o /\ pixels < all + 1 THEN pixels + 1 ELSE pixels
    BY <1>1, <1>2, <2>1 DEF Tally
  <2>4. CASE started
    <3>1. /\ pixels = Shown /\ Shown \in Nat /\ (de_o => Shown < all)
          /\ Shown' = IF de_o THEN Shown + 1 ELSE Shown
      BY <1>1, <1>4, <2>4, ShownStep DEF PixelsInv
    <3>2. pixels' = Shown'
      <4> HIDE DEF all
      <4> QED BY <1>2, <2>3, <3>1, SMT
    <3> QED BY <2>2, <2>4, <3>2 DEF PixelsInv
  <2>5. CASE ~started
    <3>1. pixels = 0 /\ v_cnt = V_TOTAL - 1
      BY <1>4, <2>5 DEF PixelsInv
    <3>2. ~de_o
      BY <3>1, Geometry, SMT DEF PlaceInv, CountersOK
    <3>3. AtOrigin' \/ v_cnt' = V_TOTAL - 1
      BY <1>1, <3>1, SMT DEF AtOrigin, h_cnt_next, v_cnt_next, LastCol, v_wrap
    <3>4. pixels' = 0
      BY <2>3, <3>1, <3>2
    <3> QED BY <2>2, <2>5, <3>3, <3>4 DEF PixelsInv, V_TOTAL
  <2> QED BY <2>4, <2>5 DEF PixelsInv
<1> QED BY <1>3, <1>4

(* Where reset puts the raster nothing has been counted.                   *)
Uncounted ==
  /\ AtReset /\ ~sof_o /\ hsync_o = TRUE /\ vsync_o = TRUE /\ hsync_o_d = TRUE /\ vsync_o_d = TRUE
  /\ steps = 0 /\ pixels = 0 /\ started = FALSE

LEMMA UncountedInv == Uncounted => JInv
<1> SUFFICES ASSUME Uncounted PROVE JInv
  OBVIOUS
<1>1. h_cnt = 0 /\ v_cnt = V_TOTAL - 1 /\ ~de_o /\ ~sof_o /\ ~sof_pre_o
  BY DEF Uncounted, AtReset
<1>2. ~AtOrigin
  BY <1>1, Geometry, SMT DEF AtOrigin
<1>3. PlaceInv
  BY <1>1, <1>2, Geometry, MoreGeometry, SMT DEF PlaceInv
<1>4. HsyncInv
  BY <1>1, SyncGeometry, SMT DEF HsyncInv, Uncounted
<1>5. VsyncInv
  <2>1. ~(V_SYNC_START <= v_cnt /\ v_cnt < V_SYNC_END)
    BY <1>1, Geometry, SyncGeometry, MoreGeometry, SMT
  <2> QED BY <2>1 DEF VsyncInv, Uncounted
<1>6. StepsInv
  BY <1>1, <1>2, MoreGeometry, SMT DEF StepsInv, Uncounted
<1>7. PixelsInv
  BY <1>1 DEF PixelsInv, Uncounted
<1> QED BY <1>3, <1>4, <1>5, <1>6, <1>7 DEF JInv

LEMMA StillCounted ==
  ASSUME JInv, UNCHANGED <<timingVars, ghosts>>
  PROVE  JInv'
<1> USE DEF timingVars, beamVars, preVars, watchVars, ghosts
<1>1. AtOrigin' = AtOrigin /\ VsyncAge' = VsyncAge /\ VsyncFalls' = VsyncFalls
      /\ VsyncRises' = VsyncRises /\ Shown' = Shown
  BY DEF AtOrigin, VsyncAge, VsyncFalls, VsyncRises, Shown, InLine
<1>2. PlaceInv' /\ HsyncInv'
  BY <1>1 DEF JInv, PlaceInv, HsyncInv
<1>3. VsyncInv'
  BY <1>1 DEF JInv, VsyncInv
<1>4. StepsInv' /\ PixelsInv'
  BY <1>1 DEF JInv, StepsInv, PixelsInv
<1> QED BY <1>2, <1>3, <1>4 DEF JInv

LEMMA Counted == Spec => []JInv
<1>1. Init => JInv
  <2>1. Init => Uncounted
    BY DEF Init, TimingInit, Uncounted, AtReset
  <2> QED BY <2>1, UncountedInv
<1>2. IInv /\ JInv /\ [Next]_vars => JInv'
  <2> SUFFICES ASSUME IInv, JInv, [Next]_vars PROVE JInv'
    OBVIOUS
  <2>1. CASE Run
    <3>1. CountersOK /\ OutInv
      BY <2>1 DEF IInv, Run, pix_rst_n, Sync!rst_sync_n_o
    <3> QED BY <2>1, <3>1, RunPlace, RunHsync, RunVsync, RunSteps, RunPixels DEF JInv
  <2>2. CASE Hold
    BY <2>2, StillCounted DEF Hold
  <2>3. CASE LoseReset
    <3>1. Uncounted'
      BY <2>3 DEF LoseReset, TimingReset, Uncounted, AtReset
    <3> QED BY <3>1, UncountedInv, PTL
  <2>4. CASE RegainReset
    BY <2>4, StillCounted DEF RegainReset
  <2>5. CASE UNCHANGED vars
    BY <2>5, StillCounted DEF vars
  <2> QED BY <2>1, <2>2, <2>3, <2>4, <2>5 DEF Next, Clk
<1> QED BY <1>1, <1>2, Inductive, PTL DEF Spec

(* The four assertions of rtl/apu_vga_timing.sv never fire: every HSYNC    *)
(* pulse has its width and every VSYNC pulse its whole lines, modulo the   *)
(* widths of the counters that watch them, whatever resets fall into them. *)
THEOREM SyncsKeepWidth == Spec => []SyncAssertions
<1>1. JInv => p_hsync_width /\ p_vsync_width
  BY DEF JInv, HsyncInv, VsyncInv, p_hsync_width, p_vsync_width
<1> QED BY Counted, DeClearOfSyncs, <1>1, PTL DEF SyncAssertions

(* The plasma's phase accumulators move once for every frame shown.        *)
THEOREM StepsOncePerFrame == Spec => []OneStepPerFrame
<1>1. JInv => OneStepPerFrame
  BY DEF JInv, PlaceInv, StepsInv, OneStepPerFrame
<1> QED BY Counted, <1>1, PTL

(* Between two starts of frame every active pixel is shown, and before the *)
(* first one after a reset none is.                                        *)
THEOREM FramesAreWhole == Spec => []FramesWhole
<1>1. ACTIVE_H * ACTIVE_W = ACTIVE_W * ACTIVE_H
  BY Geometry, SMT
<1>2. JInv => FramesWhole
  BY <1>1 DEF JInv, PlaceInv, PixelsInv, Shown, FramesWhole
<1> QED BY Counted, <1>2, PTL

=============================================================================
