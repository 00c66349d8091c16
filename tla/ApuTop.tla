----------------------------- MODULE ApuTop -----------------------------
(***************************************************************************)
(* The pixel clock domain: rtl/apu_top.sv with its timing generator, the   *)
(* selected scene as a pipeline of DEPTH stages, and the domain's reset.   *)
(*                                                                         *)
(* A scene's colour is a function of the coordinates it was fed and, for   *)
(* the plasma, of the frame phase at that moment; a stage therefore        *)
(* carries the valid bit, the coordinates and the phase.  The plasma's     *)
(* stages live in rtl/apu_cordic.sv (1 fold, 16 rotations, 2 output) and   *)
(* have a synchronous reset; the single stage of rtl/apu_colorbars.sv has  *)
(* an asynchronous one.                                                    *)
(***************************************************************************)
EXTENDS VgaTiming

CONSTANTS
  SCENE,        \* which scene is elaborated
  PHASES,       \* values of the phase accumulators: 2^16
  DRIFT         \* what they gain per frame: 257 for frame_x

SceneOK ==
  /\ SCENE \in {"SCENE_PLASMA", "SCENE_COLORBARS"}
  /\ SCENE = "SCENE_COLORBARS" => DEPTH = 1
  /\ PHASES \in Positive /\ DRIFT \in Nat

ASSUME SceneAssumption == SceneOK

VARIABLES
  arst_n,     \* sys_rst_n && pll_locked
  d0, d1,     \* u_sync_rst_pix
  frame,      \* frame_x of rtl/apu_plasma.sv; frame_y, frame_z move with it
  pipe,       \* the scene's stages, the newest at 1
  steps,      \* ghost: phase steps since the last sof_o
  pixels,     \* ghost: active pixels shown since the last sof_o
  started     \* ghost: there was a sof_o since reset

sceneVars == <<frame, pipe>>
ghosts == <<steps, pixels, started>>
vars == <<timingVars, arst_n, d0, d1, sceneVars, ghosts>>

Sync == INSTANCE SyncReset
pix_rst_n == Sync!rst_sync_n_o

Stages == 1..DEPTH
Blank == [de |-> FALSE, x |-> 0, y |-> 0, phase |-> 0]
Empty == [i \in Stages |-> Blank]

(* What leaves the board next to hsync_o and vsync_o.                      *)
out == pipe[DEPTH]

-----------------------------------------------------------------------------
Init ==
  /\ TimingInit
  /\ arst_n = FALSE /\ Sync!Init
  /\ frame = 0 /\ pipe = Empty
  /\ steps = 0 /\ pixels = 0 /\ started = FALSE

(* The accumulator moves on the prefetch side's start of frame.            *)
PhaseStep == frame' = IF sof_pre_o THEN (frame + DRIFT) % PHASES ELSE frame

Fed == [de |-> de_pre_o, x |-> x_pre_o, y |-> y_pre_o, phase |-> frame]

Shift == pipe' = [i \in Stages |-> IF i = 1 THEN Fed ELSE pipe[i - 1]]

(* The ghosts count one past what is right and stop there.                 *)
MaxSteps  == 2
MaxPixels == ACTIVE_W * ACTIVE_H + 1

Tally(n, clear, more, max) ==
  LET base == IF clear THEN 0 ELSE n IN IF more /\ base < max THEN base + 1 ELSE base

Count ==
  /\ steps' = Tally(steps, sof_o, sof_pre_o, MaxSteps)
  /\ pixels' = Tally(pixels, sof_o, out.de, MaxPixels)
  /\ started' = (started \/ sof_o)

Run == pix_rst_n /\ TimingClk /\ PhaseStep /\ Shift /\ Count

(* Mutant: the pipeline has no reset at all.                               *)
Hold_KeepsPipe == ~pix_rst_n /\ UNCHANGED <<timingVars, sceneVars, ghosts>>

(* In reset only the synchronously reset pipeline has anything to do.      *)
Hold == ~pix_rst_n /\ pipe' = Empty /\ UNCHANGED <<timingVars, frame, ghosts>>

(* One edge of clk_pix.                                                    *)
Clk == Sync!Clk(arst_n) /\ (Run \/ Hold) /\ UNCHANGED arst_n

(* KEY0, or the PLL loses lock.  The cordic stages keep their contents     *)
(* until the pixel clock runs.                                             *)
LoseReset ==
  /\ arst_n /\ arst_n' = FALSE
  /\ Sync!Assert
  /\ TimingReset
  /\ frame' = 0
  /\ pipe' = IF SCENE = "SCENE_COLORBARS" THEN Empty ELSE pipe
  /\ steps' = 0 /\ pixels' = 0 /\ started' = FALSE

RegainReset ==
  /\ ~arst_n /\ arst_n' = TRUE
  /\ UNCHANGED <<timingVars, d0, d1, sceneVars, ghosts>>

Next == Clk \/ LoseReset \/ RegainReset

Spec == Init /\ [][Next]_vars

(* While the PLL is locked the pixel clock runs.                           *)
FairSpec == Spec /\ WF_vars(arst_n /\ Clk)

-----------------------------------------------------------------------------
(* Properties.                                                             *)

Pixel == [de : BOOLEAN, x : 0..H_TOTAL - 1, y : 0..V_TOTAL - 1, phase : 0..PHASES - 1]

(* Every register stays within its width.                                  *)
TypeOK ==
  /\ h_cnt \in 0..H_TOTAL - 1 /\ v_cnt \in 0..V_TOTAL - 1
  /\ x_o \in 0..H_TOTAL - 1 /\ y_o \in 0..V_TOTAL - 1
  /\ x_pre_o \in 0..H_TOTAL - 1 /\ y_pre_o \in 0..V_TOTAL - 1
  /\ frame \in 0..PHASES - 1
  /\ pipe \in [Stages -> Pixel]

(* D18: the scene's late window is the beam's window.  On every clock out  *)
(* of reset the pixel that leaves the pipeline is valid exactly when the   *)
(* beam is in the active area, and is the pixel of that place, also in the *)
(* first frame after a reset that fell anywhere in a frame.                *)
SceneOnBeam ==
  pix_rst_n => /\ out.de <=> de_o
               /\ de_o => out.x = x_o /\ out.y = y_o

(* No tearing: every active pixel in flight was computed with the phase    *)
(* that is current now, so a frame shows one phase from its first pixel to *)
(* its last although the phase moves DEPTH clocks before the beam starts.  *)
OnePhasePerFrame ==
  pix_rst_n => \A i \in Stages : pipe[i].de => pipe[i].phase = frame

(* p_de_not_in_hsync and p_de_not_in_vsync, for the DE that reaches the    *)
(* connector: the scene's, not the timing generator's.                     *)
DeOutsideSyncs == pix_rst_n /\ out.de => hsync_o /\ vsync_o

(* The four assertions of the timing module, across ends of lines and      *)
(* frames and after a reset at any moment.                                 *)
SyncAssertions == p_hsync_width /\ p_vsync_width /\ DeOutsideSyncs

(* The phase moves exactly once for every frame shown, the first frame     *)
(* after reset included.                                                   *)
OneStepPerFrame == sof_o => steps = 1

(* "no frame ever loses its first DEPTH pixels": between two starts of     *)
(* frame every active pixel is shown once, and none before the first one   *)
(* after a reset.                                                          *)
FramesWhole == sof_o => pixels = IF started THEN ACTIVE_W * ACTIVE_H ELSE 0

(* With the clock running and no further reset, frames never stop.         *)
FramesFlow == <>[]arst_n => []<>sof_o

=============================================================================
