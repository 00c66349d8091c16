---------------------------- MODULE AliveBlinker ----------------------------
(***************************************************************************)
(* The frame-rate blinker of rtl/de10nano_top.sv: start of frame toggles a *)
(* flop of the pixel domain, and the 50 MHz domain counts the edges of the *)
(* toggle.  Two clocks with no phase relation, each with its reset         *)
(* synchronizer; both domains are reset by KEY0, the pixel domain also     *)
(* when the PLL loses lock.                                                *)
(***************************************************************************)
EXTENDS Naturals

CONSTANTS
  FRAMES_PER_BLINK,   \* 30
  SofGap,             \* 50 MHz clocks that certainly part two frames
  MaxUnlocks,         \* bound on losses of PLL lock
  Settles             \* does a flop that sampled a moving input settle
                      \* before its readers do?

BlinkerOK ==
  /\ FRAMES_PER_BLINK \in Nat \ {0} /\ SofGap \in Nat /\ MaxUnlocks \in Nat
  /\ Settles \in BOOLEAN

ASSUME BlinkerAssumption == BlinkerOK

VARIABLES
  sys_rst_n, pll_locked,
  s0, s1,           \* u_sync_rst
  p0, p1,           \* u_sync_rst_pix
  pix_alive_tgl,
  moved,            \* pix_alive_tgl changed since the last 50 MHz edge
  tgl0, tgl1,       \* tgl_sync
  unsettled,        \* tgl0 sampled a moving input and has not settled
  alive_div, led_alive,
  gap,              \* 50 MHz clocks since the last frame or pixel reset
  frames,           \* ghost: frames since reset, modulo a whole blink
  unlocks           \* losses of lock since reset

resetVars   == <<sys_rst_n, pll_locked, s0, s1, p0, p1>>
counterVars == <<tgl0, tgl1, unsettled, alive_div, led_alive>>
vars == <<resetVars, pix_alive_tgl, moved, counterVars, gap, frames, unlocks>>

Sync    == INSTANCE SyncReset WITH d0 <- s0, d1 <- s1
PixSync == INSTANCE SyncReset WITH d0 <- p0, d1 <- p1
rst_50m_n == Sync!rst_sync_n_o
pix_rst_n == PixSync!rst_sync_n_o

(* A blink is the LED on and off again.                                    *)
Blink == 2 * FRAMES_PER_BLINK

-----------------------------------------------------------------------------
Init ==
  /\ sys_rst_n = FALSE /\ pll_locked = FALSE
  /\ Sync!Init /\ PixSync!Init
  /\ pix_alive_tgl = FALSE /\ moved = FALSE
  /\ tgl0 = FALSE /\ tgl1 = FALSE /\ unsettled = FALSE
  /\ alive_div = 0 /\ led_alive = FALSE
  /\ gap = 0 /\ frames = 0 /\ unlocks = 0

(* An edge of clk_pix, with or without a start of frame.                   *)
ClkPix(sof) ==
  /\ sof => pix_rst_n /\ gap = SofGap
  /\ PixSync!Clk(sys_rst_n /\ pll_locked)
  /\ pix_alive_tgl' = (pix_alive_tgl # sof)
  /\ moved' = (moved \/ sof)
  /\ gap' = IF sof THEN 0 ELSE gap
  /\ frames' = IF sof THEN (frames + 1) % Blink ELSE frames
  /\ UNCHANGED <<sys_rst_n, pll_locked, s0, s1, counterVars, unlocks>>

(* What the first flop may take, and what one of its readers may see.      *)
Sampled  == IF moved THEN BOOLEAN ELSE {pix_alive_tgl}
Readings == IF unsettled THEN BOOLEAN ELSE {tgl0}

(* Mutant: only rising edges of the toggle are frames.                     *)
EdgeSeen_Rising(first) == first /\ ~tgl1
EdgeSeen(first) == tgl1 # first

(* Mutant: the LED is set, not inverted.                                   *)
CountFrame_Sets ==
  IF alive_div = FRAMES_PER_BLINK - 1
    THEN alive_div' = 0 /\ led_alive' = TRUE
    ELSE alive_div' = alive_div + 1 /\ UNCHANGED led_alive

CountFrame ==
  IF alive_div = FRAMES_PER_BLINK - 1
    THEN alive_div' = 0 /\ led_alive' = ~led_alive
    ELSE alive_div' = alive_div + 1 /\ UNCHANGED led_alive

(* The second flop and the edge detector each read tgl_sync[0].            *)
Cross ==
  /\ tgl0' \in Sampled
  /\ unsettled' = (moved /\ ~Settles)
  /\ tgl1' \in Readings
  /\ \E first \in Readings :
       IF EdgeSeen(first) THEN CountFrame ELSE UNCHANGED <<alive_div, led_alive>>

(* An edge of clk_50m_i.                                                   *)
Clk50 ==
  /\ Sync!Clk(sys_rst_n)
  /\ IF rst_50m_n THEN Cross ELSE UNCHANGED counterVars
  /\ moved' = FALSE
  /\ gap' = IF gap < SofGap THEN gap + 1 ELSE gap
  /\ UNCHANGED <<sys_rst_n, pll_locked, p0, p1, pix_alive_tgl, frames, unlocks>>

(* The pixel domain is reset without a clock.                              *)
ResetPixels ==
  /\ PixSync!Assert
  /\ pix_alive_tgl' = FALSE
  /\ gap' = 0

LoseLock ==
  /\ pll_locked /\ unlocks < MaxUnlocks
  /\ pll_locked' = FALSE
  /\ ResetPixels
  /\ moved' = (moved \/ pix_alive_tgl)
  /\ unlocks' = unlocks + 1
  /\ UNCHANGED <<sys_rst_n, s0, s1, counterVars, frames>>

Lock ==
  /\ ~pll_locked /\ pll_locked' = TRUE
  /\ UNCHANGED <<sys_rst_n, s0, s1, p0, p1, pix_alive_tgl, moved, counterVars,
                 gap, frames, unlocks>>

(* KEY0 resets both domains and the PLL.                                   *)
KeyDown ==
  /\ sys_rst_n \/ pll_locked
  /\ sys_rst_n' = FALSE /\ pll_locked' = FALSE
  /\ Sync!Assert /\ ResetPixels
  /\ moved' = FALSE
  /\ tgl0' = FALSE /\ tgl1' = FALSE /\ unsettled' = FALSE
  /\ alive_div' = 0 /\ led_alive' = FALSE
  /\ frames' = 0 /\ unlocks' = 0

(* The power-on counter runs out.                                          *)
PorDone ==
  /\ ~sys_rst_n /\ sys_rst_n' = TRUE
  /\ UNCHANGED <<pll_locked, s0, s1, p0, p1, pix_alive_tgl, moved, counterVars,
                 gap, frames, unlocks>>

Next ==
  \/ \E sof \in BOOLEAN : ClkPix(sof)
  \/ Clk50 \/ LoseLock \/ Lock \/ KeyDown \/ PorDone

Spec == Init /\ [][Next]_vars

(* Both clocks run, frames keep coming, the PLL locks, the POR ends.       *)
FairSpec ==
  /\ Spec
  /\ WF_vars(Clk50) /\ WF_vars(ClkPix(FALSE)) /\ WF_vars(ClkPix(TRUE))
  /\ WF_vars(Lock) /\ WF_vars(PorDone)

-----------------------------------------------------------------------------
(* Properties.                                                             *)

Counted == alive_div + (IF led_alive THEN FRAMES_PER_BLINK ELSE 0)

(* Nothing is on its way through the crossing.                             *)
Quiet == ~moved /\ ~unsettled /\ tgl0 = pix_alive_tgl /\ tgl1 = tgl0

(* docs/deploy.md: "one toggle per 30 frames".  Every frame is counted     *)
(* once whatever the phase of the two clocks, and a loss of lock costs or  *)
(* adds at most one.                                                       *)
FramesCounted ==
  Quiet => \E slip \in 0..2 * unlocks :
             Counted = (frames + Blink + slip - unlocks) % Blink

(* While frames come, the LED keeps blinking.                              *)
LedBlinks == <>[](sys_rst_n /\ pll_locked) => []<>led_alive /\ []<>~led_alive

=============================================================================
