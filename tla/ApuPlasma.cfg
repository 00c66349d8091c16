SPECIFICATION FairSpec
CONSTANTS
  ACTIVE_W = 4
  H_FP = 1
  HSYNC_WIDTH = 2
  H_BP = 3
  ACTIVE_H = 3
  V_FP = 1
  VSYNC_WIDTH = 2
  V_BP = 1
  DEPTH = 3
  SCENE = "SCENE_PLASMA"
  PHASES = 4
  DRIFT = 1
INVARIANTS
  SceneOnBeam
  OnePhasePerFrame
  SyncAssertions
  OneStepPerFrame
  FramesWhole
PROPERTIES
  FramesFlow
