SPECIFICATION FairSpec
CONSTANTS
  p1 = p1
  p2 = p2
  p3 = p3
  b1 = b1
  b2 = b2
  Pose <- MCTwoPoses
  NoPose = NoPose
  Box <- MCBox
  BoxOf <- MCBoxOf
  Extent <- MCThinExtent
  Resolution = {1, 2}
  StepCount = {1, 2}
  SliderPos = {0}
  IsoValue = {1}
  InitIsoValue = 1
  InitPose = p1
  InitResolution = 2
  InitSteps = 1
  InitSliderPos = 0
  Uninit = Uninit
  Controls = {"mouse", "load", "camera", "texture_resolution", "diffusion", "diffusion_steps", "show_volume"}
  MaxFailures = 1
  MaxLosses = 1
INVARIANTS
  SizesAgree
  ResolutionKept
  AbortsExplained
  IInv
PROPERTIES
  ImplementsView
  FramesCountDown
  DiffuseIsShown
CHECK_DEADLOCK FALSE
