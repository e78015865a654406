SPECIFICATION Spec
CONSTANTS
  p1 = p1
  p2 = p2
  p3 = p3
  b1 = b1
  b2 = b2
  Pose <- MCPose
  NoPose = NoPose
  Box <- MCBox
  BoxOf <- MCBoxOf
  Extent <- MCExtent
  Resolution = {2}
  StepCount = {2}
  SliderPos = {0}
  IsoValue = {1}
  InitIsoValue = 1
  InitPose = p1
  InitResolution = 2
  InitSteps = 2
  InitSliderPos = 0
  Uninit = Uninit
  Controls = {"mouse", "rotate_move", "diffusion"}
  MaxFailures = 0
  MaxLosses = 0
PROPERTIES
  DiffusedFromVoronoi
