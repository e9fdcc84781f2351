SPECIFICATION PhySpec
CONSTANTS
  Nodes = {1, 2, 3}
  Self = 1
  Frequency = 1
  InitialFoi <- MCInitialFoi
  NoiseMode = "all"
  NoiseMaxClamp = FALSE
  Precomputed = TRUE
  FixedGain = TRUE
  FadingByEvent = TRUE
  Headers <- MCHeaders
  Requests <- MCRequests
  ControlFois <- MCControlFois
  EventNodes <- MCEventNodes
INVARIANTS
  CountedOnceUnlessFaded
  HeaderSound
PROPERTY PassedWithAllPower
