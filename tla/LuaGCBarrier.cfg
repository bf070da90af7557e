SPECIFICATION MCSpec
CONSTANTS
  Obj = {1, 2, 3, 4}
  Main = main
  Nil = nil
  Texts = {"a"}
  Modes = {{}, {"k"}, {"v"}, {"k", "v"}}
  Depth = 2
  Scenes <- BarrierScenes
PROPERTIES BarrierInPhase
