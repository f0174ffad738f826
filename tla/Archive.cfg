CONSTANTS
  gui = gui
  cli = cli
  report = report
  copy = copy
  draft = draft
  ours = ours
  theirs = theirs
  None = None
  Programs = {gui, cli}
  Windows = {gui}
  Sources = {report, copy, draft}
  Stagings <- MCStagings
  NameOf <- MCNameOf
  nothing = nothing
  one = one
  two = two
  Contents = {nothing, one, two}
  Empty = nothing
  Keys = {ours, theirs}
  ParamOf <- MCParamOf
  LevelOf <- MCLevelOf
  Paths = {"p"}
  MaxArchives = 2
SPECIFICATION Spec
SYMMETRY Symmetry
INVARIANTS CompleteOrRefused AnnouncedOpens NeverWrongBytes
