CONSTANTS
  Worker = {w1, w2}
  main = main
  NoCell = NoCell
  system = system
  app = app
  client = client
  Cell = {system, app, client}
  Boot = {app}
  Message <- CarriesClient
  MaxQueue = 1
  MaxTotal = 3
  MaxLeak = 0
  Lagging = {}

SPECIFICATION Spec
SYMMETRY WorkerSymmetry

INVARIANTS
  IInv
  AssertFailsOnlyInLoad
  NothingStranded
  StopsOnlyWhenDone
