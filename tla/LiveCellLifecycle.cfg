\* Killed and unreferenced cells go, though the userdata of the system cell wait for
\* their finalizers; a data_pack that fails after it has taken a reference keeps its
\* cell alive, and nothing else.
CONSTANTS
  Worker = {w1, w2}
  main = main
  NoCell = NoCell
  system = system
  app = app
  client = client
  Cell = {system, app}
  Boot = {app}
  Message <- CarriesApp
  MaxQueue = 1
  MaxTotal = 2
  MaxLeak = 1
  Lagging = {system}

SPECIFICATION FairSpec

INVARIANTS
  RefAccounting
  NoDangling
  LeakIsForEver
PROPERTIES
  KilledIsClosed
  UnreferencedIsFreed
  MessagesMove
  Terminates
