\* main.lua does not load: app is the socket cell, client that of main.lua.
CONSTANTS
  Worker = {w1}
  main = main
  NoCell = NoCell
  system = system
  app = app
  client = client
  Cell = {system, app, client}
  Boot = {app, client}
  Message <- CarriesNone
  MaxQueue = 1
  MaxTotal = 3
  MaxLeak = 0
  Lagging = {}

SPECIFICATION Spec

INVARIANT
  DestroyAssert
