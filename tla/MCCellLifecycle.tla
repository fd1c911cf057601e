-------------------------- MODULE MCCellLifecycle --------------------------
(* The system cell, the cell of main.lua, and an address for the cells that *)
(* are launched later.                                                      *)
EXTENDS CellLifecycle, TLC

CONSTANTS app, client

\* The cells that a message may carry.
CarriesNone == {{}}
CarriesClient == {{}, {client}}
CarriesApp == {{}, {app}}

WorkerSymmetry == Permutations(Worker)
=============================================================================
