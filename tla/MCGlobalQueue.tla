--------------------------- MODULE MCGlobalQueue ---------------------------
(* Two workers, a ring of four slots and three cells.  Two cells are       *)
(* pushed before the workers start, as system.lua's start() pushes the     *)
(* main cell and scheduler_start then pushes the system cell; the third    *)
(* address is free for a launch, and every address is free again once its  *)
(* cell has quit.                                                          *)
EXTENDS GlobalQueue, TLC

CONSTANTS main, system, client

MCBoot == <<main, system>>

\* The workers run the same code: permuting them changes nothing.
WorkerSymmetry == Permutations(Worker)
=============================================================================
