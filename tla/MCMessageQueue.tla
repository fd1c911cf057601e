-------------------------- MODULE MCMessageQueue ---------------------------
(* A ring of two slots that grows to four and to eight, and two messages:   *)
(* every alignment of head and tail at every growth.                        *)
EXTENDS MessageQueue
=============================================================================
