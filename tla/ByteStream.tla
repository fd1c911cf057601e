----------------------------- MODULE ByteStream -----------------------------
(***************************************************************************)
(* What a serialized block promises to data_pack and data_unpack: a stream *)
(* of bytes.  Those that are written come out in the order they went in,   *)
(* none lost, none twice and none that was not written.                    *)
(***************************************************************************)
EXTENDS Naturals, Sequences, SequencesExt

VARIABLES stream,  \* the bytes written and not yet read
          taken    \* what the read in progress, or the last one, has given

vars == <<stream, taken>>

Init == stream = <<>> /\ taken = <<>>

Write == IsPrefix(stream, stream') /\ UNCHANGED taken

BeginRead == taken' = <<>> /\ UNCHANGED stream

Take == \E n \in 0 .. Len(stream) :
          /\ taken' = taken \o SubSeq(stream, 1, n)
          /\ stream' = SubSeq(stream, n + 1, Len(stream))

\* The reader, or the writer, gives up what is left.
Discard == stream' = <<>> /\ UNCHANGED taken

Next == Write \/ BeginRead \/ Take \/ Discard

Spec == Init /\ [][Next]_vars
=============================================================================
