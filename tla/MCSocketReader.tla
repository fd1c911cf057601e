---------------------------- MODULE MCSocketReader ----------------------------
(* Two coroutines read a stream with a separator of two bytes.               *)
EXTENDS SocketReader, TLC

CrLf == <<-1, -1>>

ReaderSymmetry == Permutations(Reader)
=============================================================================
