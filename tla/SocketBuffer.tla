---------------------------- MODULE SocketBuffer ----------------------------
(***************************************************************************)
(* The read buffer of a socket (hive_socket_lib.c, "buffer support"): a    *)
(* ring of size bytes from head to tail, which is empty when they meet.    *)
(* Lua's nil, where there is no buffer yet, behaves as one of size 0.      *)
(***************************************************************************)
EXTENDS Integers, Sequences, FiniteSetsExt

CONSTANT Junk    \* a byte of memory that nobody has written

new_buffer(sz) ==
  [size |-> sz, head |-> 0, tail |-> 0, mem |-> [i \in 0 .. sz - 1 |-> Junk]]

NoBuffer == new_buffer(0)

Bytes(b) == IF b.tail < b.head THEN b.tail - b.head + b.size ELSE b.tail - b.head

\* The bytes at i up to j, and memcpy.
Slice(b, i, j) == [k \in 1 .. j - i |-> b.mem[i + k - 1]]
memcpy(mem, at, bytes) ==
  [i \in DOMAIN mem |-> IF i \in at .. at + Len(bytes) - 1 THEN bytes[i - at + 1]
                        ELSE mem[i]]

\* What the buffer holds: the reference for all that follows.
Contents(b) == [k \in 1 .. Bytes(b) |-> b.mem[(b.head + k - 1) % b.size]]

copy_buffer(dest, src) ==
  LET held == IF src.tail >= src.head
                THEN Slice(src, src.head, src.tail)
                ELSE Slice(src, src.head, src.size) \o Slice(src, 0, src.tail)
  IN [dest EXCEPT !.mem = memcpy(@, 0, held), !.tail = Len(held)]

append_buffer(b, msg) ==
  LET part == b.size - b.tail
  IN IF Len(msg) < part
       THEN [b EXCEPT !.mem = memcpy(@, b.tail, msg), !.tail = @ + Len(msg)]
       ELSE [b EXCEPT !.mem = memcpy(memcpy(@, b.tail, SubSeq(msg, 1, part)),
                                     0, SubSeq(msg, part + 1, Len(msg))),
                      !.tail = Len(msg) - part]

\* Mutant: a full ring, which looks empty.
PushTight(b, msg) ==
  LET n == Len(msg) + Bytes(b)
  IN append_buffer(IF n > b.size THEN copy_buffer(new_buffer(n * 2), b) ELSE b, msg)

lpush(b, msg) ==
  LET n == Len(msg) + Bytes(b)
  IN append_buffer(IF n >= b.size THEN copy_buffer(new_buffer(n * 2), b) ELSE b, msg)

\* The first n bytes, as lpop and lreadline return them.
FirstBytes(b, n) ==
  IF b.size - b.head >= n
    THEN Slice(b, b.head, b.head + n)
    ELSE Slice(b, b.head, b.size) \o Slice(b, 0, n - (b.size - b.head))

\* lpop: nil, or n bytes, where 0 means all, and the buffer without them.
CanPop(b, n) == n <= Bytes(b) /\ Bytes(b) # 0
PopSize(b, n) == IF n = 0 THEN Bytes(b) ELSE n

\* Mutant: the head stays behind the end of the ring.
PoppedUnwrapped(b, n) ==
  IF PopSize(b, n) = Bytes(b) THEN [b EXCEPT !.head = 0, !.tail = 0]
  ELSE [b EXCEPT !.head = @ + PopSize(b, n)]

Popped(b, n) ==
  LET sz == PopSize(b, n) IN
  CASE sz = Bytes(b) -> [b EXCEPT !.head = 0, !.tail = 0]
    [] sz < Bytes(b) /\ b.size - b.head >= sz -> [b EXCEPT !.head = @ + sz]
    [] OTHER -> [b EXCEPT !.head = sz - (b.size - b.head)]

\* lreadline: where in the buffer the separators are, the line before the first
\* one and the buffer after it.
check_sep(b, from, sep) ==
  \A j \in DOMAIN sep : b.mem[(from + j - 1) % b.size] = sep[j]

Lines(b, sep) == {i \in 0 .. Bytes(b) - Len(sep) : check_sep(b, b.head + i, sep)}
HasLine(b, sep) == Lines(b, sep) # {}
Line(b, sep) == FirstBytes(b, Min(Lines(b, sep)))
AfterLine(b, sep) ==
  [b EXCEPT !.head = (@ + Min(Lines(b, sep)) + Len(sep)) % b.size]

BufferOK(b) ==
  /\ b.size \in Nat
  /\ b.head \in 0 .. b.size /\ b.tail \in 0 .. b.size
  /\ b.size > 0 => b.tail < b.size
  /\ DOMAIN b.mem = 0 .. b.size - 1
=============================================================================
