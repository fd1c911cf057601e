----------------------------- MODULE BlockStream -----------------------------
(***************************************************************************)
(* The chain of fixed-size blocks in which data_pack writes a message and  *)
(* from which data_unpack reads it, freeing each block it leaves behind    *)
(* (hive_seri.c: write_block, read_block).  The first bytes of the first   *)
(* block hold the length of the whole.                                     *)
(*                                                                         *)
(* wb_push and rb_read take one step per piece of a block that they copy.  *)
(* A block is named by the order of its allocation.  read_block's own      *)
(* buffer is always null in this program, and so is the second argument of *)
(* wb_init: the branches for them are left out.                            *)
(***************************************************************************)
EXTENDS Naturals, Sequences, SequencesExt, FiniteSetsExt

CONSTANTS BLOCK_SIZE,  \* bytes in a block
          HEADER       \* sizeof(int): the bytes of the length

ASSUME SizeAssumption ==
  /\ BLOCK_SIZE \in Nat /\ HEADER \in Nat /\ 0 < HEADER /\ HEADER <= BLOCK_SIZE

Null == 0

VARIABLES blocks,  \* every block ever allocated: next and buffer
          live,    \* those not yet freed
          wb,      \* struct write_block: head, len, current, ptr
          rb,      \* struct read_block: current, len, ptr
          pc,      \* "write", "push"; "packed"; "read", "copy", "loop"; "closed"
          left,    \* what wb_push still has to copy
          sz,      \* how many bytes rb_read still has to read
          got      \* the bytes it has read, in this call or the last one

chain == <<blocks, live>>
bvars == <<blocks, live, wb, rb, pc, left, sz, got>>

\* The n bytes that hold d; and those of a block of malloc's.
Data(d, n) == [k \in 1 .. n |-> <<d, k, n>>]
Junk == [k \in 1 .. BLOCK_SIZE |-> <<<<"junk">>, k, BLOCK_SIZE>>]

\* The n bytes that follow the first p of block b; b may be null if n is 0.
Bytes(b, p, n) ==
  SubSeq(IF b \in DOMAIN blocks THEN blocks[b].buffer ELSE Junk, p + 1, p + n)

Overwritten(b, p, data) ==
  LET old == blocks[b].buffer
  IN [blocks EXCEPT ![b].buffer =
        [i \in 1 .. BLOCK_SIZE |->
           IF i \in p + 1 .. p + Len(data) THEN data[i - p] ELSE old[i]]]

\* wb_init: the first block, with room for the length.
BInit ==
  /\ blocks = <<[next |-> Null,
                buffer |-> Data(<<"size", 0>>, HEADER) \o SubSeq(Junk, HEADER + 1, BLOCK_SIZE)]>>
  /\ live = {1}
  /\ wb = [head |-> 1, len |-> HEADER, current |-> 1, ptr |-> HEADER]
  /\ rb = [current |-> Null, len |-> 0, ptr |-> 0]
  /\ pc = "write"
  /\ left = <<>> /\ sz = 0 /\ got = <<>>

-----------------------------------------------------------------------------
(* Writing                                                                 *)

\* wb_push is called; its callers never pass it nothing to copy.
Push(data) ==
  /\ pc = "write"
  /\ data # <<>>
  /\ left' = data
  /\ pc' = "push"
  /\ UNCHANGED <<chain, wb, rb, sz, got>>

\* The block is full: the next one.
\* Mutant: the new block is not linked to the one before.
NewBlockUnlinked ==
  /\ pc = "push" /\ wb.ptr = BLOCK_SIZE
  /\ LET b == Len(blocks) + 1
     IN /\ blocks' = Append(blocks, [next |-> Null, buffer |-> Junk])
        /\ live' = live \union {b}
        /\ wb' = [wb EXCEPT !.current = b, !.ptr = 0]
  /\ UNCHANGED <<rb, pc, left, sz, got>>

NewBlock ==
  /\ pc = "push" /\ wb.ptr = BLOCK_SIZE
  /\ LET b == Len(blocks) + 1
     IN /\ blocks' = Append([blocks EXCEPT ![wb.current].next = b],
                            [next |-> Null, buffer |-> Junk])
        /\ live' = live \union {b}
        /\ wb' = [wb EXCEPT !.current = b, !.ptr = 0]
  /\ UNCHANGED <<rb, pc, left, sz, got>>

\* What fits into the block is copied.  Mutant: whatever fits.
CopyInAll ==
  /\ pc = "push" /\ wb.ptr < BLOCK_SIZE
  /\ blocks' = Overwritten(wb.current, wb.ptr, left)
  /\ wb' = [wb EXCEPT !.ptr = @ + Len(left), !.len = @ + Len(left)]
  /\ left' = <<>> /\ pc' = "write"
  /\ UNCHANGED <<live, rb, sz, got>>

CopyIn ==
  /\ pc = "push" /\ wb.ptr < BLOCK_SIZE
  /\ LET n == Min({Len(left), BLOCK_SIZE - wb.ptr})
     IN /\ blocks' = Overwritten(wb.current, wb.ptr, SubSeq(left, 1, n))
        /\ wb' = [wb EXCEPT !.ptr = @ + n, !.len = @ + n]
        /\ left' = SubSeq(left, n + 1, Len(left))
        /\ pc' = IF n = Len(left) THEN "write" ELSE "push"
  /\ UNCHANGED <<live, rb, sz, got>>

\* wb_close stores the length in front.
Close ==
  /\ pc = "write"
  /\ blocks' = Overwritten(wb.head, 0, Data(<<"size", wb.len>>, HEADER))
  /\ wb' = [wb EXCEPT !.current = Null, !.ptr = HEADER, !.len = @ + HEADER]
  /\ pc' = "packed"
  /\ UNCHANGED <<live, rb, left, sz, got>>

\* The blocks of the chain from b on (LiveIsChain: they are linked in this order).
From(b) == {x \in DOMAIN blocks : b # Null /\ x >= b}

\* wb_free: data_pack gives up.
Free ==
  /\ pc = "write"
  /\ live' = live \ From(wb.head)
  /\ wb' = [head |-> Null, len |-> 0, current |-> Null, ptr |-> 0]
  /\ pc' = "closed"
  /\ UNCHANGED <<blocks, rb, left, sz, got>>

-----------------------------------------------------------------------------
(* Reading                                                                 *)

\* rb_init, by the receiver of the first block.
Open ==
  /\ pc = "packed"
  /\ rb' = [current |-> wb.head, ptr |-> HEADER,
            len |-> blocks[wb.head].buffer[1][1][2] - HEADER]
  /\ pc' = "read"
  /\ UNCHANGED <<chain, wb, left, sz, got>>

\* rb_read of n bytes, of which there are not as many left: it returns NULL.
TooFew(n) == pc = "read" /\ rb.len < n

Read(n) ==
  /\ pc = "read" /\ n <= rb.len
  /\ sz' = n
  /\ got' = <<>>
  /\ pc' = "copy"
  /\ IF rb.ptr = BLOCK_SIZE
       THEN /\ live' = live \ {rb.current}
            /\ rb' = [rb EXCEPT !.current = blocks[@].next, !.ptr = 0]
       ELSE UNCHANGED <<live, rb>>
  /\ UNCHANGED <<blocks, wb, left>>

\* All of it is in this block.
CopyOut ==
  /\ pc = "copy"
  /\ sz <= BLOCK_SIZE - rb.ptr
  /\ got' = Bytes(rb.current, rb.ptr, sz)
  /\ rb' = [rb EXCEPT !.ptr = @ + sz, !.len = @ - sz]
  /\ pc' = "read"
  /\ UNCHANGED <<chain, wb, left, sz>>

\* The rest of the block, and more of the next ones.
CopyRest ==
  /\ pc = "copy"
  /\ sz > BLOCK_SIZE - rb.ptr
  /\ LET n == BLOCK_SIZE - rb.ptr
     IN /\ got' = Bytes(rb.current, rb.ptr, n)
        /\ rb' = [rb EXCEPT !.len = @ - n]
        /\ sz' = sz - n
  /\ pc' = "loop"
  /\ UNCHANGED <<chain, wb, left>>

\* The next block: the last piece, or all of it.
\* Mutant: the last piece does not move the reader's position.
LastPieceUnmoved ==
  /\ pc = "loop" /\ sz < BLOCK_SIZE
  /\ LET b == blocks[rb.current].next
     IN /\ got' = got \o Bytes(b, 0, sz)
        /\ rb' = [rb EXCEPT !.current = b, !.len = @ - sz]
  /\ live' = live \ {rb.current}
  /\ pc' = "read"
  /\ UNCHANGED <<blocks, wb, left, sz>>

LastPiece ==
  /\ pc = "loop" /\ sz < BLOCK_SIZE
  /\ LET b == blocks[rb.current].next
     IN /\ got' = got \o Bytes(b, 0, sz)
        /\ rb' = [current |-> b, len |-> rb.len - sz, ptr |-> sz]
  /\ live' = live \ {rb.current}
  /\ pc' = "read"
  /\ UNCHANGED <<blocks, wb, left, sz>>

WholeBlock ==
  /\ pc = "loop" /\ sz >= BLOCK_SIZE
  /\ LET b == blocks[rb.current].next
     IN /\ got' = got \o Bytes(b, 0, BLOCK_SIZE)
        /\ rb' = [rb EXCEPT !.current = b, !.len = @ - BLOCK_SIZE]
  /\ live' = live \ {rb.current}
  /\ sz' = sz - BLOCK_SIZE
  /\ UNCHANGED <<blocks, wb, pc, left>>

\* rb_close, at the end of the stream or where it is invalid.
\* Mutant: the block being read is not freed.
CloseReadEarly ==
  /\ pc = "read"
  /\ live' = live \ (From(rb.current) \ {rb.current})
  /\ rb' = [current |-> Null, len |-> 0, ptr |-> 0]
  /\ pc' = "closed"
  /\ UNCHANGED <<blocks, wb, left, sz, got>>

CloseRead ==
  /\ pc = "read"
  /\ live' = live \ From(rb.current)
  /\ rb' = [current |-> Null, len |-> 0, ptr |-> 0]
  /\ pc' = "closed"
  /\ UNCHANGED <<blocks, wb, left, sz, got>>

-----------------------------------------------------------------------------

\* What a call of wb_push or rb_read goes on to do.
Step == NewBlock \/ CopyIn \/ CopyOut \/ CopyRest \/ LastPiece \/ WholeBlock

\* wb_push of any bytes at all.
PushAny ==
  /\ Len(left') \in Nat /\ left' = [k \in 1 .. Len(left') |-> left'[k]]
  /\ Push(left')

\* The calls that data_pack and data_unpack may make, whatever they do in between.
BNext == \/ PushAny \/ Close \/ Free
         \/ Open \/ (\E n \in 0 .. rb.len : Read(n)) \/ CloseRead
         \/ Step

BSpec == BInit /\ [][BNext]_bvars

-----------------------------------------------------------------------------
(* Properties                                                              *)

Writing == pc \in {"write", "push"}
Reading == pc \in {"read", "copy", "loop"}

BTypeOK ==
  /\ Len(blocks) \in Nat \ {0}
  /\ blocks = [b \in 1 .. Len(blocks) |-> [next |-> blocks[b].next, buffer |-> blocks[b].buffer]]
  /\ \A b \in DOMAIN blocks :
       blocks[b].buffer = [k \in 1 .. BLOCK_SIZE |-> blocks[b].buffer[k]]
  /\ live \subseteq DOMAIN blocks
  /\ wb = [head |-> wb.head, len |-> wb.len, current |-> wb.current, ptr |-> wb.ptr]
  /\ wb.len \in Nat /\ wb.ptr \in 0 .. BLOCK_SIZE
  /\ wb.current \in DOMAIN blocks \union {Null}
  /\ rb = [current |-> rb.current, len |-> rb.len, ptr |-> rb.ptr]
  /\ rb.len \in Nat /\ rb.ptr \in 0 .. BLOCK_SIZE
  /\ rb.current \in DOMAIN blocks \union {Null}
  /\ pc \in {"write", "push", "packed", "read", "copy", "loop", "closed"}
  /\ Len(left) \in Nat /\ left = [k \in 1 .. Len(left) |-> left[k]]
  /\ sz \in Nat

\* Exactly the blocks that are still to be read are allocated: none is lost by
\* wb_free, rb_read or rb_close, and none is freed before its time.
LiveIsChain ==
  /\ \A b \in DOMAIN blocks : blocks[b].next = IF b < Len(blocks) THEN b + 1 ELSE Null
  /\ live = CASE Writing \/ pc = "packed" -> DOMAIN blocks
              [] Reading -> From(rb.current)
              [] OTHER -> {}

\* wb_push and rb_read copy to and from allocated blocks only, and these are the
\* ones still to be read: the chain does not end before the length that its first
\* block holds, and no block is leaked or freed early.
NeverWild ==
  /\ LiveIsChain
  /\ Writing => wb.current \in live
  /\ Reading /\ rb.len > 0 => rb.current \in live
  /\ pc = "copy" /\ sz > 0 => rb.current \in live
  /\ pc = "loop" => rb.current \in live
  /\ pc = "loop" /\ sz > 0 => blocks[rb.current].next \in live

-----------------------------------------------------------------------------
(* The inductive invariant                                                 *)

\* How many bytes the first n blocks hold, and how many have been read.
End(n) == n * BLOCK_SIZE
Position == End(rb.current - 1) + (IF pc = "loop" THEN BLOCK_SIZE ELSE rb.ptr)

\* The bytes of the whole chain, with the length in front.
Total == IF Writing THEN wb.len ELSE wb.len - HEADER

\* The writer is in the last block, which is begun if it is not the first; the length
\* that it stores is that of the whole.
WriterAt ==
  /\ wb.head = 1 /\ HEADER <= Total
  /\ End(Len(blocks) - 1) <= Total /\ Total <= End(Len(blocks))
  /\ Writing => wb.current = Len(blocks) /\ Total = End(wb.current - 1) + wb.ptr
  /\ ~Writing => blocks[1].buffer[1] = Data(<<"size", Total>>, HEADER)[1]

\* What has been read and what is left are the whole; a reader that has run off the
\* chain has nothing left.
ReaderAt ==
  IF rb.current = Null THEN rb.len = 0 /\ rb.ptr = 0 /\ pc # "loop"
  ELSE Position + rb.len = Total

BInv ==
  /\ BTypeOK /\ LiveIsChain
  /\ pc # "closed" => WriterAt
  /\ Reading => ReaderAt
  /\ pc \in {"copy", "loop"} => sz <= rb.len
  /\ pc = "copy" => got = <<>>
  /\ pc = "push" => left # <<>>

\* Read together, the pieces are the stream of bytes that was written.
Contents == FlattenSeq([b \in DOMAIN blocks |-> blocks[b].buffer])

Unread == CASE Writing -> SubSeq(Contents, HEADER + 1, wb.len)
            [] pc = "packed" -> SubSeq(Contents, HEADER + 1, wb.len - HEADER)
            [] Reading -> IF rb.len = 0 THEN <<>>
                          ELSE SubSeq(Contents, Position + 1, Position + rb.len)
            [] OTHER -> <<>>

Stream == INSTANCE ByteStream WITH stream <- Unread, taken <- got
ImplementsStream == Stream!Spec
=============================================================================
