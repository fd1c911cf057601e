------------------------------- MODULE MCSeri -------------------------------
(* Messages whose parts fall on every place of a block, and values on both  *)
(* sides of every limit of the format.                                      *)
EXTENDS Seri

\* Numbers around the limits of 1, 2 and 4 bytes.
Numbers == {Number(n) : n \in
  {-(DWORD \div 2) - 1, -(DWORD \div 2), -1, 0, 1, BYTE - 1, BYTE, WORD - 1, WORD,
   DWORD \div 2 - 1, DWORD \div 2}}

S(len) == <<"string", len, IF len = 0 THEN "" ELSE "s">>
Strings == {S(len) : len \in {0, 1, MAX_COOKIE - 1, MAX_COOKIE, WORD - 1, WORD, 2 * BLOCK_SIZE}}

Cell1 == <<"cell", 1>>
Others == {Nil, <<"boolean", 0>>, <<"boolean", 1>>, Cell1, <<"userdata", 1>>}

\* A table of n equal elements, then those of rest.
Array(n, v, rest) == <<"table", [i \in 1 .. n |-> <<Number(i), v>>] \o rest, n>>

Tables ==
  {Array(n, <<"boolean", 1>>, <<>>) : n \in {0, 1, MAX_COOKIE - 2, MAX_COOKIE - 1, MAX_COOKIE}}
  \union
  {Array(1, Cell1, <<<<Cell1, S(9)>>, <<Number(0), S(0)>>>>),
   \* A border before, at and after an element that is missing.
   <<"table", <<<<Number(1), S(1)>>, <<Number(3), Cell1>>>>, 1>>,
   <<"table", <<<<Number(1), S(1)>>, <<Number(3), Cell1>>>>, 3>>,
   \* Tables in tables, as deep as they may be and deeper.
   Array(1, Array(1, S(0), <<>>), <<>>),
   <<"table", <<<<S(2), Array(2, Number(7), <<>>)>>>>, 0>>,
   Array(1, Array(0, Nil, <<<<Array(0, Nil, <<>>), Array(0, Nil, <<>>)>>>>), <<>>),
   Array(1, Array(1, Array(0, Nil, <<>>), <<>>), <<>>),
   Array(1, Array(1, Array(1, S(0), <<>>), <<>>), <<>>)}

Parts == Numbers \union Strings \union Others \union Tables
         \union {<<"function">>, <<"table", <<<<S(1), <<"thread">>>>>>, 0>>}

\* Each part behind a string that shifts it, alone, and before another part.
Messages ==
  {<<>>} \union {<<S(n), v>> : n \in 0 .. BLOCK_SIZE - 1, v \in Parts}
         \union {<<v, w>> : v \in Parts, w \in {Nil, S(0), Number(WORD), Cell1}}
=============================================================================
