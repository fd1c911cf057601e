-------------------------------- MODULE Seri --------------------------------
(***************************************************************************)
(* The serialization of Lua values from data_pack to data_unpack           *)
(* (hive_seri.c): which bytes a value becomes, and how the reader, which   *)
(* knows nothing but what it has read, finds out what to read next.        *)
(*                                                                         *)
(* A value is a tuple that begins with its Lua type.  Numbers are integers *)
(* (those beyond 32 bits stand for everything that is packed as a double); *)
(* a string is its length and its contents; a table is its pairs, in       *)
(* lua_next's order, and its border: the length that lua_rawlen gives it.  *)
(* An unpacked table is its set of pairs.                                  *)
(***************************************************************************)
EXTENDS BlockStream, Integers

CONSTANTS Values,      \* the sequences of values that a message may have
          MAX_COOKIE,  \* one more than the most that a type byte has room for
          MAX_DEPTH,   \* how deep tables may be nested
          BYTE, WORD, DWORD,  \* the numbers of values of 1, 2 and 4 bytes
          POINTER      \* sizeof(void *)

ASSUME WidthAssumption ==
  /\ MAX_COOKIE > 8 /\ MAX_DEPTH \in Nat /\ POINTER \in Nat \ {0}
  /\ BYTE < WORD /\ WORD < DWORD

VARIABLES values,  \* the values that are packed
          todo,    \* what data_pack has still to push
          want,    \* what data_unpack reads next: [what, n]
          busy,    \* it has called rb_read for it
          value,   \* the value it has just unpacked
          stack,   \* the tables it is unpacking, the innermost first
          vals     \* the values it has unpacked

svars == <<values, todo, want, busy, value, stack, vals>>
vars == <<bvars, svars>>

None == <<"none">>
Nil == <<"nil">>
Number(n) == <<"number", n>>

\* What data_pack comes to when it cannot pack a value.
Fail == <<>>

-----------------------------------------------------------------------------
(* What each value is packed into: the arguments of wb_push, one by one    *)

\* COMBINE_TYPE: a byte.
TypeByte(type, cookie) == <<Data(<<"type", type, cookie>>, 1)>>

IsInteger(n) == -(DWORD \div 2) <= n /\ n < DWORD \div 2

\* wb_integer.  Mutant: BYTE itself is taken for a byte.
IntegerTight(n) ==
  IF n = 0 THEN TypeByte("number", 0)
  ELSE IF n > 0 /\ n <= BYTE THEN TypeByte("number", 1) \o <<Data(<<"number", n % BYTE>>, 1)>>
  ELSE IF n > 0 /\ n < WORD THEN TypeByte("number", 2) \o <<Data(<<"number", n % WORD>>, 2)>>
  ELSE TypeByte("number", 4) \o <<Data(<<"number", n % DWORD>>, 4)>>

Integer(n) ==
  IF n = 0 THEN TypeByte("number", 0)
  ELSE IF n > 0 /\ n < BYTE THEN TypeByte("number", 1) \o <<Data(<<"number", n % BYTE>>, 1)>>
  ELSE IF n > 0 /\ n < WORD THEN TypeByte("number", 2) \o <<Data(<<"number", n % WORD>>, 2)>>
  ELSE TypeByte("number", 4) \o <<Data(<<"number", n % DWORD>>, 4)>>

\* wb_number.
Double(n) == TypeByte("number", 8) \o <<Data(<<"number", n>>, 8)>>

\* wb_pointer.
Pointer(type, p) == TypeByte(type, 0) \o <<Data(<<"pointer", p>>, POINTER)>>

\* wb_string; the empty string has no contents.
String(len, s) ==
  LET contents == IF len = 0 THEN <<>> ELSE <<Data(<<"contents", s>>, len)>>
  IN IF len < MAX_COOKIE THEN TypeByte("short string", len) \o contents
     ELSE IF len < WORD
       THEN TypeByte("long string", 2) \o <<Data(<<"length", len % WORD>>, 2)>> \o contents
       ELSE TypeByte("long string", 4) \o <<Data(<<"length", len % DWORD>>, 4)>> \o contents

\* The head of wb_table_array.  Mutant: the largest cookie is used for a size.
TableHeadTight(size) ==
  IF size > MAX_COOKIE - 1
    THEN TypeByte("table", MAX_COOKIE - 1) \o Integer(size)
    ELSE TypeByte("table", size)

TableHead(size) ==
  IF size >= MAX_COOKIE - 1
    THEN TypeByte("table", MAX_COOKIE - 1) \o Integer(size)
    ELSE TypeByte("table", size)

\* The element i of a table with these pairs.
Element(pairs, i) ==
  LET at == {j \in DOMAIN pairs : pairs[j][1] = Number(i)}
  IN IF at = {} THEN Nil ELSE pairs[Min(at)][2]

InArray(k, size) == k[1] = "number" /\ k[2] \in 1 .. size

\* _pack_one, with wb_table.
RECURSIVE Packed(_, _)
Packed(v, depth) ==
  IF depth > MAX_DEPTH THEN <<Fail>>
  ELSE CASE v[1] = "nil"      -> TypeByte("nil", 0)
         [] v[1] = "boolean"  -> TypeByte("boolean", v[2])
         [] v[1] = "number"   -> IF IsInteger(v[2]) THEN Integer(v[2]) ELSE Double(v[2])
         [] v[1] = "string"   -> String(v[2], v[3])
         [] v[1] = "userdata" -> Pointer("userdata", v[2])
         [] v[1] = "cell"     -> Pointer("cell", v[2])
         [] v[1] = "table"    ->
              LET pairs == v[2]
                  size == v[3]
                  Array == [i \in 1 .. size |-> Packed(Element(pairs, i), depth + 1)]
                  Hash == [j \in DOMAIN pairs |->
                             IF InArray(pairs[j][1], size) THEN <<>>
                             ELSE Packed(pairs[j][1], depth + 1) \o Packed(pairs[j][2], depth + 1)]
              IN TableHead(size) \o FlattenSeq(Array) \o FlattenSeq(Hash) \o TypeByte("nil", 0)
         [] OTHER -> <<Fail>>

\* _pack_from.
PackedAll(vs) == FlattenSeq([i \in DOMAIN vs |-> Packed(vs[i], 0)])

Init ==
  /\ BInit
  /\ values \in Values
  /\ todo = PackedAll(values)
  /\ want = [what |-> "type", n |-> 1]
  /\ busy = FALSE
  /\ value = None
  /\ stack = <<>>
  /\ vals = <<>>

-----------------------------------------------------------------------------
(* data_pack                                                               *)

Pack ==
  /\ todo # <<>> /\ Head(todo) # Fail
  /\ Push(Head(todo))
  /\ todo' = Tail(todo)
  /\ UNCHANGED <<values, want, busy, value, stack, vals>>

PackFails ==
  /\ todo # <<>> /\ Head(todo) = Fail
  /\ Free
  /\ UNCHANGED svars

PackEnds ==
  /\ todo = <<>>
  /\ Close
  /\ UNCHANGED svars

-----------------------------------------------------------------------------
(* data_unpack                                                             *)

Receive == Open /\ UNCHANGED svars

\* A step of wb_push or rb_read.
CopyStep == Step /\ UNCHANGED svars

ReadWanted ==
  /\ ~busy /\ value = None
  /\ Read(want.n)
  /\ busy' = TRUE
  /\ UNCHANGED <<values, todo, want, value, stack, vals>>

\* What has been read: the thing of which these are all the bytes.
Datum == IF got = <<>> THEN <<"contents", "">>
         ELSE IF got = Data(got[1][1], Len(got)) THEN got[1][1]
         ELSE <<"garbage">>

Has(what) == pc = "read" /\ busy /\ want.what = what

Wants(what, n) == want' = [what |-> what, n |-> n] /\ UNCHANGED value
Unpacked(v) == value' = v /\ UNCHANGED want
Frame(size) == [left |-> size, at |-> 1, pairs |-> {}, key |-> None]
Opened(size) == stack' = <<Frame(size)>> \o stack /\ Wants("type", 1)

\* _push_value for the types that their byte says everything of.
UnpackByte ==
  /\ Has("type")
  /\ \/ Datum[2] = "nil" /\ Unpacked(Nil)
     \/ Datum[2] = "boolean" /\ Unpacked(<<"boolean", Datum[3]>>)
     \/ Datum[2] = "number" /\ Datum[3] = 0 /\ Unpacked(Number(0))
  /\ busy' = FALSE
  /\ UNCHANGED <<bvars, values, todo, stack, vals>>

\* _push_value for those that more is to be read of.
UnpackMore ==
  /\ Has("type")
  /\ \/ Datum[2] = "number" /\ Datum[3] # 0 /\ Wants("number", Datum[3])
     \/ Datum[2] \in {"userdata", "cell"} /\ Wants(Datum[2], POINTER)
     \/ Datum[2] = "short string" /\ Wants("contents", Datum[3])
     \/ Datum[2] = "long string" /\ Wants("length", Datum[3])
  /\ busy' = FALSE
  /\ UNCHANGED <<bvars, values, todo, stack, vals>>

\* _unpack_table.
UnpackTable ==
  /\ Has("type")
  /\ Datum[2] = "table"
  /\ IF Datum[3] = MAX_COOKIE - 1
       THEN Wants("size type", 1) /\ UNCHANGED stack
       ELSE Opened(Datum[3])
  /\ busy' = FALSE
  /\ UNCHANGED <<bvars, values, todo, vals>>

\* _get_number: a byte and a word are unsigned, a double word is not.
Signed(n) == IF want.n = 4 /\ n >= DWORD \div 2 THEN n - DWORD ELSE n

UnpackNumber ==
  /\ Has("number")
  /\ Unpacked(Number(Signed(Datum[2])))
  /\ busy' = FALSE
  /\ UNCHANGED <<bvars, values, todo, stack, vals>>

\* _get_pointer.
UnpackPointer ==
  /\ Has("userdata") \/ Has("cell")
  /\ Unpacked(<<want.what, Datum[2]>>)
  /\ busy' = FALSE
  /\ UNCHANGED <<bvars, values, todo, stack, vals>>

\* The length of a long string.
UnpackLength ==
  /\ Has("length")
  /\ Wants("contents", Datum[2])
  /\ busy' = FALSE
  /\ UNCHANGED <<bvars, values, todo, stack, vals>>

\* _get_buffer.
UnpackContents ==
  /\ Has("contents")
  /\ Unpacked(<<"string", want.n, Datum[2]>>)
  /\ busy' = FALSE
  /\ UNCHANGED <<bvars, values, todo, stack, vals>>

\* The size of a table that its type byte has no room for.
UnpackSizeType ==
  /\ Has("size type")
  /\ Wants("size", Datum[3])
  /\ busy' = FALSE
  /\ UNCHANGED <<bvars, values, todo, stack, vals>>

UnpackSize ==
  /\ Has("size")
  /\ Opened(Datum[2])
  /\ busy' = FALSE
  /\ UNCHANGED <<bvars, values, todo, vals>>

\* A value is unpacked: an argument, an element, a key, or the value of a key.
Placed(s) == stack' = s /\ value' = None /\ want' = [what |-> "type", n |-> 1]

PlaceArgument ==
  /\ value # None /\ stack = <<>>
  /\ vals' = Append(vals, value)
  /\ Placed(<<>>)
  /\ UNCHANGED <<bvars, values, todo, busy>>

PlaceElement ==
  /\ value # None /\ stack # <<>>
  /\ LET f == Head(stack)
         pair == IF value = Nil THEN {} ELSE {<<Number(f.at), value>>}
     IN /\ f.left > 0
        /\ Placed(<<[f EXCEPT !.left = @ - 1, !.at = @ + 1, !.pairs = @ \union pair]>>
                  \o Tail(stack))
  /\ UNCHANGED <<bvars, values, todo, busy, vals>>

PlaceKey ==
  /\ value \notin {None, Nil} /\ stack # <<>>
  /\ Head(stack).left = 0 /\ Head(stack).key = None
  /\ Placed(<<[Head(stack) EXCEPT !.key = value]>> \o Tail(stack))
  /\ UNCHANGED <<bvars, values, todo, busy, vals>>

PlaceValue ==
  /\ value # None /\ stack # <<>>
  /\ LET f == Head(stack)
     IN /\ f.left = 0 /\ f.key # None
        /\ Placed(<<[f EXCEPT !.key = None, !.pairs = @ \union {<<f.key, value>>}]>>
                  \o Tail(stack))
  /\ UNCHANGED <<bvars, values, todo, busy, vals>>

\* Nil for a key ends the table, which is a value in its turn.
EndTable ==
  /\ value = Nil /\ stack # <<>>
  /\ Head(stack).left = 0 /\ Head(stack).key = None
  /\ value' = <<"table", Head(stack).pairs>>
  /\ stack' = Tail(stack)
  /\ UNCHANGED <<bvars, values, todo, want, busy, vals>>

\* There is no byte left for another argument.
UnpackEnds ==
  /\ ~busy /\ value = None
  /\ stack = <<>> /\ want.what = "type"
  /\ TooFew(1)
  /\ CloseRead
  /\ UNCHANGED svars

Next ==
  \/ Pack \/ PackFails \/ PackEnds \/ CopyStep
  \/ Receive \/ ReadWanted
  \/ UnpackByte \/ UnpackMore \/ UnpackTable
  \/ UnpackNumber \/ UnpackPointer \/ UnpackLength \/ UnpackContents
  \/ UnpackSizeType \/ UnpackSize
  \/ PlaceArgument \/ PlaceElement \/ PlaceKey \/ PlaceValue \/ EndTable
  \/ UnpackEnds

Spec == Init /\ [][Next]_vars

-----------------------------------------------------------------------------
(* Properties                                                              *)

TypeOK ==
  /\ BInv
  /\ busy \in BOOLEAN
  /\ want.n \in Nat
  /\ \A i \in DOMAIN stack : stack[i].left \in Nat /\ stack[i].at \in Nat

\* The value that the receiver ought to see: a border is not part of it, and
\* neither is a pair without a value.
RECURSIVE Plain(_)
Plain(v) == IF v[1] # "table" THEN v
            ELSE <<"table", {<<Plain(v[2][j][1]), Plain(v[2][j][2])>> : j \in DOMAIN v[2]}>>

\* data_unpack never meets what it calls an invalid stream: an end where there
\* should be more, or bytes that are not of the kind that it wants.
NeverInvalid ==
  /\ pc = "read" /\ ~busy /\ value = None /\ TooFew(want.n)
       => want.what = "type" /\ stack = <<>>
  /\ pc = "read" /\ busy =>
       Datum[1] = CASE want.what \in {"type", "size type"} -> "type"
                    [] want.what \in {"number", "size"} -> "number"
                    [] want.what \in {"userdata", "cell"} -> "pointer"
                    [] OTHER -> want.what
  /\ pc = "read" /\ busy /\ want.what = "size type" => Datum[2] = "number"

\* The receiver gets the values that were sent, whatever their sizes and wherever
\* the blocks' boundaries fall among them, without an invalid stream on the way,
\* or the sender gets an error.
RoundTrip ==
  /\ TypeOK
  /\ NeverInvalid
  /\ \A i \in DOMAIN vals : vals[i] = Plain(values[i])
  /\ pc = "closed" => IF todo # <<>> THEN vals = <<>> ELSE Len(vals) = Len(values)
=============================================================================
