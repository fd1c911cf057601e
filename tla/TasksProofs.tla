---------------------------- MODULE TasksProofs ----------------------------
(***************************************************************************)
(* Proofs about Tasks: for every finite set of cells and every program of  *)
(* theirs, a session is answered once and a coroutine waits for the        *)
(* answer, a caller is forgotten only by a cell whose exit failed or that  *)
(* could not send its answer, no sleeper of the system cell is lost, and   *)
(* events are delivered.                                                   *)
(*                                                                         *)
(* The argument.  Whoever is to answer session s of cell c holds the claim *)
(* <<c, s>>: a request or the response in a queue, the coroutine that      *)
(* serves it, or a task that still has its source to answer.  A step makes *)
(* a claim only with a new session, whose task waits for it, and otherwise *)
(* moves claims or drops them, so each stays in one place and is awaited   *)
(* (Alone).  Once a cell's exit has answered for a task, the task must not *)
(* run: NeverLate is the hypothesis, which the code does not ensure.       *)
(* Whatever cell was called has the claim until the response is in the     *)
(* caller's queue (Answerable); there AbortExit and a Finish that cannot   *)
(* send the answer are the only losses.                                    *)
(*                                                                         *)
(* Each lemma whose name ends in Step takes the whole invariant, or the    *)
(* conjunct it is named for, through an action.                            *)
(***************************************************************************)
EXTENDS Tasks, FiniteSetTheorems, SequenceTheorems, TLAPS

-----------------------------------------------------------------------------
(* Sequences and sets                                                      *)

\* What is at the head of a sequence, and after it.
LEMMA SeqHead ==
  ASSUME NEW S, NEW s \in Seq(S), s # <<>>
  PROVE  /\ Head(s) \in S /\ Tail(s) \in Seq(S)
         /\ 1 \in DOMAIN s /\ Head(s) = s[1]
         /\ \A i \in DOMAIN Tail(s) :
              i \in Nat /\ i + 1 # 1 /\ i + 1 \in DOMAIN s /\ Tail(s)[i] = s[i + 1]
         /\ \A i \in DOMAIN s : i # 1 => i - 1 \in DOMAIN Tail(s) /\ Tail(s)[i - 1] = s[i]
<1>1. Len(s) \in Nat /\ Len(s) > 0 /\ DOMAIN s = 1 .. Len(s) /\ Head(s) = s[1]
  BY LenProperties, EmptySeq
<1>2. Tail(s) \in Seq(S) /\ Len(Tail(s)) = Len(s) - 1
      /\ \A i \in 1 .. Len(Tail(s)) : Tail(s)[i] = s[i + 1]
  BY HeadTailProperties
<1>3. DOMAIN Tail(s) = 1 .. Len(s) - 1
  BY <1>2, LenProperties
<1>4. s[1] \in S
  BY <1>1, ElementOfSeq
<1>5. ASSUME NEW i \in DOMAIN s, i # 1
      PROVE  i - 1 \in DOMAIN Tail(s) /\ Tail(s)[i - 1] = s[i]
  <2>1. i - 1 \in 1 .. Len(s) - 1 /\ (i - 1) + 1 = i
    BY <1>1, <1>5
  <2>2. Tail(s)[i - 1] = s[(i - 1) + 1]
    BY <1>2, <2>1
  <2> QED BY <1>3, <2>1, <2>2
<1> QED BY <1>1, <1>2, <1>3, <1>4, <1>5

\* A sequence with one more element.
LEMMA SeqAppend ==
  ASSUME NEW S, NEW s \in Seq(S), NEW e \in S
  PROVE  /\ Append(s, e) \in Seq(S)
         /\ Len(s) + 1 \notin DOMAIN s /\ Append(s, e)[Len(s) + 1] = e
         /\ DOMAIN Append(s, e) = DOMAIN s \union {Len(s) + 1}
         /\ \A i \in DOMAIN s : Append(s, e)[i] = s[i]
<1>1. DOMAIN s = 1 .. Len(s) /\ Len(s) \in Nat
  BY LenProperties
<1>2. /\ Append(s, e) \in Seq(S) /\ Len(Append(s, e)) = Len(s) + 1
      /\ \A i \in 1 .. Len(s) : Append(s, e)[i] = s[i]
      /\ Append(s, e)[Len(s) + 1] = e
  BY AppendProperties
<1>3. DOMAIN Append(s, e) = 1 .. Len(s) + 1
  BY <1>2, LenProperties
<1> QED BY <1>1, <1>2, <1>3

\* The elements of a sequence, from its head on.
LEMMA SetOfTail ==
  ASSUME NEW S, NEW s \in Seq(S), s # <<>>
  PROVE  /\ ToSet(s) = {Head(s)} \union ToSet(Tail(s))
         /\ IsInjective(s) => IsInjective(Tail(s)) /\ Head(s) \notin ToSet(Tail(s))
<1> DEFINE t == Tail(s)
<1>1. /\ 1 \in DOMAIN s /\ Head(s) = s[1]
      /\ \A i \in DOMAIN t : i \in Nat /\ i + 1 # 1 /\ i + 1 \in DOMAIN s /\ t[i] = s[i + 1]
      /\ \A i \in DOMAIN s : i # 1 => i - 1 \in DOMAIN t /\ t[i - 1] = s[i]
  BY SeqHead
<1> HIDE DEF t
<1>2. ToSet(s) = {Head(s)} \union ToSet(t)
  BY <1>1 DEF ToSet
<1>3. ASSUME IsInjective(s) PROVE IsInjective(t) /\ Head(s) \notin ToSet(t)
  <2>1. ASSUME NEW i \in DOMAIN t, NEW j \in DOMAIN t, t[i] = t[j] PROVE i = j
    <3>1. i + 1 = j + 1
      BY <1>1, <1>3, <2>1 DEF IsInjective
    <3> QED BY <1>1, <3>1
  <2>2. ASSUME NEW i \in DOMAIN t, t[i] = Head(s) PROVE FALSE
    BY <1>1, <1>3, <2>2 DEF IsInjective
  <2> QED BY <2>1, <2>2 DEF IsInjective, ToSet
<1> QED BY <1>2, <1>3 DEF t

\* The elements of a sequence with one more.
LEMMA SetOfAppend ==
  ASSUME NEW S, NEW s \in Seq(S), NEW e \in S
  PROVE  ToSet(Append(s, e)) = ToSet(s) \union {e}
<1> DEFINE t == Append(s, e)
<1>1. /\ Len(s) + 1 \notin DOMAIN s /\ t[Len(s) + 1] = e
      /\ DOMAIN t = DOMAIN s \union {Len(s) + 1}
      /\ \A i \in DOMAIN s : t[i] = s[i]
  BY SeqAppend
<1> HIDE DEF t
<1>2. ToSet(t) = ToSet(s) \union {e}
  BY <1>1 DEF ToSet
<1> QED BY <1>2 DEF t

\* The elements of a concatenation.
LEMMA SetOfConcat ==
  ASSUME NEW S, NEW s \in Seq(S), NEW t \in Seq(S)
  PROVE  /\ ToSet(s \o t) = ToSet(s) \union ToSet(t)
         /\ IsInjective(s) /\ IsInjective(t) /\ ToSet(s) \intersect ToSet(t) = {}
              => IsInjective(s \o t)
<1> DEFINE u == s \o t
           m == Len(s)
           n == Len(t)
<1>1. /\ m \in Nat /\ n \in Nat /\ DOMAIN s = 1 .. m /\ DOMAIN t = 1 .. n
  BY LenProperties
<1>2. /\ u \in Seq(S) /\ Len(u) = m + n
      /\ \A i \in 1 .. m + n : u[i] = IF i <= m THEN s[i] ELSE t[i - m]
  BY ConcatProperties
<1>3. DOMAIN u = 1 .. m + n
  BY <1>2, LenProperties
<1> HIDE DEF u, m, n
<1>4. ASSUME NEW i \in DOMAIN s PROVE i \in DOMAIN u /\ u[i] = s[i]
  BY <1>1, <1>2, <1>3
<1>5. ASSUME NEW i \in DOMAIN t PROVE m + i \in DOMAIN u /\ u[m + i] = t[i]
  <2>1. m + i \in 1 .. m + n /\ ~(m + i <= m) /\ (m + i) - m = i
    BY <1>1
  <2> QED BY <1>2, <1>3, <2>1
<1>6. ASSUME NEW i \in DOMAIN u
      PROVE  \/ i \in DOMAIN s /\ u[i] = s[i]
             \/ i - m \in DOMAIN t /\ u[i] = t[i - m]
  <2>1. CASE i <= m
    <3>1. i \in DOMAIN s
      BY <1>1, <1>3, <2>1
    <3> QED BY <1>4, <3>1
  <2>2. CASE ~(i <= m)
    <3>1. i - m \in DOMAIN t /\ m + (i - m) = i
      BY <1>1, <1>3, <2>2
    <3>2. u[m + (i - m)] = t[i - m]
      BY <1>5, <3>1
    <3> QED BY <3>1, <3>2
  <2> QED BY <2>1, <2>2
<1>7. ToSet(u) = ToSet(s) \union ToSet(t)
  BY <1>4, <1>5, <1>6 DEF ToSet
<1>8. ASSUME IsInjective(s), IsInjective(t), ToSet(s) \intersect ToSet(t) = {}
      PROVE  IsInjective(u)
  <2>1. ASSUME NEW i \in DOMAIN u, NEW j \in DOMAIN u, u[i] = u[j] PROVE i = j
    <3>1. CASE i \in DOMAIN s /\ u[i] = s[i] /\ j \in DOMAIN s /\ u[j] = s[j]
      BY <1>8, <2>1, <3>1 DEF IsInjective
    <3>2. CASE i - m \in DOMAIN t /\ u[i] = t[i - m] /\ j - m \in DOMAIN t /\ u[j] = t[j - m]
      <4>1. i - m = j - m
        BY <1>8, <2>1, <3>2 DEF IsInjective
      <4> QED BY <1>1, <1>3, <4>1
    <3>3. CASE i \in DOMAIN s /\ u[i] = s[i] /\ j - m \in DOMAIN t /\ u[j] = t[j - m]
      BY <1>8, <2>1, <3>3 DEF ToSet
    <3>4. CASE i - m \in DOMAIN t /\ u[i] = t[i - m] /\ j \in DOMAIN s /\ u[j] = s[j]
      BY <1>8, <2>1, <3>4 DEF ToSet
    <3> QED BY <1>6, <3>1, <3>2, <3>3, <3>4
  <2> QED BY <2>1 DEF IsInjective
<1> QED BY <1>7, <1>8 DEF u

\* An ascending sequence of a finite set of numbers has each of them once.
LEMMA AscendingSet ==
  ASSUME NEW S \in SUBSET Nat, IsFiniteSet(S), NEW q \in Ascending(S)
  PROVE  q \in Seq(Nat) /\ ToSet(q) = S /\ IsInjective(q)
<1> DEFINE n == Cardinality(S)
<1>1. n \in Nat
  BY FS_CardinalityType
<1>2. q \in [1 .. n -> S] /\ \A i, j \in 1 .. n : i # j => q[i] # q[j]
  BY DEF Ascending, SetToSeqs
<1>3. q \in Injection(1 .. n, S)
  BY <1>2 DEF Injection, IsInjective
<1>4. Cardinality(1 .. n) = n
  BY <1>1, FS_Interval
<1>5. q \in Surjection(1 .. n, S)
  BY <1>3, <1>4, FS_Injection
<1>6. ToSet(q) = S
  BY <1>2, <1>5 DEF Surjection, ToSet
<1>7. q \in Seq(Nat)
  <2>1. q = [i \in 1 .. n |-> q[i]] /\ \A i \in 1 .. n : q[i] \in Nat
    BY <1>2
  <2> HIDE DEF n
  <2>2. [i \in 1 .. n |-> q[i]] \in Seq(Nat)
    BY <1>1, <2>1, IsASeq
  <2> QED BY <2>1, <2>2
<1> QED BY <1>2, <1>6, <1>7 DEF IsInjective

-----------------------------------------------------------------------------
(* Claims                                                                  *)

\* The claims in each place, as a function.
Kinds == {"mail", "co", "task"}
Held == [k \in Kinds |-> [x \in Cell |->
           CASE k = "mail" -> MailClaims(x, mailbox[x])
             [] k = "co" -> SourceClaims(co[x])
             [] k = "task" -> TaskClaims(Owing(x))]]

OnePlace(K) ==
  \A j, k \in Kinds, x, y \in Cell : \A t : t \in K[j][x] /\ t \in K[k][y] => j = k /\ x = y
AwaitedIn(K) ==
  \A k \in Kinds, x \in Cell : \A t \in K[k][x] : t[2] \in Awaiting(t[1])

\* The claims of one cell, by kind.
LEMMA HeldIs ==
  ASSUME NEW x \in Cell
  PROVE  /\ Held["mail"][x] = MailClaims(x, mailbox[x])
         /\ Held["co"][x] = SourceClaims(co[x])
         /\ Held["task"][x] = TaskClaims(Owing(x))
         /\ Held'["mail"][x] = MailClaims(x, mailbox'[x])
         /\ Held'["co"][x] = SourceClaims(co'[x])
         /\ Held'["task"][x] = TaskClaims(Owing(x)')
<1>1. "mail" \in Kinds /\ "co" \in Kinds /\ "task" \in Kinds
      /\ "mail" # "co" /\ "mail" # "task" /\ "co" # "task"
  BY DEF Kinds
<1> QED BY <1>1 DEF Held

\* The set of the claims with their places, as the invariant has it.
LEMMA ClaimIn ==
  ASSUME NEW k \in Kinds, NEW x \in Cell, NEW t
  PROVE  /\ <<k, x, t>> \in Claims <=> t \in Held[k][x]
         /\ <<k, x, t>> \in Claims' <=> t \in Held'[k][x]
<1> DEFINE K(y) == ({"mail"} \X {y} \X MailClaims(y, mailbox[y]))
                   \union ({"co"} \X {y} \X SourceClaims(co[y]))
                   \union ({"task"} \X {y} \X TaskClaims(Owing(y)))
           L(y) == ({"mail"} \X {y} \X MailClaims(y, mailbox'[y]))
                   \union ({"co"} \X {y} \X SourceClaims(co'[y]))
                   \union ({"task"} \X {y} \X TaskClaims(Owing(y)'))
<1>1. Claims = UNION {K(y) : y \in Cell} /\ Claims' = UNION {L(y) : y \in Cell}
  BY DEF Claims
<1>2. ASSUME NEW y \in Cell
      PROVE  /\ <<k, x, t>> \in K(y) <=> y = x /\ t \in Held[k][x]
             /\ <<k, x, t>> \in L(y) <=> y = x /\ t \in Held'[k][x]
  <2>1. k = "mail" \/ k = "co" \/ k = "task"
    BY DEF Kinds
  <2>2. CASE k = "mail"
    BY <2>2, HeldIs
  <2>3. CASE k = "co"
    BY <2>3, HeldIs
  <2>4. CASE k = "task"
    BY <2>4, HeldIs
  <2> QED BY <2>1, <2>2, <2>3, <2>4
<1> HIDE DEF K, L
<1>3. <<k, x, t>> \in Claims <=> t \in Held[k][x]
  BY <1>1, <1>2
<1>4. <<k, x, t>> \in Claims' <=> t \in Held'[k][x]
  BY <1>1, <1>2
<1> QED BY <1>3, <1>4

\* A claim is listed with its kind and its cell.
LEMMA ClaimsAre ==
  /\ \A p \in Claims : p[1] \in Kinds /\ p[2] \in Cell /\ p = <<p[1], p[2], p[3]>>
  /\ \A p \in Claims' : p[1] \in Kinds /\ p[2] \in Cell /\ p = <<p[1], p[2], p[3]>>
<1>1. ASSUME NEW y \in Cell, NEW S, NEW k \in Kinds, NEW p \in {k} \X {y} \X S
      PROVE  p[1] \in Kinds /\ p[2] \in Cell /\ p = <<p[1], p[2], p[3]>>
  BY <1>1
<1>2. "mail" \in Kinds /\ "co" \in Kinds /\ "task" \in Kinds
  BY DEF Kinds
<1>3. ASSUME NEW p \in Claims
      PROVE  p[1] \in Kinds /\ p[2] \in Cell /\ p = <<p[1], p[2], p[3]>>
  <2>1. PICK y \in Cell : \/ p \in {"mail"} \X {y} \X MailClaims(y, mailbox[y])
                          \/ p \in {"co"} \X {y} \X SourceClaims(co[y])
                          \/ p \in {"task"} \X {y} \X TaskClaims(Owing(y))
    BY <1>3 DEF Claims
  <2> QED BY <1>1, <1>2, <2>1
<1>4. ASSUME NEW p \in Claims'
      PROVE  p[1] \in Kinds /\ p[2] \in Cell /\ p = <<p[1], p[2], p[3]>>
  <2>1. PICK y \in Cell : \/ p \in {"mail"} \X {y} \X MailClaims(y, mailbox'[y])
                          \/ p \in {"co"} \X {y} \X SourceClaims(co'[y])
                          \/ p \in {"task"} \X {y} \X TaskClaims(Owing(y)')
    BY <1>4 DEF Claims
  <2> QED BY <1>1, <1>2, <2>1
<1> QED BY <1>3, <1>4

\* Alone, said of the function.
LEMMA AloneIs ==
  /\ Alone <=> /\ OnePlace(Held) /\ AwaitedIn(Held)
               /\ \A x \in Cell : MailDistinct(x, mailbox[x]) /\ TasksDistinct(Owing(x))
  /\ Alone' <=> /\ OnePlace(Held') /\ AwaitedIn(Held)'
                /\ \A x \in Cell : MailDistinct(x, mailbox'[x]) /\ TasksDistinct(Owing(x)')
<1>1. InOnePlace(Claims) <=> OnePlace(Held)
  <2>1. ASSUME InOnePlace(Claims), NEW j \in Kinds, NEW k \in Kinds, NEW x \in Cell, NEW y \in Cell,
               NEW t, t \in Held[j][x], t \in Held[k][y]
        PROVE  j = k /\ x = y
    <3>1. <<j, x, t>> \in Claims /\ <<k, y, t>> \in Claims
      BY <2>1, ClaimIn
    <3>2. <<j, x, t>> = <<k, y, t>>
      BY <2>1, <3>1 DEF InOnePlace
    <3> QED BY <3>2
  <2>2. ASSUME OnePlace(Held), NEW p \in Claims, NEW q \in Claims, p[3] = q[3] PROVE p = q
    <3>1. /\ p[1] \in Kinds /\ p[2] \in Cell /\ p = <<p[1], p[2], p[3]>>
          /\ q[1] \in Kinds /\ q[2] \in Cell /\ q = <<q[1], q[2], q[3]>>
      BY ClaimsAre
    <3>2. p[3] \in Held[p[1]][p[2]] /\ q[3] \in Held[q[1]][q[2]]
      BY <3>1, ClaimIn
    <3>3. p[1] = q[1] /\ p[2] = q[2]
      BY <2>2, <3>1, <3>2 DEF OnePlace
    <3> QED BY <2>2, <3>1, <3>3
  <2> QED BY <2>1, <2>2 DEF InOnePlace, OnePlace
<1>2. InOnePlace(Claims') <=> OnePlace(Held')
  <2>1. ASSUME InOnePlace(Claims'), NEW j \in Kinds, NEW k \in Kinds, NEW x \in Cell, NEW y \in Cell,
               NEW t, t \in Held'[j][x], t \in Held'[k][y]
        PROVE  j = k /\ x = y
    <3>1. <<j, x, t>> \in Claims' /\ <<k, y, t>> \in Claims'
      BY <2>1, ClaimIn
    <3>2. <<j, x, t>> = <<k, y, t>>
      BY <2>1, <3>1 DEF InOnePlace
    <3> QED BY <3>2
  <2>2. ASSUME OnePlace(Held'), NEW p \in Claims', NEW q \in Claims', p[3] = q[3] PROVE p = q
    <3>1. /\ p[1] \in Kinds /\ p[2] \in Cell /\ p = <<p[1], p[2], p[3]>>
          /\ q[1] \in Kinds /\ q[2] \in Cell /\ q = <<q[1], q[2], q[3]>>
      BY ClaimsAre
    <3>2. p[3] \in Held'[p[1]][p[2]] /\ q[3] \in Held'[q[1]][q[2]]
      BY <3>1, ClaimIn
    <3>3. p[1] = q[1] /\ p[2] = q[2]
      BY <2>2, <3>1, <3>2 DEF OnePlace
    <3> QED BY <2>2, <3>1, <3>3
  <2> QED BY <2>1, <2>2 DEF InOnePlace, OnePlace
<1>3. AllAwaited(Claims) <=> AwaitedIn(Held)
  <2>1. ASSUME AllAwaited(Claims), NEW k \in Kinds, NEW x \in Cell, NEW t \in Held[k][x]
        PROVE  t[2] \in Awaiting(t[1])
    <3>1. <<k, x, t>> \in Claims
      BY ClaimIn
    <3> QED BY <2>1, <3>1 DEF AllAwaited
  <2>2. ASSUME AwaitedIn(Held), NEW p \in Claims
        PROVE  p[3][2] \in Awaiting(p[3][1])
    <3>1. p[1] \in Kinds /\ p[2] \in Cell /\ p[3] \in Held[p[1]][p[2]]
      BY ClaimsAre, ClaimIn
    <3> QED BY <2>2, <3>1 DEF AwaitedIn
  <2> QED BY <2>1, <2>2 DEF AllAwaited, AwaitedIn
<1>4. AllAwaited(Claims)' <=> AwaitedIn(Held)'
  <2>1. ASSUME AllAwaited(Claims)', NEW k \in Kinds, NEW x \in Cell, NEW t \in Held'[k][x]
        PROVE  t[2] \in Awaiting(t[1])'
    <3>1. <<k, x, t>> \in Claims'
      BY ClaimIn
    <3> QED BY <2>1, <3>1 DEF AllAwaited
  <2>2. ASSUME AwaitedIn(Held)', NEW p \in Claims'
        PROVE  p[3][2] \in Awaiting(p[3][1])'
    <3>1. p[1] \in Kinds /\ p[2] \in Cell /\ p[3] \in Held'[p[1]][p[2]]
      BY ClaimsAre, ClaimIn
    <3> QED BY <2>2, <3>1 DEF AwaitedIn
  <2> QED BY <2>1, <2>2 DEF AllAwaited, AwaitedIn
<1> HIDE DEF Kinds
<1>5. Alone <=> /\ InOnePlace(Claims) /\ AllAwaited(Claims)
               /\ \A x \in Cell : MailDistinct(x, mailbox[x]) /\ TasksDistinct(Owing(x))
  BY DEF Alone
<1>6. Alone' <=> /\ InOnePlace(Claims') /\ AllAwaited(Claims)'
                /\ \A x \in Cell : MailDistinct(x, mailbox'[x]) /\ TasksDistinct(Owing(x)')
  BY DEF Alone, InOnePlace
<1> QED BY <1>1, <1>2, <1>3, <1>4, <1>5, <1>6

\* The claims T go to one place, or are new in it, the claims U to another; nothing
\* else comes to any.
Changed(K, L, j, y, T, k, z, U) ==
  \A i \in Kinds, x \in Cell : \A t \in L[i][x] :
    \/ t \in K[i][x] /\ t \notin T /\ t \notin U
    \/ t \in T /\ i = j /\ x = y
    \/ t \in U /\ t \notin T /\ i = k /\ x = z

\* Claims that move from place to place, without being copied, stay in one place.
LEMMA OnePlaceMoved ==
  ASSUME NEW K, NEW L, OnePlace(K),
         NEW j \in Kinds, NEW y \in Cell, NEW T,
         NEW k \in Kinds, NEW z \in Cell, NEW U,
         Changed(K, L, j, y, T, k, z, U)
  PROVE  OnePlace(L)
<1>1. SUFFICES ASSUME NEW h \in Kinds, NEW i \in Kinds, NEW w \in Cell, NEW x \in Cell, NEW t,
                      t \in L[h][w], t \in L[i][x]
               PROVE  h = i /\ w = x
  BY DEF OnePlace
<1>2. CASE t \in T
  BY <1>1, <1>2 DEF Changed
<1>3. CASE t \notin T /\ t \in U
  BY <1>1, <1>3 DEF Changed
<1>4. CASE t \notin T /\ t \notin U
  <2>1. t \in K[h][w] /\ t \in K[i][x]
    BY <1>1, <1>4 DEF Changed
  <2> QED BY <2>1 DEF OnePlace
<1> QED BY <1>2, <1>3, <1>4

\* A session is awaited by a task.
LEMMA AwaitingIs ==
  ASSUME NEW c \in Cell, NEW s
  PROVE  /\ s \in Awaiting(c) <=> \E k \in tasks[c] : k.why = "answer" /\ k.event = s
         /\ s \in Awaiting(c)' <=> \E k \in tasks'[c] : k.why = "answer" /\ k.event = s
BY DEF Awaiting

\* What a message carries, and what the queue behind it.
LEMMA MailTail ==
  ASSUME NEW q \in Seq(Mail), q # <<>>, NEW x
  PROVE  /\ MailClaims(x, q) = MessageClaims(x, Head(q)) \union MailClaims(x, Tail(q))
         /\ MailDistinct(x, q) =>
              /\ MailDistinct(x, Tail(q))
              /\ MessageClaims(x, Head(q)) \intersect MailClaims(x, Tail(q)) = {}
<1> DEFINE r == Tail(q)
<1>1. /\ 1 \in DOMAIN q /\ Head(q) = q[1]
      /\ \A i \in DOMAIN r : i \in Nat /\ i + 1 # 1 /\ i + 1 \in DOMAIN q /\ r[i] = q[i + 1]
      /\ \A i \in DOMAIN q : i # 1 => i - 1 \in DOMAIN r /\ r[i - 1] = q[i]
  BY SeqHead
<1> HIDE DEF r
<1>2. MailClaims(x, q) = MessageClaims(x, Head(q)) \union MailClaims(x, r)
  BY <1>1 DEF MailClaims
<1>3. ASSUME MailDistinct(x, q)
      PROVE  MailDistinct(x, r) /\ MessageClaims(x, Head(q)) \intersect MailClaims(x, r) = {}
  <2>1. ASSUME NEW i \in DOMAIN r, NEW j \in DOMAIN r, i # j
        PROVE  MessageClaims(x, r[i]) \intersect MessageClaims(x, r[j]) = {}
    <3>1. i + 1 # j + 1
      BY <1>1, <2>1
    <3> QED BY <1>1, <1>3, <3>1 DEF MailDistinct
  <2>2. ASSUME NEW i \in DOMAIN r
        PROVE  MessageClaims(x, Head(q)) \intersect MessageClaims(x, r[i]) = {}
    BY <1>1, <1>3 DEF MailDistinct
  <2> QED BY <2>1, <2>2 DEF MailDistinct, MailClaims
<1> QED BY <1>2, <1>3 DEF r

\* What a queue with one message more carries.
LEMMA MailAppend ==
  ASSUME NEW q \in Seq(Mail), NEW m \in Mail, NEW x
  PROVE  /\ MailClaims(x, Append(q, m)) = MailClaims(x, q) \union MessageClaims(x, m)
         /\ /\ MailDistinct(x, q)
            /\ MessageClaims(x, m) \intersect MailClaims(x, q) = {}
            => MailDistinct(x, Append(q, m))
<1> DEFINE r == Append(q, m)
           n == Len(q) + 1
<1>1. /\ n \notin DOMAIN q /\ r[n] = m
      /\ DOMAIN r = DOMAIN q \union {n}
      /\ \A i \in DOMAIN q : r[i] = q[i]
  BY SeqAppend
<1> HIDE DEF r, n
<1>2. MailClaims(x, r) = MailClaims(x, q) \union MessageClaims(x, m)
  BY <1>1 DEF MailClaims
<1>3. ASSUME MailDistinct(x, q), MessageClaims(x, m) \intersect MailClaims(x, q) = {}
      PROVE  MailDistinct(x, r)
  <2>1. ASSUME NEW i \in DOMAIN q
        PROVE  MessageClaims(x, q[i]) \intersect MessageClaims(x, m) = {}
    BY <1>3 DEF MailClaims
  <2>2. ASSUME NEW i \in DOMAIN r, NEW j \in DOMAIN r, i # j
        PROVE  MessageClaims(x, r[i]) \intersect MessageClaims(x, r[j]) = {}
    <3>1. CASE i \in DOMAIN q /\ j \in DOMAIN q
      BY <1>1, <1>3, <2>2, <3>1 DEF MailDistinct
    <3>2. CASE i = n
      BY <1>1, <2>1, <2>2, <3>2
    <3>3. CASE j = n
      BY <1>1, <2>1, <2>2, <3>3
    <3> QED BY <1>1, <3>1, <3>2, <3>3
  <2> QED BY <2>2 DEF MailDistinct
<1> QED BY <1>2, <1>3 DEF r

\* What a set of tasks has to answer, with one task more or less.
LEMMA TaskClaimsOf ==
  ASSUME NEW S, NEW k
  PROVE  /\ TaskClaims(S \union {k}) = TaskClaims(S) \union SourceClaims(k)
         /\ TaskClaims(S \ {k}) \subseteq TaskClaims(S)
         /\ k \in S => SourceClaims(k) \subseteq TaskClaims(S)
         /\ TasksDistinct(S) => TasksDistinct(S \ {k})
         /\ TasksDistinct(S) /\ k \in S => SourceClaims(k) \intersect TaskClaims(S \ {k}) = {}
         /\ TasksDistinct(S) /\ SourceClaims(k) \intersect TaskClaims(S) = {}
              => TasksDistinct(S \union {k})
<1>1. TaskClaims(S \union {k}) = TaskClaims(S) \union SourceClaims(k)
  BY DEF TaskClaims
<1>2. TaskClaims(S \ {k}) \subseteq TaskClaims(S)
  BY DEF TaskClaims
<1>3. k \in S => SourceClaims(k) \subseteq TaskClaims(S)
  BY DEF TaskClaims
<1>4. TasksDistinct(S) => TasksDistinct(S \ {k})
  BY DEF TasksDistinct
<1>5. TasksDistinct(S) /\ k \in S => SourceClaims(k) \intersect TaskClaims(S \ {k}) = {}
  BY DEF TasksDistinct, TaskClaims
<1>6. ASSUME TasksDistinct(S), SourceClaims(k) \intersect TaskClaims(S) = {}
      PROVE  TasksDistinct(S \union {k})
  <2>1. ASSUME NEW j \in S PROVE SourceClaims(j) \intersect SourceClaims(k) = {}
    BY <1>6 DEF TaskClaims
  <2> QED BY <1>6, <2>1 DEF TasksDistinct
<1> QED BY <1>1, <1>2, <1>3, <1>4, <1>5, <1>6

-----------------------------------------------------------------------------
(* The types, in parts                                                     *)

MailTypes == mailbox \in [Cell -> Seq(Mail)]
TaskTypes ==
  /\ session \in [Cell -> Nat]
  /\ tasks \in [Cell -> SUBSET Waiting]
  /\ \A c \in Cell : IsFiniteSet(tasks[c]) /\ \A k \in tasks[c] : k.event \in 1 .. session[c]
  /\ event_q \in [Cell -> Seq(Nat)]
  /\ \A c \in Cell : ToSet(event_q[c]) \subseteq 1 .. session[c]
  /\ todo \in [Cell -> SUBSET Waiting]
  /\ \A c \in Cell : todo[c] \subseteq tasks[c]
RunTypes ==
  /\ phase \in [Cell -> {"idle", "run", "deliver", "exit", "last", "dead"}]
  /\ co \in [Cell -> Coroutines]
  /\ \A c \in Cell : co[c] # NoCo => phase[c] = "run"
TimerTypes == timer \subseteq (1 .. session[system]) \X (Nat \ {0})
RestTypes ==
  /\ program \in Programs
  /\ status \in [Cell -> {"unborn", "open", "closed", "dead"}]
  /\ faults \in [Cell -> SUBSET {"exit", "dispatch", "late"}]
  /\ unsent \subseteq Cell \X Nat

\* The type invariant is its parts.
LEMMA TypesAre ==
  /\ TypeOK <=> MailTypes /\ TaskTypes /\ RunTypes /\ TimerTypes /\ RestTypes
  /\ TypeOK' <=> MailTypes' /\ TaskTypes' /\ RunTypes' /\ TimerTypes' /\ RestTypes'
BY DEF TypeOK, MailTypes, TaskTypes, RunTypes, TimerTypes, RestTypes, InPhase

\* No coroutine: it answers nobody.
LEMMA NothingRuns == NoCo \in Coroutines /\ NoCo.source = Nil /\ NoCo.origin = "dispatch"
                     /\ SourceClaims(NoCo) = {}
BY DEF NoCo, Co, Coroutines, Durable, Sources, Sessions, Cmds, Args, SourceClaims

\* A queue with one message more.
LEMMA PostEffect ==
  ASSUME MailTypes, NEW y \in Cell, NEW m \in Mail, Post(y, m)
  PROVE  /\ MailTypes'
         /\ \A x \in Cell : x # y => mailbox'[x] = mailbox[x]
         /\ ToSet(mailbox'[y]) = ToSet(mailbox[y]) \union {m}
         /\ MailClaims(y, mailbox'[y]) = MailClaims(y, mailbox[y]) \union MessageClaims(y, m)
         /\ /\ MailDistinct(y, mailbox[y])
            /\ MessageClaims(y, m) \intersect MailClaims(y, mailbox[y]) = {}
            => MailDistinct(y, mailbox'[y])
         /\ mailbox'[y] # <<>>
<1> DEFINE q == mailbox[y]
<1>1. mailbox' = [mailbox EXCEPT ![y] = Append(q, m)] /\ q \in Seq(Mail)
  BY DEF Post, MailTypes
<1>2. Append(q, m) \in Seq(Mail) /\ Append(q, m) # <<>>
  BY <1>1, AppendProperties
<1>3. mailbox'[y] = Append(q, m) /\ \A x \in Cell : x # y => mailbox'[x] = mailbox[x]
  BY <1>1 DEF MailTypes
<1>4. MailTypes'
  BY <1>1, <1>2 DEF MailTypes
<1> HIDE DEF q
<1>5. ToSet(Append(q, m)) = ToSet(q) \union {m}
  BY <1>1, SetOfAppend
<1>6. /\ MailClaims(y, Append(q, m)) = MailClaims(y, q) \union MessageClaims(y, m)
      /\ /\ MailDistinct(y, q)
         /\ MessageClaims(y, m) \intersect MailClaims(y, q) = {}
         => MailDistinct(y, Append(q, m))
  BY <1>1, MailAppend
<1> QED BY <1>2, <1>3, <1>4, <1>5, <1>6 DEF q

\* The queue of a cell that has taken its first message.
LEMMA ReceiveEffect ==
  ASSUME MailTypes, NEW c \in Cell, NEW port, Receives(c, port)
  PROVE  /\ MailTypes'
         /\ phase[c] = "idle" /\ mailbox[c] # <<>>
         /\ Head(mailbox[c]) \in Mail /\ Head(mailbox[c]).port = port
         /\ \A x \in Cell : x # c => mailbox'[x] = mailbox[x]
         /\ ToSet(mailbox[c]) = {Head(mailbox[c])} \union ToSet(mailbox'[c])
         /\ MailClaims(c, mailbox[c]) =
              MessageClaims(c, Head(mailbox[c])) \union MailClaims(c, mailbox'[c])
         /\ MailDistinct(c, mailbox[c]) =>
              /\ MailDistinct(c, mailbox'[c])
              /\ MessageClaims(c, Head(mailbox[c])) \intersect MailClaims(c, mailbox'[c]) = {}
<1> DEFINE q == mailbox[c]
<1>1. mailbox' = [mailbox EXCEPT ![c] = Tail(q)] /\ q \in Seq(Mail) /\ q # <<>>
      /\ phase[c] = "idle" /\ Head(q).port = port
  BY DEF Receives, MailTypes, InPhase
<1>2. Tail(q) \in Seq(Mail) /\ Head(q) \in Mail
  BY <1>1, HeadTailProperties
<1>3. mailbox'[c] = Tail(q) /\ \A x \in Cell : x # c => mailbox'[x] = mailbox[x]
  BY <1>1 DEF MailTypes
<1>4. MailTypes'
  BY <1>1, <1>2 DEF MailTypes
<1> HIDE DEF q
<1>5. ToSet(q) = {Head(q)} \union ToSet(Tail(q))
  BY <1>1, SetOfTail
<1>6. /\ MailClaims(c, q) = MessageClaims(c, Head(q)) \union MailClaims(c, Tail(q))
      /\ MailDistinct(c, q) =>
           /\ MailDistinct(c, Tail(q))
           /\ MessageClaims(c, Head(q)) \intersect MailClaims(c, Tail(q)) = {}
  BY <1>1, MailTail
<1> QED BY <1>1, <1>2, <1>3, <1>4, <1>5, <1>6 DEF q

\* The coroutine a cell runs, from its start to its end.
LEMMA RunEffect ==
  ASSUME RunTypes, NEW c \in Cell, NEW k \in Coroutines, Run(c, k)
  PROVE  /\ RunTypes' /\ co'[c] = k /\ phase'[c] = "run"
         /\ \A x \in Cell : x # c => co'[x] = co[x] /\ phase'[x] = phase[x]
BY DEF RunTypes, Run, Enter

\* A cell enters a phase without a coroutine.
LEMMA EnterEffect ==
  ASSUME RunTypes, NEW c \in Cell, phase[c] # "run", UNCHANGED co,
         NEW p \in {"idle", "deliver", "exit", "last", "dead"}, Enter(c, p)
  PROVE  /\ RunTypes' /\ co'[c] = NoCo /\ co[c] = NoCo /\ phase'[c] = p
         /\ \A x \in Cell : x # c => phase'[x] = phase[x]
BY DEF RunTypes, Enter

\* Where a cell is once its coroutine has yielded or ended.
LEMMA SuspendedEffect ==
  ASSUME RunTypes, NEW c \in Cell, Suspended(c)
  PROVE  /\ RunTypes' /\ co'[c] = NoCo
         /\ phase'[c] = IF co[c].origin = "last" THEN "last" ELSE "deliver"
         /\ \A x \in Cell : x # c => co'[x] = co[x] /\ phase'[x] = phase[x]
<1>1. co[c].origin \in {"dispatch", "deliver", "last"}
  BY DEF RunTypes, Coroutines
<1>2. phase' = [phase EXCEPT ![c] = IF co[c].origin = "last" THEN "last" ELSE "deliver"]
  BY <1>1 DEF Suspended, Enter
<1>3. co' = [co EXCEPT ![c] = NoCo]
  BY DEF Suspended
<1> QED BY <1>2, <1>3, NothingRuns DEF RunTypes

\* Where a cell is once its coroutine has failed in suspend.
LEMMA FailedEffect ==
  ASSUME RunTypes, RestTypes, NEW c \in Cell, Failed(c)
  PROVE  /\ RunTypes' /\ co'[c] = NoCo
         /\ phase'[c] = IF co[c].origin = "dispatch" THEN "idle" ELSE co[c].origin
         /\ \A x \in Cell : x # c => co'[x] = co[x] /\ phase'[x] = phase[x]
         /\ faults' \in [Cell -> SUBSET {"exit", "dispatch", "late"}]
         /\ \A x \in Cell : faults[x] \subseteq faults'[x]
         /\ co[c].origin = "dispatch" => "dispatch" \in faults'[c]
<1>1. co[c].origin \in {"dispatch", "deliver", "last"}
  BY DEF RunTypes, Coroutines
<1>2. co' = [co EXCEPT ![c] = NoCo]
  BY DEF Failed
<1>3. CASE co[c].origin = "dispatch"
  BY <1>2, <1>3, NothingRuns DEF Failed, Enter, Fault, RunTypes, RestTypes
<1>4. CASE co[c].origin # "dispatch"
  <2>1. phase' = [phase EXCEPT ![c] = co[c].origin] /\ faults' = faults
    BY <1>4 DEF Failed, Enter
  <2> QED BY <1>1, <1>2, <1>4, <2>1, NothingRuns DEF RunTypes, RestTypes
<1> QED BY <1>3, <1>4

\* What a cell has to answer, by its phase.
LEMMA OwingIs ==
  ASSUME NEW x \in Cell
  PROVE  /\ RunTypes =>
              /\ phase[x] \in {"idle", "deliver"} => Owing(x) = tasks[x]
              /\ phase[x] = "run" => Owing(x) = IF co[x].origin = "last" THEN {} ELSE tasks[x]
              /\ phase[x] = "exit" => Owing(x) = todo[x]
              /\ phase[x] \in {"last", "dead"} => Owing(x) = {}
         /\ RunTypes' =>
              /\ phase'[x] \in {"idle", "deliver"} => Owing(x)' = tasks'[x]
              /\ phase'[x] = "run" => Owing(x)' = IF co'[x].origin = "last" THEN {} ELSE tasks'[x]
              /\ phase'[x] = "exit" => Owing(x)' = todo'[x]
              /\ phase'[x] \in {"last", "dead"} => Owing(x)' = {}
         /\ /\ phase'[x] = phase[x] /\ co'[x] = co[x]
            /\ tasks'[x] = tasks[x] /\ todo'[x] = todo[x]
            => Owing(x)' = Owing(x)
<1>1. ASSUME RunTypes
      PROVE  /\ phase[x] \in {"idle", "deliver"} => Owing(x) = tasks[x]
             /\ phase[x] = "run" => Owing(x) = IF co[x].origin = "last" THEN {} ELSE tasks[x]
             /\ phase[x] = "exit" => Owing(x) = todo[x]
             /\ phase[x] \in {"last", "dead"} => Owing(x) = {}
  <2>1. phase[x] # "run" => co[x].origin = "dispatch"
    BY <1>1, NothingRuns DEF RunTypes
  <2> QED BY <2>1 DEF Owing
<1>2. ASSUME RunTypes'
      PROVE  /\ phase'[x] \in {"idle", "deliver"} => Owing(x)' = tasks'[x]
             /\ phase'[x] = "run" => Owing(x)' = IF co'[x].origin = "last" THEN {} ELSE tasks'[x]
             /\ phase'[x] = "exit" => Owing(x)' = todo'[x]
             /\ phase'[x] \in {"last", "dead"} => Owing(x)' = {}
  <2>1. phase'[x] # "run" => co'[x].origin = "dispatch"
    BY <1>2, NothingRuns DEF RunTypes
  <2> QED BY <2>1 DEF Owing
<1>3. /\ phase'[x] = phase[x] /\ co'[x] = co[x]
      /\ tasks'[x] = tasks[x] /\ todo'[x] = todo[x]
      => Owing(x)' = Owing(x)
  BY DEF Owing
<1> QED BY <1>1, <1>2, <1>3

\* A new task of a cell, with a session of its own.
LEMMA NewTask ==
  ASSUME TaskTypes, NEW c \in Cell, NEW k \in Waiting, k.event = session[c] + 1,
         session' = [session EXCEPT ![c] = @ + 1],
         tasks' = [tasks EXCEPT ![c] = @ \union {k}], UNCHANGED todo,
         \/ UNCHANGED event_q
         \/ event_q' = [event_q EXCEPT ![c] = Append(@, session[c] + 1)]
  PROVE  /\ TaskTypes' /\ k \notin tasks[c]
         /\ tasks'[c] = tasks[c] \union {k} /\ session'[c] = session[c] + 1
         /\ \A x \in Cell : x # c => tasks'[x] = tasks[x] /\ session'[x] = session[x]
<1> DEFINE s == session[c] + 1
<1>1. session[c] \in Nat /\ s \in Nat /\ s \in 1 .. s /\ 1 .. session[c] \subseteq 1 .. s
      /\ s \notin 1 .. session[c]
  BY DEF TaskTypes
<1>2. session' \in [Cell -> Nat] /\ session'[c] = s
      /\ \A x \in Cell : x # c => session'[x] = session[x]
  BY <1>1 DEF TaskTypes
<1>3. tasks'[c] = tasks[c] \union {k} /\ \A x \in Cell : x # c => tasks'[x] = tasks[x]
  BY DEF TaskTypes
<1>4. tasks' \in [Cell -> SUBSET Waiting]
  BY DEF TaskTypes
<1>5. IsFiniteSet(tasks'[c])
  BY <1>3, FS_AddElement DEF TaskTypes
<1>6. \A x \in Cell : x # c => event_q'[x] = event_q[x]
  BY DEF TaskTypes
<1>7. event_q' \in [Cell -> Seq(Nat)] /\ ToSet(event_q'[c]) \subseteq 1 .. s
  <2>1. event_q[c] \in Seq(Nat) /\ ToSet(event_q[c]) \subseteq 1 .. session[c]
    BY DEF TaskTypes
  <2>2. Append(event_q[c], s) \in Seq(Nat) /\ ToSet(Append(event_q[c], s)) = ToSet(event_q[c]) \union {s}
    BY <1>1, <2>1, SetOfAppend, AppendProperties
  <2> HIDE DEF s
  <2>3. CASE UNCHANGED event_q
    BY <1>1, <2>1, <2>3 DEF TaskTypes
  <2>4. CASE event_q' = [event_q EXCEPT ![c] = Append(@, s)]
    <3>1. event_q' = [event_q EXCEPT ![c] = Append(event_q[c], s)] /\ event_q \in [Cell -> Seq(Nat)]
      BY <2>4 DEF TaskTypes
    <3>2. event_q' \in [Cell -> Seq(Nat)] /\ event_q'[c] = Append(event_q[c], s)
      BY <2>2, <3>1
    <3> QED BY <1>1, <2>1, <2>2, <3>2
  <2> QED BY <2>3, <2>4 DEF s
<1>8. k \notin tasks[c] /\ \A j \in tasks'[c] : j.event \in 1 .. s
  BY <1>1, <1>3 DEF TaskTypes
<1> HIDE DEF s
<1>9. ASSUME NEW x \in Cell
      PROVE  /\ IsFiniteSet(tasks'[x]) /\ \A j \in tasks'[x] : j.event \in 1 .. session'[x]
             /\ ToSet(event_q'[x]) \subseteq 1 .. session'[x]
             /\ todo'[x] \subseteq tasks'[x]
  <2>1. CASE x = c
    <3>1. todo[c] \subseteq tasks[c] /\ todo'[c] = todo[c]
      BY DEF TaskTypes
    <3> QED BY <1>2, <1>3, <1>5, <1>7, <1>8, <2>1, <3>1
  <2>2. CASE x # c
    <3>1. /\ session'[x] = session[x] /\ tasks'[x] = tasks[x] /\ event_q'[x] = event_q[x]
          /\ todo'[x] = todo[x]
      BY <1>2, <1>3, <1>6, <2>2
    <3> QED BY <3>1 DEF TaskTypes
  <2> QED BY <2>1, <2>2
<1>10. todo' \in [Cell -> SUBSET Waiting]
  BY DEF TaskTypes
<1>11. TaskTypes'
  BY <1>2, <1>4, <1>7, <1>9, <1>10 DEF TaskTypes
<1> QED BY <1>2, <1>3, <1>8, <1>11 DEF s

\* A task that is resumed, and the events that are left.
LEMMA TaskGone ==
  ASSUME TaskTypes, NEW c \in Cell, NEW k \in tasks[c], todo[c] = {},
         UNCHANGED <<session, todo>>,
         tasks' = [tasks EXCEPT ![c] = @ \ {k}],
         event_q' \in [Cell -> Seq(Nat)],
         \A x \in Cell : ToSet(event_q'[x]) \subseteq ToSet(event_q[x])
  PROVE  /\ TaskTypes' /\ tasks'[c] = tasks[c] \ {k}
         /\ \A x \in Cell : x # c => tasks'[x] = tasks[x]
<1>1. tasks'[c] = tasks[c] \ {k} /\ \A x \in Cell : x # c => tasks'[x] = tasks[x]
  BY DEF TaskTypes
<1>2. tasks' \in [Cell -> SUBSET Waiting]
  BY DEF TaskTypes
<1>3. IsFiniteSet(tasks'[c])
  BY <1>1, FS_RemoveElement DEF TaskTypes
<1>4. ASSUME NEW x \in Cell
      PROVE  /\ IsFiniteSet(tasks'[x]) /\ \A j \in tasks'[x] : j.event \in 1 .. session'[x]
             /\ ToSet(event_q'[x]) \subseteq 1 .. session'[x]
             /\ todo'[x] \subseteq tasks'[x]
  <2>1. /\ session'[x] = session[x] /\ todo'[x] = todo[x]
        /\ ToSet(event_q'[x]) \subseteq ToSet(event_q[x])
        /\ ToSet(event_q[x]) \subseteq 1 .. session[x]
    BY DEF TaskTypes
  <2>2. CASE x = c
    <3>1. \A j \in tasks[c] : j.event \in 1 .. session[c]
      BY DEF TaskTypes
    <3> QED BY <1>1, <1>3, <2>1, <2>2, <3>1
  <2>3. CASE x # c
    BY <1>1, <2>1, <2>3 DEF TaskTypes
  <2> QED BY <2>2, <2>3
<1>5. session' \in [Cell -> Nat] /\ todo' \in [Cell -> SUBSET Waiting]
  BY DEF TaskTypes
<1>6. TaskTypes'
  BY <1>2, <1>4, <1>5 DEF TaskTypes
<1> QED BY <1>1, <1>6

-----------------------------------------------------------------------------
(* How each part of the invariant is kept                                  *)

TicksDistinct == \A p, q \in timer : p[1] = q[1] => p = q

\* New tasks have new events; only tasks that wait to be woken are.
LEMMA EventsStep ==
  ASSUME TaskTypes, EventsDistinct, NEW c \in Cell,
         \A x \in Cell : x # c => tasks'[x] = tasks[x] /\ event_q'[x] = event_q[x],
         \A j, k \in tasks'[c] : j.event = k.event => j = k,
         \A k \in tasks'[c] : k.event \in ToSet(event_q'[c]) => k.why = "wakeup",
         TicksDistinct', c = system => IsInjective(event_q'[c])
  PROVE  EventsDistinct'
<1>1. ASSUME NEW x \in Cell, NEW j \in tasks'[x], NEW k \in tasks'[x], j.event = k.event
      PROVE  j = k
  BY <1>1 DEF EventsDistinct
<1>2. ASSUME NEW x \in Cell, NEW k \in tasks'[x], k.event \in ToSet(event_q'[x])
      PROVE  k.why = "wakeup"
  BY <1>2 DEF EventsDistinct
<1>3. IsInjective(event_q'[system])
  BY CodeAssumption DEF EventsDistinct
<1> QED BY <1>1, <1>2, <1>3 DEF EventsDistinct, TicksDistinct

\* A new task, which may be woken at once, has an event of its own.
LEMMA EventsOfNewTask ==
  ASSUME TaskTypes, EventsDistinct, NEW c \in Cell, NEW k \in Waiting,
         k.event = session[c] + 1,
         tasks'[c] = tasks[c] \union {k},
         \A x \in Cell : x # c => tasks'[x] = tasks[x] /\ event_q'[x] = event_q[x],
         \/ UNCHANGED event_q
         \/ /\ ToSet(event_q'[c]) = ToSet(event_q[c]) \union {session[c] + 1}
            /\ k.why = "wakeup" /\ c # system,
         TicksDistinct'
  PROVE  EventsDistinct'
<1>1. /\ session[c] + 1 \notin 1 .. session[c]
      /\ ToSet(event_q[c]) \subseteq 1 .. session[c]
      /\ \A j \in tasks[c] : j.event \in 1 .. session[c]
  BY DEF TaskTypes
<1>2. \A i, j \in tasks[c] : i.event = j.event => i = j
  BY DEF EventsDistinct
<1>3. \A i, j \in tasks'[c] : i.event = j.event => i = j
  BY <1>1, <1>2
<1>4. \A j \in tasks[c] : j.event \in ToSet(event_q[c]) => j.why = "wakeup"
  BY DEF EventsDistinct
<1>5. \A j \in tasks'[c] : j.event \in ToSet(event_q'[c]) => j.why = "wakeup"
  BY <1>1, <1>4
<1>6. c = system => IsInjective(event_q'[c])
  BY DEF EventsDistinct
<1> QED BY <1>3, <1>5, <1>6, EventsStep

\* The timer is left alone.
LEMMA TicksSame ==
  ASSUME EventsDistinct, UNCHANGED timer
  PROVE  TicksDistinct'
BY DEF EventsDistinct, TicksDistinct

\* The tasks, the events and the timer are left alone.
LEMMA EventsSame ==
  ASSUME EventsDistinct, UNCHANGED <<tasks, event_q, timer>>
  PROVE  EventsDistinct'
BY DEF EventsDistinct

\* The system cell's sleepers are the same.
LEMMA SleepersSame ==
  ASSUME SleepersKept, UNCHANGED timer, ToSet(event_q'[system]) = ToSet(event_q[system]),
         \A k : k.why = "wakeup" => (k \in tasks'[system] <=> k \in tasks[system])
  PROVE  SleepersKept'
<1>1. {k.event : k \in {j \in tasks'[system] : j.why = "wakeup"}}
        = {k.event : k \in {j \in tasks[system] : j.why = "wakeup"}}
  OBVIOUS
<1> QED BY <1>1 DEF SleepersKept

\* The stage of a cell, and of the others, of which nothing changes but that a
\* message comes to one that is open.
LEMMA StagesStep ==
  ASSUME Stages, NEW c \in Cell,
         \A x \in Cell : x # c =>
           /\ phase'[x] = phase[x] /\ co'[x] = co[x] /\ tasks'[x] = tasks[x]
           /\ todo'[x] = todo[x] /\ faults'[x] = faults[x] /\ status'[x] = status[x]
           /\ mailbox'[x] = mailbox[x] \/ status[x] = "open",
         Ending(c)' => status'[c] \in {"closed", "dead"} /\ mailbox'[c] = <<>>,
         status'[c] = "unborn" => phase'[c] = "idle" /\ mailbox'[c] = <<>> /\ tasks'[c] = {},
         phase'[c] # "exit" => todo'[c] = {},
         co'[c].origin = "last" => "late" \in faults'[c]
  PROVE  Stages'
<1>1. ASSUME NEW x \in Cell
      PROVE  /\ Ending(x)' => status'[x] \in {"closed", "dead"} /\ mailbox'[x] = <<>>
             /\ status'[x] = "unborn" => phase'[x] = "idle" /\ mailbox'[x] = <<>> /\ tasks'[x] = {}
             /\ phase'[x] # "exit" => todo'[x] = {}
             /\ co'[x].origin = "last" => "late" \in faults'[x]
  <2>1. CASE x = c
    BY <2>1
  <2>2. CASE x # c
    BY <2>2 DEF Stages, Ending
  <2> QED BY <2>1, <2>2
<1> QED BY <1>1 DEF Stages

\* The claims stay proper while sessions are given out to new tasks.
LEMMA ProperKept ==
  ASSUME TaskTypes, session' \in [Cell -> Nat], \A x \in Cell : session[x] <= session'[x],
         \A x \in Cell : \A k \in tasks'[x] : k \in tasks[x] \/ k.event \notin 1 .. session[x],
         NEW t, Proper(t)
  PROVE  Proper(t)'
<1>1. t[1] \in Cell /\ t[2] \in 1 .. session[t[1]]
      /\ \A k \in tasks[t[1]] : k.event = t[2] => k.why = "answer"
  BY DEF Proper
<1>2. t[2] \in 1 .. session'[t[1]]
  <2>1. session[t[1]] \in Nat /\ session'[t[1]] \in Nat /\ session[t[1]] <= session'[t[1]]
    BY <1>1 DEF TaskTypes
  <2> QED BY <1>1, <2>1
<1>3. \A k \in tasks'[t[1]] : k.event = t[2] => k.why = "answer"
  BY <1>1
<1> QED BY <1>1, <1>2, <1>3 DEF Proper

\* Claims stay proper: a new one is to a session given out, and tasks get new events.
LEMMA AddressedStep ==
  ASSUME TaskTypes, Addressed,
         session' \in [Cell -> Nat], \A x \in Cell : session[x] <= session'[x],
         \A x \in Cell : \A k \in tasks'[x] : k \in tasks[x] \/ k.event \notin 1 .. session[x],
         \A x \in Cell : \A t \in MailClaims(x, mailbox'[x]) :
           t \in MailClaims(x, mailbox[x]) \/ Proper(t) \/ Proper(t)',
         \A x \in Cell : \A t \in SourceClaims(co'[x]) :
           t \in SourceClaims(co[x]) \/ Proper(t),
         \A x \in Cell : \A t \in TaskClaims(tasks'[x]) :
           t \in TaskClaims(tasks[x]) \/ Proper(t)
  PROVE  Addressed'
<1>1. ASSUME NEW x \in Cell,
             NEW t \in MailClaims(x, mailbox[x]) \union SourceClaims(co[x])
                       \union TaskClaims(tasks[x])
      PROVE  Proper(t)
  BY DEF Addressed
<1>2. ASSUME NEW x \in Cell,
             NEW t \in MailClaims(x, mailbox'[x]) \union SourceClaims(co'[x])
                       \union TaskClaims(tasks'[x])
      PROVE  Proper(t)'
  <2>1. Proper(t) \/ Proper(t)'
    BY <1>1
  <2>2. Proper(t) => Proper(t)'
    BY ProperKept
  <2> QED BY <2>1, <2>2
<1> QED BY <1>2 DEF Addressed

\* The claims of a cell are proper.
LEMMA ProperClaims ==
  ASSUME Addressed, NEW x \in Cell
  PROVE  /\ \A t \in MailClaims(x, mailbox[x]) : Proper(t)
         /\ \A t \in SourceClaims(co[x]) : Proper(t)
         /\ \A t \in TaskClaims(tasks[x]) : Proper(t)
BY DEF Addressed

\* A step in which no coroutine has been late was not preceded by one that was.
LEMMA NeverLateBefore ==
  ASSUME \A x \in Cell : faults[x] \subseteq faults'[x], NeverLate'
  PROVE  NeverLate
BY DEF NeverLate

\* The claims T are new and awaited now, in the place j of y; the claims U leave the
\* place o of w for the place k of z; a task whose answer came is gone with its claim.
Comes(T) == \A t \in T : t[2] \notin Awaiting(t[1]) /\ t[2] \in Awaiting(t[1])'
Leaves(U, o, w) == U \subseteq Held[o][w] /\ U \intersect Held'[o][w] = {}
Moves(T, j, y, U, k, z) ==
  \A i \in Kinds, x \in Cell : \A t \in Held'[i][x] :
    t \in Held[i][x] \/ (t \in T /\ i = j /\ x = y) \/ (t \in U /\ i = k /\ x = z)
Answered ==
  \A x \in Cell : \A h \in tasks[x] : h.why = "answer" =>
    h \in tasks'[x] \/ \A i \in Kinds, v \in Cell : <<x, h.event>> \notin Held'[i][v]
OwingTasks == \A x \in Cell : TaskClaims(Owing(x)) \subseteq TaskClaims(tasks[x])
AllDistinct == \A x \in Cell : MailDistinct(x, mailbox[x]) /\ TasksDistinct(Owing(x))

\* Claims stay alone: those of T come to one place, those of U leave one for another.
LEMMA AloneStep ==
  ASSUME Alone, Addressed, OwingTasks, Answered, AllDistinct',
         NEW T, NEW j \in Kinds, NEW y \in Cell, Comes(T),
         NEW U, NEW o \in Kinds, NEW w \in Cell, NEW k \in Kinds, NEW z \in Cell, Leaves(U, o, w),
         Moves(T, j, y, U, k, z)
  PROVE  Alone'
<1>1. /\ OnePlace(Held) /\ AwaitedIn(Held)
      /\ \A x \in Cell : MailDistinct(x, mailbox[x]) /\ TasksDistinct(Owing(x))
  BY AloneIs
<1>2. ASSUME NEW i \in Kinds, NEW x \in Cell, NEW t \in Held[i][x] PROVE t \notin T
  BY <1>1 DEF AwaitedIn, Comes
<1>3. ASSUME NEW i \in Kinds, NEW x \in Cell, NEW t \in Held'[i][x]
      PROVE  \/ t \in Held[i][x] /\ t \notin T /\ t \notin U
             \/ t \in T /\ i = j /\ x = y
             \/ t \in U /\ t \notin T /\ i = k /\ x = z
  <2>1. CASE t \in Held[i][x] /\ t \in U
    <3>1. i = o /\ x = w
      BY <1>1, <2>1 DEF OnePlace, Leaves
    <3> QED BY <1>3, <2>1, <3>1 DEF Leaves
  <2>2. CASE t \in Held[i][x] /\ t \notin U
    BY <1>2, <2>2
  <2>3. CASE t \in T /\ i = j /\ x = y
    BY <2>3
  <2>4. CASE t \in U /\ i = k /\ x = z
    BY <1>2, <2>4 DEF Leaves
  <2> QED BY <1>3, <2>1, <2>2, <2>3, <2>4 DEF Moves
<1>4. OnePlace(Held')
  <2> DEFINE K == Held
             L == Held'
  <2>1. OnePlace(K)
    BY <1>1
  <2>2. Changed(K, L, j, y, T, k, z, U)
    BY <1>3 DEF Changed
  <2> HIDE DEF K, L
  <2>3. OnePlace(L)
    BY <2>1, <2>2, OnePlaceMoved
  <2> QED BY <2>3 DEF L
<1>5. ASSUME NEW i \in Kinds, NEW x \in Cell, NEW t \in Held[i][x],
             NEW v \in Cell, NEW h \in Kinds, t \in Held'[h][v]
      PROVE  t[2] \in Awaiting(t[1])'
  <2>1. Proper(t)
    <3>1. i = "mail" \/ i = "co" \/ i = "task"
      BY DEF Kinds
    <3> QED BY <1>5, <3>1, HeldIs, ProperClaims DEF OwingTasks
  <2>2. t[1] \in Cell /\ t[2] \in Awaiting(t[1])
    BY <1>1, <1>5, <2>1 DEF AwaitedIn, Proper
  <2>3. PICK g \in tasks[t[1]] : g.why = "answer" /\ g.event = t[2]
    BY <2>2, AwaitingIs
  <2>4. t = <<t[1], g.event>>
    <3>1. \E a, b : t = <<a, b>>
      <4>1. i = "mail" \/ i = "co" \/ i = "task"
        BY DEF Kinds
      <4>2. CASE i = "mail"
        <5>1. t \in MailClaims(x, mailbox[x])
          BY <4>2, HeldIs
        <5>2. PICK n \in DOMAIN mailbox[x] : t \in MessageClaims(x, mailbox[x][n])
          BY <5>1 DEF MailClaims
        <5> QED BY <5>2 DEF MessageClaims
      <4>3. CASE i = "co"
        <5>1. t \in SourceClaims(co[x])
          BY <4>3, HeldIs
        <5> QED BY <5>1 DEF SourceClaims
      <4>4. CASE i = "task"
        <5>1. t \in TaskClaims(Owing(x))
          BY <4>4, HeldIs
        <5> QED BY <5>1 DEF TaskClaims, SourceClaims
      <4> QED BY <4>1, <4>2, <4>3, <4>4
    <3> QED BY <2>3, <3>1
  <2>5. g \in tasks'[t[1]]
    BY <1>5, <2>2, <2>3, <2>4 DEF Answered
  <2> QED BY <2>2, <2>3, <2>5, AwaitingIs
<1>6. AwaitedIn(Held)'
  <2>1. ASSUME NEW i \in Kinds, NEW x \in Cell, NEW t \in Held'[i][x]
        PROVE  t[2] \in Awaiting(t[1])'
    <3>1. CASE t \in T
      BY <3>1 DEF Comes
    <3>2. CASE t \in Held[i][x]
      BY <1>5, <2>1, <3>2
    <3>3. CASE t \in U
      BY <1>5, <2>1, <3>3 DEF Leaves
    <3> QED BY <2>1, <3>1, <3>2, <3>3 DEF Moves
  <2> QED BY <2>1 DEF AwaitedIn
<1> QED BY <1>4, <1>6, AloneIs DEF AllDistinct

\* A step that takes no claim anywhere.
LEMMA AloneSame ==
  ASSUME Alone, Addressed, OwingTasks, AllDistinct',
         \A x \in Cell : \A h \in tasks[x] : h.why = "answer" => h \in tasks'[x],
         \A x \in Cell : MailClaims(x, mailbox'[x]) \subseteq MailClaims(x, mailbox[x]),
         \A x \in Cell : SourceClaims(co'[x]) \subseteq SourceClaims(co[x]),
         \A x \in Cell : TaskClaims(Owing(x)') \subseteq TaskClaims(Owing(x))
  PROVE  Alone'
<1>1. ASSUME NEW i \in Kinds, NEW x \in Cell, NEW t \in Held'[i][x] PROVE t \in Held[i][x]
  <2>1. i = "mail" \/ i = "co" \/ i = "task"
    BY DEF Kinds
  <2> QED BY <1>1, <2>1, HeldIs
<1>2. "mail" \in Kinds /\ system \in Cell
  BY CodeAssumption DEF Kinds
<1> DEFINE N == {}
<1>3. Comes(N) /\ Leaves(N, "mail", system) /\ Moves(N, "mail", system, N, "mail", system)
  BY <1>1 DEF Comes, Leaves, Moves
<1>4. Answered
  BY DEF Answered
<1> HIDE DEF N
<1> QED BY <1>2, <1>3, <1>4, AloneStep

\* An open cell's call keeps its claim, has it answered or loses it to a fault.
LEMMA AnswerableStep ==
  ASSUME Answerable, unsent \subseteq unsent', \A x \in Cell : faults[x] \subseteq faults'[x],
         \A x \in Cell : status'[x] = "open" => status[x] = "open" \/ tasks'[x] = {},
         \A x \in Cell : \A k \in tasks'[x] : status[x] = "open" /\ k.why = "answer" =>
           \/ k \in tasks[x]
           \/ k.to \in Cell /\ Pending(x, k)',
         \A x \in Cell : \A k \in tasks[x] :
           /\ status[x] = "open" /\ k.why = "answer" /\ k \in tasks'[x]
           /\ k.to \in Cell /\ Pending(x, k)
           => Pending(x, k)' \/ "exit" \in faults'[k.to] \/ <<x, k.event>> \in unsent'
  PROVE  Answerable'
<1>1. SUFFICES ASSUME NEW x \in Cell, status'[x] = "open", NEW k \in tasks'[x], k.why = "answer"
               PROVE  /\ k.to \in Cell
                      /\ "exit" \in faults'[k.to] \/ <<x, k.event>> \in unsent' \/ Pending(x, k)'
  BY DEF Answerable
<1>2. status[x] = "open"
  BY <1>1
<1>3. CASE k \notin tasks[x]
  BY <1>1, <1>2, <1>3
<1>4. CASE k \in tasks[x]
  <2>1. /\ k.to \in Cell
        /\ "exit" \in faults[k.to] \/ <<x, k.event>> \in unsent \/ Pending(x, k)
    BY <1>1, <1>2, <1>4 DEF Answerable
  <2> QED BY <1>1, <1>2, <1>4, <2>1
<1> QED BY <1>3, <1>4

\* What is pending, of this state and of the next.
LEMMA PendingIs ==
  ASSUME NEW c \in Cell, NEW k
  PROVE  /\ Pending(c, k) <=>
              \/ <<c, k.event>> \in MailClaims(k.to, mailbox[k.to])
              \/ <<c, k.event>> \in SourceClaims(co[k.to]) /\ co[k.to].origin # "last"
              \/ <<c, k.event>> \in TaskClaims(Owing(k.to))
              \/ Response(k.event) \in ToSet(mailbox[c])
         /\ Pending(c, k)' <=>
              \/ <<c, k.event>> \in MailClaims(k.to, mailbox'[k.to])
              \/ <<c, k.event>> \in SourceClaims(co'[k.to]) /\ co'[k.to].origin # "last"
              \/ <<c, k.event>> \in TaskClaims(Owing(k.to)')
              \/ Response(k.event) \in ToSet(mailbox'[c])
BY DEF Pending

\* Where the cell called has what it had.
LEMMA AnswerableSame ==
  ASSUME Answerable, unsent \subseteq unsent', \A x \in Cell : faults[x] \subseteq faults'[x],
         \A x \in Cell : status'[x] = "open" => status[x] = "open" \/ tasks'[x] = {},
         \A x \in Cell : \A k \in tasks'[x] : status[x] = "open" /\ k.why = "answer" =>
           \/ k \in tasks[x]
           \/ k.to \in Cell /\ Pending(x, k)',
         \A x \in Cell : \A t \in MailClaims(x, mailbox[x]) : t \in MailClaims(x, mailbox'[x]),
         \A x \in Cell : \A t \in SourceClaims(co[x]) : co[x].origin # "last" =>
           \/ t \in SourceClaims(co'[x]) /\ co'[x].origin # "last"
           \/ t \in TaskClaims(Owing(x)'),
         \A x \in Cell : \A t \in TaskClaims(Owing(x)) : t \in TaskClaims(Owing(x)'),
         \A x \in Cell : ToSet(mailbox[x]) \subseteq ToSet(mailbox'[x])
  PROVE  Answerable'
<1>1. ASSUME NEW x \in Cell, NEW k \in tasks[x], k.to \in Cell, Pending(x, k)
      PROVE  Pending(x, k)'
  BY <1>1, PendingIs
<1> QED BY <1>1, AnswerableStep

\* Only one cell enters its idle phase.
LEMMA DeliveredStep ==
  ASSUME EventsDelivered, NEW c \in Cell, \A x \in Cell : faults[x] \subseteq faults'[x],
         \A x \in Cell : x # c => phase'[x] = phase[x] /\ event_q'[x] = event_q[x],
         phase'[c] = "idle" /\ event_q'[c] # <<>> => "dispatch" \in faults'[c]
  PROVE  EventsDelivered'
BY DEF EventsDelivered, InPhase

\* The parts of the invariant, and that what is owed is a task.
LEMMA Parts ==
  ASSUME IInv
  PROVE  /\ MailTypes /\ TaskTypes /\ RunTypes /\ TimerTypes /\ RestTypes
         /\ Stages /\ EventsDistinct /\ SleepersKept /\ EventsDelivered
         /\ Addressed /\ (NeverLate => Alone) /\ Answerable
         /\ OwingTasks
<1>1. /\ MailTypes /\ TaskTypes /\ RunTypes /\ TimerTypes /\ RestTypes
      /\ Stages /\ EventsDistinct /\ SleepersKept /\ EventsDelivered
      /\ Addressed /\ (NeverLate => Alone) /\ Answerable
  BY TypesAre DEF IInv
<1>2. ASSUME NEW x \in Cell, NEW t \in TaskClaims(Owing(x)) PROVE t \in TaskClaims(tasks[x])
  <2>1. Owing(x) \subseteq tasks[x]
    <3>1. phase[x] \in {"idle", "run", "deliver", "exit", "last", "dead"}
      BY <1>1 DEF RunTypes
    <3>2. todo[x] \subseteq tasks[x]
      BY <1>1 DEF TaskTypes
    <3> QED BY <1>1, <3>1, <3>2, OwingIs
  <2> QED BY <1>2, <2>1 DEF TaskClaims
<1> QED BY <1>1, <1>2 DEF OwingTasks

\* The invariant of the next state from its parts.
LEMMA Whole ==
  ASSUME MailTypes', TaskTypes', RunTypes', TimerTypes', RestTypes',
         Stages', EventsDistinct', SleepersKept', EventsDelivered',
         Addressed', NeverLate' => Alone', Answerable'
  PROVE  IInv'
<1>1. TypeOK'
  BY TypesAre
<1> QED BY <1>1 DEF IInv

\* What is to be answered when a task is gone.
LEMMA ClaimsWithout ==
  ASSUME NEW S, NEW k \in S, NEW R, R = S \ {k}
  PROVE  /\ SourceClaims(k) \subseteq TaskClaims(S) /\ TaskClaims(R) \subseteq TaskClaims(S)
         /\ \A t \in TaskClaims(S) : t \in TaskClaims(R) \/ t \in SourceClaims(k)
         /\ TasksDistinct(S) => /\ TasksDistinct(R)
                                /\ SourceClaims(k) \intersect TaskClaims(R) = {}
<1>1. TaskClaims(R \union {k}) = TaskClaims(R) \union SourceClaims(k) /\ R \union {k} = S
  BY TaskClaimsOf
<1>2. /\ TaskClaims(R) \subseteq TaskClaims(S)
      /\ TasksDistinct(S) => TasksDistinct(R) /\ SourceClaims(k) \intersect TaskClaims(R) = {}
  BY TaskClaimsOf
<1> QED BY <1>1, <1>2

\* What is to be answered when there is one task more.
LEMMA ClaimsWith ==
  ASSUME NEW S, NEW k, NEW R, R = S \union {k}
  PROVE  /\ TaskClaims(R) = TaskClaims(S) \union SourceClaims(k)
         /\ TasksDistinct(S) /\ SourceClaims(k) \intersect TaskClaims(S) = {} => TasksDistinct(R)
<1>1. /\ TaskClaims(S \union {k}) = TaskClaims(S) \union SourceClaims(k)
      /\ TasksDistinct(S) /\ SourceClaims(k) \intersect TaskClaims(S) = {}
           => TasksDistinct(S \union {k})
  BY TaskClaimsOf
<1> QED BY <1>1

\* The timer and the sessions are left alone.
LEMMA TimerSame ==
  ASSUME TaskTypes, TimerTypes, UNCHANGED <<session, timer>>
  PROVE  TimerTypes'
BY DEF TimerTypes

\* What is left to be answered of a claim when a cell has taken a message.
LEMMA ReceivedClaims ==
  ASSUME MailTypes, NEW c \in Cell, NEW port, Receives(c, port), NEW y \in Cell
  PROVE  /\ MailClaims(y, mailbox'[y]) \subseteq MailClaims(y, mailbox[y])
         /\ \A t \in MailClaims(y, mailbox[y]) :
              t \in MailClaims(y, mailbox'[y]) \/ (y = c /\ t \in MessageClaims(c, Head(mailbox[c])))
         /\ MailDistinct(y, mailbox[y]) => MailDistinct(y, mailbox'[y])
         /\ \A m \in ToSet(mailbox[y]) :
              m \in ToSet(mailbox'[y]) \/ (y = c /\ m = Head(mailbox[c]))
BY ReceiveEffect

-----------------------------------------------------------------------------
(* The dispatcher                                                          *)

\* A response resumes its coroutine.
LEMMA DispatchResponseStep ==
  ASSUME IInv, NEW c \in Cell, DispatchResponse(c)
  PROVE  IInv'
<1> DEFINE m == Head(mailbox[c])
           s == m.session
<1>1. /\ MailTypes /\ TaskTypes /\ RunTypes /\ TimerTypes /\ RestTypes
      /\ Stages /\ EventsDistinct /\ SleepersKept /\ EventsDelivered
      /\ Addressed /\ (NeverLate => Alone) /\ Answerable /\ OwingTasks
  BY Parts
<1>2. Receives(c, "response") /\ UNCHANGED <<program, status, session, event_q, todo, timer, faults, unsent>>
  BY DEF DispatchResponse
<1>3. PICK k \in tasks[c] : /\ k.event = s
                            /\ Run(c, Co(k.source, k.session, "dispatch", "code", Nil))
                            /\ tasks' = [tasks EXCEPT ![c] = @ \ {k}]
  BY DEF DispatchResponse, Resume
<1> DEFINE r == Co(k.source, k.session, "dispatch", "code", Nil)
<1>4. /\ MailTypes' /\ phase[c] = "idle" /\ mailbox[c] # <<>> /\ m \in Mail /\ m.port = "response"
      /\ MailClaims(c, mailbox[c]) = MessageClaims(c, m) \union MailClaims(c, mailbox'[c])
      /\ MailDistinct(c, mailbox[c]) => MessageClaims(c, m) \intersect MailClaims(c, mailbox'[c]) = {}
      /\ \A x \in Cell : x # c => mailbox'[x] = mailbox[x]
  BY <1>1, <1>2, ReceiveEffect
<1>5. ASSUME NEW y \in Cell
      PROVE  /\ MailClaims(y, mailbox'[y]) \subseteq MailClaims(y, mailbox[y])
             /\ \A t \in MailClaims(y, mailbox[y]) :
                  t \in MailClaims(y, mailbox'[y]) \/ (y = c /\ t \in MessageClaims(c, m))
             /\ MailDistinct(y, mailbox[y]) => MailDistinct(y, mailbox'[y])
             /\ \A n \in ToSet(mailbox[y]) : n \in ToSet(mailbox'[y]) \/ (y = c /\ n = m)
  BY <1>1, <1>2, ReceivedClaims
<1>6. k \in Waiting /\ r \in Coroutines /\ SourceClaims(r) = SourceClaims(k) /\ r.origin = "dispatch"
  <2>1. k \in Waiting
    BY <1>1 DEF TaskTypes
  <2> QED BY <2>1 DEF Waiting, Co, Coroutines, Durable, Cmds, Args, Sources, SourceClaims
<1>7. MessageClaims(c, m) = {<<c, s>>}
  BY <1>4 DEF MessageClaims
<1> HIDE DEF m, s, r
<1>8. /\ RunTypes' /\ co'[c] = r /\ phase'[c] = "run"
      /\ \A x \in Cell : x # c => co'[x] = co[x] /\ phase'[x] = phase[x]
  BY <1>1, <1>3, <1>6, RunEffect DEF r
<1>9. co[c] = NoCo
  BY <1>1, <1>4 DEF RunTypes
<1>10. todo[c] = {} /\ status[c] # "unborn"
  BY <1>1, <1>4 DEF Stages
<1>11. /\ TaskTypes' /\ tasks'[c] = tasks[c] \ {k}
       /\ \A x \in Cell : x # c => tasks'[x] = tasks[x]
  <2>1. event_q' \in [Cell -> Seq(Nat)] /\ \A x \in Cell : ToSet(event_q'[x]) \subseteq ToSet(event_q[x])
    BY <1>1, <1>2 DEF TaskTypes
  <2> QED BY <1>1, <1>2, <1>3, <1>10, <2>1, TaskGone
<1>12. k.why = "answer"
  <2>1. Proper(<<c, s>>)
    BY <1>1, <1>4, <1>7, ProperClaims
  <2> QED BY <1>3, <2>1 DEF Proper
<1>13. /\ Owing(c) = tasks[c] /\ Owing(c)' = tasks'[c]
       /\ \A x \in Cell : x # c => Owing(x)' = Owing(x)
  BY <1>1, <1>2, <1>4, <1>6, <1>8, <1>11, OwingIs
<1>14. TimerTypes' /\ RestTypes'
  BY <1>1, <1>2, TimerSame DEF RestTypes
<1>15. Stages'
  <2>1. ~Ending(c)'
    BY <1>6, <1>8 DEF Ending
  <2> QED BY <1>1, <1>2, <1>4, <1>6, <1>8, <1>10, <1>11, <2>1, StagesStep
<1>16. EventsDistinct'
  <2>1. /\ \A i, j \in tasks'[c] : i.event = j.event => i = j
        /\ \A j \in tasks'[c] : j.event \in ToSet(event_q'[c]) => j.why = "wakeup"
        /\ c = system => IsInjective(event_q'[c])
    BY <1>1, <1>2, <1>11 DEF EventsDistinct
  <2> QED BY <1>1, <1>2, <1>11, <2>1, TicksSame, EventsStep
<1>17. SleepersKept'
  <2>1. \A j : j.why = "wakeup" => (j \in tasks'[system] <=> j \in tasks[system])
    BY <1>11, <1>12, CodeAssumption
  <2> QED BY <1>1, <1>2, <2>1, SleepersSame
<1>18. EventsDelivered'
  BY <1>1, <1>2, <1>8, DeliveredStep
<1>19. SourceClaims(k) \subseteq TaskClaims(tasks[c]) /\ TaskClaims(tasks'[c]) \subseteq TaskClaims(tasks[c])
       /\ \A t \in TaskClaims(tasks[c]) : t \in TaskClaims(tasks'[c]) \/ t \in SourceClaims(k)
  BY <1>11, ClaimsWithout
<1>20. Addressed'
  <2>1. /\ session' \in [Cell -> Nat] /\ \A x \in Cell : session[x] <= session'[x]
    <3>1. session' = session /\ session \in [Cell -> Nat]
      BY <1>1, <1>2 DEF TaskTypes
    <3>2. ASSUME NEW x \in Cell PROVE session[x] <= session'[x]
      BY <3>1
    <3> QED BY <3>1, <3>2
  <2>2. \A x \in Cell : \A t \in SourceClaims(co'[x]) : t \in SourceClaims(co[x]) \/ Proper(t)
    BY <1>1, <1>6, <1>8, <1>19, ProperClaims
  <2>3. \A x \in Cell : \A t \in TaskClaims(tasks'[x]) : t \in TaskClaims(tasks[x])
    BY <1>11, <1>19
  <2>4. \A x \in Cell : \A j \in tasks'[x] : j \in tasks[x]
    BY <1>11
  <2> QED BY <1>1, <1>5, <2>1, <2>2, <2>3, <2>4, AddressedStep
<1>21. ASSUME NeverLate' PROVE Alone'
  <2>1. Alone
    BY <1>1, <1>2, <1>21, NeverLateBefore
  <2>2. /\ OnePlace(Held)
        /\ \A x \in Cell : MailDistinct(x, mailbox[x]) /\ TasksDistinct(Owing(x))
    BY <2>1, AloneIs
  <2> DEFINE U == SourceClaims(k)
             N == {}
  <2>3. TasksDistinct(tasks[c]) /\ TasksDistinct(tasks'[c])
        /\ U \intersect TaskClaims(tasks'[c]) = {}
    <3>1. TasksDistinct(tasks[c])
      BY <1>13, <2>2
    <3> QED BY <1>11, <3>1, ClaimsWithout
  <2>4. AllDistinct'
    BY <1>5, <1>13, <2>2, <2>3 DEF AllDistinct
  <2>5. "mail" \in Kinds /\ "task" \in Kinds /\ "co" \in Kinds
    BY DEF Kinds
  <2>6. Comes(N)
    BY DEF Comes
  <2>7. Leaves(U, "task", c)
    BY <1>13, <1>19, <2>3, HeldIs DEF Leaves
  <2>8. ASSUME NEW i \in Kinds, NEW x \in Cell, NEW t \in Held'[i][x]
        PROVE  t \in Held[i][x] \/ (t \in U /\ i = "co" /\ x = c)
    <3>1. CASE i = "mail"
      BY <1>5, <2>8, <3>1, HeldIs
    <3>2. CASE i = "co"
      BY <1>6, <1>8, <2>8, <3>2, HeldIs
    <3>3. CASE i = "task"
      BY <1>13, <1>19, <2>8, <3>3, HeldIs
    <3> QED BY <3>1, <3>2, <3>3 DEF Kinds
  <2>9. Moves(N, "mail", c, U, "co", c)
    BY <2>8 DEF Moves
  <2>10. ASSUME NEW i \in Kinds, NEW x \in Cell, <<c, s>> \in Held'[i][x] PROVE FALSE
    <3>1. <<c, s>> \in Held["mail"][c]
      BY <1>4, <1>7, HeldIs
    <3>2. CASE <<c, s>> \in Held[i][x]
      <4>1. i = "mail" /\ x = c
        BY <2>2, <2>5, <3>1, <3>2 DEF OnePlace
      <4>2. <<c, s>> \in MailClaims(c, mailbox'[c])
        BY <2>10, <4>1, HeldIs
      <4> QED BY <1>4, <1>7, <2>2, <4>2
    <3>3. CASE <<c, s>> \in U
      <4>1. <<c, s>> \in Held["task"][c]
        BY <1>13, <1>19, <3>3, HeldIs
      <4> QED BY <2>2, <2>5, <3>1, <4>1 DEF OnePlace
    <3> QED BY <2>8, <2>10, <3>2, <3>3
  <2>11. Answered
    BY <1>3, <1>11, <2>10 DEF Answered
  <2> HIDE DEF U, N
  <2> QED BY <1>1, <2>1, <2>4, <2>5, <2>6, <2>7, <2>9, <2>11, AloneStep
<1>22. Answerable'
  <2>1. ASSUME NEW x \in Cell, NEW h \in tasks'[x], h.to \in Cell, Pending(x, h)
        PROVE  Pending(x, h)'
    <3> DEFINE t == <<x, h.event>>
               y == h.to
    <3>1. h \in tasks[x] /\ (x = c => h # k)
      BY <1>11, <2>1
    <3>2. t # <<c, s>>
      BY <1>1, <1>3, <3>1 DEF EventsDistinct
    <3>3. CASE t \in MailClaims(y, mailbox[y])
      <4>1. t \in MailClaims(y, mailbox'[y])
        BY <1>5, <1>7, <2>1, <3>2, <3>3
      <4> QED BY <2>1, <4>1, PendingIs
    <3>4. CASE t \in SourceClaims(co[y]) /\ co[y].origin # "last"
      <4>1. y # c
        BY <1>9, <3>4, NothingRuns
      <4> QED BY <1>8, <2>1, <3>4, <4>1, PendingIs
    <3>5. CASE t \in TaskClaims(Owing(y))
      <4>1. \/ t \in TaskClaims(Owing(y)')
            \/ t \in SourceClaims(co'[y]) /\ co'[y].origin # "last"
        BY <1>6, <1>8, <1>13, <1>19, <2>1, <3>5
      <4> QED BY <2>1, <4>1, PendingIs
    <3>6. CASE Response(h.event) \in ToSet(mailbox[x])
      <4>1. Response(h.event) # m \/ x # c
        BY <3>2 DEF Response, Msg, s
      <4>2. Response(h.event) \in ToSet(mailbox'[x])
        BY <1>5, <3>6, <4>1
      <4> QED BY <2>1, <4>2, PendingIs
    <3> QED BY <2>1, <3>3, <3>4, <3>5, <3>6, PendingIs
  <2> QED BY <1>1, <1>2, <1>11, <2>1, AnswerableStep
<1> QED BY <1>4, <1>8, <1>11, <1>14, <1>15, <1>16, <1>17, <1>18, <1>20, <1>21, <1>22, Whole

-----------------------------------------------------------------------------
(* Steps in which no claim is made, moved or lost                          *)

\* No session is given out.
LEMMA SessionsSame ==
  ASSUME TaskTypes, UNCHANGED session
  PROVE  session' \in [Cell -> Nat] /\ \A x \in Cell : session[x] <= session'[x]
<1>1. session' = session /\ session \in [Cell -> Nat]
  BY DEF TaskTypes
<1>2. ASSUME NEW x \in Cell PROVE session[x] <= session'[x]
  BY <1>1
<1> QED BY <1>1, <1>2

\* The tasks and the sessions are left alone.
LEMMA TasksSame ==
  ASSUME TaskTypes, UNCHANGED <<session, tasks>>,
         event_q' \in [Cell -> Seq(Nat)],
         \A x \in Cell : ToSet(event_q'[x]) \subseteq 1 .. session[x],
         todo' \in [Cell -> SUBSET Waiting], \A x \in Cell : todo'[x] \subseteq tasks[x]
  PROVE  TaskTypes'
BY DEF TaskTypes

\* What the queues carry, what the coroutines answer and what the cells owe.
SameMail ==
  \A x \in Cell :
    /\ MailClaims(x, mailbox'[x]) = MailClaims(x, mailbox[x])
    /\ MailDistinct(x, mailbox[x]) => MailDistinct(x, mailbox'[x])
    /\ \A e : Response(e) \in ToSet(mailbox[x]) => Response(e) \in ToSet(mailbox'[x])
SameCo ==
  \A x \in Cell :
    /\ SourceClaims(co'[x]) = SourceClaims(co[x])
    /\ SourceClaims(co[x]) # {} /\ co[x].origin # "last" => co'[x].origin # "last"
SameOwing ==
  \A x \in Cell : /\ TaskClaims(Owing(x)') = TaskClaims(Owing(x))
                  /\ TasksDistinct(Owing(x)) => TasksDistinct(Owing(x)')

\* No claim is made, moved or lost.
LEMMA QuietStep ==
  ASSUME IInv, UNCHANGED tasks, unsent \subseteq unsent', SameMail, SameCo, SameOwing,
         session' \in [Cell -> Nat], \A x \in Cell : session[x] <= session'[x],
         \A x \in Cell : faults[x] \subseteq faults'[x],
         \A x \in Cell : status'[x] = "open" => status[x] = "open"
  PROVE  Addressed' /\ (NeverLate' => Alone') /\ Answerable'
<1>1. TaskTypes /\ Addressed /\ (NeverLate => Alone) /\ Answerable /\ OwingTasks
  BY Parts
<1>2. Addressed'
  <2>1. \A x \in Cell : \A t \in MailClaims(x, mailbox'[x]) : t \in MailClaims(x, mailbox[x])
    BY DEF SameMail
  <2>2. \A x \in Cell : \A t \in SourceClaims(co'[x]) : t \in SourceClaims(co[x])
    BY DEF SameCo
  <2> QED BY <1>1, <2>1, <2>2, AddressedStep
<1>3. ASSUME NeverLate' PROVE Alone'
  <2>1. Alone
    BY <1>1, <1>3, NeverLateBefore
  <2>2. \A x \in Cell : MailDistinct(x, mailbox[x]) /\ TasksDistinct(Owing(x))
    BY <2>1, AloneIs
  <2>3. AllDistinct'
    BY <2>2 DEF AllDistinct, SameMail, SameOwing
  <2> QED BY <1>1, <2>1, <2>3, AloneSame DEF SameMail, SameCo, SameOwing
<1>4. Answerable'
  <2>1. ASSUME NEW x \in Cell, NEW k \in tasks[x], k.to \in Cell, Pending(x, k)
        PROVE  Pending(x, k)'
    <3>1. CASE <<x, k.event>> \in MailClaims(k.to, mailbox[k.to])
      BY <2>1, <3>1, PendingIs DEF SameMail
    <3>2. CASE <<x, k.event>> \in SourceClaims(co[k.to]) /\ co[k.to].origin # "last"
      BY <2>1, <3>2, PendingIs DEF SameCo
    <3>3. CASE <<x, k.event>> \in TaskClaims(Owing(k.to))
      BY <2>1, <3>3, PendingIs DEF SameOwing
    <3>4. CASE Response(k.event) \in ToSet(mailbox[x])
      BY <2>1, <3>4, PendingIs DEF SameMail
    <3> QED BY <2>1, <3>1, <3>2, <3>3, <3>4, PendingIs
  <2> QED BY <1>1, <2>1, AnswerableStep
<1> QED BY <1>2, <1>3, <1>4

\* The queues are left alone.
LEMMA MailSame ==
  ASSUME UNCHANGED mailbox
  PROVE  SameMail
BY DEF SameMail

\* The coroutines are left alone.
LEMMA CoSame ==
  ASSUME UNCHANGED co
  PROVE  SameCo
BY DEF SameCo

\* A message that carries no claim is taken, or sent.
LEMMA ReceivedNothing ==
  ASSUME MailTypes, NEW c \in Cell, NEW port, Receives(c, port), port # "response",
         MessageClaims(c, Head(mailbox[c])) = {}
  PROVE  SameMail
<1>1. Head(mailbox[c]).port # "response"
  BY DEF Receives
<1>2. ASSUME NEW x \in Cell, NEW e, Response(e) \in ToSet(mailbox[x])
      PROVE  Response(e) \in ToSet(mailbox'[x])
  <2>1. Response(e) # Head(mailbox[c])
    BY <1>1 DEF Response, Msg
  <2> QED BY <1>2, <2>1, ReceivedClaims
<1>3. ASSUME NEW x \in Cell
      PROVE  /\ MailClaims(x, mailbox'[x]) = MailClaims(x, mailbox[x])
             /\ MailDistinct(x, mailbox[x]) => MailDistinct(x, mailbox'[x])
  <2>1. /\ MailClaims(x, mailbox'[x]) \subseteq MailClaims(x, mailbox[x])
        /\ \A t \in MailClaims(x, mailbox[x]) :
             t \in MailClaims(x, mailbox'[x]) \/ (x = c /\ t \in MessageClaims(c, Head(mailbox[c])))
        /\ MailDistinct(x, mailbox[x]) => MailDistinct(x, mailbox'[x])
    BY ReceivedClaims
  <2> QED BY <2>1
<1> QED BY <1>2, <1>3 DEF SameMail

\* A message without a claim is sent.
LEMMA PostedNothing ==
  ASSUME MailTypes, NEW y \in Cell, NEW m \in Mail, Post(y, m), MessageClaims(y, m) = {}
  PROVE  SameMail
<1>1. ASSUME NEW x \in Cell
      PROVE  /\ MailClaims(x, mailbox'[x]) = MailClaims(x, mailbox[x])
             /\ MailDistinct(x, mailbox[x]) => MailDistinct(x, mailbox'[x])
             /\ ToSet(mailbox[x]) \subseteq ToSet(mailbox'[x])
  <2>1. CASE x = y
    <3>1. /\ ToSet(mailbox'[y]) = ToSet(mailbox[y]) \union {m}
          /\ MailClaims(y, mailbox'[y]) = MailClaims(y, mailbox[y]) \union MessageClaims(y, m)
          /\ /\ MailDistinct(y, mailbox[y])
             /\ MessageClaims(y, m) \intersect MailClaims(y, mailbox[y]) = {}
             => MailDistinct(y, mailbox'[y])
      BY PostEffect
    <3> QED BY <2>1, <3>1
  <2>2. CASE x # y
    BY <2>2, PostEffect
  <2> QED BY <2>1, <2>2
<1> QED BY <1>1 DEF SameMail

-----------------------------------------------------------------------------
(* Steps that give out a session to a new task                             *)

\* At most one message is sent, to y, with the claims T; it may be the first to y.
Sent(y, T) ==
  /\ MailTypes'
  /\ \A x \in Cell : x # y => mailbox'[x] = mailbox[x]
  /\ MailClaims(y, mailbox'[y]) = MailClaims(y, mailbox[y]) \union T
  /\ ToSet(mailbox[y]) \subseteq ToSet(mailbox'[y])
  /\ MailDistinct(y, mailbox[y]) /\ T \intersect MailClaims(y, mailbox[y]) = {}
       => MailDistinct(y, mailbox'[y])
  /\ mailbox'[y] = mailbox[y] \/ status'[y] = "open"
OpenedAtMost(y) ==
  \A x \in Cell : status'[x] = status[x]
                  \/ (x = y /\ status[y] = "unborn" /\ status'[y] = "open")

\* The coroutine goes on, and the task answers nobody, or yields, and the task
\* answers whom the coroutine was to answer.
Yields(c, k) ==
  \/ UNCHANGED <<phase, co>> /\ SourceClaims(k) = {}
  \/ Suspended(c) /\ SourceClaims(k) = SourceClaims(co[c])

\* Nothing is sent.
LEMMA SentNothing ==
  ASSUME MailTypes, UNCHANGED mailbox, NEW y \in Cell
  PROVE  Sent(y, {})
<1>1. MailTypes'
  BY DEF MailTypes
<1> QED BY <1>1 DEF Sent

\* A message is sent to an open cell.
LEMMA SentOne ==
  ASSUME MailTypes, NEW y \in Cell, NEW m \in Mail, Post(y, m), status'[y] = "open"
  PROVE  Sent(y, MessageClaims(y, m))
<1>1. /\ MailTypes'
      /\ \A x \in Cell : x # y => mailbox'[x] = mailbox[x]
      /\ ToSet(mailbox'[y]) = ToSet(mailbox[y]) \union {m}
      /\ MailClaims(y, mailbox'[y]) = MailClaims(y, mailbox[y]) \union MessageClaims(y, m)
      /\ /\ MailDistinct(y, mailbox[y])
         /\ MessageClaims(y, m) \intersect MailClaims(y, mailbox[y]) = {}
         => MailDistinct(y, mailbox'[y])
  BY PostEffect
<1> QED BY <1>1 DEF Sent

\* What is left of a coroutine that yields, or goes on beside the new task.
LEMMA YieldsEffect ==
  ASSUME RunTypes, NEW c \in Cell, phase[c] = "run", NEW k, Yields(c, k)
  PROVE  /\ RunTypes' /\ phase'[c] \notin {"idle", "exit", "dead"}
         /\ \A x \in Cell : x # c => co'[x] = co[x] /\ phase'[x] = phase[x]
         /\ SourceClaims(k) \subseteq SourceClaims(co[c])
         /\ \/ SourceClaims(co'[c]) = {} /\ SourceClaims(co[c]) = SourceClaims(k)
            \/ co'[c] = co[c] /\ SourceClaims(k) = {}
         /\ phase'[c] = "last" => co[c].origin = "last"
         /\ co'[c] = NoCo \/ (co'[c] = co[c] /\ phase'[c] = "run")
         /\ Owing(c) = IF co[c].origin = "last" THEN {} ELSE tasks[c]
         /\ Owing(c)' = IF co[c].origin = "last" THEN {} ELSE tasks'[c]
<1>1. Owing(c) = IF co[c].origin = "last" THEN {} ELSE tasks[c]
  BY OwingIs
<1>2. CASE UNCHANGED <<phase, co>> /\ SourceClaims(k) = {}
  <2>1. RunTypes'
    BY <1>2 DEF RunTypes
  <2>2. Owing(c)' = IF co[c].origin = "last" THEN {} ELSE tasks'[c]
    BY <1>2, <2>1, OwingIs
  <2> QED BY <1>1, <1>2, <2>1, <2>2
<1>3. CASE Suspended(c) /\ SourceClaims(k) = SourceClaims(co[c])
  <2>1. /\ RunTypes' /\ co'[c] = NoCo
        /\ phase'[c] = IF co[c].origin = "last" THEN "last" ELSE "deliver"
        /\ \A x \in Cell : x # c => co'[x] = co[x] /\ phase'[x] = phase[x]
    BY <1>3, SuspendedEffect
  <2>2. Owing(c)' = IF co[c].origin = "last" THEN {} ELSE tasks'[c]
    BY <2>1, OwingIs
  <2> QED BY <1>1, <1>3, <2>1, <2>2, NothingRuns
<1> QED BY <1>2, <1>3 DEF Yields

\* A new task leaves the stages of the cells as they are.
LEMMA TaskStages ==
  ASSUME Stages, RunTypes, RestTypes, NEW c \in Cell, phase[c] = "run", NEW k, Yields(c, k),
         NEW y \in Cell, NEW T, Sent(y, T), OpenedAtMost(y),
         UNCHANGED <<todo, faults, unsent>>, \A x \in Cell : x # c => tasks'[x] = tasks[x]
  PROVE  Stages'
<1>1. /\ phase'[c] \notin {"idle", "exit", "dead"}
      /\ \A x \in Cell : x # c => co'[x] = co[x] /\ phase'[x] = phase[x]
      /\ phase'[c] = "last" => co[c].origin = "last"
      /\ co'[c] = NoCo \/ (co'[c] = co[c] /\ phase'[c] = "run")
  BY YieldsEffect
<1>2. status[c] # "unborn" /\ status'[c] = status[c] /\ todo'[c] = {}
  BY DEF Stages, OpenedAtMost
<1>3. ASSUME NEW x \in Cell
      PROVE  mailbox'[x] = mailbox[x] \/ status'[x] = "open"
  BY DEF Sent
<1>4. Ending(c)' => Ending(c)
  BY <1>1, NothingRuns DEF Ending
<1>5. ASSUME NEW x \in Cell
      PROVE  /\ Ending(x)' => status'[x] \in {"closed", "dead"} /\ mailbox'[x] = <<>>
             /\ status'[x] = "unborn" => phase'[x] = "idle" /\ mailbox'[x] = <<>> /\ tasks'[x] = {}
             /\ phase'[x] # "exit" => todo'[x] = {}
             /\ co'[x].origin = "last" => "late" \in faults'[x]
  <2>1. CASE x = c
    <3>1. co'[c].origin = "last" => "late" \in faults'[c]
      BY <1>1, NothingRuns DEF Stages
    <3>2. Ending(c)' => status'[c] \in {"closed", "dead"} /\ mailbox'[c] = <<>>
      BY <1>2, <1>3, <1>4 DEF Stages
    <3> QED BY <1>2, <2>1, <3>1, <3>2
  <2>2. CASE x # c
    <3>1. /\ co'[x] = co[x] /\ phase'[x] = phase[x] /\ todo'[x] = todo[x] /\ faults'[x] = faults[x]
          /\ tasks'[x] = tasks[x]
      BY <1>1, <2>2
    <3>2. Ending(x)' => Ending(x)
      BY <3>1 DEF Ending
    <3>3. CASE status'[x] = status[x]
      BY <1>3, <3>1, <3>2, <3>3 DEF Stages
    <3>4. CASE status[x] = "unborn" /\ status'[x] = "open"
      <4>1. ~Ending(x)
        BY <3>4 DEF Stages
      <4> QED BY <3>1, <3>2, <3>4, <4>1 DEF Stages
    <3> QED BY <3>3, <3>4 DEF OpenedAtMost
  <2> QED BY <2>1, <2>2
<1> QED BY <1>5 DEF Stages

\* A new task with a session of its own, and the request for its answer if it has one.
LEMMA TaskStep ==
  ASSUME IInv, NEW c \in Cell, phase[c] = "run",
         NEW k \in Waiting, k.event = session[c] + 1, Yields(c, k),
         session' = [session EXCEPT ![c] = @ + 1],
         tasks' = [tasks EXCEPT ![c] = @ \union {k}], UNCHANGED <<todo, faults, unsent>>,
         \/ UNCHANGED event_q
         \/ /\ event_q' = [event_q EXCEPT ![c] = Append(@, session[c] + 1)]
            /\ k.why = "wakeup" /\ c # system,
         NEW y \in Cell, NEW T, Sent(y, T), OpenedAtMost(y),
         T = IF k.why = "answer" THEN {<<c, session[c] + 1>>} ELSE {},
         k.why = "answer" => k.to = y
  PROVE  /\ MailTypes' /\ TaskTypes' /\ RunTypes'
         /\ Stages' /\ (TicksDistinct' => EventsDistinct') /\ EventsDelivered'
         /\ Addressed' /\ (NeverLate' => Alone') /\ Answerable'
         /\ tasks'[c] = tasks[c] \union {k} /\ session'[c] = session[c] + 1
         /\ \A x \in Cell : x # c => tasks'[x] = tasks[x]
<1> DEFINE s == session[c] + 1
           U == SourceClaims(k)
<1>1. /\ MailTypes /\ TaskTypes /\ RunTypes /\ TimerTypes /\ RestTypes
      /\ Stages /\ EventsDistinct /\ SleepersKept /\ EventsDelivered
      /\ Addressed /\ (NeverLate => Alone) /\ Answerable /\ OwingTasks
  BY Parts
<1>2. /\ TaskTypes' /\ k \notin tasks[c]
      /\ tasks'[c] = tasks[c] \union {k} /\ session'[c] = s
      /\ \A x \in Cell : x # c => tasks'[x] = tasks[x] /\ session'[x] = session[x]
  BY <1>1, NewTask
<1>3. /\ RunTypes' /\ phase'[c] \notin {"idle", "exit", "dead"}
      /\ \A x \in Cell : x # c => co'[x] = co[x] /\ phase'[x] = phase[x]
      /\ U \subseteq SourceClaims(co[c])
      /\ \/ SourceClaims(co'[c]) = {} /\ SourceClaims(co[c]) = U
         \/ co'[c] = co[c] /\ U = {}
      /\ Owing(c) = IF co[c].origin = "last" THEN {} ELSE tasks[c]
      /\ Owing(c)' = IF co[c].origin = "last" THEN {} ELSE tasks'[c]
  BY <1>1, YieldsEffect
<1>4. Stages'
  BY <1>1, <1>2, TaskStages
<1>5. /\ MailTypes'
      /\ \A x \in Cell : x # y => mailbox'[x] = mailbox[x]
      /\ MailClaims(y, mailbox'[y]) = MailClaims(y, mailbox[y]) \union T
      /\ \A x \in Cell : ToSet(mailbox[x]) \subseteq ToSet(mailbox'[x])
      /\ MailDistinct(y, mailbox[y]) /\ T \intersect MailClaims(y, mailbox[y]) = {}
           => MailDistinct(y, mailbox'[y])
  BY DEF Sent
<1>6. \A x \in Cell : x # c => Owing(x)' = Owing(x)
  BY <1>2, <1>3, OwingIs
<1>7. ASSUME NEW j \in tasks[c] PROVE j.event # s
  BY <1>1 DEF TaskTypes
<1> HIDE DEF s, U
<1>8. TaskClaims(tasks'[c]) = TaskClaims(tasks[c]) \union U
  BY <1>2, ClaimsWith DEF U
<1>9. EventsDelivered'
  <2>1. \A x \in Cell : x # c => event_q'[x] = event_q[x]
    BY <1>1 DEF TaskTypes
  <2> QED BY <1>1, <1>3, <2>1, DeliveredStep
<1>10. ASSUME TicksDistinct' PROVE EventsDistinct'
  <2>1. \A x \in Cell : x # c => event_q'[x] = event_q[x]
    BY <1>1 DEF TaskTypes
  <2>2. CASE UNCHANGED event_q
    BY <1>1, <1>2, <1>10, <2>1, <2>2, EventsOfNewTask
  <2>3. CASE event_q' = [event_q EXCEPT ![c] = Append(@, session[c] + 1)]
             /\ k.why = "wakeup" /\ c # system
    <3>1. event_q[c] \in Seq(Nat) /\ s \in Nat /\ event_q'[c] = Append(event_q[c], s)
      BY <1>1, <2>3 DEF TaskTypes, s
    <3>2. ToSet(Append(event_q[c], s)) = ToSet(event_q[c]) \union {s}
      BY <3>1, SetOfAppend, SMTT(20)
    <3>3. ToSet(event_q'[c]) = ToSet(event_q[c]) \union {session[c] + 1}
      BY <3>1, <3>2 DEF s
    <3>4. /\ ToSet(event_q'[c]) = ToSet(event_q[c]) \union {session[c] + 1}
          /\ k.why = "wakeup" /\ c # system
      BY <2>3, <3>3
    <3>5. \A x \in Cell : x # c => tasks'[x] = tasks[x] /\ event_q'[x] = event_q[x]
      BY <1>2, <2>1
    <3>6. TaskTypes /\ EventsDistinct /\ tasks'[c] = tasks[c] \union {k}
      BY <1>1, <1>2
    <3> QED BY <1>10, <3>4, <3>5, <3>6, EventsOfNewTask
  <2> QED BY <2>2, <2>3
<1>11. ASSUME NEW t \in T
       PROVE  /\ t = <<c, s>> /\ k.why = "answer" /\ Proper(t)'
              /\ t[2] \notin Awaiting(t[1]) /\ t[2] \in Awaiting(t[1])'
  <2>1. t = <<c, s>> /\ t[1] = c /\ t[2] = s /\ k.why = "answer"
    BY <1>11 DEF s
  <2>2. session[c] \in Nat /\ s \in 1 .. s
    BY <1>1 DEF TaskTypes, s
  <2>3. k.event = s
    BY DEF s
  <2>4. Proper(t)'
    BY <1>2, <1>7, <2>1, <2>2, <2>3 DEF Proper
  <2>5. s \notin Awaiting(c)
    BY <1>7, AwaitingIs
  <2>6. s \in Awaiting(c)'
    BY <1>2, <2>1, <2>3, AwaitingIs
  <2> QED BY <2>1, <2>4, <2>5, <2>6
<1>12. ASSUME NEW x \in Cell, NEW t \in MailClaims(x, mailbox'[x])
       PROVE  t \in MailClaims(x, mailbox[x]) \/ (t \in T /\ x = y)
  BY <1>5, <1>12
<1>13. ASSUME NEW x \in Cell, NEW t \in SourceClaims(co'[x]) PROVE t \in SourceClaims(co[x])
  BY <1>3, <1>13
<1>14. ASSUME NEW x \in Cell, NEW j \in tasks'[x]
       PROVE  j \in tasks[x] \/ (x = c /\ j = k)
  BY <1>2, <1>14
<1>15. Addressed'
  <2>1. session' \in [Cell -> Nat]
    BY <1>2 DEF TaskTypes
  <2>2. ASSUME NEW x \in Cell PROVE session[x] <= session'[x]
    <3>1. session[x] \in Nat /\ session'[x] \in {session[x], session[x] + 1}
      BY <1>1, <1>2 DEF TaskTypes, s
    <3> QED BY <3>1
  <2>3. ASSUME NEW x \in Cell, NEW j \in tasks'[x]
        PROVE  j \in tasks[x] \/ j.event \notin 1 .. session[x]
    <3>1. session[c] \in Nat /\ session[c] + 1 \notin 1 .. session[c]
      BY <1>1 DEF TaskTypes
    <3> QED BY <1>14, <2>3, <3>1
  <2>4. ASSUME NEW x \in Cell, NEW t \in TaskClaims(tasks'[x])
        PROVE  t \in TaskClaims(tasks[x]) \/ Proper(t)
    <3>1. CASE x = c
      BY <1>1, <1>3, <1>8, <2>4, <3>1, ProperClaims
    <3>2. CASE x # c
      BY <1>2, <2>4, <3>2
    <3> QED BY <3>1, <3>2
  <2>5. \A x \in Cell : \A t \in MailClaims(x, mailbox'[x]) :
          t \in MailClaims(x, mailbox[x]) \/ Proper(t) \/ Proper(t)'
    BY <1>11, <1>12
  <2> QED BY <1>1, <1>13, <2>1, <2>2, <2>3, <2>4, <2>5, AddressedStep
<1>16. ASSUME NeverLate' PROVE Alone'
  <2>1. Alone
    BY <1>1, <1>16, NeverLateBefore
  <2>2. /\ OnePlace(Held) /\ AwaitedIn(Held)
        /\ \A x \in Cell : MailDistinct(x, mailbox[x]) /\ TasksDistinct(Owing(x))
    BY <2>1, AloneIs
  <2>3. "mail" \in Kinds /\ "task" \in Kinds /\ "co" \in Kinds /\ "co" # "task"
    BY DEF Kinds
  <2>4. T \intersect MailClaims(y, mailbox[y]) = {}
    BY <1>11, <2>2, <2>3, HeldIs DEF AwaitedIn
  <2>5. ASSUME co[c].origin # "last" PROVE TasksDistinct(tasks'[c])
    <3>1. Owing(c) = tasks[c]
      BY <1>3, <2>5
    <3>2. U \intersect TaskClaims(tasks[c]) = {}
      BY <1>3, <2>2, <2>3, <3>1, HeldIs DEF OnePlace
    <3>3. TasksDistinct(tasks[c]) /\ tasks'[c] = tasks[c] \union {k}
      BY <1>2, <2>2, <3>1
    <3> QED BY <3>2, <3>3, ClaimsWith DEF U
  <2>6. AllDistinct'
    <3>1. TasksDistinct({})
      BY DEF TasksDistinct
    <3> QED BY <1>3, <1>5, <1>6, <2>2, <2>4, <2>5, <3>1 DEF AllDistinct
  <2>7. Comes(T)
    BY <1>11 DEF Comes
  <2>8. Leaves(U, "co", c)
    BY <1>3, HeldIs DEF Leaves
  <2>9. ASSUME NEW i \in Kinds, NEW x \in Cell, NEW t \in Held'[i][x]
        PROVE  \/ t \in Held[i][x]
               \/ t \in T /\ i = "mail" /\ x = y
               \/ t \in U /\ i = "task" /\ x = c
    <3>1. CASE i = "mail"
      BY <1>12, <2>9, <3>1, HeldIs
    <3>2. CASE i = "co"
      BY <1>13, <2>9, <3>2, HeldIs
    <3>3. CASE i = "task"
      <4>1. t \in TaskClaims(Owing(x)')
        BY <2>9, <3>3, HeldIs
      <4>2. t \in TaskClaims(Owing(x)) \/ (t \in U /\ x = c)
        <5>1. CASE x = c
          BY <1>3, <1>8, <4>1, <5>1 DEF TaskClaims
        <5>2. CASE x # c
          BY <1>6, <4>1, <5>2
        <5> QED BY <5>1, <5>2
      <4> QED BY <3>3, <4>2, HeldIs
    <3> QED BY <3>1, <3>2, <3>3 DEF Kinds
  <2>10. Moves(T, "mail", y, U, "task", c)
    BY <2>9 DEF Moves
  <2>11. Answered
    <3>1. \A x \in Cell : tasks[x] \subseteq tasks'[x]
      BY <1>2
    <3> QED BY <3>1 DEF Answered
  <2> QED BY <1>1, <2>1, <2>3, <2>6, <2>7, <2>8, <2>10, <2>11, AloneStep
<1>17. Answerable'
  <2>1. ASSUME NEW x \in Cell, status'[x] = "open"
        PROVE  status[x] = "open" \/ tasks'[x] = {}
    <3>1. CASE status[x] = "unborn"
      <4>1. x # c /\ tasks[x] = {}
        BY <1>1, <3>1 DEF Stages
      <4> QED BY <1>2, <4>1
    <3> QED BY <2>1, <3>1 DEF OpenedAtMost
  <2>2. ASSUME NEW x \in Cell, NEW j \in tasks'[x], j.why = "answer", j \notin tasks[x]
        PROVE  j.to \in Cell /\ Pending(x, j)'
    <3>1. x = c /\ j = k /\ j.to = y /\ T = {<<c, k.event>>}
      BY <1>14, <2>2
    <3> QED BY <1>5, <3>1, PendingIs
  <2>3. ASSUME NEW x \in Cell, NEW t \in MailClaims(x, mailbox[x])
        PROVE  t \in MailClaims(x, mailbox'[x])
    BY <1>5, <2>3
  <2>4. ASSUME NEW x \in Cell, NEW t \in SourceClaims(co[x]), co[x].origin # "last"
        PROVE  \/ t \in SourceClaims(co'[x]) /\ co'[x].origin # "last"
               \/ t \in TaskClaims(Owing(x)')
    BY <1>3, <1>8, <2>4
  <2>5. ASSUME NEW x \in Cell, NEW t \in TaskClaims(Owing(x))
        PROVE  t \in TaskClaims(Owing(x)')
    BY <1>3, <1>6, <1>8, <2>5
  <2> QED BY <1>1, <1>5, <2>1, <2>2, <2>3, <2>4, <2>5, AnswerableSame
<1> QED BY <1>2, <1>3, <1>4, <1>5, <1>9, <1>10, <1>15, <1>16, <1>17 DEF s

\* The timer is left alone while sessions are given out.
LEMMA TimerLater ==
  ASSUME TaskTypes, TaskTypes', TimerTypes, UNCHANGED timer, session[system] <= session'[system]
  PROVE  TimerTypes'
<1>1. session[system] \in Nat /\ session'[system] \in Nat
  BY CodeAssumption DEF TaskTypes
<1>2. 1 .. session[system] \subseteq 1 .. session'[system]
  BY <1>1
<1> QED BY <1>2 DEF TimerTypes

\* The same, for a step that does not touch the timer.
LEMMA TaskStepWhole ==
  ASSUME IInv, NEW c \in Cell, phase[c] = "run",
         NEW k \in Waiting, k.event = session[c] + 1, Yields(c, k),
         session' = [session EXCEPT ![c] = @ + 1],
         tasks' = [tasks EXCEPT ![c] = @ \union {k}], UNCHANGED <<program, todo, faults, timer, unsent>>,
         \/ UNCHANGED event_q
         \/ /\ event_q' = [event_q EXCEPT ![c] = Append(@, session[c] + 1)]
            /\ k.why = "wakeup" /\ c # system,
         k.why = "wakeup" => c # system,
         NEW y \in Cell, NEW T, Sent(y, T), OpenedAtMost(y),
         status' \in [Cell -> {"unborn", "open", "closed", "dead"}],
         T = IF k.why = "answer" THEN {<<c, session[c] + 1>>} ELSE {},
         k.why = "answer" => k.to = y
  PROVE  IInv'
<1>1. /\ MailTypes' /\ TaskTypes' /\ RunTypes'
      /\ Stages' /\ (TicksDistinct' => EventsDistinct') /\ EventsDelivered'
      /\ Addressed' /\ (NeverLate' => Alone') /\ Answerable'
      /\ tasks'[c] = tasks[c] \union {k} /\ session'[c] = session[c] + 1
      /\ \A x \in Cell : x # c => tasks'[x] = tasks[x]
  BY TaskStep
<1>2. TaskTypes /\ TimerTypes /\ RestTypes /\ SleepersKept /\ TicksDistinct'
  BY Parts, TicksSame
<1>3. TimerTypes'
  <2>1. session[system] \in Nat /\ session'[system] \in {session[system], session[system] + 1}
    BY <1>2, CodeAssumption DEF TaskTypes
  <2>2. session[system] <= session'[system]
    BY <2>1
  <2> QED BY <1>1, <1>2, <2>2, TimerLater
<1>4. RestTypes'
  BY <1>2 DEF RestTypes
<1>5. SleepersKept'
  <2>1. \A j : j.why = "wakeup" => (j \in tasks'[system] <=> j \in tasks[system])
    BY <1>1, CodeAssumption
  <2>2. event_q'[system] = event_q[system]
    BY <1>2, CodeAssumption DEF TaskTypes
  <2> QED BY <1>2, <2>1, <2>2, SleepersSame
<1> QED BY <1>1, <1>2, <1>3, <1>4, <1>5, Whole

\* No cell is launched, killed or destroyed.
LEMMA StatusSame ==
  ASSUME IInv, UNCHANGED status, NEW y
  PROVE  OpenedAtMost(y) /\ status' \in [Cell -> {"unborn", "open", "closed", "dead"}]
<1>1. RestTypes
  BY Parts
<1> QED BY <1>1 DEF OpenedAtMost, RestTypes

\* The task of a coroutine that yields.
LEMMA YieldIs ==
  ASSUME IInv, NEW c \in Cell, NEW why \in {"answer", "wakeup", "end"}, NEW to \in Sources,
         NEW k, k = Task(session[c] + 1, co[c].source, co[c].session, why, to)
  PROVE  /\ k \in Waiting /\ k.event = session[c] + 1 /\ k.why = why /\ k.to = to
         /\ Yield(c, why, to) => /\ tasks' = [tasks EXCEPT ![c] = @ \union {k}]
                                 /\ Yields(c, k)
<1>1. session[c] \in Nat /\ co[c].source \in Sources /\ co[c].session \in Sessions
  <2>1. TaskTypes /\ RunTypes
    BY Parts
  <2> QED BY <2>1 DEF TaskTypes, RunTypes, Coroutines
<1>2. k \in Waiting /\ k.event = session[c] + 1 /\ k.why = why /\ k.to = to
  BY <1>1 DEF Task, Waiting
<1>3. SourceClaims(k) = SourceClaims(co[c])
  BY DEF Task, SourceClaims
<1>4. ASSUME Yield(c, why, to)
      PROVE  tasks' = [tasks EXCEPT ![c] = @ \union {k}] /\ Yields(c, k)
  BY <1>3, <1>4 DEF Yield, Yields, Fresh
<1> QED BY <1>2, <1>4

-----------------------------------------------------------------------------
(* What the coroutine of a cell may do                                     *)

\* cell.wait.
LEMMA WaitStep ==
  ASSUME IInv, NEW c \in Cell, Wait(c)
  PROVE  IInv'
<1> DEFINE k == Task(session[c] + 1, co[c].source, co[c].session, "wakeup", Nil)
<1>1. /\ phase[c] = "run" /\ c \in Users /\ session' = [session EXCEPT ![c] = @ + 1]
      /\ Yield(c, "wakeup", Nil)
      /\ UNCHANGED <<program, status, mailbox, event_q, todo, timer, faults, unsent>>
  BY DEF Wait, Coding, Running, InPhase, NewSession
<1>2. Nil \in Sources
  BY DEF Sources
<1>3. /\ k \in Waiting /\ k.event = session[c] + 1 /\ k.why = "wakeup" /\ k.to = Nil
      /\ tasks' = [tasks EXCEPT ![c] = @ \union {k}] /\ Yields(c, k)
  BY <1>1, <1>2, YieldIs
<1> HIDE DEF k
<1>4. Sent(c, {})
  <2>1. MailTypes
    BY Parts
  <2> QED BY <1>1, <2>1, SentNothing
<1>5. OpenedAtMost(c) /\ status' \in [Cell -> {"unborn", "open", "closed", "dead"}]
  BY <1>1, StatusSame
<1>6. c # system
  BY <1>1 DEF Users
<1> QED BY <1>1, <1>3, <1>4, <1>5, <1>6, TaskStepWhole

\* cell.fork.
LEMMA ForkStep ==
  ASSUME IInv, NEW c \in Cell, Fork(c)
  PROVE  IInv'
<1> DEFINE k == Task(session[c] + 1, Nil, Nil, "wakeup", Nil)
<1>1. /\ phase[c] = "run" /\ c \in Users /\ session' = [session EXCEPT ![c] = @ + 1]
      /\ tasks' = [tasks EXCEPT ![c] = @ \union {k}]
      /\ event_q' = [event_q EXCEPT ![c] = Append(@, session[c] + 1)]
      /\ UNCHANGED <<program, status, mailbox, phase, co, todo, timer, faults, unsent>>
  BY DEF Fork, Coding, Running, InPhase, NewSession, Fresh
<1>2. MailTypes /\ session[c] \in Nat
  BY Parts DEF TaskTypes
<1>3. k \in Waiting /\ k.event = session[c] + 1 /\ k.why = "wakeup" /\ SourceClaims(k) = {}
  BY <1>2 DEF Task, Waiting, Sources, Sessions, SourceClaims
<1> HIDE DEF k
<1>4. Yields(c, k)
  BY <1>1, <1>3 DEF Yields
<1>5. Sent(c, {})
  BY <1>1, <1>2, SentNothing
<1>6. OpenedAtMost(c) /\ status' \in [Cell -> {"unborn", "open", "closed", "dead"}]
  BY <1>1, StatusSame
<1>7. c # system
  BY <1>1 DEF Users
<1> QED BY <1>1, <1>3, <1>4, <1>5, <1>6, <1>7, TaskStepWhole

\* The commands that take a cell, or nothing.
Plain == {"none", "code", "kill", "launch"}

\* The messages that are sent.
LEMMA CommandIs ==
  ASSUME NEW c \in Cell, NEW s \in Nat, NEW arg \in Sources, NEW y,
         NEW cmd \in Plain
  PROVE  /\ Command(c, s, cmd, arg) \in Mail /\ MessageClaims(y, Command(c, s, cmd, arg)) = {<<c, s>>}
         /\ LaunchMsg(c, s) \in Mail /\ MessageClaims(y, LaunchMsg(c, s)) = {<<c, s>>}
         /\ Message(cmd, arg) \in Mail /\ MessageClaims(y, Message(cmd, arg)) = {}
         /\ Message(cmd, arg).port = "message"
         /\ Response(s) \in Mail /\ MessageClaims(y, Response(s)) = {<<y, s>>}
<1>1. c # Nil /\ c \in Sources /\ s \in Sessions /\ Nil \in Args /\ Nil \in Sources /\ Nil \in Sessions
      /\ Nat \subseteq Args /\ arg \in Args
  BY CodeAssumption DEF Sources, Sessions, Args
<1>2. cmd \in Cmds /\ "none" \in Cmds /\ "code" \in Cmds /\ cmd # "timeout"
  BY DEF Cmds, Plain
<1>3. Command(c, s, cmd, arg) \in Mail /\ MessageClaims(y, Command(c, s, cmd, arg)) = {<<c, s>>}
  BY <1>1, <1>2 DEF Command, Msg, Mail, Durable, MessageClaims
<1>5. LaunchMsg(c, s) \in Mail /\ MessageClaims(y, LaunchMsg(c, s)) = {<<c, s>>}
  BY <1>1, <1>2 DEF LaunchMsg, Msg, Mail, Durable, MessageClaims
<1>6. Message(cmd, arg) \in Mail /\ MessageClaims(y, Message(cmd, arg)) = {}
      /\ Message(cmd, arg).port = "message"
  BY <1>1, <1>2 DEF Message, Msg, Mail, Durable, MessageClaims
<1>8. Response(s) \in Mail /\ MessageClaims(y, Response(s)) = {<<y, s>>}
  BY <1>1, <1>2 DEF Response, Msg, Mail, Durable, MessageClaims
<1> QED BY <1>3, <1>5, <1>6, <1>8

\* The request of a timeout.
LEMMA TimeoutIs ==
  ASSUME NEW c \in Cell, NEW s \in Nat, NEW n \in Nat, NEW y
  PROVE  /\ Command(c, s, "timeout", n) \in Mail
         /\ MessageClaims(y, Command(c, s, "timeout", n)) = {<<c, s>>}
<1>1. c # Nil /\ c \in Sources /\ s \in Sessions /\ n \in Args
  BY CodeAssumption DEF Sources, Sessions, Args
<1> QED BY <1>1 DEF Command, Msg, Mail, Durable, MessageClaims, Cmds

\* cell.exit.
LEMMA ExitStep ==
  ASSUME IInv, NEW c \in Cell, Exit(c)
  PROVE  IInv'
<1> DEFINE k == Task(session[c] + 1, co[c].source, co[c].session, "end", Nil)
           m == Message("kill", c)
<1>1. /\ phase[c] = "run" /\ c \in Users /\ session' = [session EXCEPT ![c] = @ + 1]
      /\ Yield(c, "end", Nil) /\ Post(system, m) /\ status[system] = "open"
      /\ UNCHANGED <<program, status, event_q, todo, timer, faults, unsent>>
  BY DEF Exit, Coding, Running, InPhase, NewSession, Accepts
<1>2. Nil \in Sources /\ c \in Sources /\ system \in Cell /\ 0 \in Nat
  BY CodeAssumption DEF Sources
<1>3. /\ k \in Waiting /\ k.event = session[c] + 1 /\ k.why = "end" /\ k.to = Nil
      /\ tasks' = [tasks EXCEPT ![c] = @ \union {k}] /\ Yields(c, k)
  BY <1>1, <1>2, YieldIs
<1>4. m \in Mail /\ MessageClaims(system, m) = {}
  <2>1. "kill" \in Plain
    BY DEF Plain
  <2> QED BY <1>2, <2>1, CommandIs
<1> HIDE DEF k, m
<1>5. Sent(system, {})
  <2>1. MailTypes
    BY Parts
  <2>2. Sent(system, MessageClaims(system, m))
    BY <1>1, <1>2, <1>4, <2>1, SentOne
  <2> QED BY <1>4, <2>2
<1>6. OpenedAtMost(system) /\ status' \in [Cell -> {"unborn", "open", "closed", "dead"}]
  BY <1>1, StatusSame
<1> QED BY <1>1, <1>2, <1>3, <1>5, <1>6, TaskStepWhole

\* cell.timeout.
LEMMA TimeoutStep ==
  ASSUME IInv, NEW c \in Cell, Timeout(c)
  PROVE  IInv'
<1> DEFINE k == Task(session[c] + 1, Nil, Nil, "answer", system)
<1>1. PICK n \in Duration :
         /\ phase[c] = "run" /\ session' = [session EXCEPT ![c] = @ + 1]
         /\ tasks' = [tasks EXCEPT ![c] = @ \union {k}] /\ status[system] = "open"
         /\ Post(system, Command(c, session[c] + 1, "timeout", n))
         /\ UNCHANGED <<program, status, event_q, phase, co, todo, timer, faults, unsent>>
  BY DEF Timeout, Coding, Running, InPhase, NewSession, Fresh, Accepts
<1> DEFINE m == Command(c, session[c] + 1, "timeout", n)
<1>2. MailTypes /\ session[c] \in Nat /\ session[c] + 1 \in Nat /\ n \in Nat /\ system \in Cell
  BY Parts, CodeAssumption DEF TaskTypes
<1>3. k \in Waiting /\ k.event = session[c] + 1 /\ k.why = "answer" /\ k.to = system
      /\ SourceClaims(k) = {}
  BY <1>2 DEF Task, Waiting, Sources, Sessions, SourceClaims
<1>4. m \in Mail /\ MessageClaims(system, m) = {<<c, session[c] + 1>>}
  BY <1>2, TimeoutIs
<1> HIDE DEF k, m
<1>5. Yields(c, k)
  BY <1>1, <1>3 DEF Yields
<1>6. Sent(system, {<<c, session[c] + 1>>})
  <2>1. Sent(system, MessageClaims(system, m))
    BY <1>1, <1>2, <1>4, SentOne DEF m
  <2> QED BY <1>4, <2>1
<1>7. OpenedAtMost(system) /\ status' \in [Cell -> {"unborn", "open", "closed", "dead"}]
  BY <1>1, StatusSame
<1> QED BY <1>1, <1>2, <1>3, <1>5, <1>6, <1>7, TaskStepWhole

\* An error in a call: a session is lost.
LEMMA LostSession ==
  ASSUME IInv, NEW c \in Cell, session' = [session EXCEPT ![c] = @ + 1],
         UNCHANGED <<program, status, mailbox, tasks, event_q, phase, co, todo, timer, faults, unsent>>
  PROVE  IInv'
<1>1. /\ MailTypes /\ TaskTypes /\ RunTypes /\ TimerTypes /\ RestTypes
      /\ Stages /\ EventsDistinct /\ SleepersKept /\ EventsDelivered
  BY Parts
<1>2. session' \in [Cell -> Nat]
  BY <1>1 DEF TaskTypes
<1>3. ASSUME NEW x \in Cell PROVE session[x] <= session'[x] /\ 1 .. session[x] \subseteq 1 .. session'[x]
  <2>1. session[x] \in Nat /\ session'[x] \in {session[x], session[x] + 1}
    BY <1>1 DEF TaskTypes
  <2> QED BY <2>1
<1>4. TaskTypes'
  <2>1. \A x \in Cell : IsFiniteSet(tasks'[x]) /\ \A k \in tasks'[x] : k.event \in 1 .. session'[x]
    BY <1>1, <1>3 DEF TaskTypes
  <2>2. \A x \in Cell : ToSet(event_q'[x]) \subseteq 1 .. session'[x]
    BY <1>1, <1>3 DEF TaskTypes
  <2> QED BY <1>1, <1>2, <2>1, <2>2 DEF TaskTypes
<1>5. MailTypes' /\ RunTypes' /\ RestTypes'
  BY <1>1 DEF MailTypes, RunTypes, RestTypes
<1>6. TimerTypes'
  BY <1>1, <1>3, <1>4, TimerLater, CodeAssumption
<1>7. Stages' /\ EventsDistinct' /\ SleepersKept' /\ EventsDelivered'
  BY <1>1 DEF Stages, Ending, EventsDistinct, SleepersKept, EventsDelivered, InPhase
<1>8. SameMail /\ SameCo
  BY MailSame, CoSame
<1>9. SameOwing
  <2>1. \A x \in Cell : Owing(x)' = Owing(x)
    BY OwingIs
  <2> QED BY <2>1 DEF SameOwing
<1>10. Addressed' /\ (NeverLate' => Alone') /\ Answerable'
  BY <1>2, <1>3, <1>8, <1>9, QuietStep
<1> QED BY <1>4, <1>5, <1>6, <1>7, <1>10, Whole

\* cell.call: the request and the task that waits for its answer, or an error.
LEMMA CallCellStep ==
  ASSUME IInv, NEW c \in Cell, phase[c] = "run", NEW x \in Cell, NEW cmd, NEW arg,
         Command(c, session[c] + 1, cmd, arg) \in Mail,
         MessageClaims(x, Command(c, session[c] + 1, cmd, arg)) = {<<c, session[c] + 1>>},
         CallCell(c, x, cmd, arg)
  PROVE  IInv'
<1> DEFINE k == Task(session[c] + 1, co[c].source, co[c].session, "answer", x)
           m == Command(c, session[c] + 1, cmd, arg)
<1>1. /\ session' = [session EXCEPT ![c] = @ + 1]
      /\ UNCHANGED <<program, status, event_q, todo, timer, faults, unsent>>
  BY DEF CallCell, NewSession
<1>2. CASE ~Accepts(x)
  <2>1. UNCHANGED <<mailbox, tasks, phase, co>>
    BY <1>2 DEF CallCell
  <2> QED BY <1>1, <2>1, LostSession
<1>3. CASE Accepts(x)
  <2>1. Post(x, m) /\ Yield(c, "answer", x) /\ status[x] = "open"
    BY <1>3 DEF CallCell, Fresh, Accepts
  <2>2. x \in Sources
    BY DEF Sources
  <2>3. /\ k \in Waiting /\ k.event = session[c] + 1 /\ k.why = "answer" /\ k.to = x
        /\ tasks' = [tasks EXCEPT ![c] = @ \union {k}] /\ Yields(c, k)
    BY <2>1, <2>2, YieldIs
  <2>4. m \in Mail /\ MessageClaims(x, m) = {<<c, session[c] + 1>>}
    OBVIOUS
  <2> HIDE DEF k, m
  <2>5. Sent(x, {<<c, session[c] + 1>>})
    <3>1. MailTypes
      BY Parts
    <3>2. Sent(x, MessageClaims(x, m))
      BY <1>1, <2>1, <2>4, <3>1, SentOne
    <3> QED BY <2>4, <3>2
  <2>6. OpenedAtMost(x) /\ status' \in [Cell -> {"unborn", "open", "closed", "dead"}]
    BY <1>1, StatusSame
  <2> QED BY <1>1, <2>3, <2>5, <2>6, TaskStepWhole
<1> QED BY <1>2, <1>3

\* The calls of a user: cell.call, which may be of what cannot be packed, cell.sleep,
\* cell.launch and cell.kill.
LEMMA CallsStep ==
  ASSUME IInv, NEW c \in Cell,
         Call(c) \/ CallGarbled(c) \/ Sleep(c) \/ CallLaunch(c) \/ CallKill(c)
  PROVE  IInv'
<1> DEFINE s == session[c] + 1
<1>1. phase[c] = "run" /\ c \in Users
  BY DEF Call, CallGarbled, Sleep, CallLaunch, CallKill, Coding, Running, InPhase
<1>2. /\ session[c] \in Nat /\ s \in Nat /\ system \in Cell /\ Nil \in Sources
      /\ Users \subseteq Cell /\ Cell \subseteq Sources /\ Duration \subseteq Nat
  <2>1. TaskTypes
    BY Parts
  <2> QED BY <2>1, CodeAssumption DEF TaskTypes, Users, Sources
<1> HIDE DEF s
<1>3. /\ \A x \in Callees[c] : x \in Cell
      /\ \A x \in Victims[c] : x \in Users
  <2>1. program \in Programs
    BY Parts DEF RestTypes
  <2> QED BY <1>1, <2>1, CodeAssumption DEF Callees, Victims
<1>4. s \in Nat /\ Nil \in Sources
  BY <1>2
<1>5. CASE Call(c)
  <2>1. PICK x \in Callees[c] : CallCell(c, x, Asking(x), Nil)
    BY <1>5 DEF Call
  <2>2. x \in Cell
    BY <1>2, <1>3
  <2>3. PICK cmd \in Plain : cmd = Asking(x)
    BY DEF Asking, Plain
  <2>4. /\ Command(c, s, cmd, Nil) \in Mail
        /\ MessageClaims(x, Command(c, s, cmd, Nil)) = {<<c, s>>}
    BY <1>4, <2>3, CommandIs
  <2>5. CallCell(c, x, cmd, Nil)
    BY <2>1, <2>3
  <2> QED BY <1>1, <1>2, <2>2, <2>4, <2>5, CallCellStep DEF s
<1>6. CASE Sleep(c)
  <2>1. PICK n \in Duration : CallCell(c, system, "timeout", n)
    BY <1>6 DEF Sleep
  <2>2. /\ Command(c, s, "timeout", n) \in Mail
        /\ MessageClaims(system, Command(c, s, "timeout", n)) = {<<c, s>>}
    BY <1>2, TimeoutIs
  <2> QED BY <1>1, <1>2, <2>1, <2>2, CallCellStep DEF s
<1>7. CASE CallLaunch(c)
  <2>1. CallCell(c, system, "launch", Nil)
    BY <1>7 DEF CallLaunch
  <2>3. "launch" \in Plain
    BY DEF Plain
  <2>4. /\ Command(c, s, "launch", Nil) \in Mail
        /\ MessageClaims(system, Command(c, s, "launch", Nil)) = {<<c, s>>}
    BY <1>4, <2>3, CommandIs
  <2> QED BY <1>1, <1>2, <2>1, <2>4, CallCellStep DEF s
<1>8. CASE CallKill(c)
  <2>1. PICK x \in Victims[c] : CallCell(c, system, "kill", x)
    BY <1>8 DEF CallKill
  <2>2. x \in Sources
    BY <1>2, <1>3
  <2>3. "kill" \in Plain
    BY DEF Plain
  <2>4. /\ Command(c, s, "kill", x) \in Mail
        /\ MessageClaims(system, Command(c, s, "kill", x)) = {<<c, s>>}
    BY <1>4, <2>2, <2>3, CommandIs
  <2> QED BY <1>1, <1>2, <2>1, <2>2, <2>4, CallCellStep DEF s
<1>9. CASE CallGarbled(c)
  BY <1>9, LostSession DEF CallGarbled, NewSession
<1> QED BY <1>5, <1>6, <1>7, <1>8, <1>9

\* A message that carries no claim comes to an open cell.
LEMMA PostedStep ==
  ASSUME IInv, NEW y \in Cell, NEW m \in Mail, MessageClaims(y, m) = {}, Post(y, m),
         status[y] = "open",
         UNCHANGED <<program, status, session, tasks, event_q, phase, co, todo, timer, faults, unsent>>
  PROVE  IInv'
<1>1. /\ MailTypes /\ TaskTypes /\ RunTypes /\ TimerTypes /\ RestTypes
      /\ Stages /\ EventsDistinct /\ SleepersKept /\ EventsDelivered
  BY Parts
<1>2. MailTypes' /\ \A x \in Cell : x # y => mailbox'[x] = mailbox[x]
  BY <1>1, PostEffect
<1>3. SameMail /\ SameCo
  BY <1>1, PostedNothing, CoSame
<1>4. SameOwing
  <2>1. \A x \in Cell : Owing(x)' = Owing(x)
    BY OwingIs
  <2> QED BY <2>1 DEF SameOwing
<1>5. Addressed' /\ (NeverLate' => Alone') /\ Answerable'
  BY <1>1, <1>3, <1>4, SessionsSame, QuietStep
<1>6. TaskTypes' /\ RunTypes' /\ TimerTypes' /\ RestTypes'
  BY <1>1 DEF TaskTypes, RunTypes, TimerTypes, RestTypes
<1>7. EventsDistinct' /\ SleepersKept' /\ EventsDelivered'
  BY <1>1 DEF EventsDistinct, SleepersKept, EventsDelivered, InPhase
<1>8. Stages'
  <2>1. ~Ending(y)'
    BY <1>1 DEF Stages, Ending
  <2>2. phase'[y] # "exit" => todo'[y] = {}
    BY <1>1 DEF Stages
  <2>3. co'[y].origin = "last" => "late" \in faults'[y]
    BY <1>1 DEF Stages
  <2> QED BY <1>1, <1>2, <2>1, <2>2, <2>3, StagesStep
<1> QED BY <1>2, <1>5, <1>6, <1>7, <1>8, Whole

\* cell.send.
LEMMA SendStep ==
  ASSUME IInv, NEW c \in Cell, Send(c)
  PROVE  IInv'
<1>1. PICK x \in Callees[c] : status[x] = "open" /\ Post(x, Message(Asking(x), Nil))
  BY DEF Send, Accepts
<1>2. c \in Users /\ UNCHANGED <<program, status, session, tasks, event_q, phase, co, todo, timer, faults, unsent>>
  BY DEF Send, Coding
<1>3. x \in Cell
  <2>1. program \in Programs
    BY Parts DEF RestTypes
  <2> QED BY <1>2, <2>1, CodeAssumption DEF Callees, Users
<1>4. /\ Message(Asking(x), Nil) \in Mail /\ MessageClaims(x, Message(Asking(x), Nil)) = {}
  <2>1. Nil \in Sources /\ 0 \in Nat
    BY DEF Sources
  <2>2. Asking(x) \in Plain
    BY DEF Asking, Plain
  <2> QED BY <1>3, <2>1, <2>2, CommandIs
<1> QED BY <1>1, <1>2, <1>3, <1>4, PostedStep

\* A tick of the timer thread.
LEMMA TickStep ==
  ASSUME IInv, Tick
  PROVE  IInv'
<1>1. /\ status[system] = "open" /\ Post(system, TickMsg)
      /\ UNCHANGED <<program, status, session, tasks, event_q, phase, co, todo, timer, faults, unsent>>
  BY DEF Tick, Accepts
<1>2. TickMsg \in Mail /\ MessageClaims(system, TickMsg) = {}
  BY DEF TickMsg, Msg, Mail, Durable, Sources, Sessions, Cmds, Args, MessageClaims
<1> QED BY <1>1, <1>2, CodeAssumption, PostedStep

\* cell.wakeup.
LEMMA WakeupStep ==
  ASSUME IInv, NEW c \in Cell, Wakeup(c)
  PROVE  IInv'
<1>1. PICK k \in tasks[c] : /\ k.why = "wakeup"
                            /\ event_q' = [event_q EXCEPT ![c] = Append(@, k.event)]
  BY DEF Wakeup
<1>2. /\ phase[c] = "run" /\ c # system
      /\ UNCHANGED <<program, status, mailbox, session, tasks, phase, co, todo, timer, faults, unsent>>
  BY DEF Wakeup, Coding, Running, InPhase, Users
<1>3. /\ MailTypes /\ TaskTypes /\ RunTypes /\ TimerTypes /\ RestTypes
      /\ Stages /\ EventsDistinct /\ SleepersKept /\ EventsDelivered
  BY Parts
<1>4. k.event \in Nat /\ k.event \in 1 .. session[c] /\ event_q[c] \in Seq(Nat)
      /\ ToSet(event_q[c]) \subseteq 1 .. session[c]
  <2>1. session[c] \in Nat /\ k.event \in 1 .. session[c]
    BY <1>3 DEF TaskTypes
  <2> QED BY <1>3, <2>1 DEF TaskTypes
<1>5. event_q' \in [Cell -> Seq(Nat)] /\ event_q'[c] = Append(event_q[c], k.event)
      /\ \A x \in Cell : x # c => event_q'[x] = event_q[x]
  <2>1. Append(event_q[c], k.event) \in Seq(Nat)
    BY <1>4, AppendProperties
  <2> QED BY <1>1, <1>3, <2>1 DEF TaskTypes
<1>6. ToSet(event_q'[c]) = ToSet(event_q[c]) \union {k.event}
  BY <1>4, <1>5, SetOfAppend
<1>7. TaskTypes'
  <2>1. \A x \in Cell : ToSet(event_q'[x]) \subseteq 1 .. session[x]
    BY <1>3, <1>4, <1>5, <1>6 DEF TaskTypes
  <2> QED BY <1>2, <1>3, <1>5, <2>1, TasksSame DEF TaskTypes
<1>8. MailTypes' /\ RunTypes' /\ RestTypes' /\ TimerTypes'
  BY <1>2, <1>3 DEF MailTypes, RunTypes, RestTypes, TimerTypes
<1>9. Stages'
  BY <1>2, <1>3 DEF Stages, Ending
<1>10. EventsDistinct'
  <2>1. /\ \A i, j \in tasks'[c] : i.event = j.event => i = j
        /\ \A j \in tasks'[c] : j.event \in ToSet(event_q'[c]) => j.why = "wakeup"
    BY <1>1, <1>2, <1>3, <1>6 DEF EventsDistinct
  <2> QED BY <1>2, <1>3, <1>5, <2>1, TicksSame, EventsStep
<1>11. SleepersKept'
  <2>1. event_q'[system] = event_q[system]
    BY <1>2, <1>5, CodeAssumption
  <2> QED BY <1>2, <1>3, <2>1, SleepersSame
<1>12. EventsDelivered'
  BY <1>2, <1>3, <1>5, DeliveredStep
<1>13. SameMail /\ SameCo /\ SameOwing
  <2>1. \A x \in Cell : Owing(x)' = Owing(x)
    BY <1>2, OwingIs
  <2> QED BY <1>2, <2>1, MailSame, CoSame DEF SameOwing
<1>14. Addressed' /\ (NeverLate' => Alone') /\ Answerable'
  BY <1>2, <1>3, <1>13, SessionsSame, QuietStep
<1> QED BY <1>7, <1>8, <1>9, <1>10, <1>11, <1>12, <1>14, Whole

-----------------------------------------------------------------------------
(* The commands of the system cell                                         *)

\* command.timeout: the sleeper enters the timer.
LEMMA CommandTimeoutStep ==
  ASSUME IInv, CommandTimeout
  PROVE  IInv'
<1> DEFINE s == session[system] + 1
           n == co[system].arg
           k == Task(session[system] + 1, co[system].source, co[system].session, "wakeup", Nil)
<1>1. /\ phase[system] = "run" /\ co[system].cmd = "timeout" /\ n > 0
      /\ session' = [session EXCEPT ![system] = @ + 1]
      /\ timer' = timer \union {<<s, n>>} /\ Yield(system, "wakeup", Nil)
      /\ UNCHANGED <<program, status, mailbox, event_q, todo, faults, unsent>>
  BY DEF CommandTimeout, Commanded, Running, InPhase, Fresh
<1>2. system \in Cell /\ Nil \in Sources
  BY CodeAssumption DEF Sources
<1>3. /\ k \in Waiting /\ k.event = session[system] + 1 /\ k.why = "wakeup" /\ k.to = Nil
      /\ tasks' = [tasks EXCEPT ![system] = @ \union {k}] /\ Yields(system, k)
  BY <1>1, <1>2, YieldIs
<1>4. /\ MailTypes /\ TaskTypes /\ RunTypes /\ TimerTypes /\ RestTypes
      /\ EventsDistinct /\ SleepersKept
  BY Parts
<1>5. n \in Nat \ {0} /\ session[system] \in Nat /\ s \in 1 .. s /\ s \notin 1 .. session[system]
      /\ 1 .. session[system] \subseteq 1 .. s
  <2>1. Durable(co[system]) /\ session[system] \in Nat
    BY <1>2, <1>4 DEF RunTypes, TaskTypes, Coroutines
  <2> QED BY <1>1, <2>1 DEF Durable
<1> HIDE DEF k, s, n
<1>6. Sent(system, {})
  BY <1>1, <1>2, <1>4, SentNothing
<1>7. OpenedAtMost(system)
  BY <1>1, StatusSame
<1>8. /\ MailTypes' /\ TaskTypes' /\ RunTypes'
      /\ Stages' /\ (TicksDistinct' => EventsDistinct') /\ EventsDelivered'
      /\ Addressed' /\ (NeverLate' => Alone') /\ Answerable'
      /\ tasks'[system] = tasks[system] \union {k} /\ session'[system] = s
  BY <1>1, <1>2, <1>3, <1>6, <1>7, TaskStep DEF s
<1>9. \A p \in timer : p[1] \in 1 .. session[system]
  BY <1>4 DEF TimerTypes
<1>10. TicksDistinct'
  <2>1. \A p, q \in timer : p[1] = q[1] => p = q
    BY <1>4 DEF EventsDistinct
  <2>2. \A p \in timer : p[1] # s
    BY <1>5, <1>9
  <2> QED BY <1>1, <2>1, <2>2 DEF TicksDistinct
<1>11. TimerTypes'
  <2>1. timer' \subseteq (1 .. s) \X (Nat \ {0})
    BY <1>1, <1>4, <1>5 DEF TimerTypes
  <2> QED BY <1>8, <2>1 DEF TimerTypes
<1>12. RestTypes'
  BY <1>1, <1>4 DEF RestTypes
<1>13. SleepersKept'
  <2> DEFINE W == {j.event : j \in {i \in tasks[system] : i.why = "wakeup"}}
             P == {p[1] : p \in timer}
             Q == ToSet(event_q[system])
  <2>1. W = P \union Q /\ P \intersect Q = {}
    BY <1>4 DEF SleepersKept
  <2>2. {j.event : j \in {i \in tasks'[system] : i.why = "wakeup"}} = W \union {s}
    BY <1>3, <1>8 DEF s
  <2>3. {p[1] : p \in timer'} = P \union {s}
    <3>1. ASSUME NEW e \in {p[1] : p \in timer'} PROVE e \in P \union {s}
      BY <1>1
    <3>2. <<s, n>> \in timer' /\ <<s, n>>[1] = s
      BY <1>1
    <3>3. s \in {p[1] : p \in timer'}
      BY <3>2
    <3>4. P \subseteq {p[1] : p \in timer'}
      BY <1>1
    <3> QED BY <3>1, <3>3, <3>4
  <2>4. ToSet(event_q'[system]) = Q /\ s \notin Q
    BY <1>1, <1>2, <1>4, <1>5 DEF TaskTypes
  <2> HIDE DEF W, P, Q
  <2> QED BY <2>1, <2>2, <2>3, <2>4 DEF SleepersKept
<1> QED BY <1>8, <1>10, <1>11, <1>12, <1>13, Whole

\* command.launch: the new cell is told to run, and its answer awaited.
LEMMA CommandLaunchStep ==
  ASSUME IInv, NEW n \in Users, CommandLaunch(n)
  PROVE  IInv'
<1> DEFINE s == session[system] + 1
           k == Task(session[system] + 1, co[system].source, co[system].session, "answer", n)
           m == LaunchMsg(system, s)
<1>1. /\ phase[system] = "run" /\ status[n] = "unborn"
      /\ status' = [status EXCEPT ![n] = "open"]
      /\ session' = [session EXCEPT ![system] = @ + 1]
      /\ Post(n, m) /\ Yield(system, "answer", n)
      /\ UNCHANGED <<program, event_q, todo, timer, faults, unsent>>
  BY DEF CommandLaunch, Commanded, Running, InPhase, Fresh
<1>2. system \in Cell /\ n \in Cell /\ n \in Sources /\ Nil \in Sources
  BY CodeAssumption DEF Sources, Users
<1>3. /\ k \in Waiting /\ k.event = session[system] + 1 /\ k.why = "answer" /\ k.to = n
      /\ tasks' = [tasks EXCEPT ![system] = @ \union {k}] /\ Yields(system, k)
  BY <1>1, <1>2, YieldIs
<1>4. MailTypes /\ TaskTypes /\ RestTypes
  BY Parts
<1>5. s \in Nat
  BY <1>2, <1>4 DEF TaskTypes
<1>6. m \in Mail /\ MessageClaims(n, m) = {<<system, s>>}
  <2> HIDE DEF s
  <2>1. "code" \in Plain
    BY DEF Plain
  <2> QED BY <1>2, <1>5, <2>1, CommandIs
<1>7. status'[n] = "open" /\ OpenedAtMost(n)
      /\ status' \in [Cell -> {"unborn", "open", "closed", "dead"}]
  BY <1>1, <1>2, <1>4 DEF OpenedAtMost, RestTypes
<1> HIDE DEF k, m
<1>8. Sent(n, {<<system, session[system] + 1>>})
  <2>1. Sent(n, MessageClaims(n, m))
    BY <1>1, <1>2, <1>4, <1>6, <1>7, SentOne
  <2> QED BY <1>6, <2>1
<1> QED BY <1>1, <1>2, <1>3, <1>7, <1>8, TaskStepWhole

\* command.kill: the cell is closed.
LEMMA CommandKillStep ==
  ASSUME IInv, CommandKill
  PROVE  IInv'
<1> DEFINE x == co[system].arg
<1>1. /\ phase[system] = "run"
      /\ status' = [status EXCEPT ![x] = IF @ = "open" THEN "closed" ELSE @]
      /\ co' = [co EXCEPT ![system].cmd = "code"]
      /\ UNCHANGED <<program, mailbox, session, tasks, event_q, phase, todo, timer, faults, unsent>>
  BY DEF CommandKill, Commanded, Running, InPhase
<1>2. /\ MailTypes /\ TaskTypes /\ RunTypes /\ TimerTypes /\ RestTypes
      /\ Stages /\ EventsDistinct /\ SleepersKept /\ EventsDelivered
  BY Parts
<1> HIDE DEF x
<1>3. \A y \in Cell : status'[y] = status[y] \/ (status[y] = "open" /\ status'[y] = "closed")
  BY <1>1, <1>2 DEF RestTypes
<1>4. RestTypes'
  <2>1. status' \in [Cell -> {"unborn", "open", "closed", "dead"}]
    BY <1>1, <1>2 DEF RestTypes
  <2> QED BY <1>1, <1>2, <2>1 DEF RestTypes
<1>5. /\ co'[system] \in Coroutines /\ co'[system].origin = co[system].origin
      /\ SourceClaims(co'[system]) = SourceClaims(co[system])
      /\ co' \in [Cell -> Coroutines]
      /\ \A y \in Cell : y # system => co'[y] = co[y]
  <2>1. system \in Cell /\ co[system] \in Coroutines
    BY <1>2, CodeAssumption DEF RunTypes
  <2>2. co'[system] = [co[system] EXCEPT !.cmd = "code"] /\ \A y \in Cell : y # system => co'[y] = co[y]
    BY <1>1, <1>2, <2>1 DEF RunTypes
  <2>3. co'[system] \in Coroutines
    BY <2>1, <2>2 DEF Coroutines, Durable, Cmds
  <2>4. /\ co'[system].origin = co[system].origin
        /\ co'[system].source = co[system].source /\ co'[system].session = co[system].session
    BY <2>1, <2>2 DEF Coroutines
  <2>5. co' \in [Cell -> Coroutines]
    BY <1>1, <1>2, <2>2, <2>3 DEF RunTypes
  <2> QED BY <2>2, <2>3, <2>4, <2>5 DEF SourceClaims
<1>6. RunTypes'
  BY <1>1, <1>2, <1>5 DEF RunTypes
<1>7. \A y \in Cell : co'[y].origin = co[y].origin /\ SourceClaims(co'[y]) = SourceClaims(co[y])
  BY <1>5
<1>8. Stages'
  <2>1. ASSUME NEW y \in Cell
        PROVE  /\ Ending(y)' => status'[y] \in {"closed", "dead"} /\ mailbox'[y] = <<>>
               /\ status'[y] = "unborn" => phase'[y] = "idle" /\ mailbox'[y] = <<>> /\ tasks'[y] = {}
               /\ phase'[y] # "exit" => todo'[y] = {}
               /\ co'[y].origin = "last" => "late" \in faults'[y]
    <3>1. Ending(y)' <=> Ending(y)
      BY <1>1, <1>7 DEF Ending
    <3> QED BY <1>1, <1>2, <1>3, <1>7, <3>1 DEF Stages
  <2> QED BY <2>1 DEF Stages
<1>9. MailTypes' /\ TaskTypes' /\ TimerTypes' /\ EventsDistinct' /\ SleepersKept' /\ EventsDelivered'
  BY <1>1, <1>2 DEF MailTypes, TaskTypes, TimerTypes, EventsDistinct, SleepersKept, EventsDelivered, InPhase
<1>10. SameMail /\ SameCo /\ SameOwing
  <2>1. ASSUME NEW y \in Cell PROVE Owing(y)' = Owing(y)
    BY <1>1, <1>7 DEF Owing
  <2> QED BY <1>1, <1>7, <2>1, MailSame DEF SameCo, SameOwing
<1>11. Addressed' /\ (NeverLate' => Alone') /\ Answerable'
  <2>1. \A y \in Cell : status'[y] = "open" => status[y] = "open"
    BY <1>3
  <2> QED BY <1>1, <1>2, <1>10, <2>1, SessionsSame, QuietStep
<1> QED BY <1>4, <1>6, <1>8, <1>9, <1>11, Whole

-----------------------------------------------------------------------------
(* The dispatcher: the other messages                                      *)

\* A response that no coroutine waits for is dropped: no task waits for its claim.
LEMMA UnknownResponseStep ==
  ASSUME IInv, NEW c \in Cell, UnknownResponse(c)
  PROVE  IInv'
<1> DEFINE m == Head(mailbox[c])
           s == m.session
<1>1. /\ Receives(c, "response") /\ ~Known(c, s)
      /\ UNCHANGED <<program, status, session, tasks, event_q, phase, co, todo, timer, faults, unsent>>
  BY DEF UnknownResponse
<1>2. /\ MailTypes /\ TaskTypes /\ RunTypes /\ TimerTypes /\ RestTypes
      /\ Stages /\ EventsDistinct /\ SleepersKept /\ EventsDelivered
      /\ Addressed /\ (NeverLate => Alone) /\ Answerable /\ OwingTasks
  BY Parts
<1>3. /\ MailTypes' /\ phase[c] = "idle" /\ mailbox[c] # <<>> /\ m \in Mail /\ m.port = "response"
      /\ \A x \in Cell : x # c => mailbox'[x] = mailbox[x]
  BY <1>1, <1>2, ReceiveEffect
<1>4. ASSUME NEW y \in Cell
      PROVE  /\ MailClaims(y, mailbox'[y]) \subseteq MailClaims(y, mailbox[y])
             /\ \A t \in MailClaims(y, mailbox[y]) :
                  t \in MailClaims(y, mailbox'[y]) \/ (y = c /\ t \in MessageClaims(c, m))
             /\ MailDistinct(y, mailbox[y]) => MailDistinct(y, mailbox'[y])
             /\ \A n \in ToSet(mailbox[y]) : n \in ToSet(mailbox'[y]) \/ (y = c /\ n = m)
  BY <1>1, <1>2, ReceivedClaims
<1>5. MessageClaims(c, m) = {<<c, s>>}
  BY <1>3 DEF MessageClaims
<1> HIDE DEF m, s
<1>6. TaskTypes' /\ RunTypes' /\ TimerTypes' /\ RestTypes'
  BY <1>1, <1>2 DEF TaskTypes, RunTypes, TimerTypes, RestTypes
<1>7. EventsDistinct' /\ SleepersKept' /\ EventsDelivered'
  BY <1>1, <1>2 DEF EventsDistinct, SleepersKept, EventsDelivered, InPhase
<1>8. Stages'
  <2>1. ~Ending(c)
    BY <1>2, <1>3 DEF Stages
  <2>2. status[c] # "unborn"
    BY <1>2, <1>3 DEF Stages
  <2>3. ~Ending(c)'
    BY <1>1, <2>1 DEF Ending
  <2>4. /\ phase'[c] # "exit" => todo'[c] = {}
        /\ co'[c].origin = "last" => "late" \in faults'[c]
    BY <1>1, <1>2 DEF Stages
  <2> QED BY <1>1, <1>2, <1>3, <2>2, <2>3, <2>4, StagesStep
<1>9. Addressed'
  <2>1. session' \in [Cell -> Nat] /\ \A x \in Cell : session[x] <= session'[x]
    BY <1>1, <1>2, SessionsSame
  <2> QED BY <1>1, <1>2, <1>4, <2>1, AddressedStep
<1>10. \A x \in Cell : Owing(x)' = Owing(x)
  BY <1>1, OwingIs
<1>11. ASSUME NeverLate' PROVE Alone'
  <2>1. Alone
    BY <1>1, <1>2, <1>11, NeverLateBefore
  <2>2. \A x \in Cell : MailDistinct(x, mailbox[x]) /\ TasksDistinct(Owing(x))
    BY <2>1, AloneIs
  <2>3. AllDistinct'
    BY <1>4, <1>10, <2>2 DEF AllDistinct
  <2> QED BY <1>1, <1>2, <1>4, <1>10, <2>1, <2>3, AloneSame
<1>12. Answerable'
  <2>1. ASSUME NEW x \in Cell, NEW h \in tasks[x], h.to \in Cell, Pending(x, h)
        PROVE  Pending(x, h)'
    <3>1. <<x, h.event>> # <<c, s>>
      BY <1>1 DEF Known
    <3>2. CASE <<x, h.event>> \in MailClaims(h.to, mailbox[h.to])
      <4>1. <<x, h.event>> \in MailClaims(h.to, mailbox'[h.to])
        BY <1>4, <1>5, <2>1, <3>1, <3>2
      <4> QED BY <2>1, <4>1, PendingIs
    <3>3. CASE Response(h.event) \in ToSet(mailbox[x])
      <4>1. Response(h.event) # m \/ x # c
        BY <3>1 DEF Response, Msg, s
      <4>2. Response(h.event) \in ToSet(mailbox'[x])
        BY <1>4, <3>3, <4>1
      <4> QED BY <2>1, <4>2, PendingIs
    <3>4. \/ <<x, h.event>> \in MailClaims(h.to, mailbox[h.to])
          \/ <<x, h.event>> \in SourceClaims(co[h.to]) /\ co[h.to].origin # "last"
          \/ <<x, h.event>> \in TaskClaims(Owing(h.to))
          \/ Response(h.event) \in ToSet(mailbox[x])
      BY <2>1, PendingIs
    <3>5. co'[h.to] = co[h.to] /\ Owing(h.to)' = Owing(h.to)
      BY <1>1, <1>10, <2>1
    <3> QED BY <2>1, <3>2, <3>3, <3>4, <3>5, PendingIs
  <2> QED BY <1>1, <1>2, <2>1, AnswerableStep
<1> QED BY <1>3, <1>6, <1>7, <1>8, <1>9, <1>11, <1>12, Whole

\* A message starts a coroutine.
LEMMA StartedStep ==
  ASSUME IInv, NEW c \in Cell, NEW port, Receives(c, port),
         NEW r \in Coroutines, r.origin = "dispatch", Run(c, r),
         UNCHANGED <<program, status, session, tasks, event_q, todo, timer, faults, unsent>>
  PROVE  /\ MailTypes' /\ TaskTypes' /\ RunTypes' /\ TimerTypes' /\ RestTypes'
         /\ Stages' /\ EventsDistinct' /\ SleepersKept' /\ EventsDelivered'
         /\ \A x \in Cell : Owing(x)' = Owing(x)
         /\ co'[c] = r /\ co[c] = NoCo /\ \A x \in Cell : x # c => co'[x] = co[x]
<1>1. /\ MailTypes /\ TaskTypes /\ RunTypes /\ TimerTypes /\ RestTypes
      /\ Stages /\ EventsDistinct /\ SleepersKept /\ EventsDelivered
  BY Parts
<1>2. /\ MailTypes' /\ phase[c] = "idle" /\ mailbox[c] # <<>>
      /\ \A x \in Cell : x # c => mailbox'[x] = mailbox[x]
  BY <1>1, ReceiveEffect
<1>3. /\ RunTypes' /\ co'[c] = r /\ phase'[c] = "run"
      /\ \A x \in Cell : x # c => co'[x] = co[x] /\ phase'[x] = phase[x]
  BY <1>1, RunEffect
<1>4. TaskTypes' /\ TimerTypes' /\ RestTypes'
  BY <1>1 DEF TaskTypes, TimerTypes, RestTypes
<1>5. EventsDistinct' /\ SleepersKept'
  BY <1>1 DEF EventsDistinct, SleepersKept
<1>6. EventsDelivered'
  BY <1>1, <1>3, DeliveredStep
<1>7. Stages'
  <2>1. status[c] # "unborn" /\ todo[c] = {}
    BY <1>1, <1>2 DEF Stages
  <2>2. ~Ending(c)'
    BY <1>3 DEF Ending
  <2> QED BY <1>1, <1>2, <1>3, <2>1, <2>2, StagesStep
<1>8. ASSUME NEW x \in Cell PROVE Owing(x)' = Owing(x)
  <2>1. CASE x = c
    BY <1>1, <1>2, <1>3, <2>1, OwingIs
  <2>2. CASE x # c
    BY <1>3, <2>2, OwingIs
  <2> QED BY <2>1, <2>2
<1>9. co[c] = NoCo
  BY <1>1, <1>2 DEF RunTypes
<1> QED BY <1>2, <1>3, <1>4, <1>5, <1>6, <1>7, <1>8, <1>9

\* A message starts a coroutine that answers nobody.
LEMMA DispatchMessageStep ==
  ASSUME IInv, NEW c \in Cell, DispatchMessage(c)
  PROVE  IInv'
<1> DEFINE m == Head(mailbox[c])
           r == Co(Nil, session[c], "dispatch", m.cmd, m.arg)
<1>1. /\ Receives(c, "message") /\ Run(c, r)
      /\ UNCHANGED <<program, status, session, tasks, event_q, todo, timer, faults, unsent>>
  BY DEF DispatchMessage
<1>2. MailTypes /\ TaskTypes
  BY Parts
<1>3. m \in Mail /\ m.port = "message"
  BY <1>1, <1>2, ReceiveEffect
<1>4. r \in Coroutines /\ r.origin = "dispatch" /\ SourceClaims(r) = {}
  <2>1. session[c] \in Nat /\ m.cmd \in Cmds /\ m.arg \in Args /\ Durable(m)
    BY <1>2, <1>3 DEF TaskTypes, Mail
  <2> QED BY <2>1 DEF Co, Coroutines, Durable, Sources, Sessions, SourceClaims
<1>5. MessageClaims(c, m) = {}
  BY <1>3 DEF MessageClaims
<1> HIDE DEF r
<1>6. /\ MailTypes' /\ TaskTypes' /\ RunTypes' /\ TimerTypes' /\ RestTypes'
      /\ Stages' /\ EventsDistinct' /\ SleepersKept' /\ EventsDelivered'
      /\ \A x \in Cell : Owing(x)' = Owing(x)
      /\ co'[c] = r /\ co[c] = NoCo /\ \A x \in Cell : x # c => co'[x] = co[x]
  BY <1>1, <1>4, StartedStep
<1>7. SameMail
  BY <1>1, <1>2, <1>5, ReceivedNothing
<1>8. SameCo /\ SameOwing
  BY <1>4, <1>6, NothingRuns DEF SameCo, SameOwing
<1>9. Addressed' /\ (NeverLate' => Alone') /\ Answerable'
  BY <1>1, <1>2, <1>7, <1>8, SessionsSame, QuietStep
<1> QED BY <1>6, <1>9, Whole

\* A command, or the launch of a cell, starts a coroutine that answers its source.
LEMMA DispatchCommandStep ==
  ASSUME IInv, NEW c \in Cell, DispatchCommand(c)
  PROVE  IInv'
<1> DEFINE m == Head(mailbox[c])
           r == Co(m.source, m.session, "dispatch", m.cmd, m.arg)
           U == MessageClaims(c, m)
<1>1. PICK port \in {"command", "launch"} : Receives(c, port)
  BY DEF DispatchCommand
<1>2. /\ Run(c, r)
      /\ UNCHANGED <<program, status, session, tasks, event_q, todo, timer, faults, unsent>>
  BY DEF DispatchCommand
<1>3. /\ MailTypes /\ TaskTypes
      /\ Addressed /\ (NeverLate => Alone) /\ Answerable /\ OwingTasks
  BY Parts
<1>4. /\ m \in Mail /\ m.port = port
      /\ MailClaims(c, mailbox[c]) = U \union MailClaims(c, mailbox'[c])
      /\ MailDistinct(c, mailbox[c]) => U \intersect MailClaims(c, mailbox'[c]) = {}
  BY <1>1, <1>3, ReceiveEffect
<1>5. r \in Coroutines /\ r.origin = "dispatch" /\ SourceClaims(r) = U
  <2>1. r \in Coroutines /\ r.origin = "dispatch" /\ r.source = m.source /\ r.session = m.session
    BY <1>4 DEF Co, Coroutines, Durable, Mail
  <2> QED BY <1>4, <2>1 DEF SourceClaims, MessageClaims
<1>6. ASSUME NEW y \in Cell
      PROVE  /\ MailClaims(y, mailbox'[y]) \subseteq MailClaims(y, mailbox[y])
             /\ \A t \in MailClaims(y, mailbox[y]) :
                  t \in MailClaims(y, mailbox'[y]) \/ (y = c /\ t \in U)
             /\ MailDistinct(y, mailbox[y]) => MailDistinct(y, mailbox'[y])
             /\ \A n \in ToSet(mailbox[y]) : n \in ToSet(mailbox'[y]) \/ (y = c /\ n = m)
  BY <1>1, <1>3, ReceivedClaims
<1> HIDE DEF r, U, m
<1>7. /\ MailTypes' /\ TaskTypes' /\ RunTypes' /\ TimerTypes' /\ RestTypes'
      /\ Stages' /\ EventsDistinct' /\ SleepersKept' /\ EventsDelivered'
      /\ \A x \in Cell : Owing(x)' = Owing(x)
      /\ co'[c] = r /\ co[c] = NoCo /\ \A x \in Cell : x # c => co'[x] = co[x]
  BY <1>1, <1>2, <1>5, StartedStep
<1>8. Addressed'
  <2>1. session' \in [Cell -> Nat] /\ \A x \in Cell : session[x] <= session'[x]
    BY <1>2, <1>3, SessionsSame
  <2>2. ASSUME NEW x \in Cell, NEW t \in SourceClaims(co'[x])
        PROVE  t \in SourceClaims(co[x]) \/ Proper(t)
    <3>1. CASE x = c
      <4>1. t \in MailClaims(c, mailbox[c])
        BY <1>4, <1>5, <1>7, <2>2, <3>1
      <4> QED BY <1>3, <4>1, ProperClaims
    <3>2. CASE x # c
      BY <1>7, <2>2, <3>2
    <3> QED BY <3>1, <3>2
  <2> QED BY <1>2, <1>3, <1>6, <2>1, <2>2, AddressedStep
<1>9. ASSUME NeverLate' PROVE Alone'
  <2>1. Alone
    BY <1>2, <1>3, <1>9, NeverLateBefore
  <2>2. \A x \in Cell : MailDistinct(x, mailbox[x]) /\ TasksDistinct(Owing(x))
    BY <2>1, AloneIs
  <2>3. AllDistinct'
    BY <1>6, <1>7, <2>2 DEF AllDistinct
  <2> DEFINE N == {}
  <2>4. Comes(N) /\ Answered /\ "mail" \in Kinds /\ "co" \in Kinds
    BY <1>2 DEF Comes, Answered, Kinds
  <2>5. Leaves(U, "mail", c)
    BY <1>4, <2>2, HeldIs DEF Leaves
  <2>6. ASSUME NEW i \in Kinds, NEW x \in Cell, NEW t \in Held'[i][x]
        PROVE  t \in Held[i][x] \/ (t \in U /\ i = "co" /\ x = c)
    <3>1. CASE i = "mail"
      BY <1>6, <2>6, <3>1, HeldIs
    <3>2. CASE i = "co"
      BY <1>5, <1>7, <2>6, <3>2, HeldIs
    <3>3. CASE i = "task"
      BY <1>7, <2>6, <3>3, HeldIs
    <3> QED BY <3>1, <3>2, <3>3 DEF Kinds
  <2>7. Moves(N, "mail", c, U, "co", c)
    BY <2>6 DEF Moves
  <2> HIDE DEF N
  <2> QED BY <1>3, <2>1, <2>3, <2>4, <2>5, <2>7, AloneStep
<1>10. Answerable'
  <2>1. ASSUME NEW x \in Cell, NEW h \in tasks[x], h.to \in Cell, Pending(x, h)
        PROVE  Pending(x, h)'
    <3> DEFINE t == <<x, h.event>>
               y == h.to
    <3>1. CASE t \in MailClaims(y, mailbox[y])
      <4>1. \/ t \in MailClaims(y, mailbox'[y])
            \/ t \in SourceClaims(co'[y]) /\ co'[y].origin # "last"
        BY <1>5, <1>6, <1>7, <2>1, <3>1
      <4> QED BY <2>1, <4>1, PendingIs
    <3>2. CASE t \in SourceClaims(co[y]) /\ co[y].origin # "last"
      <4>1. y # c
        BY <1>7, <3>2, NothingRuns
      <4> QED BY <1>7, <2>1, <3>2, <4>1, PendingIs
    <3>3. CASE t \in TaskClaims(Owing(y))
      BY <1>7, <2>1, <3>3, PendingIs
    <3>4. CASE Response(h.event) \in ToSet(mailbox[x])
      <4>1. Response(h.event) # m
        BY <1>1, <1>4 DEF Response, Msg
      <4>2. Response(h.event) \in ToSet(mailbox'[x])
        BY <1>6, <3>4, <4>1
      <4> QED BY <2>1, <4>2, PendingIs
    <3> QED BY <2>1, <3>1, <3>2, <3>3, <3>4, PendingIs
  <2> QED BY <1>2, <1>3, <2>1, AnswerableStep
<1> QED BY <1>7, <1>8, <1>9, <1>10, Whole

\* A tick: the sleepers that are due leave the timer for the events.
LEMMA DispatchTickStep ==
  ASSUME IInv, DispatchTick
  PROVE  IInv'
<1> DEFINE m == Head(mailbox[system])
           e == event_q[system]
<1>1. PICK q \in Ascending(Due) : event_q' = [event_q EXCEPT ![system] = @ \o q]
  BY DEF DispatchTick
<1>2. /\ Receives(system, "tick") /\ timer' = Later /\ Enter(system, "deliver")
      /\ UNCHANGED <<program, status, session, tasks, co, todo, faults, unsent>>
  BY DEF DispatchTick
<1>3. /\ MailTypes /\ TaskTypes /\ RunTypes /\ TimerTypes /\ RestTypes
      /\ Stages /\ EventsDistinct /\ SleepersKept /\ EventsDelivered
  BY Parts
<1>4. system \in Cell
  BY CodeAssumption
<1>5. /\ MailTypes' /\ phase[system] = "idle" /\ mailbox[system] # <<>> /\ m \in Mail /\ m.port = "tick"
      /\ \A x \in Cell : x # system => mailbox'[x] = mailbox[x]
  BY <1>2, <1>3, <1>4, ReceiveEffect
<1>6. /\ RunTypes' /\ co'[system] = NoCo /\ co[system] = NoCo /\ phase'[system] = "deliver"
      /\ \A x \in Cell : x # system => phase'[x] = phase[x]
  BY <1>2, <1>3, <1>4, <1>5, EnterEffect
<1>7. MessageClaims(system, m) = {}
  BY <1>5 DEF MessageClaims
<1>8. SameMail
  BY <1>2, <1>3, <1>4, <1>7, ReceivedNothing
<1> HIDE DEF m
<1>9. /\ session[system] \in Nat /\ e \in Seq(Nat) /\ ToSet(e) \subseteq 1 .. session[system]
      /\ timer \subseteq (1 .. session[system]) \X (Nat \ {0})
  BY <1>3, <1>4 DEF TaskTypes, TimerTypes
<1>10. Due \subseteq 1 .. session[system] /\ Due \in SUBSET Nat /\ IsFiniteSet(Due)
  <2>1. Due \subseteq 1 .. session[system]
    BY <1>9 DEF Due
  <2>2. IsFiniteSet(1 .. session[system])
    BY <1>9, FS_Interval
  <2>3. Due \in SUBSET (1 .. session[system])
    BY <2>1
  <2>4. IsFiniteSet(Due)
    BY <2>2, <2>3, FS_Subset
  <2> QED BY <1>9, <2>1, <2>4
<1>11. q \in Seq(Nat) /\ ToSet(q) = Due /\ IsInjective(q)
  BY <1>10, AscendingSet
<1>12. /\ event_q'[system] = e \o q /\ event_q' \in [Cell -> Seq(Nat)]
       /\ \A x \in Cell : x # system => event_q'[x] = event_q[x]
  <2>1. e \o q \in Seq(Nat)
    BY <1>9, <1>11, ConcatProperties
  <2> QED BY <1>1, <1>3, <1>4, <2>1 DEF TaskTypes
<1> DEFINE W == {k.event : k \in {j \in tasks[system] : j.why = "wakeup"}}
           P == {p[1] : p \in timer}
           Q == ToSet(e)
<1>13. W = P \union Q /\ P \intersect Q = {}
  BY <1>3 DEF SleepersKept
<1> HIDE DEF e
<1>14. Due \subseteq P
  BY DEF Due
<1>15. ToSet(event_q'[system]) = Q \union Due /\ IsInjective(event_q'[system])
  <2>1. IsInjective(e) /\ Q \intersect Due = {}
    BY <1>3, <1>13, <1>14 DEF EventsDistinct, e
  <2>2. ToSet(e \o q) = Q \union Due /\ IsInjective(e \o q)
    BY <1>9, <1>11, <2>1, SetOfConcat
  <2> QED BY <1>12, <2>2
<1>16. TaskTypes'
  <2>1. \A x \in Cell : ToSet(event_q'[x]) \subseteq 1 .. session[x]
    BY <1>3, <1>9, <1>10, <1>12, <1>15 DEF TaskTypes
  <2> QED BY <1>2, <1>3, <1>12, <2>1, TasksSame DEF TaskTypes
<1>17. \A p \in Later : \E r \in timer : r[2] > 1 /\ p = <<r[1], r[2] - 1>>
  BY DEF Later
<1>18. TimerTypes'
  <2>1. ASSUME NEW r \in timer, r[2] > 1
        PROVE  <<r[1], r[2] - 1>> \in (1 .. session[system]) \X (Nat \ {0})
    <3>1. r[1] \in 1 .. session[system] /\ r[2] \in Nat /\ r[2] - 1 \in Nat \ {0}
      BY <1>9, <2>1
    <3> QED BY <3>1
  <2> QED BY <1>2, <1>17, <2>1 DEF TimerTypes
<1>19. \A r, p \in timer : r[1] = p[1] => r = p
  BY <1>3 DEF EventsDistinct
<1>20. TicksDistinct'
  BY <1>2, <1>17, <1>19 DEF TicksDistinct
<1>21. EventsDistinct'
  <2>1. \A i, j \in tasks[system] : i.event = j.event => i = j
    BY <1>3, <1>4 DEF EventsDistinct
  <2>2. ASSUME NEW j \in tasks[system], j.event \in Q \union Due PROVE j.why = "wakeup"
    <3>1. j.event \in W
      BY <1>13, <1>14, <2>2
    <3>2. PICK k \in tasks[system] : k.why = "wakeup" /\ k.event = j.event
      BY <3>1
    <3> QED BY <2>1, <3>2
  <2> QED BY <1>2, <1>3, <1>4, <1>12, <1>15, <1>20, <2>1, <2>2, EventsStep
<1>22. SleepersKept'
  <2> DEFINE L == {p[1] : p \in Later}
  <2>1. L \union Due = P
    <3>1. ASSUME NEW r \in timer PROVE r[1] \in L \union Due
      <4>1. r[2] \in Nat /\ (r[2] = 1 \/ r[2] > 1)
        BY <1>9
      <4>2. CASE r[2] = 1
        BY <4>2 DEF Due
      <4>3. CASE r[2] > 1
        <5>1. <<r[1], r[2] - 1>> \in Later /\ <<r[1], r[2] - 1>>[1] = r[1]
          BY <4>3 DEF Later
        <5> QED BY <5>1
      <4> QED BY <4>1, <4>2, <4>3
    <3>2. L \subseteq P
      BY <1>17
    <3> QED BY <1>14, <3>1, <3>2
  <2>2. L \intersect Due = {}
    <3>1. ASSUME NEW r \in timer, NEW p \in timer, r[2] > 1, p[2] = 1 PROVE r[1] # p[1]
      BY <1>19, <3>1
    <3> QED BY <1>17, <3>1 DEF Due
  <2>3. {k.event : k \in {j \in tasks'[system] : j.why = "wakeup"}} = W /\ {p[1] : p \in timer'} = L
    BY <1>2
  <2> HIDE DEF L, W, P, Q
  <2>4. W = L \union (Q \union Due) /\ L \intersect (Q \union Due) = {}
    BY <1>13, <2>1, <2>2
  <2> QED BY <1>15, <2>3, <2>4 DEF SleepersKept
<1>23. EventsDelivered'
  BY <1>2, <1>3, <1>4, <1>6, <1>12, DeliveredStep
<1>24. Stages'
  <2>1. status[system] # "unborn" /\ todo[system] = {}
    BY <1>3, <1>4, <1>5 DEF Stages
  <2>2. ~Ending(system)'
    BY <1>6, NothingRuns DEF Ending
  <2> QED BY <1>2, <1>3, <1>4, <1>5, <1>6, <2>1, <2>2, NothingRuns, StagesStep
<1>25. RestTypes'
  BY <1>2, <1>3 DEF RestTypes
<1>26. SameCo /\ SameOwing
  <2>1. Owing(system)' = Owing(system)
    BY <1>2, <1>3, <1>4, <1>5, <1>6, OwingIs
  <2>2. \A x \in Cell : x # system => Owing(x)' = Owing(x)
    BY <1>2, <1>6, OwingIs
  <2> QED BY <1>2, <2>1, <2>2, CoSame DEF SameOwing
<1>27. Addressed' /\ (NeverLate' => Alone') /\ Answerable'
  BY <1>2, <1>3, <1>8, <1>26, SessionsSame, QuietStep
<1> QED BY <1>5, <1>6, <1>16, <1>18, <1>21, <1>22, <1>23, <1>24, <1>25, <1>27, Whole

-----------------------------------------------------------------------------
(* The dispatcher: the events                                              *)

\* The event at the head of the queue is taken.
LEMMA EventTaken ==
  ASSUME TaskTypes, NEW c \in Cell, event_q[c] # <<>>,
         event_q' = [event_q EXCEPT ![c] = Tail(@)]
  PROVE  /\ event_q' \in [Cell -> Seq(Nat)]
         /\ \A x \in Cell : x # c => event_q'[x] = event_q[x]
         /\ ToSet(event_q[c]) = {Head(event_q[c])} \union ToSet(event_q'[c])
         /\ IsInjective(event_q[c]) =>
              IsInjective(event_q'[c]) /\ Head(event_q[c]) \notin ToSet(event_q'[c])
         /\ \A x \in Cell : ToSet(event_q'[x]) \subseteq ToSet(event_q[x])
<1> DEFINE q == event_q[c]
<1>1. q \in Seq(Nat) /\ q # <<>> /\ event_q' = [event_q EXCEPT ![c] = Tail(q)]
  BY DEF TaskTypes
<1>2. Tail(q) \in Seq(Nat)
  BY <1>1, HeadTailProperties
<1>3. event_q' \in [Cell -> Seq(Nat)] /\ event_q'[c] = Tail(q)
      /\ \A x \in Cell : x # c => event_q'[x] = event_q[x]
  BY <1>1, <1>2 DEF TaskTypes
<1> HIDE DEF q
<1>4. /\ ToSet(q) = {Head(q)} \union ToSet(Tail(q))
      /\ IsInjective(q) => IsInjective(Tail(q)) /\ Head(q) \notin ToSet(Tail(q))
  BY <1>1, SetOfTail
<1>5. ToSet(event_q'[c]) \subseteq ToSet(q)
  BY <1>3, <1>4
<1>6. \A x \in Cell : ToSet(event_q'[x]) \subseteq ToSet(event_q[x])
  BY <1>3, <1>5 DEF q
<1> QED BY <1>3, <1>4, <1>6 DEF q

\* An event that no coroutine waits for any more.
LEMMA DeliverUnknownStep ==
  ASSUME IInv, NEW c \in Cell, Deliver(c), ~Known(c, Head(event_q[c]))
  PROVE  IInv'
<1>1. /\ phase[c] \in {"deliver", "last"} /\ event_q[c] # <<>>
      /\ event_q' = [event_q EXCEPT ![c] = Tail(@)]
      /\ UNCHANGED <<program, status, mailbox, session, tasks, phase, co, todo, timer, faults, unsent>>
  BY DEF Deliver
<1>2. /\ MailTypes /\ TaskTypes /\ RunTypes /\ TimerTypes /\ RestTypes
      /\ Stages /\ EventsDistinct /\ SleepersKept /\ EventsDelivered
  BY Parts
<1>3. /\ event_q' \in [Cell -> Seq(Nat)]
      /\ \A x \in Cell : x # c => event_q'[x] = event_q[x]
      /\ ToSet(event_q[c]) = {Head(event_q[c])} \union ToSet(event_q'[c])
      /\ \A x \in Cell : ToSet(event_q'[x]) \subseteq ToSet(event_q[x])
  BY <1>1, <1>2, EventTaken
<1>4. c # system
  <2>1. ASSUME c = system PROVE FALSE
    <3>1. Head(event_q[c]) \in {k.event : k \in {j \in tasks[c] : j.why = "wakeup"}}
      BY <1>2, <1>3, <2>1 DEF SleepersKept
    <3> QED BY <3>1 DEF Known
  <2> QED BY <2>1
<1>5. TaskTypes'
  <2>1. \A x \in Cell : ToSet(event_q'[x]) \subseteq 1 .. session[x]
    BY <1>2, <1>3 DEF TaskTypes
  <2> QED BY <1>1, <1>2, <1>3, <2>1, TasksSame DEF TaskTypes
<1>6. MailTypes' /\ RunTypes' /\ TimerTypes' /\ RestTypes' /\ Stages'
  BY <1>1, <1>2 DEF MailTypes, RunTypes, TimerTypes, RestTypes, Stages, Ending
<1>7. EventsDistinct'
  <2>1. /\ \A i, j \in tasks'[c] : i.event = j.event => i = j
        /\ \A j \in tasks'[c] : j.event \in ToSet(event_q'[c]) => j.why = "wakeup"
    BY <1>1, <1>2, <1>3 DEF EventsDistinct
  <2> QED BY <1>1, <1>2, <1>3, <1>4, <2>1, TicksSame, EventsStep
<1>8. SleepersKept'
  <2>1. event_q'[system] = event_q[system]
    BY <1>3, <1>4, CodeAssumption
  <2> QED BY <1>1, <1>2, <2>1, SleepersSame
<1>9. EventsDelivered'
  BY <1>1, <1>2, <1>3, DeliveredStep
<1>10. SameMail /\ SameCo /\ SameOwing
  <2>1. \A x \in Cell : Owing(x)' = Owing(x)
    BY <1>1, OwingIs
  <2> QED BY <1>1, <2>1, MailSame, CoSame DEF SameOwing
<1>11. Addressed' /\ (NeverLate' => Alone') /\ Answerable'
  BY <1>1, <1>2, <1>10, SessionsSame, QuietStep
<1> QED BY <1>5, <1>6, <1>7, <1>8, <1>9, <1>11, Whole

\* An event resumes its coroutine; after the cell's exit, this is too late.
LEMMA DeliverKnownStep ==
  ASSUME IInv, NEW c \in Cell, Deliver(c), Known(c, Head(event_q[c]))
  PROVE  IInv'
<1> DEFINE e == Head(event_q[c])
<1>1. /\ phase[c] \in {"deliver", "last"} /\ event_q[c] # <<>>
      /\ event_q' = [event_q EXCEPT ![c] = Tail(@)]
      /\ Resume(c, e, phase[c])
      /\ IF phase[c] = "last" THEN Fault(c, "late") ELSE UNCHANGED faults
      /\ UNCHANGED <<program, status, mailbox, session, todo, timer, unsent>>
  BY DEF Deliver, InPhase
<1>2. PICK k \in tasks[c] : /\ k.event = e
                            /\ Run(c, Co(k.source, k.session, phase[c], "code", Nil))
                            /\ tasks' = [tasks EXCEPT ![c] = @ \ {k}]
  BY <1>1 DEF Resume
<1> DEFINE r == Co(k.source, k.session, phase[c], "code", Nil)
           U == SourceClaims(k)
<1>3. /\ MailTypes /\ TaskTypes /\ RunTypes /\ TimerTypes /\ RestTypes
      /\ Stages /\ EventsDistinct /\ SleepersKept /\ EventsDelivered
      /\ Addressed /\ (NeverLate => Alone) /\ Answerable /\ OwingTasks
  BY Parts
<1>4. r \in Coroutines /\ SourceClaims(r) = U /\ r.origin = phase[c]
  <2>1. k \in Waiting
    BY <1>3 DEF TaskTypes
  <2> QED BY <1>1, <2>1 DEF Waiting, Co, Coroutines, Durable, Cmds, Args, Sources, SourceClaims
<1>5. /\ event_q' \in [Cell -> Seq(Nat)]
      /\ \A x \in Cell : x # c => event_q'[x] = event_q[x]
      /\ ToSet(event_q[c]) = {e} \union ToSet(event_q'[c])
      /\ IsInjective(event_q[c]) =>
           IsInjective(event_q'[c]) /\ e \notin ToSet(event_q'[c])
      /\ \A x \in Cell : ToSet(event_q'[x]) \subseteq ToSet(event_q[x])
  BY <1>1, <1>3, EventTaken
<1> HIDE DEF e, r, U
<1>6. /\ RunTypes' /\ co'[c] = r /\ phase'[c] = "run"
      /\ \A x \in Cell : x # c => co'[x] = co[x] /\ phase'[x] = phase[x]
  BY <1>2, <1>3, <1>4, RunEffect DEF r
<1>7. co[c] = NoCo
  BY <1>1, <1>3 DEF RunTypes
<1>8. todo[c] = {} /\ status[c] # "unborn"
  BY <1>1, <1>3 DEF Stages
<1>9. /\ TaskTypes' /\ tasks'[c] = tasks[c] \ {k}
      /\ \A x \in Cell : x # c => tasks'[x] = tasks[x]
  BY <1>1, <1>2, <1>3, <1>5, <1>8, TaskGone
<1>10. k.why = "wakeup"
  BY <1>2, <1>3, <1>5 DEF EventsDistinct
<1>11. /\ Owing(c) = IF phase[c] = "last" THEN {} ELSE tasks[c]
       /\ Owing(c)' = IF phase[c] = "last" THEN {} ELSE tasks'[c]
       /\ \A x \in Cell : x # c => Owing(x)' = Owing(x)
  <2>1. Owing(c) = IF phase[c] = "last" THEN {} ELSE tasks[c]
    BY <1>1, <1>3, OwingIs
  <2>2. Owing(c)' = IF phase[c] = "last" THEN {} ELSE tasks'[c]
    BY <1>4, <1>6, OwingIs
  <2>3. \A x \in Cell : x # c => Owing(x)' = Owing(x)
    BY <1>1, <1>6, <1>9, OwingIs
  <2> QED BY <2>1, <2>2, <2>3
<1>12. /\ faults' \in [Cell -> SUBSET {"exit", "dispatch", "late"}]
       /\ \A x \in Cell : faults[x] \subseteq faults'[x]
       /\ \A x \in Cell : x # c => faults'[x] = faults[x]
       /\ phase[c] = "last" => "late" \in faults'[c]
  <2>1. CASE phase[c] = "last"
    <3>1. faults' = [faults EXCEPT ![c] = @ \union {"late"}]
      BY <1>1, <2>1 DEF Fault
    <3>2. faults \in [Cell -> SUBSET {"exit", "dispatch", "late"}]
      BY <1>3 DEF RestTypes
    <3> QED BY <3>1, <3>2
  <2>2. CASE phase[c] # "last"
    BY <1>1, <1>3, <2>2 DEF RestTypes
  <2> QED BY <2>1, <2>2
<1>13. MailTypes' /\ TimerTypes' /\ RestTypes'
  BY <1>1, <1>3, <1>12 DEF MailTypes, TimerTypes, RestTypes
<1>14. Stages'
  <2>1. Ending(c)' => status'[c] \in {"closed", "dead"} /\ mailbox'[c] = <<>>
    <3>1. ASSUME Ending(c)' PROVE phase[c] = "last"
      BY <1>1, <1>4, <1>6, <3>1 DEF Ending
    <3> QED BY <1>1, <1>3, <3>1 DEF Stages, Ending
  <2> QED BY <1>1, <1>3, <1>4, <1>6, <1>8, <1>9, <1>12, <2>1, StagesStep
<1>15. EventsDistinct'
  <2>1. /\ \A i, j \in tasks'[c] : i.event = j.event => i = j
        /\ \A j \in tasks'[c] : j.event \in ToSet(event_q'[c]) => j.why = "wakeup"
        /\ c = system => IsInjective(event_q'[c])
    BY <1>3, <1>5, <1>9 DEF EventsDistinct
  <2> QED BY <1>1, <1>3, <1>5, <1>9, <2>1, TicksSame, EventsStep
<1>16. SleepersKept'
  <2>1. CASE c # system
    <3>1. tasks'[system] = tasks[system] /\ event_q'[system] = event_q[system]
      BY <1>5, <1>9, <2>1, CodeAssumption
    <3> QED BY <1>1, <1>3, <3>1, SleepersSame
  <2>2. CASE c = system
    <3> DEFINE W == {j.event : j \in {i \in tasks[system] : i.why = "wakeup"}}
               P == {p[1] : p \in timer}
               Q == ToSet(event_q[system])
               R == ToSet(event_q'[system])
    <3>1. W = P \union Q /\ P \intersect Q = {}
      BY <1>3 DEF SleepersKept
    <3>2. Q = {e} \union R /\ e \notin R
      BY <1>3, <1>5, <2>2 DEF EventsDistinct
    <3>3. \A i, j \in tasks[system] : i.event = j.event => i = j
      BY <1>3, CodeAssumption DEF EventsDistinct
    <3>4. {j.event : j \in {i \in tasks'[system] : i.why = "wakeup"}} = W \ {e}
      BY <1>2, <1>9, <1>10, <2>2, <3>3
    <3>5. {p[1] : p \in timer'} = P
      BY <1>1
    <3> HIDE DEF W, P, Q
    <3>6. W \ {e} = P \union R /\ P \intersect R = {}
      BY <3>1, <3>2
    <3> QED BY <3>4, <3>5, <3>6 DEF SleepersKept
  <2> QED BY <2>1, <2>2
<1>17. EventsDelivered'
  BY <1>3, <1>5, <1>6, <1>12, DeliveredStep
<1>18. /\ U \subseteq TaskClaims(tasks[c]) /\ TaskClaims(tasks'[c]) \subseteq TaskClaims(tasks[c])
       /\ \A t \in TaskClaims(tasks[c]) : t \in TaskClaims(tasks'[c]) \/ t \in U
       /\ TasksDistinct(tasks[c]) =>
            TasksDistinct(tasks'[c]) /\ U \intersect TaskClaims(tasks'[c]) = {}
  BY <1>9, ClaimsWithout DEF U
<1>19. Addressed'
  <2>1. session' \in [Cell -> Nat] /\ \A x \in Cell : session[x] <= session'[x]
    BY <1>1, <1>3, SessionsSame
  <2>2. \A x \in Cell : \A t \in SourceClaims(co'[x]) : t \in SourceClaims(co[x]) \/ Proper(t)
    BY <1>3, <1>4, <1>6, <1>18, ProperClaims
  <2>3. \A x \in Cell : \A t \in TaskClaims(tasks'[x]) : t \in TaskClaims(tasks[x])
    BY <1>9, <1>18
  <2>4. \A x \in Cell : \A j \in tasks'[x] : j \in tasks[x]
    BY <1>9
  <2>5. UNCHANGED mailbox
    BY <1>1
  <2> QED BY <1>3, <2>1, <2>2, <2>3, <2>4, <2>5, AddressedStep
<1>20. ASSUME NeverLate' PROVE Alone'
  <2>1. Alone
    BY <1>3, <1>12, <1>20, NeverLateBefore
  <2>2. phase[c] # "last"
    BY <1>12, <1>20 DEF NeverLate
  <2>3. Owing(c) = tasks[c] /\ Owing(c)' = tasks'[c]
    BY <1>11, <2>2
  <2>4. \A x \in Cell : MailDistinct(x, mailbox[x]) /\ TasksDistinct(Owing(x))
    BY <2>1, AloneIs
  <2>5. TasksDistinct(tasks'[c]) /\ U \intersect TaskClaims(tasks'[c]) = {}
    <3>1. TasksDistinct(tasks[c])
      BY <2>3, <2>4
    <3> QED BY <1>18, <3>1
  <2>6. AllDistinct'
    BY <1>1, <1>11, <2>3, <2>4, <2>5 DEF AllDistinct
  <2> DEFINE N == {}
  <2>7. "mail" \in Kinds /\ "task" \in Kinds /\ "co" \in Kinds /\ Comes(N)
    BY DEF Kinds, Comes
  <2>8. Leaves(U, "task", c)
    BY <1>18, <2>3, <2>5, HeldIs DEF Leaves
  <2>9. ASSUME NEW i \in Kinds, NEW x \in Cell, NEW t \in Held'[i][x]
        PROVE  t \in Held[i][x] \/ (t \in U /\ i = "co" /\ x = c)
    <3>1. CASE i = "mail"
      BY <1>1, <2>9, <3>1, HeldIs
    <3>2. CASE i = "co"
      BY <1>4, <1>6, <2>9, <3>2, HeldIs
    <3>3. CASE i = "task"
      BY <1>11, <1>18, <2>3, <2>9, <3>3, HeldIs
    <3> QED BY <3>1, <3>2, <3>3 DEF Kinds
  <2>10. Moves(N, "mail", c, U, "co", c)
    BY <2>9 DEF Moves
  <2>11. Answered
    BY <1>9, <1>10 DEF Answered
  <2> HIDE DEF N
  <2> QED BY <1>3, <2>1, <2>6, <2>7, <2>8, <2>10, <2>11, AloneStep
<1>21. Answerable'
  <2>1. ASSUME NEW x \in Cell, NEW t \in SourceClaims(co[x]), co[x].origin # "last"
        PROVE  t \in SourceClaims(co'[x]) /\ co'[x].origin # "last"
    <3>1. x # c
      BY <1>7, <2>1, NothingRuns
    <3> QED BY <1>6, <2>1, <3>1
  <2>2. ASSUME NEW x \in Cell, NEW t \in TaskClaims(Owing(x))
        PROVE  \/ t \in TaskClaims(Owing(x)')
               \/ t \in SourceClaims(co'[x]) /\ co'[x].origin # "last"
    <3>1. CASE x # c
      BY <1>11, <2>2, <3>1
    <3>2. CASE x = c
      <4>1. phase[c] # "last"
        BY <1>11, <2>2, <3>2 DEF TaskClaims
      <4> QED BY <1>4, <1>6, <1>11, <1>18, <2>2, <3>2, <4>1
    <3> QED BY <3>1, <3>2
  <2>3. ASSUME NEW x \in Cell, NEW h \in tasks[x], h.to \in Cell, Pending(x, h)
        PROVE  Pending(x, h)'
    BY <1>1, <2>1, <2>2, <2>3, PendingIs
  <2>4. \A x \in Cell : \A h \in tasks'[x] : h \in tasks[x]
    BY <1>9
  <2> QED BY <1>1, <1>3, <1>12, <2>3, <2>4, AnswerableStep
<1> QED BY <1>6, <1>9, <1>13, <1>14, <1>15, <1>16, <1>17, <1>19, <1>20, <1>21, Whole

\* The last event has been delivered.
LEMMA DeliveredAllStep ==
  ASSUME IInv, NEW c \in Cell, Delivered(c)
  PROVE  IInv'
<1>1. /\ phase[c] \in {"deliver", "last"} /\ event_q[c] = <<>>
      /\ IF phase[c] = "last"
           THEN status' = [status EXCEPT ![c] = "dead"] /\ Enter(c, "dead")
           ELSE Enter(c, "idle") /\ UNCHANGED status
      /\ UNCHANGED <<program, mailbox, session, tasks, event_q, co, todo, timer, faults, unsent>>
  BY DEF Delivered, InPhase
<1>2. /\ MailTypes /\ TaskTypes /\ RunTypes /\ TimerTypes /\ RestTypes
      /\ Stages /\ EventsDistinct /\ SleepersKept /\ EventsDelivered
  BY Parts
<1>3. /\ RunTypes' /\ co'[c] = NoCo /\ co[c] = NoCo
      /\ phase'[c] = IF phase[c] = "last" THEN "dead" ELSE "idle"
      /\ \A x \in Cell : x # c => phase'[x] = phase[x]
  <2>1. CASE phase[c] = "last"
    BY <1>1, <1>2, <2>1, EnterEffect
  <2>2. CASE phase[c] # "last"
    BY <1>1, <1>2, <2>2, EnterEffect
  <2> QED BY <2>1, <2>2
<1>4. /\ status' \in [Cell -> {"unborn", "open", "closed", "dead"}]
      /\ \A x \in Cell : x # c => status'[x] = status[x]
      /\ phase[c] = "last" => status'[c] = "dead"
      /\ phase[c] # "last" => status'[c] = status[c]
  BY <1>1, <1>2 DEF RestTypes
<1>5. MailTypes' /\ TaskTypes' /\ TimerTypes' /\ RestTypes' /\ EventsDistinct' /\ SleepersKept'
  BY <1>1, <1>2, <1>4 DEF MailTypes, TaskTypes, TimerTypes, RestTypes, EventsDistinct, SleepersKept
<1>6. EventsDelivered'
  BY <1>1, <1>2, <1>3, DeliveredStep
<1>7. Stages'
  <2>1. status[c] # "unborn" /\ todo[c] = {}
    BY <1>1, <1>2 DEF Stages
  <2>2. ASSUME Ending(c)' PROVE status'[c] \in {"closed", "dead"} /\ mailbox'[c] = <<>>
    <3>1. phase[c] = "last"
      BY <1>3, <2>2, NothingRuns DEF Ending
    <3> QED BY <1>1, <1>2, <1>4, <3>1 DEF Stages, Ending
  <2>3. status'[c] # "unborn"
    BY <1>1, <1>4, <2>1
  <2> QED BY <1>1, <1>2, <1>3, <1>4, <2>1, <2>2, <2>3, NothingRuns, StagesStep
<1>8. SameMail /\ SameCo /\ SameOwing
  <2>1. Owing(c)' = Owing(c)
    BY <1>1, <1>2, <1>3, OwingIs
  <2>2. \A x \in Cell : x # c => Owing(x)' = Owing(x)
    BY <1>1, <1>3, OwingIs
  <2> QED BY <1>1, <2>1, <2>2, MailSame, CoSame DEF SameOwing
<1>9. \A x \in Cell : status'[x] = "open" => status[x] = "open"
  BY <1>1, <1>4
<1>10. Addressed' /\ (NeverLate' => Alone') /\ Answerable'
  BY <1>1, <1>2, <1>8, <1>9, SessionsSame, QuietStep
<1> QED BY <1>3, <1>5, <1>6, <1>7, <1>10, Whole

-----------------------------------------------------------------------------
(* The exit of a killed cell                                               *)

\* The exit begins: what the cell owes is what it has to do.
LEMMA BeginExitStep ==
  ASSUME IInv, NEW c \in Cell, BeginExit(c)
  PROVE  IInv'
<1> DEFINE T == {k \in tasks[c] : k.session # Nil}
<1>1. /\ phase[c] = "idle" /\ status[c] = "closed" /\ mailbox[c] = <<>>
      /\ todo' = [todo EXCEPT ![c] = T] /\ Enter(c, "exit")
      /\ UNCHANGED <<program, status, mailbox, session, tasks, event_q, co, timer, faults, unsent>>
  BY DEF BeginExit, InPhase
<1>2. /\ MailTypes /\ TaskTypes /\ RunTypes /\ TimerTypes /\ RestTypes
      /\ Stages /\ EventsDistinct /\ SleepersKept /\ EventsDelivered /\ Addressed
  BY Parts
<1>3. /\ RunTypes' /\ co'[c] = NoCo /\ co[c] = NoCo /\ phase'[c] = "exit"
      /\ \A x \in Cell : x # c => phase'[x] = phase[x]
  BY <1>1, <1>2, EnterEffect
<1>4. /\ todo' \in [Cell -> SUBSET Waiting] /\ todo'[c] = T /\ T \subseteq tasks[c]
      /\ \A x \in Cell : x # c => todo'[x] = todo[x]
  <2>1. T \in SUBSET Waiting /\ T \subseteq tasks[c]
    BY <1>2 DEF TaskTypes
  <2> HIDE DEF T
  <2> QED BY <1>1, <1>2, <2>1 DEF TaskTypes
<1>5. TaskTypes'
  <2>1. \A x \in Cell : ToSet(event_q'[x]) \subseteq 1 .. session[x]
    BY <1>1, <1>2 DEF TaskTypes
  <2>2. \A x \in Cell : todo'[x] \subseteq tasks[x]
    BY <1>2, <1>4 DEF TaskTypes
  <2> QED BY <1>1, <1>2, <1>4, <2>1, <2>2, TasksSame DEF TaskTypes
<1>6. MailTypes' /\ TimerTypes' /\ RestTypes' /\ EventsDistinct' /\ SleepersKept'
  BY <1>1, <1>2 DEF MailTypes, TimerTypes, RestTypes, EventsDistinct, SleepersKept
<1>7. EventsDelivered'
  BY <1>1, <1>2, <1>3, DeliveredStep
<1>8. Stages'
  BY <1>1, <1>2, <1>3, <1>4, NothingRuns, StagesStep
<1>9. \* A task without a session has no source: there is nothing it has to answer.
      TaskClaims(T) = TaskClaims(tasks[c]) /\ (TasksDistinct(tasks[c]) => TasksDistinct(T))
  <2>1. ASSUME NEW t \in TaskClaims(tasks[c]) PROVE t \in TaskClaims(T)
    <3>1. PICK k \in tasks[c] : t \in SourceClaims(k)
      BY <2>1 DEF TaskClaims
    <3>2. Proper(t) /\ t = <<k.source, k.session>>
      BY <1>2, <3>1, ProperClaims DEF SourceClaims
    <3>3. k.session \in Nat
      <4>1. t[1] \in Cell /\ t[2] \in 1 .. session[t[1]] /\ t[2] = k.session
        BY <3>2 DEF Proper
      <4>2. session[t[1]] \in Nat
        BY <1>2, <4>1 DEF TaskTypes
      <4> QED BY <4>1, <4>2
    <3>4. k \in T
      BY <3>3, CodeAssumption
    <3> QED BY <3>1, <3>4 DEF TaskClaims
  <2>2. TaskClaims(T) \subseteq TaskClaims(tasks[c])
    BY DEF TaskClaims
  <2>3. TasksDistinct(tasks[c]) => TasksDistinct(T)
    BY DEF TasksDistinct
  <2> QED BY <2>1, <2>2, <2>3
<1> HIDE DEF T
<1>10. SameMail /\ SameCo /\ SameOwing
  <2>1. Owing(c) = tasks[c] /\ Owing(c)' = T
    BY <1>1, <1>2, <1>3, <1>4, OwingIs
  <2>2. \A x \in Cell : x # c => Owing(x)' = Owing(x)
    BY <1>1, <1>3, <1>4, OwingIs
  <2> QED BY <1>1, <1>9, <2>1, <2>2, MailSame, CoSame DEF SameOwing
<1>11. Addressed' /\ (NeverLate' => Alone') /\ Answerable'
  BY <1>1, <1>2, <1>10, SessionsSame, QuietStep
<1> QED BY <1>3, <1>5, <1>6, <1>7, <1>8, <1>11, Whole

\* The exit ends: the cell owes nothing.
LEMMA EndExitStep ==
  ASSUME IInv, NEW c \in Cell, EndExit(c)
  PROVE  IInv'
<1>1. /\ phase[c] = "exit" /\ todo[c] = {} /\ Enter(c, "last")
      /\ UNCHANGED <<program, status, mailbox, session, tasks, event_q, co, todo, timer, faults, unsent>>
  BY DEF EndExit, InPhase
<1>2. /\ MailTypes /\ TaskTypes /\ RunTypes /\ TimerTypes /\ RestTypes
      /\ Stages /\ EventsDistinct /\ SleepersKept /\ EventsDelivered
  BY Parts
<1>3. /\ RunTypes' /\ co'[c] = NoCo /\ co[c] = NoCo /\ phase'[c] = "last"
      /\ \A x \in Cell : x # c => phase'[x] = phase[x]
  BY <1>1, <1>2, EnterEffect
<1>4. MailTypes' /\ TaskTypes' /\ TimerTypes' /\ RestTypes' /\ EventsDistinct' /\ SleepersKept'
  BY <1>1, <1>2 DEF MailTypes, TaskTypes, TimerTypes, RestTypes, EventsDistinct, SleepersKept
<1>5. EventsDelivered'
  BY <1>1, <1>2, <1>3, DeliveredStep
<1>6. Stages'
  <2>1. status[c] \in {"closed", "dead"} /\ mailbox[c] = <<>>
    BY <1>1, <1>2 DEF Stages, Ending
  <2> QED BY <1>1, <1>2, <1>3, <2>1, NothingRuns, StagesStep
<1>7. SameMail /\ SameCo /\ SameOwing
  <2>1. Owing(c)' = Owing(c)
    BY <1>1, <1>2, <1>3, OwingIs
  <2>2. \A x \in Cell : x # c => Owing(x)' = Owing(x)
    BY <1>1, <1>3, OwingIs
  <2> QED BY <1>1, <2>1, <2>2, MailSame, CoSame DEF SameOwing
<1>8. Addressed' /\ (NeverLate' => Alone') /\ Answerable'
  BY <1>1, <1>2, <1>7, SessionsSame, QuietStep
<1> QED BY <1>3, <1>4, <1>5, <1>6, <1>8, Whole

\* The exit is ended by an error.
LEMMA AbortExitStep ==
  ASSUME IInv, NEW c \in Cell, NEW k \in todo[c], AbortExit(c, k)
  PROVE  IInv'
<1>1. /\ phase[c] = "exit" /\ todo' = [todo EXCEPT ![c] = {}]
      /\ status' = [status EXCEPT ![c] = "dead"]
      /\ faults' = [faults EXCEPT ![c] = @ \union {"exit"}] /\ Enter(c, "dead")
      /\ UNCHANGED <<program, mailbox, session, tasks, event_q, co, timer, unsent>>
  BY DEF AbortExit, InPhase, Fault
<1>2. /\ MailTypes /\ TaskTypes /\ RunTypes /\ TimerTypes /\ RestTypes
      /\ Stages /\ EventsDistinct /\ SleepersKept /\ EventsDelivered
      /\ Addressed /\ (NeverLate => Alone) /\ Answerable /\ OwingTasks
  BY Parts
<1>3. /\ RunTypes' /\ co'[c] = NoCo /\ co[c] = NoCo /\ phase'[c] = "dead"
      /\ \A x \in Cell : x # c => phase'[x] = phase[x]
  BY <1>1, <1>2, EnterEffect
<1>4. /\ todo' \in [Cell -> SUBSET Waiting] /\ todo'[c] = {}
      /\ \A x \in Cell : x # c => todo'[x] = todo[x]
  BY <1>1, <1>2 DEF TaskTypes
<1>5. TaskTypes'
  <2>1. \A x \in Cell : ToSet(event_q'[x]) \subseteq 1 .. session[x]
    BY <1>1, <1>2 DEF TaskTypes
  <2>2. \A x \in Cell : todo'[x] \subseteq tasks[x]
    BY <1>2, <1>4 DEF TaskTypes
  <2> QED BY <1>1, <1>2, <1>4, <2>1, <2>2, TasksSame DEF TaskTypes
<1>6. /\ RestTypes' /\ status'[c] = "dead" /\ \A x \in Cell : x # c => status'[x] = status[x]
      /\ \A x \in Cell : faults[x] \subseteq faults'[x]
      /\ \A x \in Cell : x # c => faults'[x] = faults[x]
      /\ "exit" \in faults'[c]
  BY <1>1, <1>2 DEF RestTypes
<1>7. MailTypes' /\ TimerTypes' /\ EventsDistinct' /\ SleepersKept'
  BY <1>1, <1>2 DEF MailTypes, TimerTypes, EventsDistinct, SleepersKept
<1>8. EventsDelivered'
  BY <1>1, <1>2, <1>3, <1>6, DeliveredStep
<1>9. Stages'
  <2>1. mailbox[c] = <<>>
    BY <1>1, <1>2 DEF Stages, Ending
  <2> QED BY <1>1, <1>2, <1>3, <1>4, <1>6, <2>1, NothingRuns, StagesStep
<1>10. Owing(c)' = {} /\ \A x \in Cell : x # c => Owing(x)' = Owing(x)
  <2>1. Owing(c)' = {}
    BY <1>3, OwingIs
  <2>2. \A x \in Cell : x # c => Owing(x)' = Owing(x)
    BY <1>1, <1>3, <1>4, OwingIs
  <2> QED BY <2>1, <2>2
<1>11. Addressed'
  <2>1. session' \in [Cell -> Nat] /\ \A x \in Cell : session[x] <= session'[x]
    BY <1>1, <1>2, SessionsSame
  <2> QED BY <1>1, <1>2, <2>1, AddressedStep
<1>12. ASSUME NeverLate' PROVE Alone'
  <2>1. Alone
    BY <1>2, <1>6, <1>12, NeverLateBefore
  <2>2. \A x \in Cell : MailDistinct(x, mailbox[x]) /\ TasksDistinct(Owing(x))
    BY <2>1, AloneIs
  <2>3. TaskClaims({}) = {} /\ TasksDistinct({})
    BY DEF TaskClaims, TasksDistinct
  <2>4. AllDistinct'
    BY <1>1, <1>10, <2>2, <2>3 DEF AllDistinct
  <2>5. \A x \in Cell : TaskClaims(Owing(x)') \subseteq TaskClaims(Owing(x))
    BY <1>10, <2>3
  <2> QED BY <1>1, <1>2, <2>1, <2>4, <2>5, AloneSame
<1>13. Answerable'
  <2>1. ASSUME NEW x \in Cell, NEW h \in tasks[x], h.to \in Cell, Pending(x, h)
        PROVE  Pending(x, h)' \/ "exit" \in faults'[h.to]
    <3>1. CASE h.to = c
      BY <1>6, <3>1
    <3>2. CASE h.to # c
      BY <1>1, <1>10, <2>1, <3>2, PendingIs
    <3> QED BY <3>1, <3>2
  <2>2. \A x \in Cell : status'[x] = "open" => status[x] = "open"
    BY <1>6
  <2> QED BY <1>1, <1>2, <1>6, <2>1, <2>2, AnswerableStep
<1> QED BY <1>3, <1>5, <1>6, <1>7, <1>8, <1>9, <1>11, <1>12, <1>13, Whole

\* The exit answers for a task: its claim moves to the queue of the source.
LEMMA TellSourceStep ==
  ASSUME IInv, NEW c \in Cell, NEW k \in todo[c], TellSource(c, k)
  PROVE  IInv'
<1> DEFINE U == SourceClaims(k)
           y == k.source
           m == Response(k.session)
<1>1. /\ phase[c] = "exit" /\ todo' = [todo EXCEPT ![c] = @ \ {k}]
      /\ \/ y = c /\ UNCHANGED mailbox
         \/ y # c /\ y # Nil /\ status[y] = "open" /\ Post(y, m)
      /\ UNCHANGED <<program, status, session, tasks, event_q, phase, co, timer, faults, unsent>>
  BY DEF TellSource, InPhase, Accepts
<1>2. /\ MailTypes /\ TaskTypes /\ RunTypes /\ TimerTypes /\ RestTypes
      /\ Stages /\ EventsDistinct /\ SleepersKept /\ EventsDelivered
      /\ Addressed /\ (NeverLate => Alone) /\ Answerable /\ OwingTasks
  BY Parts
<1>3. /\ todo' \in [Cell -> SUBSET Waiting] /\ todo'[c] = todo[c] \ {k}
      /\ \A x \in Cell : x # c => todo'[x] = todo[x]
  BY <1>1, <1>2 DEF TaskTypes
<1>4. TaskTypes'
  <2>1. \A x \in Cell : ToSet(event_q'[x]) \subseteq 1 .. session[x]
    BY <1>1, <1>2 DEF TaskTypes
  <2>2. \A x \in Cell : todo'[x] \subseteq tasks[x]
    BY <1>2, <1>3 DEF TaskTypes
  <2> QED BY <1>1, <1>2, <1>3, <2>1, <2>2, TasksSame DEF TaskTypes
<1>5. RunTypes' /\ TimerTypes' /\ RestTypes' /\ EventsDistinct' /\ SleepersKept' /\ EventsDelivered'
  BY <1>1, <1>2 DEF RunTypes, TimerTypes, RestTypes, EventsDistinct, SleepersKept, EventsDelivered, InPhase
<1>6. status[c] \in {"closed", "dead"} /\ mailbox[c] = <<>> /\ co[c] = NoCo
  BY <1>1, <1>2 DEF Stages, Ending, RunTypes
<1>7. k \in tasks[c] /\ \A t \in U : Proper(t)
  <2>1. k \in tasks[c]
    BY <1>2 DEF TaskTypes
  <2>2. U \subseteq TaskClaims(tasks[c])
    BY <2>1 DEF TaskClaims
  <2> QED BY <1>2, <2>1, <2>2, ProperClaims
<1>8. ASSUME y # c
      PROVE  /\ y \in Cell /\ k.session \in Nat /\ m \in Mail
             /\ U = {<<y, k.session>>} /\ MessageClaims(y, m) = U
  <2>1. y # Nil /\ U = {<<y, k.session>>}
    BY <1>1, <1>8 DEF SourceClaims
  <2>2. Proper(<<y, k.session>>)
    BY <1>7, <2>1
  <2>3. y \in Cell /\ k.session \in 1 .. session[y]
    BY <2>2 DEF Proper
  <2>4. k.session \in Nat
    <3>1. session[y] \in Nat
      BY <1>2, <2>3 DEF TaskTypes
    <3> QED BY <2>3, <3>1
  <2>5. m \in Mail /\ MessageClaims(y, m) = {<<y, k.session>>}
    BY <2>4 DEF Response, Msg, Mail, Durable, Sources, Sessions, Cmds, Args, MessageClaims
  <2> QED BY <2>1, <2>3, <2>4, <2>5
<1> HIDE DEF U, y, m
<1>9. /\ MailTypes'
      /\ \A x \in Cell : mailbox'[x] = mailbox[x] \/ (x = y /\ y # c /\ status[x] = "open")
      /\ \A x \in Cell : MailClaims(x, mailbox[x]) \subseteq MailClaims(x, mailbox'[x])
      /\ \A x \in Cell : \A t \in MailClaims(x, mailbox'[x]) :
           t \in MailClaims(x, mailbox[x]) \/ (t \in U /\ x = y /\ y # c)
      /\ \A x \in Cell : ToSet(mailbox[x]) \subseteq ToSet(mailbox'[x])
      /\ y # c => m \in ToSet(mailbox'[y])
      /\ \A x \in Cell : MailDistinct(x, mailbox[x]) /\ U \intersect MailClaims(x, mailbox[x]) = {}
                           => MailDistinct(x, mailbox'[x])
  <2>1. CASE y = c
    BY <1>1, <1>2, <2>1 DEF MailTypes
  <2>2. CASE y # c
    <3>1. y \in Cell /\ m \in Mail /\ Post(y, m) /\ status[y] = "open" /\ MessageClaims(y, m) = U
      BY <1>1, <1>8, <2>2
    <3>2. /\ MailTypes'
          /\ \A x \in Cell : x # y => mailbox'[x] = mailbox[x]
          /\ ToSet(mailbox'[y]) = ToSet(mailbox[y]) \union {m}
          /\ MailClaims(y, mailbox'[y]) = MailClaims(y, mailbox[y]) \union U
          /\ MailDistinct(y, mailbox[y]) /\ U \intersect MailClaims(y, mailbox[y]) = {}
               => MailDistinct(y, mailbox'[y])
      BY <1>2, <3>1, PostEffect
    <3> QED BY <2>2, <3>1, <3>2
  <2> QED BY <2>1, <2>2
<1>10. Stages'
  <2>1. mailbox'[c] = <<>>
    BY <1>6, <1>9
  <2>2. /\ todo'[c] = {} \/ phase'[c] = "exit"
        /\ status'[c] # "unborn" /\ co'[c] = NoCo
    BY <1>1, <1>6
  <2> QED BY <1>1, <1>2, <1>3, <1>6, <1>9, <2>1, <2>2, NothingRuns, StagesStep
<1>11. /\ U \subseteq TaskClaims(todo[c]) /\ TaskClaims(todo'[c]) \subseteq TaskClaims(todo[c])
       /\ \A t \in TaskClaims(todo[c]) : t \in TaskClaims(todo'[c]) \/ t \in U
       /\ TasksDistinct(todo[c]) =>
            TasksDistinct(todo'[c]) /\ U \intersect TaskClaims(todo'[c]) = {}
  BY <1>3, ClaimsWithout DEF U
<1>12. /\ Owing(c) = todo[c] /\ Owing(c)' = todo'[c]
       /\ \A x \in Cell : x # c => Owing(x)' = Owing(x)
  <2>1. Owing(c) = todo[c] /\ Owing(c)' = todo'[c]
    BY <1>1, <1>2, <1>5, OwingIs
  <2>2. \A x \in Cell : x # c => Owing(x)' = Owing(x)
    BY <1>1, <1>3, OwingIs
  <2> QED BY <2>1, <2>2
<1>13. Addressed'
  <2>1. session' \in [Cell -> Nat] /\ \A x \in Cell : session[x] <= session'[x]
    BY <1>1, <1>2, SessionsSame
  <2>2. \A x \in Cell : \A t \in MailClaims(x, mailbox'[x]) :
          t \in MailClaims(x, mailbox[x]) \/ Proper(t)
    BY <1>7, <1>9
  <2> QED BY <1>1, <1>2, <2>1, <2>2, AddressedStep
<1>14. ASSUME NeverLate' PROVE Alone'
  <2>1. Alone
    BY <1>1, <1>2, <1>14, NeverLateBefore
  <2>2. /\ OnePlace(Held)
        /\ \A x \in Cell : MailDistinct(x, mailbox[x]) /\ TasksDistinct(Owing(x))
    BY <2>1, AloneIs
  <2>3. TasksDistinct(todo'[c]) /\ U \intersect TaskClaims(todo'[c]) = {}
    BY <1>11, <1>12, <2>2
  <2>4. "mail" \in Kinds /\ "task" \in Kinds /\ "mail" # "task"
    BY DEF Kinds
  <2>5. \A x \in Cell : U \intersect MailClaims(x, mailbox[x]) = {}
    <3>1. U \subseteq Held["task"][c]
      BY <1>11, <1>12, HeldIs
    <3> QED BY <2>2, <2>4, <3>1, HeldIs DEF OnePlace
  <2>6. AllDistinct'
    BY <1>9, <1>12, <2>2, <2>3, <2>5 DEF AllDistinct
  <2>7. Leaves(U, "task", c)
    BY <1>11, <1>12, <2>3, HeldIs DEF Leaves
  <2> DEFINE N == {}
             z == IF y = c THEN c ELSE y
  <2>8. Comes(N) /\ Answered /\ z \in Cell
    BY <1>1, <1>8 DEF Comes, Answered
  <2>9. ASSUME NEW i \in Kinds, NEW x \in Cell, NEW t \in Held'[i][x]
        PROVE  t \in Held[i][x] \/ (t \in U /\ i = "mail" /\ x = z)
    <3>1. CASE i = "mail"
      BY <1>9, <2>9, <3>1, HeldIs
    <3>2. CASE i = "co"
      BY <1>1, <2>9, <3>2, HeldIs
    <3>3. CASE i = "task"
      BY <1>11, <1>12, <2>9, <3>3, HeldIs
    <3> QED BY <3>1, <3>2, <3>3 DEF Kinds
  <2>10. Moves(N, "mail", c, U, "mail", z)
    BY <2>9 DEF Moves
  <2> HIDE DEF N, z
  <2> QED BY <1>2, <2>1, <2>4, <2>6, <2>7, <2>8, <2>10, AloneStep
<1>15. Answerable'
  <2>1. ASSUME NEW x \in Cell, status[x] = "open", NEW h \in tasks[x], h.to \in Cell, Pending(x, h)
        PROVE  Pending(x, h)'
    <3> DEFINE t == <<x, h.event>>
    <3>1. CASE t \in TaskClaims(Owing(h.to))
      <4>1. CASE t \in TaskClaims(Owing(h.to)')
        BY <2>1, <4>1, PendingIs
      <4>2. CASE t \in U
        <5>1. t = <<y, k.session>>
          BY <4>2 DEF U, y, SourceClaims
        <5>2. y # c
          BY <1>6, <2>1, <5>1
        <5>3. Response(h.event) \in ToSet(mailbox'[x])
          BY <1>9, <5>1, <5>2 DEF m
        <5> QED BY <2>1, <5>3, PendingIs
      <4> QED BY <1>11, <1>12, <2>1, <3>1, <4>1, <4>2
    <3>2. CASE t \in MailClaims(h.to, mailbox[h.to])
      BY <1>9, <2>1, <3>2, PendingIs
    <3>3. CASE t \in SourceClaims(co[h.to]) /\ co[h.to].origin # "last"
      BY <1>1, <2>1, <3>3, PendingIs
    <3>4. CASE Response(h.event) \in ToSet(mailbox[x])
      BY <1>9, <2>1, <3>4, PendingIs
    <3> QED BY <2>1, <3>1, <3>2, <3>3, <3>4, PendingIs
  <2> QED BY <1>1, <1>2, <2>1, AnswerableStep
<1> QED BY <1>4, <1>5, <1>9, <1>10, <1>13, <1>14, <1>15, Whole

-----------------------------------------------------------------------------
(* The end of a coroutine                                                  *)

\* What a cell owes when its coroutine ends.
LEMMA EndedOwing ==
  ASSUME RunTypes, RunTypes', NEW c \in Cell, phase[c] = "run", UNCHANGED <<tasks, todo>>,
         phase'[c] \in {"idle", "deliver", "last"},
         phase'[c] = "last" <=> co[c].origin = "last",
         \A x \in Cell : x # c => co'[x] = co[x] /\ phase'[x] = phase[x]
  PROVE  \A x \in Cell : Owing(x)' = Owing(x)
<1>1. ASSUME NEW x \in Cell PROVE Owing(x)' = Owing(x)
  <2>1. CASE x = c
    BY <2>1, OwingIs
  <2>2. CASE x # c
    BY <2>2, OwingIs
  <2> QED BY <2>1, <2>2
<1> QED BY <1>1

\* The end of a coroutine leaves the stages of the cells as they are.
LEMMA EndedStages ==
  ASSUME Stages, NEW c \in Cell, phase[c] = "run", UNCHANGED <<status, tasks, todo>>,
         phase'[c] \in {"idle", "deliver", "last"},
         phase'[c] = "last" <=> co[c].origin = "last", co'[c] = NoCo,
         \A x \in Cell : x # c => co'[x] = co[x] /\ phase'[x] = phase[x],
         \A x \in Cell : mailbox'[x] = mailbox[x] \/ status[x] = "open",
         \A x \in Cell : faults[x] \subseteq faults'[x]
  PROVE  Stages'
<1>1. ASSUME NEW x \in Cell
      PROVE  /\ Ending(x)' => status'[x] \in {"closed", "dead"} /\ mailbox'[x] = <<>>
             /\ status'[x] = "unborn" => phase'[x] = "idle" /\ mailbox'[x] = <<>> /\ tasks'[x] = {}
             /\ phase'[x] # "exit" => todo'[x] = {}
             /\ co'[x].origin = "last" => "late" \in faults'[x]
  <2>1. CASE x = c
    <3>1. status[c] # "unborn" /\ todo[c] = {}
      BY DEF Stages
    <3>2. Ending(c)' => Ending(c)
      BY NothingRuns DEF Ending
    <3> QED BY <2>1, <3>1, <3>2, NothingRuns DEF Stages
  <2>2. CASE x # c
    <3>1. Ending(x)' <=> Ending(x)
      BY <2>2 DEF Ending
    <3> QED BY <2>2, <3>1 DEF Stages
  <2> QED BY <2>1, <2>2
<1> QED BY <1>1 DEF Stages

\* A coroutine returns or fails: its claim moves to the queue of the source, or is
\* lost with a source that is closed or an answer that cannot be sent.
LEMMA FinishStep ==
  ASSUME IInv, NEW c \in Cell, Finish(c)
  PROVE  IInv'
<1> DEFINE U == SourceClaims(co[c])
           y == co[c].source
           m == Response(co[c].session)
<1>1. /\ phase[c] = "run"
      /\ \/ y = Nil /\ Suspended(c) /\ UNCHANGED <<mailbox, faults, unsent>>
         \/ /\ y # Nil /\ status[y] = "open"
            /\ Suspended(c) /\ Post(y, m) /\ UNCHANGED <<faults, unsent>>
         \/ y # Nil /\ status[y] # "open" /\ Failed(c) /\ UNCHANGED <<mailbox, unsent>>
         \/ Failed(c) /\ unsent' = unsent \union U /\ UNCHANGED mailbox
      /\ UNCHANGED <<program, status, session, tasks, event_q, todo, timer>>
  BY DEF Finish, Running, InPhase, Accepts
<1>2. /\ MailTypes /\ TaskTypes /\ RunTypes /\ TimerTypes /\ RestTypes
      /\ Stages /\ EventsDistinct /\ SleepersKept /\ EventsDelivered
      /\ Addressed /\ (NeverLate => Alone) /\ Answerable /\ OwingTasks
  BY Parts
<1>3. ASSUME y # Nil
      PROVE  /\ y \in Cell /\ co[c].session \in Nat /\ m \in Mail
             /\ U = {<<y, co[c].session>>} /\ MessageClaims(y, m) = U
  <2>1. U = {<<y, co[c].session>>}
    BY <1>3 DEF SourceClaims
  <2>2. Proper(<<y, co[c].session>>)
    BY <1>2, <2>1, ProperClaims
  <2>3. y \in Cell /\ co[c].session \in 1 .. session[y]
    BY <2>2 DEF Proper
  <2>4. co[c].session \in Nat
    <3>1. session[y] \in Nat
      BY <1>2, <2>3 DEF TaskTypes
    <3> QED BY <2>3, <3>1
  <2>5. m \in Mail /\ MessageClaims(y, m) = {<<y, co[c].session>>}
    BY <2>4 DEF Response, Msg, Mail, Durable, Sources, Sessions, Cmds, Args, MessageClaims
  <2> QED BY <2>1, <2>3, <2>4, <2>5
<1>4. y = Nil => U = {}
  BY DEF SourceClaims
<1>5. /\ RunTypes' /\ co'[c] = NoCo
      /\ phase'[c] \in {"idle", "deliver", "last"}
      /\ phase'[c] = "last" <=> co[c].origin = "last"
      /\ \A x \in Cell : x # c => co'[x] = co[x] /\ phase'[x] = phase[x]
      /\ faults' \in [Cell -> SUBSET {"exit", "dispatch", "late"}]
      /\ \A x \in Cell : faults[x] \subseteq faults'[x]
      /\ phase'[c] = "idle" => "dispatch" \in faults'[c]
  <2>1. co[c].origin \in {"dispatch", "deliver", "last"}
    BY <1>2 DEF RunTypes, Coroutines
  <2>2. CASE Suspended(c) /\ UNCHANGED faults
    BY <1>2, <2>1, <2>2, SuspendedEffect DEF RestTypes
  <2>3. CASE Failed(c)
    BY <1>2, <2>1, <2>3, FailedEffect
  <2> QED BY <1>1, <2>2, <2>3
<1> DEFINE Told == y # Nil /\ status[y] = "open" /\ Post(y, m) /\ UNCHANGED unsent
           Untold == /\ UNCHANGED mailbox
                     /\ y = Nil \/ status[y] # "open" \/ unsent' = unsent \union U
<1>6. Told \/ Untold
  BY <1>1
<1>7. unsent \subseteq unsent' /\ unsent' \subseteq Cell \X Nat
  <2>1. U \subseteq Cell \X Nat
    BY <1>3, <1>4
  <2> QED BY <1>1, <1>2, <2>1 DEF RestTypes
<1> HIDE DEF U, y, m
<1>8. /\ MailTypes'
      /\ \A x \in Cell : mailbox'[x] = mailbox[x] \/ status[x] = "open"
      /\ \A x \in Cell : MailClaims(x, mailbox[x]) \subseteq MailClaims(x, mailbox'[x])
      /\ \A x \in Cell : \A t \in MailClaims(x, mailbox'[x]) :
           t \in MailClaims(x, mailbox[x]) \/ (t \in U /\ x = y)
      /\ \A x \in Cell : ToSet(mailbox[x]) \subseteq ToSet(mailbox'[x])
      /\ y # Nil /\ status[y] = "open" => m \in ToSet(mailbox'[y]) \/ U \subseteq unsent'
      /\ \A x \in Cell : MailDistinct(x, mailbox[x]) /\ U \intersect MailClaims(x, mailbox[x]) = {}
                           => MailDistinct(x, mailbox'[x])
  <2>1. CASE Untold
    BY <1>2, <2>1 DEF MailTypes
  <2>2. CASE Told
    <3>1. y \in Cell /\ m \in Mail /\ Post(y, m) /\ status[y] = "open" /\ MessageClaims(y, m) = U
      BY <1>3, <2>2
    <3>2. /\ MailTypes'
          /\ \A x \in Cell : x # y => mailbox'[x] = mailbox[x]
          /\ ToSet(mailbox'[y]) = ToSet(mailbox[y]) \union {m}
          /\ MailClaims(y, mailbox'[y]) = MailClaims(y, mailbox[y]) \union U
          /\ MailDistinct(y, mailbox[y]) /\ U \intersect MailClaims(y, mailbox[y]) = {}
               => MailDistinct(y, mailbox'[y])
      BY <1>2, <3>1, PostEffect
    <3> QED BY <3>1, <3>2
  <2> QED BY <1>6, <2>1, <2>2
<1>9. TaskTypes' /\ TimerTypes' /\ RestTypes' /\ EventsDistinct' /\ SleepersKept'
  BY <1>1, <1>2, <1>5, <1>7 DEF TaskTypes, TimerTypes, RestTypes, EventsDistinct, SleepersKept
<1>10. EventsDelivered'
  BY <1>1, <1>2, <1>5, DeliveredStep
<1>11. Stages'
  BY <1>1, <1>2, <1>5, <1>8, EndedStages
<1>12. \A x \in Cell : Owing(x)' = Owing(x)
  BY <1>1, <1>2, <1>5, EndedOwing
<1>13. \A x \in Cell : SourceClaims(co'[x]) \subseteq SourceClaims(co[x])
  BY <1>5, NothingRuns
<1>14. Addressed'
  <2>1. session' \in [Cell -> Nat] /\ \A x \in Cell : session[x] <= session'[x]
    BY <1>1, <1>2, SessionsSame
  <2>2. \A t \in U : Proper(t)
    BY <1>2, ProperClaims DEF U
  <2>3. \A x \in Cell : \A t \in MailClaims(x, mailbox'[x]) :
          t \in MailClaims(x, mailbox[x]) \/ Proper(t)
    BY <1>8, <2>2
  <2> QED BY <1>1, <1>2, <1>13, <2>1, <2>3, AddressedStep
<1>15. ASSUME NeverLate' PROVE Alone'
  <2>1. Alone
    BY <1>2, <1>5, <1>15, NeverLateBefore
  <2>2. /\ OnePlace(Held)
        /\ \A x \in Cell : MailDistinct(x, mailbox[x]) /\ TasksDistinct(Owing(x))
    BY <2>1, AloneIs
  <2>3. "mail" \in Kinds /\ "co" \in Kinds /\ "mail" # "co"
    BY DEF Kinds
  <2>4. \A x \in Cell : U \intersect MailClaims(x, mailbox[x]) = {}
    <3>1. U = Held["co"][c]
      BY HeldIs DEF U
    <3> QED BY <2>2, <2>3, <3>1, HeldIs DEF OnePlace
  <2>5. AllDistinct'
    BY <1>8, <1>12, <2>2, <2>4 DEF AllDistinct
  <2>6. Leaves(U, "co", c)
    BY <1>5, NothingRuns, HeldIs DEF Leaves, U
  <2> DEFINE N == {}
             z == IF y \in Cell THEN y ELSE c
  <2>7. Comes(N) /\ Answered /\ z \in Cell
    BY <1>1 DEF Comes, Answered
  <2>8. ASSUME NEW i \in Kinds, NEW x \in Cell, NEW t \in Held'[i][x]
        PROVE  t \in Held[i][x] \/ (t \in U /\ i = "mail" /\ x = z)
    <3>1. CASE i = "mail"
      BY <1>8, <2>8, <3>1, HeldIs
    <3>2. CASE i = "co"
      BY <1>13, <2>8, <3>2, HeldIs
    <3>3. CASE i = "task"
      BY <1>12, <2>8, <3>3, HeldIs
    <3> QED BY <3>1, <3>2, <3>3 DEF Kinds
  <2>9. Moves(N, "mail", c, U, "mail", z)
    BY <2>8 DEF Moves
  <2> HIDE DEF N, z
  <2> QED BY <1>2, <2>1, <2>3, <2>5, <2>6, <2>7, <2>9, AloneStep
<1>16. Answerable'
  <2>1. ASSUME NEW x \in Cell, status[x] = "open", NEW h \in tasks[x], h.to \in Cell, Pending(x, h)
        PROVE  Pending(x, h)' \/ <<x, h.event>> \in unsent'
    <3> DEFINE t == <<x, h.event>>
    <3>1. CASE t \in SourceClaims(co[h.to]) /\ co[h.to].origin # "last"
      <4>1. CASE h.to # c
        BY <1>5, <2>1, <3>1, <4>1, PendingIs
      <4>2. CASE h.to = c
        <5>1. y # Nil /\ t = <<y, co[c].session>>
          BY <1>3, <1>4, <3>1, <4>2 DEF U
        <5>2. t \in U
          BY <3>1, <4>2 DEF U
        <5>3. Response(h.event) \in ToSet(mailbox'[x]) \/ t \in unsent'
          BY <1>8, <2>1, <5>1, <5>2 DEF m
        <5> QED BY <2>1, <5>3, PendingIs
      <4> QED BY <4>1, <4>2
    <3>2. CASE t \in MailClaims(h.to, mailbox[h.to])
      BY <1>8, <2>1, <3>2, PendingIs
    <3>3. CASE t \in TaskClaims(Owing(h.to))
      BY <1>12, <2>1, <3>3, PendingIs
    <3>4. CASE Response(h.event) \in ToSet(mailbox[x])
      BY <1>8, <2>1, <3>4, PendingIs
    <3> QED BY <2>1, <3>1, <3>2, <3>3, <3>4, PendingIs
  <2> QED BY <1>1, <1>2, <1>5, <1>7, <2>1, AnswerableStep
<1> QED BY <1>5, <1>8, <1>9, <1>10, <1>11, <1>14, <1>15, <1>16, Whole

-----------------------------------------------------------------------------
(* The invariant                                                           *)

\* The invariant holds initially.
LEMMA InitInvariant ==
  Init => IInv
<1>1. SUFFICES ASSUME Init PROVE IInv
  OBVIOUS
<1>2. Boot \subseteq Cell /\ system \notin Boot /\ system \in Cell
  BY <1>1, CodeAssumption DEF Init, Boot, Users
<1>3. LaunchMsg(Nil, Nil) \in Mail /\ \A x : MessageClaims(x, LaunchMsg(Nil, Nil)) = {}
  BY DEF LaunchMsg, Msg, Mail, Durable, Sources, Sessions, Cmds, Args, MessageClaims
<1>4. /\ <<>> \in Seq(Mail) /\ <<LaunchMsg(Nil, Nil)>> \in Seq(Mail)
      /\ <<>> \in Seq(Nat) /\ ToSet(<<>>) = {} /\ IsInjective(<<>>)
  <2>1. DOMAIN <<>> = {}
    OBVIOUS
  <2>2. ToSet(<<>>) = {} /\ IsInjective(<<>>)
    BY <2>1 DEF ToSet, IsInjective
  <2>3. <<LaunchMsg(Nil, Nil)>> \in Seq(Mail)
    BY <1>3
  <2> QED BY <2>2, <2>3
<1>5. ASSUME NEW c \in Cell
      PROVE  /\ mailbox[c] \in {<<>>, <<LaunchMsg(Nil, Nil)>>} /\ session[c] = 0 /\ tasks[c] = {}
             /\ event_q[c] = <<>> /\ phase[c] = "idle" /\ co[c] = NoCo /\ todo[c] = {}
             /\ status[c] = "unborn" => mailbox[c] = <<>>
  BY <1>1 DEF Init
<1>6. MailTypes
  BY <1>1, <1>4 DEF Init, MailTypes
<1>7. TaskTypes
  <2>1. /\ session \in [Cell -> Nat] /\ tasks \in [Cell -> SUBSET Waiting]
        /\ event_q \in [Cell -> Seq(Nat)] /\ todo \in [Cell -> SUBSET Waiting]
    BY <1>1, <1>4 DEF Init
  <2>2. IsFiniteSet({})
    BY FS_EmptySet
  <2>3. \A c \in Cell : IsFiniteSet(tasks[c]) /\ \A k \in tasks[c] : k.event \in 1 .. session[c]
    BY <1>5, <2>2
  <2>4. \A c \in Cell : ToSet(event_q[c]) \subseteq 1 .. session[c] /\ todo[c] \subseteq tasks[c]
    BY <1>4, <1>5
  <2> QED BY <2>1, <2>3, <2>4 DEF TaskTypes
<1>8. RunTypes
  BY <1>1, NothingRuns DEF Init, RunTypes
<1>9. TimerTypes /\ timer = {}
  BY <1>1 DEF Init, TimerTypes
<1>10. RestTypes
  BY <1>1 DEF Init, RestTypes
<1>11. TypeOK
  BY <1>6, <1>7, <1>8, <1>9, <1>10, TypesAre
<1>12. Stages
  BY <1>5, NothingRuns DEF Stages, Ending
<1>13. EventsDistinct /\ EventsDelivered
  BY <1>2, <1>4, <1>5, <1>9 DEF EventsDistinct, EventsDelivered
<1>14. SleepersKept
  <2>1. tasks[system] = {} /\ ToSet(event_q[system]) = {}
    BY <1>2, <1>4, <1>5
  <2> QED BY <1>9, <2>1 DEF SleepersKept
<1>15. ASSUME NEW x \in Cell
       PROVE  /\ MailClaims(x, mailbox[x]) = {} /\ SourceClaims(co[x]) = {}
              /\ TaskClaims(tasks[x]) = {} /\ TaskClaims(Owing(x)) = {}
              /\ MailDistinct(x, mailbox[x]) /\ TasksDistinct(Owing(x))
  <2>1. MailClaims(x, <<>>) = {} /\ MailDistinct(x, <<>>)
    BY DEF MailClaims, MailDistinct
  <2>2. MailClaims(x, <<LaunchMsg(Nil, Nil)>>) = {} /\ MailDistinct(x, <<LaunchMsg(Nil, Nil)>>)
    <3>1. DOMAIN <<LaunchMsg(Nil, Nil)>> = {1} /\ <<LaunchMsg(Nil, Nil)>>[1] = LaunchMsg(Nil, Nil)
      OBVIOUS
    <3> QED BY <1>3, <3>1 DEF MailClaims, MailDistinct
  <2>3. MailClaims(x, mailbox[x]) = {} /\ MailDistinct(x, mailbox[x])
    BY <1>5, <2>1, <2>2
  <2>4. TaskClaims({}) = {} /\ TasksDistinct({})
    BY DEF TaskClaims, TasksDistinct
  <2>5. Owing(x) = {}
    BY <1>5, <1>8, OwingIs
  <2> QED BY <1>5, <2>3, <2>4, <2>5, NothingRuns
<1>16. Addressed
  BY <1>15 DEF Addressed
<1>17. Alone
  <2>1. ASSUME NEW i \in Kinds, NEW x \in Cell, NEW t \in Held[i][x] PROVE FALSE
    BY <1>15, <2>1, HeldIs DEF Kinds
  <2>2. OnePlace(Held) /\ AwaitedIn(Held)
    BY <2>1 DEF OnePlace, AwaitedIn
  <2> QED BY <1>15, <2>2, AloneIs
<1>18. Answerable
  BY <1>5 DEF Answerable
<1> QED BY <1>11, <1>12, <1>13, <1>14, <1>16, <1>17, <1>18 DEF IInv

\* It holds when nothing changes.
LEMMA StutterStep ==
  ASSUME IInv, UNCHANGED vars
  PROVE  IInv'
<1>1. /\ MailTypes /\ TaskTypes /\ RunTypes /\ TimerTypes /\ RestTypes
      /\ Stages /\ EventsDistinct /\ SleepersKept /\ EventsDelivered
  BY Parts
<1>2. UNCHANGED <<program, status, mailbox, session, tasks, event_q, phase, co, todo, timer, faults, unsent>>
  BY DEF vars
<1>3. MailTypes' /\ TaskTypes' /\ RunTypes' /\ TimerTypes' /\ RestTypes'
  BY <1>1, <1>2 DEF MailTypes, TaskTypes, RunTypes, TimerTypes, RestTypes
<1>4. Stages' /\ EventsDistinct' /\ SleepersKept' /\ EventsDelivered'
  BY <1>1, <1>2 DEF Stages, Ending, EventsDistinct, SleepersKept, EventsDelivered, InPhase
<1>5. SameMail /\ SameCo /\ SameOwing
  <2>1. \A x \in Cell : Owing(x)' = Owing(x)
    BY <1>2, OwingIs
  <2> QED BY <1>2, <2>1, MailSame, CoSame DEF SameOwing
<1>6. Addressed' /\ (NeverLate' => Alone') /\ Answerable'
  BY <1>1, <1>2, <1>5, SessionsSame, QuietStep
<1> QED BY <1>3, <1>4, <1>6, Whole

\* Every step keeps it.
LEMMA NextInvariant ==
  IInv /\ [Next]_vars => IInv'
<1>1. SUFFICES ASSUME IInv, [Next]_vars PROVE IInv'
  OBVIOUS
<1>2. ASSUME NEW c \in Cell, Dispatch(c) PROVE IInv'
  <2>1. CASE DispatchResponse(c) \/ UnknownResponse(c) \/ DispatchCommand(c) \/ DispatchMessage(c)
    BY <1>1, <2>1, DispatchResponseStep, UnknownResponseStep, DispatchCommandStep,
       DispatchMessageStep
  <2>2. CASE Deliver(c)
    BY <1>1, <2>2, DeliverUnknownStep, DeliverKnownStep
  <2>3. CASE Delivered(c)
    BY <1>1, <2>3, DeliveredAllStep
  <2>4. CASE BeginExit(c) \/ EndExit(c)
    BY <1>1, <2>4, BeginExitStep, EndExitStep
  <2>5. ASSUME NEW k \in todo[c], TellSource(c, k) \/ AbortExit(c, k) PROVE IInv'
    BY <1>1, <2>5, TellSourceStep, AbortExitStep
  <2> QED BY <1>2, <2>1, <2>2, <2>3, <2>4, <2>5 DEF Dispatch
<1>3. ASSUME NEW c \in Cell, Finish(c) PROVE IInv'
  BY <1>1, <1>3, FinishStep
<1>4. ASSUME NEW c \in Cell, Code(c) PROVE IInv'
  <2>1. CASE Call(c) \/ CallGarbled(c) \/ Sleep(c) \/ CallLaunch(c) \/ CallKill(c)
    BY <1>1, <2>1, CallsStep
  <2>2. CASE Send(c) \/ Timeout(c) \/ Fork(c)
    BY <1>1, <2>2, SendStep, TimeoutStep, ForkStep
  <2>3. CASE Wait(c) \/ Wakeup(c) \/ Exit(c)
    BY <1>1, <2>3, WaitStep, WakeupStep, ExitStep
  <2> QED BY <1>4, <2>1, <2>2, <2>3 DEF Code
<1>5. CASE DispatchTick \/ Tick
  BY <1>1, <1>5, DispatchTickStep, TickStep
<1>6. CASE Commands
  BY <1>1, <1>6, CommandTimeoutStep, CommandKillStep, CommandLaunchStep DEF Commands
<1>7. CASE UNCHANGED vars
  BY <1>1, <1>7, StutterStep
<1> QED BY <1>1, <1>2, <1>3, <1>4, <1>5, <1>6, <1>7 DEF Next

\* The cells' queues, coroutines, events and exits stay as the invariant has it.
THEOREM Invariance == Spec => []IInv
<1>1. Init => IInv
  BY InitInvariant
<1>2. IInv /\ [Next]_vars => IInv'
  BY NextInvariant
<1> QED BY <1>1, <1>2, PTL DEF Spec

-----------------------------------------------------------------------------
(* How many answers a session has                                          *)

AtMostOne(S) == \A p, q \in S : p = q

\* A set with at most one element.
LEMMA CountOfOne ==
  ASSUME NEW S, AtMostOne(S)
  PROVE  /\ S = {} => Cardinality(S) = 0
         /\ S # {} => Cardinality(S) = 1
<1>1. CASE S = {}
  BY <1>1, FS_EmptySet
<1>2. CASE S # {}
  <2>1. PICK p : S = {p}
    BY <1>2 DEF AtMostOne
  <2> QED BY <1>2, <2>1, FS_Singleton
<1> QED BY <1>1, <1>2

\* What is counted carries the claim.
LEMMA CountedCarry ==
  ASSUME NEW c \in Cell, NEW s
  PROVE  /\ \A p \in Requests(c, s) :
              /\ p = <<p[1], p[2]>> /\ p[1] \in Cell /\ p[2] \in DOMAIN mailbox[p[1]]
              /\ mailbox[p[1]][p[2]].port # "response"
              /\ <<c, s>> \in MessageClaims(p[1], mailbox[p[1]][p[2]])
         /\ \A x \in Serving(c, s) : x \in Cell /\ <<c, s>> \in SourceClaims(co[x])
         /\ \A p \in Suspending(c, s) :
              /\ p = <<p[1], p[2]>> /\ p[1] \in Cell /\ p[2] \in Owing(p[1])
              /\ <<c, s>> \in SourceClaims(p[2])
         /\ \A i \in Responses(c, s) :
              /\ i \in DOMAIN mailbox[c] /\ mailbox[c][i].port = "response"
              /\ <<c, s>> \in MessageClaims(c, mailbox[c][i])
<1>1. c # Nil
  BY CodeAssumption
<1>2. ASSUME NEW p \in Requests(c, s)
      PROVE  /\ p = <<p[1], p[2]>> /\ p[1] \in Cell /\ p[2] \in DOMAIN mailbox[p[1]]
             /\ mailbox[p[1]][p[2]].port # "response"
             /\ <<c, s>> \in MessageClaims(p[1], mailbox[p[1]][p[2]])
  <2>1. PICK x \in Cell : p \in {x} \X DOMAIN mailbox[x]
    BY DEF Requests
  <2>2. p = <<p[1], p[2]>> /\ p[1] = x /\ p[2] \in DOMAIN mailbox[x]
    BY <2>1
  <2>3. LET m == mailbox[p[1]][p[2]]
        IN  m.port \in {"command", "launch"} /\ m.source = c /\ m.session = s
    BY DEF Requests
  <2> QED BY <1>1, <2>2, <2>3 DEF MessageClaims
<1>3. ASSUME NEW x \in Serving(c, s) PROVE x \in Cell /\ <<c, s>> \in SourceClaims(co[x])
  BY <1>1 DEF Serving, SourceClaims
<1>4. ASSUME NEW p \in Suspending(c, s)
      PROVE  /\ p = <<p[1], p[2]>> /\ p[1] \in Cell /\ p[2] \in Owing(p[1])
             /\ <<c, s>> \in SourceClaims(p[2])
  <2>1. PICK x \in Cell : p \in {x} \X Owing(x)
    BY DEF Suspending
  <2>2. p = <<p[1], p[2]>> /\ p[1] = x /\ p[2] \in Owing(x)
    BY <2>1
  <2>3. p[2].source = c /\ p[2].session = s
    BY DEF Suspending
  <2> QED BY <1>1, <2>2, <2>3 DEF SourceClaims
<1>5. ASSUME NEW i \in Responses(c, s)
      PROVE  /\ i \in DOMAIN mailbox[c] /\ mailbox[c][i].port = "response"
             /\ <<c, s>> \in MessageClaims(c, mailbox[c][i])
  BY DEF Responses, MessageClaims
<1> QED BY <1>2, <1>3, <1>4, <1>5

\* A claim is counted, wherever it is.
LEMMA CarriersCounted ==
  ASSUME NEW c \in Cell, NEW s, NEW x \in Cell
  PROVE  /\ <<c, s>> \in MailClaims(x, mailbox[x]) => Requests(c, s) # {} \/ Responses(c, s) # {}
         /\ <<c, s>> \in SourceClaims(co[x]) => Serving(c, s) # {}
         /\ <<c, s>> \in TaskClaims(Owing(x)) => Suspending(c, s) # {}
         /\ Response(s) \in ToSet(mailbox[c]) => Responses(c, s) # {}
<1>1. ASSUME <<c, s>> \in MailClaims(x, mailbox[x])
      PROVE  Requests(c, s) # {} \/ Responses(c, s) # {}
  <2>1. PICK i \in DOMAIN mailbox[x] : <<c, s>> \in MessageClaims(x, mailbox[x][i])
    BY <1>1 DEF MailClaims
  <2>2. CASE mailbox[x][i].port = "response"
    <3>1. x = c /\ mailbox[x][i].session = s
      BY <2>1, <2>2 DEF MessageClaims
    <3>2. i \in Responses(c, s)
      BY <2>1, <2>2, <3>1 DEF Responses
    <3> QED BY <3>2
  <2>3. CASE mailbox[x][i].port # "response"
    <3>1. mailbox[x][i].port \in {"command", "launch"} /\ mailbox[x][i].source = c
          /\ mailbox[x][i].session = s
      BY <2>1, <2>3 DEF MessageClaims
    <3> DEFINE p == <<x, i>>
    <3>2. p \in {x} \X DOMAIN mailbox[x] /\ p[1] = x /\ p[2] = i
      BY <2>1
    <3> HIDE DEF p
    <3>3. p \in UNION {{y} \X DOMAIN mailbox[y] : y \in Cell}
      BY <3>2
    <3>4. p \in Requests(c, s)
      BY <3>1, <3>2, <3>3 DEF Requests
    <3> QED BY <3>4
  <2> QED BY <2>2, <2>3
<1>2. ASSUME <<c, s>> \in SourceClaims(co[x]) PROVE Serving(c, s) # {}
  <2>1. x \in Serving(c, s)
    BY <1>2 DEF Serving, SourceClaims
  <2> QED BY <2>1
<1>3. ASSUME <<c, s>> \in TaskClaims(Owing(x)) PROVE Suspending(c, s) # {}
  <2>1. PICK k \in Owing(x) : <<c, s>> \in SourceClaims(k)
    BY <1>3 DEF TaskClaims
  <2>2. k.source = c /\ k.session = s
    BY <2>1 DEF SourceClaims
  <2> DEFINE p == <<x, k>>
  <2>3. p \in {x} \X Owing(x) /\ p[2] = k
    BY <2>1
  <2> HIDE DEF p
  <2>4. p \in UNION {{y} \X Owing(y) : y \in Cell}
    BY <2>3
  <2>5. p \in Suspending(c, s)
    BY <2>2, <2>3, <2>4 DEF Suspending
  <2> QED BY <2>5
<1>4. ASSUME Response(s) \in ToSet(mailbox[c]) PROVE Responses(c, s) # {}
  <2>1. PICK i \in DOMAIN mailbox[c] : mailbox[c][i] = Response(s)
    BY <1>4 DEF ToSet
  <2>2. mailbox[c][i].port = "response" /\ mailbox[c][i].session = s
    BY <2>1 DEF Response, Msg
  <2>3. i \in Responses(c, s)
    BY <2>1, <2>2 DEF Responses
  <2> QED BY <2>3
<1> QED BY <1>1, <1>2, <1>3, <1>4

\* The places are finite.
LEMMA CountsFinite ==
  ASSUME IInv, NEW c \in Cell, NEW s
  PROVE  /\ IsFiniteSet(Requests(c, s)) /\ IsFiniteSet(Serving(c, s))
         /\ IsFiniteSet(Suspending(c, s)) /\ IsFiniteSet(Responses(c, s))
<1>1. MailTypes /\ TaskTypes /\ RunTypes
  BY Parts
<1>2. IsFiniteSet(Cell)
  BY CodeAssumption
<1>3. ASSUME NEW x \in Cell PROVE IsFiniteSet(DOMAIN mailbox[x])
  <2>1. mailbox[x] \in Seq(Mail)
    BY <1>1 DEF MailTypes
  <2>2. DOMAIN mailbox[x] = 1 .. Len(mailbox[x]) /\ Len(mailbox[x]) \in Nat
    BY <2>1, LenProperties
  <2>3. 1 \in Int /\ Len(mailbox[x]) \in Int
    BY <2>2
  <2> QED BY <2>2, <2>3, FS_Interval
<1>4. ASSUME NEW x \in Cell PROVE IsFiniteSet(Owing(x))
  <2>1. todo[x] \subseteq tasks[x] /\ IsFiniteSet(tasks[x])
        /\ phase[x] \in {"idle", "run", "deliver", "exit", "last", "dead"}
    BY <1>1 DEF TaskTypes, RunTypes
  <2>2. Owing(x) \in SUBSET tasks[x]
    BY <1>1, <2>1, OwingIs
  <2> QED BY <2>1, <2>2, FS_Subset
<1>5. ASSUME NEW F, F \in [Cell -> {F[x] : x \in Cell}], \A x \in Cell : IsFiniteSet(F[x])
      PROVE  IsFiniteSet(UNION {{x} \X F[x] : x \in Cell})
  <2> DEFINE G == [x \in Cell |-> {x} \X F[x]]
             T == {{x} \X F[x] : x \in Cell}
  <2>1. G \in Surjection(Cell, T)
    BY DEF Surjection
  <2>2. IsFiniteSet(T)
    BY <1>2, <2>1, FS_Surjection
  <2>3. ASSUME NEW x \in Cell PROVE IsFiniteSet({x} \X F[x])
    <3>1. IsFiniteSet({x})
      BY FS_Singleton
    <3> QED BY <1>5, <3>1, FS_Product
  <2>4. \A S \in T : IsFiniteSet(S)
    BY <2>3
  <2> QED BY <2>2, <2>4, FS_UNION
<1>6. IsFiniteSet(Requests(c, s))
  <2> DEFINE F == [x \in Cell |-> DOMAIN mailbox[x]]
             U == UNION {{x} \X F[x] : x \in Cell}
  <2>1. IsFiniteSet(U)
    <3>1. F \in [Cell -> {F[x] : x \in Cell}] /\ \A x \in Cell : IsFiniteSet(F[x])
      BY <1>3
    <3> HIDE DEF F
    <3> QED BY <1>5, <3>1
  <2>2. Requests(c, s) \in SUBSET U
    BY DEF Requests
  <2> QED BY <2>1, <2>2, FS_Subset
<1>7. IsFiniteSet(Suspending(c, s))
  <2> DEFINE F == [x \in Cell |-> Owing(x)]
             U == UNION {{x} \X F[x] : x \in Cell}
  <2>1. IsFiniteSet(U)
    <3>1. F \in [Cell -> {F[x] : x \in Cell}] /\ \A x \in Cell : IsFiniteSet(F[x])
      BY <1>4
    <3> HIDE DEF F
    <3> QED BY <1>5, <3>1
  <2>2. Suspending(c, s) \in SUBSET U
    BY DEF Suspending
  <2> QED BY <2>1, <2>2, FS_Subset
<1>8. Serving(c, s) \in SUBSET Cell /\ Responses(c, s) \in SUBSET DOMAIN mailbox[c]
  BY DEF Serving, Responses
<1> QED BY <1>2, <1>3, <1>6, <1>7, <1>8, FS_Subset

\* No answer is in two places.
LEMMA CountedOnce ==
  ASSUME IInv, NeverLate, NEW c \in Cell, NEW s
  PROVE  /\ AtMostOne(Requests(c, s)) /\ AtMostOne(Serving(c, s))
         /\ AtMostOne(Suspending(c, s)) /\ AtMostOne(Responses(c, s))
         /\ Serving(c, s) # {} => /\ Requests(c, s) = {} /\ Suspending(c, s) = {}
                                  /\ Responses(c, s) = {}
         /\ Suspending(c, s) # {} => Requests(c, s) = {} /\ Responses(c, s) = {}
         /\ Requests(c, s) # {} => Responses(c, s) = {}
<1> DEFINE t == <<c, s>>
<1>1. /\ OnePlace(Held)
      /\ \A x \in Cell : MailDistinct(x, mailbox[x]) /\ TasksDistinct(Owing(x))
  BY Parts, AloneIs
<1>2. "mail" \in Kinds /\ "co" \in Kinds /\ "task" \in Kinds
  BY DEF Kinds
<1>3. ASSUME NEW x \in Cell, NEW i \in DOMAIN mailbox[x], t \in MessageClaims(x, mailbox[x][i])
      PROVE  t \in Held["mail"][x]
  BY <1>3, HeldIs DEF MailClaims
<1>4. ASSUME NEW x \in Cell, NEW k \in Owing(x), t \in SourceClaims(k)
      PROVE  t \in Held["task"][x]
  BY <1>4, HeldIs DEF TaskClaims
<1>5. ASSUME NEW x \in Cell, t \in SourceClaims(co[x]) PROVE t \in Held["co"][x]
  BY <1>5, HeldIs
<1>6. \A p \in Requests(c, s) :
        /\ p = <<p[1], p[2]>> /\ p[1] \in Cell /\ p[2] \in DOMAIN mailbox[p[1]]
        /\ mailbox[p[1]][p[2]].port # "response"
        /\ t \in MessageClaims(p[1], mailbox[p[1]][p[2]])
  BY CountedCarry
<1>7. \A x \in Serving(c, s) : x \in Cell /\ t \in SourceClaims(co[x])
  BY CountedCarry
<1>8. \A p \in Suspending(c, s) :
        /\ p = <<p[1], p[2]>> /\ p[1] \in Cell /\ p[2] \in Owing(p[1])
        /\ t \in SourceClaims(p[2])
  BY CountedCarry
<1>9. \A i \in Responses(c, s) :
        /\ i \in DOMAIN mailbox[c] /\ mailbox[c][i].port = "response"
        /\ t \in MessageClaims(c, mailbox[c][i])
  BY CountedCarry
<1> HIDE DEF t
<1>10. ASSUME NEW x \in Cell, NEW y \in Cell, NEW i \in DOMAIN mailbox[x], NEW j \in DOMAIN mailbox[y],
              t \in MessageClaims(x, mailbox[x][i]), t \in MessageClaims(y, mailbox[y][j])
       PROVE  x = y /\ i = j
  <2>1. x = y
    BY <1>1, <1>2, <1>3, <1>10 DEF OnePlace
  <2> QED BY <1>1, <1>10, <2>1 DEF MailDistinct
<1>11. AtMostOne(Requests(c, s))
  <2>1. ASSUME NEW p \in Requests(c, s), NEW q \in Requests(c, s) PROVE p = q
    <3>1. p[1] = q[1] /\ p[2] = q[2]
      BY <1>6, <1>10
    <3> QED BY <1>6, <3>1
  <2> QED BY <2>1 DEF AtMostOne
<1>12. AtMostOne(Responses(c, s))
  BY <1>9, <1>10 DEF AtMostOne
<1>13. AtMostOne(Serving(c, s))
  BY <1>1, <1>2, <1>5, <1>7 DEF AtMostOne, OnePlace
<1>14. AtMostOne(Suspending(c, s))
  <2>1. ASSUME NEW p \in Suspending(c, s), NEW q \in Suspending(c, s) PROVE p = q
    <3>1. p[1] = q[1]
      BY <1>1, <1>2, <1>4, <1>8 DEF OnePlace
    <3>2. p[2] = q[2]
      BY <1>1, <1>8, <3>1 DEF TasksDistinct
    <3> QED BY <1>8, <3>1, <3>2
  <2> QED BY <2>1 DEF AtMostOne
<1>15. Requests(c, s) # {} => Responses(c, s) = {}
  BY <1>6, <1>9, <1>10
<1>16. ASSUME NEW j \in Kinds, NEW k \in Kinds, j # k, NEW x \in Cell, NEW y \in Cell,
              t \in Held[j][x], t \in Held[k][y]
       PROVE  FALSE
  BY <1>1, <1>16 DEF OnePlace
<1>17. /\ Requests(c, s) # {} => \E x \in Cell : t \in Held["mail"][x]
       /\ Responses(c, s) # {} => \E x \in Cell : t \in Held["mail"][x]
       /\ Serving(c, s) # {} => \E x \in Cell : t \in Held["co"][x]
       /\ Suspending(c, s) # {} => \E x \in Cell : t \in Held["task"][x]
  BY <1>3, <1>4, <1>5, <1>6, <1>7, <1>8, <1>9
<1> QED BY <1>2, <1>11, <1>12, <1>13, <1>14, <1>15, <1>16, <1>17

-----------------------------------------------------------------------------
(* The properties                                                          *)

\* At most one answer, awaited.
LEMMA OnceByInvariant ==
  IInv => AnsweredOnce
<1>1. SUFFICES ASSUME IInv, NeverLate, NEW c \in Cell, NEW s \in 1 .. session[c]
               PROVE  /\ Answers(c, s) <= 1
                      /\ Answers(c, s) = 1 => s \in Awaiting(c)
  BY DEF AnsweredOnce, NeverLate
<1> DEFINE a == Cardinality(Requests(c, s))
           b == Cardinality(Serving(c, s))
           d == Cardinality(Suspending(c, s))
           e == Cardinality(Responses(c, s))
<1>2. /\ (a = 0 /\ Requests(c, s) = {}) \/ (a = 1 /\ Requests(c, s) # {})
      /\ (b = 0 /\ Serving(c, s) = {}) \/ (b = 1 /\ Serving(c, s) # {})
      /\ (d = 0 /\ Suspending(c, s) = {}) \/ (d = 1 /\ Suspending(c, s) # {})
      /\ (e = 0 /\ Responses(c, s) = {}) \/ (e = 1 /\ Responses(c, s) # {})
  BY <1>1, CountedOnce, CountOfOne
<1>3. Answers(c, s) = a + b + d + e
  BY DEF Answers
<1> HIDE DEF a, b, d, e
<1>4. /\ Serving(c, s) # {} => /\ Requests(c, s) = {} /\ Suspending(c, s) = {}
                               /\ Responses(c, s) = {}
      /\ Suspending(c, s) # {} => Requests(c, s) = {} /\ Responses(c, s) = {}
      /\ Requests(c, s) # {} => Responses(c, s) = {}
  BY <1>1, CountedOnce
<1>5. Answers(c, s) <= 1
  BY <1>2, <1>3, <1>4
<1>6. ASSUME Answers(c, s) = 1 PROVE s \in Awaiting(c)
  <2>1. \/ Requests(c, s) # {} \/ Serving(c, s) # {}
        \/ Suspending(c, s) # {} \/ Responses(c, s) # {}
    BY <1>2, <1>3, <1>6
  <2>2. \E k \in Kinds, x \in Cell : <<c, s>> \in Held[k][x]
    <3>1. "mail" \in Kinds /\ "co" \in Kinds /\ "task" \in Kinds
      BY DEF Kinds
    <3>2. CASE Requests(c, s) # {}
      <4>1. PICK p \in Requests(c, s) : TRUE
        BY <3>2
      <4>2. p[1] \in Cell /\ <<c, s>> \in Held["mail"][p[1]]
        BY CountedCarry, HeldIs DEF MailClaims
      <4> QED BY <3>1, <4>2
    <3>3. CASE Serving(c, s) # {}
      <4>1. PICK x \in Serving(c, s) : TRUE
        BY <3>3
      <4>2. x \in Cell /\ <<c, s>> \in Held["co"][x]
        BY CountedCarry, HeldIs
      <4> QED BY <3>1, <4>2
    <3>4. CASE Suspending(c, s) # {}
      <4>1. PICK p \in Suspending(c, s) : TRUE
        BY <3>4
      <4>2. p[1] \in Cell /\ <<c, s>> \in Held["task"][p[1]]
        BY CountedCarry, HeldIs DEF TaskClaims
      <4> QED BY <3>1, <4>2
    <3>5. CASE Responses(c, s) # {}
      <4>1. PICK i \in Responses(c, s) : TRUE
        BY <3>5
      <4>2. <<c, s>> \in Held["mail"][c]
        BY CountedCarry, HeldIs DEF MailClaims
      <4> QED BY <3>1, <4>2
    <3> QED BY <2>1, <3>2, <3>3, <3>4, <3>5
  <2>3. AwaitedIn(Held)
    BY <1>1, Parts, AloneIs
  <2>4. <<c, s>>[1] = c /\ <<c, s>>[2] = s
    OBVIOUS
  <2> QED BY <2>2, <2>3, <2>4 DEF AwaitedIn
<1> QED BY <1>5, <1>6

\* An open cell's call has an answer to come, or called a cell whose exit failed.
LEMMA NotForgottenByInvariant ==
  IInv => ForgottenOnlyByError
<1>1. SUFFICES ASSUME IInv, NEW c \in Cell, status[c] = "open",
                      NEW k \in tasks[c], k.why = "answer", Answers(c, k.event) = 0
               PROVE  "exit" \in faults[k.to] \/ <<c, k.event>> \in unsent
  BY DEF ForgottenOnlyByError
<1> DEFINE s == k.event
           a == Cardinality(Requests(c, s))
           b == Cardinality(Serving(c, s))
           d == Cardinality(Suspending(c, s))
           e == Cardinality(Responses(c, s))
<1>2. Answers(c, s) = a + b + d + e /\ Answers(c, s) = 0
  BY <1>1 DEF Answers
<1>3. /\ IsFiniteSet(Requests(c, s)) /\ IsFiniteSet(Serving(c, s))
      /\ IsFiniteSet(Suspending(c, s)) /\ IsFiniteSet(Responses(c, s))
  BY <1>1, CountsFinite
<1>4. a \in Nat /\ b \in Nat /\ d \in Nat /\ e \in Nat
  BY <1>3, FS_CardinalityType
<1>5. /\ a = 0 => Requests(c, s) = {}
      /\ b = 0 => Serving(c, s) = {}
      /\ d = 0 => Suspending(c, s) = {}
      /\ e = 0 => Responses(c, s) = {}
  BY <1>3, FS_EmptySet
<1> HIDE DEF a, b, d, e
<1>6. a = 0 /\ b = 0 /\ d = 0 /\ e = 0
  BY <1>2, <1>4
<1>7. Requests(c, s) = {} /\ Serving(c, s) = {} /\ Suspending(c, s) = {} /\ Responses(c, s) = {}
  BY <1>5, <1>6
<1>8. k.to \in Cell /\ ("exit" \in faults[k.to] \/ <<c, k.event>> \in unsent \/ Pending(c, k))
  BY <1>1, Parts DEF Answerable
<1>9. Pending(c, k) => FALSE
  BY <1>7, <1>8, PendingIs, CarriersCounted
<1> QED BY <1>8, <1>9

\* A response at the head of a queue is for a coroutine that waits for it.
LEMMA KnownByInvariant ==
  IInv /\ NeverLate => NoUnknownResponse
<1>1. SUFFICES ASSUME IInv, NeverLate, NEW c \in Cell, mailbox[c] # <<>>,
                      Head(mailbox[c]).port = "response"
               PROVE  Known(c, Head(mailbox[c]).session)
  BY DEF NoUnknownResponse
<1> DEFINE s == Head(mailbox[c]).session
<1>2. MailTypes /\ Alone
  BY <1>1, Parts
<1>3. <<c, s>> \in MailClaims(c, mailbox[c])
  <2>1. mailbox[c] \in Seq(Mail)
    BY <1>2 DEF MailTypes
  <2>2. MailClaims(c, mailbox[c])
          = MessageClaims(c, Head(mailbox[c])) \union MailClaims(c, Tail(mailbox[c]))
    BY <1>1, <2>1, MailTail
  <2>3. <<c, s>> \in MessageClaims(c, Head(mailbox[c]))
    BY <1>1 DEF MessageClaims
  <2> QED BY <2>2, <2>3
<1> HIDE DEF s
<1>4. <<c, s>> \in Held["mail"][c] /\ "mail" \in Kinds
  BY <1>3, HeldIs DEF Kinds
<1>5. AwaitedIn(Held) /\ <<c, s>>[1] = c /\ <<c, s>>[2] = s
  BY <1>2, AloneIs
<1>6. s \in Awaiting(c)
  BY <1>4, <1>5 DEF AwaitedIn
<1> QED BY <1>6, AwaitingIs DEF Known, s

\* The queues, coroutines, events, timers and exits of all cells keep their types.
THEOREM TypeCorrect == Spec => []TypeOK
<1>1. IInv => TypeOK
  BY DEF IInv
<1> QED BY <1>1, Invariance, PTL

\* The answer to a session is in one place, and a coroutine waits for it, however
\* calls, timeouts, launches and kills are interleaved (respond, suspend, exit in
\* cell.lua); unless a coroutine has run on after its cell's exit.
THEOREM OneAnswer == Spec => []AnsweredOnce
<1>1. IInv => AnsweredOnce
  BY OnceByInvariant
<1> QED BY <1>1, Invariance, PTL

\* A caller whose answer is nowhere called a cell whose exit was ended by an error, or
\* one that could not send that answer (suspend and exit in cell.lua).
THEOREM NoneForgotten == Spec => []ForgottenOnlyByError
<1>1. IInv => ForgottenOnlyByError
  BY NotForgottenByInvariant
<1> QED BY <1>1, Invariance, PTL

\* Every suspended timeout of the system cell is in its timer or its events.
THEOREM SleepersAreKept == Spec => []SleepersKept
<1>1. IInv => SleepersKept
  BY DEF IInv
<1> QED BY <1>1, Invariance, PTL

\* A cell waits for its next message with no event left, unless a dispatch failed.
THEOREM EventsAreDelivered == Spec => []EventsDelivered
<1>1. IInv => EventsDelivered
  BY DEF IInv
<1> QED BY <1>1, Invariance, PTL

\* "Unknown response" is raised only once a coroutine has run on after its cell's
\* exit has answered for it.
THEOREM ResponsesKnown == Spec => [](NeverLate => NoUnknownResponse)
<1>1. IInv => (NeverLate => NoUnknownResponse)
  BY KnownByInvariant
<1> QED BY <1>1, Invariance, PTL
=============================================================================
