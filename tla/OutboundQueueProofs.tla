------------------------- MODULE OutboundQueueProofs -------------------------
(***************************************************************************)
(* What OutboundQueue keeps for any watermarks, frame limit, stream        *)
(* capacity and number of entries: the account of pendingBytes and the     *)
(* pressure bound, the order of the sequence numbers, and the responses.   *)
(*                                                                         *)
(* The lemmas about the writer are stated for any set V of payloads, and   *)
(* the facts about sums and responses by induction over positions.         *)
(***************************************************************************)
EXTENDS OutboundQueue, FiniteSetTheorems, SequenceTheorems,
        WellFoundedInduction, TLAPS

-----------------------------------------------------------------------------
(* Induction over the positions of a sequence. *)

\* A set that holds 0 and with each number the next holds every number to N.
LEMMA UpTo ==
    ASSUME NEW N \in Nat, NEW S, 0 \in S,
           \A n \in 1..N : n - 1 \in S => n \in S
    PROVE  \A n \in 0..N : n \in S
  <1> DEFINE T == {n \in 0..N : n \notin S}
  <1> SUFFICES ASSUME T # {} PROVE FALSE
    OBVIOUS
  <1>1. T \subseteq Nat
    OBVIOUS
  <1>2. PICK x \in T : \A y \in T : ~(<<y, x>> \in OpToRel(<, Nat))
    BY <1>1, NatLessThanWellFounded, WFMin
  <1>3. \A y \in T : ~(y < x)
    BY <1>1, <1>2 DEF OpToRel
  <1>4. x # 0 /\ x \in 1..N /\ x - 1 \notin T
    BY <1>3
  <1> QED BY <1>4

\* Function f computes the value of each position to N from the one before it.
Recurses(f, N, a, step) ==
    f[0] = a /\ \A n \in 1..N : f[n] = step[n][f[n - 1]]

\* Such a function exists.
LEMMA Recursion ==
    ASSUME NEW N \in Nat, NEW V, NEW a \in V, NEW step \in [1..N -> [V -> V]]
    PROVE  \E f \in [0..N -> V] : Recurses(f, N, a, step)
  <1> DEFINE S == {m \in 0..N : \E f \in [0..m -> V] : Recurses(f, m, a, step)}
  <1>1. 0 \in S
    <2> DEFINE f == [n \in 0..0 |-> a]
    <2>1. f \in [0..0 -> V] /\ f[0] = a
      OBVIOUS
    <2> HIDE DEF f
    <2>2. Recurses(f, 0, a, step)
      BY <2>1 DEF Recurses
    <2> QED BY <2>1, <2>2
  <1>2. ASSUME NEW m \in 1..N, m - 1 \in S PROVE m \in S
    <2>1. PICK g \in [0..(m - 1) -> V] : Recurses(g, m - 1, a, step)
      BY <1>2
    <2>2. m \in Nat /\ m - 1 \in 0..(m - 1) /\ 0 \in 0..(m - 1) /\ 0 # m /\ 0 \in 0..m
      OBVIOUS
    <2>3. step[m][g[m - 1]] \in V /\ g[m - 1] \in V
      BY <2>2
    <2> DEFINE f == [n \in 0..m |-> IF n = m THEN step[m][g[m - 1]] ELSE g[n]]
    <2>4. f \in [0..m -> V]
      <3>1. \A n \in 0..m : n # m => n \in 0..(m - 1)
        BY <2>2
      <3> QED BY <2>3, <3>1
    <2>5. f[0] = a
      BY <2>1, <2>2 DEF Recurses
    <2>6. ASSUME NEW n \in 1..m PROVE f[n] = step[n][f[n - 1]]
      <3>1. n - 1 \in 0..m /\ n - 1 # m /\ n \in 0..m
        BY <2>2
      <3>2. f[n - 1] = g[n - 1]
        BY <3>1
      <3>3. CASE n = m
        BY <3>3, <3>1, <3>2
      <3>4. CASE n # m
        <4>1. n \in 1..(m - 1)
          BY <3>4, <2>2
        <4>2. f[n] = g[n]
          BY <3>4, <3>1
        <4> QED BY <2>1, <4>1, <4>2, <3>2 DEF Recurses
      <3> QED BY <3>3, <3>4
    <2> HIDE DEF f
    <2>7. Recurses(f, m, a, step)
      BY <2>5, <2>6 DEF Recurses
    <2> QED BY <2>4, <2>7
  <1> HIDE DEF S
  <1>3. \A n \in 0..N : n \in S
    BY <1>1, <1>2, UpTo
  <1>4. N \in S
    BY <1>3
  <1> QED BY <1>4 DEF S

-----------------------------------------------------------------------------
(* The sum of a sequence. *)

\* The function Total evaluates at its last argument.
Sums(s) ==
    CHOOSE sum : sum = [n \in 0..Len(s) |-> IF n = 0 THEN 0 ELSE sum[n - 1] + s[n]]

\* The partial sums of a sequence of numbers.
LEMMA SumsDef ==
    ASSUME NEW s \in Seq(Nat)
    PROVE  /\ Sums(s) \in [0..Len(s) -> Nat]
           /\ Sums(s)[0] = 0
           /\ \A n \in 1..Len(s) : Sums(s)[n] = Sums(s)[n - 1] + s[n]
           /\ Total(s) = Sums(s)[Len(s)]
  <1> DEFINE N == Len(s)
             step == [n \in 1..N |-> [x \in Nat |-> x + s[n]]]
  <1>1. N \in Nat /\ \A n \in 1..N : s[n] \in Nat
    OBVIOUS
  <1>2. step \in [1..N -> [Nat -> Nat]]
    BY <1>1
  <1>3. \A n \in 1..N, x \in Nat : step[n][x] = x + s[n]
    OBVIOUS
  <1>4. 0 \in Nat
    OBVIOUS
  <1> HIDE DEF N, step
  <1>5. PICK f \in [0..N -> Nat] : Recurses(f, N, 0, step)
    BY <1>1, <1>2, <1>4, Recursion
  <1>6. f = [n \in 0..N |-> IF n = 0 THEN 0 ELSE f[n - 1] + s[n]]
    <2>1. ASSUME NEW n \in 0..N PROVE f[n] = IF n = 0 THEN 0 ELSE f[n - 1] + s[n]
      <3>1. CASE n = 0
        BY <3>1, <1>5 DEF Recurses
      <3>2. CASE n # 0
        <4>1. n \in 1..N /\ f[n - 1] \in Nat
          BY <3>2, <1>1
        <4> QED BY <3>2, <4>1, <1>3, <1>5 DEF Recurses
      <3> QED BY <3>1, <3>2
    <2> QED BY <2>1
  <1>7. Sums(s) = [n \in 0..N |-> IF n = 0 THEN 0 ELSE Sums(s)[n - 1] + s[n]]
    BY <1>6 DEF Sums, N
  <1>8. /\ DOMAIN Sums(s) = 0..N /\ Sums(s)[0] = 0
        /\ \A n \in 1..N : Sums(s)[n] = Sums(s)[n - 1] + s[n]
    <2>1. \A n \in 0..N : Sums(s)[n] = IF n = 0 THEN 0 ELSE Sums(s)[n - 1] + s[n]
      BY <1>7
    <2>2. DOMAIN Sums(s) = 0..N
      BY <1>7
    <2> QED BY <2>1, <2>2, <1>1
  <1> DEFINE S == {n \in 0..N : Sums(s)[n] \in Nat}
  <1>9. 0 \in S
    BY <1>1, <1>8
  <1>10. ASSUME NEW n \in 1..N, n - 1 \in S PROVE n \in S
    <2>1. Sums(s)[n - 1] \in Nat /\ s[n] \in Nat /\ n \in 0..N
      BY <1>1, <1>10
    <2> QED BY <1>8, <2>1
  <1> HIDE DEF S
  <1>11. \A n \in 0..N : n \in S
    BY <1>1, <1>9, <1>10, UpTo
  <1>12. Sums(s) \in [0..N -> Nat]
    <2>1. \A n \in 0..N : Sums(s)[n] \in Nat
      BY <1>11 DEF S
    <2>2. Sums(s) = [n \in 0..N |-> Sums(s)[n]]
      BY <1>7, <1>8
    <2> QED BY <2>1, <2>2
  <1>13. Total(s) = Sums(s)[N]
    BY DEF Total, Sums, N
  <1> QED BY <1>8, <1>12, <1>13 DEF N

\* A sum of numbers is a number.
LEMMA TotalNat ==
    ASSUME NEW s \in Seq(Nat)
    PROVE  Total(s) \in Nat
  BY SumsDef

\* Sums that add up position by position add up.
LEMMA TotalPlus ==
    ASSUME NEW s \in Seq(Nat), NEW t \in Seq(Nat), NEW u \in Seq(Nat),
           Len(t) = Len(s), Len(u) = Len(s),
           \A i \in 1..Len(s) : s[i] = t[i] + u[i]
    PROVE  Total(s) = Total(t) + Total(u)
  <1> DEFINE N == Len(s)
             S == {n \in 0..N : Sums(s)[n] = Sums(t)[n] + Sums(u)[n]}
  <1>1. /\ N \in Nat
        /\ \A n \in 1..N : t[n] \in Nat /\ u[n] \in Nat /\ s[n] = t[n] + u[n]
    OBVIOUS
  <1>2. /\ Sums(s)[0] = 0 /\ Total(s) = Sums(s)[N]
        /\ \A n \in 1..N : Sums(s)[n] = Sums(s)[n - 1] + s[n]
    BY SumsDef
  <1>3. /\ Sums(t)[0] = 0 /\ Sums(t) \in [0..N -> Nat] /\ Total(t) = Sums(t)[N]
        /\ \A n \in 1..N : Sums(t)[n] = Sums(t)[n - 1] + t[n]
    BY SumsDef
  <1>4. /\ Sums(u)[0] = 0 /\ Sums(u) \in [0..N -> Nat] /\ Total(u) = Sums(u)[N]
        /\ \A n \in 1..N : Sums(u)[n] = Sums(u)[n - 1] + u[n]
    BY SumsDef
  <1> HIDE DEF N
  <1>5. 0 \in S
    <2>1. 0 \in 0..N /\ 0 = 0 + 0
      BY <1>1
    <2>2. Sums(s)[0] = Sums(t)[0] + Sums(u)[0]
      BY <1>2, <1>3, <1>4, <2>1
    <2> QED BY <2>1, <2>2
  <1>6. ASSUME NEW n \in 1..N, n - 1 \in S PROVE n \in S
    <2>1. n \in 0..N /\ n - 1 \in 0..N
      BY <1>1
    <2>2. /\ Sums(t)[n - 1] \in Nat /\ Sums(u)[n - 1] \in Nat
          /\ t[n] \in Nat /\ u[n] \in Nat
      BY <1>1, <1>3, <1>4, <2>1
    <2>3. Sums(s)[n - 1] = Sums(t)[n - 1] + Sums(u)[n - 1]
      BY <1>6
    <2>4. /\ Sums(s)[n] = Sums(s)[n - 1] + s[n] /\ s[n] = t[n] + u[n]
          /\ Sums(t)[n] = Sums(t)[n - 1] + t[n]
          /\ Sums(u)[n] = Sums(u)[n - 1] + u[n]
      BY <1>1, <1>2, <1>3, <1>4
    <2>5. Sums(s)[n] = Sums(t)[n] + Sums(u)[n]
      <3>1. \A x, y, v, w \in Nat : (x + y) + (v + w) = (x + v) + (y + w)
        OBVIOUS
      <3>2. Sums(s)[n] = (Sums(t)[n - 1] + Sums(u)[n - 1]) + (t[n] + u[n])
        BY <2>3, <2>4
      <3> QED BY SMTT(30), <2>2, <2>4, <3>1, <3>2
    <2> QED BY <2>1, <2>5
  <1> HIDE DEF S
  <1>7. \A n \in 0..N : n \in S
    BY <1>1, <1>5, <1>6, UpTo
  <1>8. N \in S
    BY <1>1, <1>7
  <1> QED BY <1>2, <1>3, <1>4, <1>8 DEF S

\* What a new last number adds.
LEMMA TotalAppend ==
    ASSUME NEW s \in Seq(Nat), NEW x \in Nat
    PROVE  Total(Append(s, x)) = Total(s) + x
  <1> DEFINE N == Len(s)
             t == Append(s, x)
             S == {n \in 0..N : Sums(s)[n] = Sums(t)[n]}
  <1>1. /\ N \in Nat /\ t \in Seq(Nat) /\ Len(t) = N + 1 /\ t[N + 1] = x
        /\ \A n \in 1..N : t[n] = s[n]
    OBVIOUS
  <1> HIDE DEF t
  <1>2. /\ Sums(s)[0] = 0 /\ Total(s) = Sums(s)[N]
        /\ \A n \in 1..N : Sums(s)[n] = Sums(s)[n - 1] + s[n]
    BY SumsDef
  <1>3. /\ Sums(t)[0] = 0 /\ Total(t) = Sums(t)[N + 1]
        /\ \A n \in 1..(N + 1) : Sums(t)[n] = Sums(t)[n - 1] + t[n]
    BY <1>1, SumsDef
  <1> HIDE DEF N
  <1>4. 0 \in S
    BY <1>1, <1>2, <1>3
  <1>5. ASSUME NEW n \in 1..N, n - 1 \in S PROVE n \in S
    <2>1. n \in 1..(N + 1) /\ n \in 0..N
      BY <1>1
    <2> QED BY <1>1, <1>2, <1>3, <1>5, <2>1
  <1> HIDE DEF S
  <1>6. \A n \in 0..N : n \in S
    BY <1>1, <1>4, <1>5, UpTo
  <1>7. N \in S
    BY <1>1, <1>6
  <1>8. N + 1 \in 1..(N + 1) /\ (N + 1) - 1 = N
    BY <1>1
  <1>9. Sums(t)[N + 1] = Sums(t)[N] + x
    BY <1>1, <1>3, <1>8
  <1> QED BY <1>2, <1>3, <1>7, <1>9 DEF S, t

\* What the first number adds.
LEMMA TotalTail ==
    ASSUME NEW s \in Seq(Nat), s # <<>>
    PROVE  Total(s) = s[1] + Total(Tail(s))
  <1> DEFINE t == Tail(s)
             N == Len(t)
             S == {n \in 0..N : Sums(s)[n + 1] = s[1] + Sums(t)[n]}
  <1>1. /\ N \in Nat /\ t \in Seq(Nat) /\ Len(s) = N + 1 /\ s[1] \in Nat
        /\ \A n \in 1..N : t[n] = s[n + 1] /\ t[n] \in Nat
    OBVIOUS
  <1> HIDE DEF t
  <1>2. /\ Sums(s)[0] = 0 /\ Total(s) = Sums(s)[N + 1]
        /\ \A n \in 1..(N + 1) : Sums(s)[n] = Sums(s)[n - 1] + s[n]
    BY <1>1, SumsDef
  <1>3. /\ Sums(t)[0] = 0 /\ Total(t) = Sums(t)[N] /\ Sums(t) \in [0..N -> Nat]
        /\ \A n \in 1..N : Sums(t)[n] = Sums(t)[n - 1] + t[n]
    BY <1>1, SumsDef
  <1> HIDE DEF N
  <1>4. 0 \in S
    <2>1. 1 \in 1..(N + 1) /\ 1 - 1 = 0
      BY <1>1
    <2>2. Sums(s)[1] = Sums(s)[0] + s[1]
      BY <1>2, <2>1
    <2> QED BY <1>1, <1>2, <1>3, <2>2
  <1>5. ASSUME NEW n \in 1..N, n - 1 \in S PROVE n \in S
    <2>1. /\ n + 1 \in 1..(N + 1) /\ (n + 1) - 1 = n /\ (n - 1) + 1 = n
          /\ n \in 0..N /\ n - 1 \in 0..N
      BY <1>1
    <2>2. /\ Sums(s)[n + 1] = Sums(s)[n] + s[n + 1]
          /\ Sums(t)[n] = Sums(t)[n - 1] + t[n]
      BY <1>2, <1>3, <2>1
    <2>3. Sums(s)[n] = s[1] + Sums(t)[n - 1]
      BY <1>5, <2>1
    <2>4. Sums(t)[n - 1] \in Nat /\ t[n] \in Nat /\ t[n] = s[n + 1]
      BY <1>1, <1>3, <2>1
    <2> QED BY <1>1, <2>1, <2>2, <2>3, <2>4
  <1> HIDE DEF S
  <1>6. \A n \in 0..N : n \in S
    BY <1>1, <1>4, <1>5, UpTo
  <1>7. N \in S
    BY <1>1, <1>6
  <1> QED BY <1>2, <1>3, <1>7 DEF S, t

\* One number that changes changes the sum by the difference.
LEMMA TotalChange ==
    ASSUME NEW s \in Seq(Nat), NEW t \in Seq(Nat), Len(t) = Len(s),
           NEW k \in 1..Len(s), \A i \in 1..Len(s) : i # k => t[i] = s[i]
    PROVE  Total(t) + s[k] = Total(s) + t[k] /\ s[k] <= Total(s)
  <1> DEFINE rest == [i \in 1..Len(s) |-> IF i = k THEN 0 ELSE s[i]]
             only(x) == [i \in 1..Len(s) |-> IF i = k THEN x ELSE 0]
             N == Len(s)
  <1>1. \A i \in 1..N : s[i] \in Nat /\ t[i] \in Nat
    OBVIOUS
  <1>2. N \in Nat /\ s[k] \in Nat /\ t[k] \in Nat
    OBVIOUS
  <1>3. rest \in Seq(Nat) /\ Len(rest) = N
    BY <1>1
  <1>4. \A x \in Nat : only(x) \in Seq(Nat) /\ Len(only(x)) = N
    OBVIOUS
  <1>5. ASSUME NEW x \in Nat PROVE Total(only(x)) = x
    <2> DEFINE o == only(x)
               S == {n \in 0..N : Sums(o)[n] = IF n < k THEN 0 ELSE x}
    <2>1. /\ o \in Seq(Nat) /\ Len(o) = N
          /\ \A n \in 1..N : o[n] = IF n = k THEN x ELSE 0
      BY <1>2
    <2> HIDE DEF o
    <2>2. /\ Sums(o)[0] = 0 /\ Total(o) = Sums(o)[N]
          /\ \A n \in 1..N : Sums(o)[n] = Sums(o)[n - 1] + o[n]
      BY <2>1, SumsDef
    <2> HIDE DEF N
    <2>3. k \in 1..N
      BY DEF N
    <2>4. 0 \in S
      BY <1>2, <2>2, <2>3
    <2>5. ASSUME NEW n \in 1..N, n - 1 \in S PROVE n \in S
      <3>1. Sums(o)[n] = Sums(o)[n - 1] + o[n] /\ o[n] = IF n = k THEN x ELSE 0
        BY <2>1, <2>2
      <3>2. Sums(o)[n - 1] = IF n - 1 < k THEN 0 ELSE x
        BY <2>5
      <3>3. Sums(o)[n] = IF n < k THEN 0 ELSE x
        BY <1>2, <2>3, <3>1, <3>2
      <3>4. n \in 0..N
        BY <1>2
      <3> QED BY <3>3, <3>4
    <2> HIDE DEF S
    <2>6. \A n \in 0..N : n \in S
      BY <1>2, <2>4, <2>5, UpTo
    <2>7. N \in S
      BY <1>2, <2>6
    <2> QED BY <1>2, <2>2, <2>3, <2>7 DEF S, o
  <1>6. Total(s) = Total(rest) + Total(only(s[k]))
    <2>1. \A i \in 1..N : s[i] = rest[i] + only(s[k])[i]
      BY <1>1
    <2> HIDE DEF rest, only
    <2> QED BY <1>2, <1>3, <1>4, <2>1, TotalPlus
  <1>7. Total(t) = Total(rest) + Total(only(t[k]))
    <2>1. \A i \in 1..Len(t) : t[i] = rest[i] + only(t[k])[i]
      BY <1>1
    <2>2. only(t[k]) \in Seq(Nat) /\ Len(only(t[k])) = Len(t) /\ Len(rest) = Len(t)
      <3> HIDE DEF rest, only
      <3> QED BY <1>2, <1>3, <1>4
    <2> HIDE DEF rest, only
    <2> QED BY <1>3, <2>1, <2>2, TotalPlus
  <1> HIDE DEF rest, only
  <1> QED BY SMTT(30), <1>2, <1>3, <1>5, <1>6, <1>7, TotalNat

-----------------------------------------------------------------------------
(* The responses among some lines. *)

\* The function Responses evaluates at its last argument.
Said(lines) ==
    CHOOSE said : said = [n \in 0..Len(lines) |->
        IF n = 0 THEN <<>>
        ELSE IF lines[n].kind = "response" THEN Append(said[n - 1], lines[n].val)
        ELSE said[n - 1]]

\* What has been said after each line.
SaysInTurn(lines, V) ==
    /\ Said(lines) \in [0..Len(lines) -> Seq(V)]
    /\ Said(lines)[0] = <<>>
    /\ \A n \in 1..Len(lines) :
          Said(lines)[n] = IF lines[n].kind = "response"
                           THEN Append(Said(lines)[n - 1], lines[n].val)
                           ELSE Said(lines)[n - 1]
    /\ Responses(lines) = Said(lines)[Len(lines)]

\* The function exists, and says what its definition says.
LEMMA SaidDef ==
    ASSUME NEW V, NEW L, \A l \in L : l.val \in V, NEW lines \in Seq(L)
    PROVE  SaysInTurn(lines, V)
  <1> DEFINE N == Len(lines)
             Next(n, x) == IF lines[n].kind = "response" THEN Append(x, lines[n].val) ELSE x
             step == [n \in 1..N |-> [x \in Seq(V) |-> Next(n, x)]]
  <1>1. N \in Nat /\ \A n \in 1..N : lines[n].val \in V
    OBVIOUS
  <1>2. \A n \in 1..N, x \in Seq(V) : Next(n, x) \in Seq(V)
    BY <1>1
  <1>3. step \in [1..N -> [Seq(V) -> Seq(V)]]
    <2> HIDE DEF Next, N
    <2> QED BY <1>2
  <1>4. \A n \in 1..N, x \in Seq(V) : step[n][x] = Next(n, x)
    <2> HIDE DEF Next, N
    <2> QED OBVIOUS
  <1>5. <<>> \in Seq(V)
    OBVIOUS
  <1> HIDE DEF N, step
  <1>6. PICK f \in [0..N -> Seq(V)] : Recurses(f, N, <<>>, step)
    BY <1>1, <1>3, <1>5, Recursion
  <1>7. f = [n \in 0..N |-> IF n = 0 THEN <<>> ELSE Next(n, f[n - 1])]
    <2> HIDE DEF Next
    <2>1. ASSUME NEW n \in 0..N PROVE f[n] = IF n = 0 THEN <<>> ELSE Next(n, f[n - 1])
      <3>1. CASE n = 0
        BY <3>1, <1>6 DEF Recurses
      <3>2. CASE n # 0
        <4>1. n \in 1..N /\ n - 1 \in 0..N
          BY <3>2, <1>1
        <4>2. f[n - 1] \in Seq(V) /\ f[n] = step[n][f[n - 1]]
          BY <1>6, <4>1 DEF Recurses
        <4> QED BY <3>2, <4>1, <4>2, <1>4
      <3> QED BY <3>1, <3>2
    <2> QED BY <2>1
  <1>8. Said(lines) = [n \in 0..N |-> IF n = 0 THEN <<>>
                                      ELSE IF lines[n].kind = "response"
                                           THEN Append(Said(lines)[n - 1], lines[n].val)
                                           ELSE Said(lines)[n - 1]]
    BY <1>7 DEF Said, N
  <1> DEFINE sd == Said(lines)
  <1>9. sd = [n \in 0..N |-> IF n = 0 THEN <<>> ELSE Next(n, sd[n - 1])]
    BY <1>8
  <1> HIDE DEF sd, Next
  <1>10. sd[0] = <<>> /\ \A n \in 1..N : sd[n] = Next(n, sd[n - 1])
    <2>1. \A n \in 0..N : sd[n] = IF n = 0 THEN <<>> ELSE Next(n, sd[n - 1])
      BY <1>9
    <2> QED BY <2>1, <1>1
  <1> DEFINE S == {n \in 0..N : sd[n] \in Seq(V)}
  <1>11. 0 \in S
    <2>1. 0 \in 0..N /\ sd[0] \in Seq(V)
      BY <1>1, <1>5, <1>10
    <2> QED BY <2>1
  <1>12. ASSUME NEW n \in 1..N, n - 1 \in S PROVE n \in S
    BY <1>1, <1>2, <1>10, <1>12
  <1> HIDE DEF S
  <1>13. \A n \in 0..N : n \in S
    BY <1>1, <1>11, <1>12, UpTo
  <1>14. sd \in [0..N -> Seq(V)]
    <2>1. \A n \in 0..N : sd[n] \in Seq(V)
      BY <1>13 DEF S
    <2>2. sd = [n \in 0..N |-> sd[n]]
      <3>1. DOMAIN sd = 0..N
        BY <1>9
      <3> QED BY <1>9, <3>1
    <2> QED BY <2>1, <2>2
  <1>15. Responses(lines) = sd[N]
    BY DEF Responses, Said, sd, N
  <1> QED BY <1>10, <1>14, <1>15 DEF N, sd, Next, SaysInTurn

\* Two lines say the same: both are responses, of one value, or neither is.
Same(a, b) ==
    /\ a.kind = "response" <=> b.kind = "response"
    /\ a.kind = "response" => a.val = b.val

\* Lines that say the same position by position say the same.
LEMMA SaidSame ==
    ASSUME NEW L, NEW a \in Seq(L), NEW b \in Seq(L), NEW m \in 0..Len(a),
           m <= Len(b), \A i \in 1..m : Same(a[i], b[i])
    PROVE  Said(a)[m] = Said(b)[m]
  <1> DEFINE S == {n \in 0..m : Said(a)[n] = Said(b)[n]}
             V == {l.val : l \in L}
  <1>1. \A l \in L : l.val \in V
    OBVIOUS
  <1> HIDE DEF V
  <1>2. m \in Nat /\ \A n \in 1..m : n \in 1..Len(a) /\ n \in 1..Len(b)
    OBVIOUS
  <1>3. /\ Said(a)[0] = <<>>
        /\ \A n \in 1..Len(a) :
              Said(a)[n] = IF a[n].kind = "response"
                           THEN Append(Said(a)[n - 1], a[n].val) ELSE Said(a)[n - 1]
    <2>1. SaysInTurn(a, V)
      BY <1>1, SaidDef
    <2> QED BY <2>1 DEF SaysInTurn
  <1>4. /\ Said(b)[0] = <<>>
        /\ \A n \in 1..Len(b) :
              Said(b)[n] = IF b[n].kind = "response"
                           THEN Append(Said(b)[n - 1], b[n].val) ELSE Said(b)[n - 1]
    <2>1. SaysInTurn(b, V)
      BY <1>1, SaidDef
    <2> QED BY <2>1 DEF SaysInTurn
  <1>5. 0 \in S
    BY <1>2, <1>3, <1>4
  <1>6. ASSUME NEW n \in 1..m, n - 1 \in S PROVE n \in S
    <2>1. Said(a)[n - 1] = Said(b)[n - 1]
      BY <1>6
    <2>2. Said(a)[n] = Said(b)[n]
      BY <1>2, <1>3, <1>4, <2>1 DEF Same
    <2> QED BY <2>2
  <1> HIDE DEF S
  <1>7. \A n \in 0..m : n \in S
    BY <1>2, <1>5, <1>6, UpTo
  <1>8. m \in S
    BY <1>2, <1>7
  <1> QED BY <1>8 DEF S

\* More lines say more: what was said stays, in its place.
LEMMA SaidGrows ==
    ASSUME NEW V, NEW L, \A l \in L : l.val \in V,
           NEW a \in Seq(L), NEW m \in 0..Len(a)
    PROVE  IsPrefix(Said(a)[m], Responses(a))
  <1> DEFINE N == Len(a)
             s == Said(a)[m]
             Begins(t) == Len(s) <= Len(t) /\ \A i \in 1..Len(s) : s[i] = t[i]
             S == {n \in 0..N : n >= m => Begins(Said(a)[n])}
  <1>1. N \in Nat /\ m \in Nat /\ m <= N /\ \A n \in 1..N : a[n].val \in V
    OBVIOUS
  <1>2. /\ Said(a) \in [0..N -> Seq(V)] /\ Responses(a) = Said(a)[N]
        /\ \A n \in 1..N :
              Said(a)[n] = IF a[n].kind = "response"
                           THEN Append(Said(a)[n - 1], a[n].val) ELSE Said(a)[n - 1]
    <2>1. SaysInTurn(a, V)
      BY SaidDef
    <2> QED BY <2>1 DEF SaysInTurn
  <1> HIDE DEF N
  <1>3. s \in Seq(V)
    BY <1>1, <1>2
  <1>4. Begins(s)
    BY <1>3
  <1>5. 0 \in S
    BY <1>1, <1>4
  <1>6. ASSUME NEW n \in 1..N, n - 1 \in S PROVE n \in S
    <2>1. n \in 0..N /\ n - 1 \in 0..N /\ n \in Nat
      BY <1>1
    <2>2. CASE n <= m
      <3>1. n >= m => n = m
        BY <1>1, <2>1, <2>2
      <3> QED BY <1>4, <2>1, <3>1
    <2>3. CASE n > m
      <3> DEFINE t == Said(a)[n - 1]
                 u == Said(a)[n]
      <3>1. n - 1 >= m
        BY <1>1, <2>1, <2>3
      <3>2. Begins(t)
        BY <1>6, <3>1
      <3>3. t \in Seq(V) /\ (u = t \/ u = Append(t, a[n].val)) /\ a[n].val \in V
        BY <1>1, <1>2, <2>1
      <3> HIDE DEF t, u, s
      <3>4. CASE u = t
        <4>1. Begins(u)
          BY <3>2, <3>4
        <4> QED BY <2>1, <4>1 DEF u
      <3>5. CASE u = Append(t, a[n].val)
        <4>1. Len(u) = Len(t) + 1 /\ \A i \in 1..Len(t) : u[i] = t[i]
          BY <3>3, <3>5
        <4>2. Len(s) \in Nat /\ Len(t) \in Nat
          BY <1>3, <3>3
        <4>3. Begins(u)
          BY <3>2, <4>1, <4>2
        <4> QED BY <2>1, <4>3 DEF u
      <3> QED BY <3>3, <3>4, <3>5
    <2> QED BY <1>1, <2>1, <2>2, <2>3
  <1> HIDE DEF S
  <1>7. \A n \in 0..N : n \in S
    BY <1>1, <1>5, <1>6, UpTo
  <1>8. N \in S
    BY <1>1, <1>7
  <1>9. Begins(Responses(a)) /\ Responses(a) \in Seq(V)
    BY <1>1, <1>2, <1>8 DEF S
  <1> HIDE DEF s
  <1>10. SubSeq(s, 1, Len(s)) = SubSeq(Responses(a), 1, Len(s))
    BY <1>3, <1>9
  <1> QED BY <1>9, <1>10 DEF IsPrefix, s

\* A line that is no response adds nothing.
LEMMA SaidSkip ==
    ASSUME NEW L, NEW a \in Seq(L), NEW b \in Seq(L), NEW k \in 1..Len(a),
           Len(a) = Len(b) + 1, a[k].kind # "response",
           \A i \in 1..Len(b) : Same(b[i], IF i < k THEN a[i] ELSE a[i + 1])
    PROVE  Responses(b) = Responses(a)
  <1> DEFINE N == Len(b)
             S == {n \in 0..N : Said(b)[n] = IF n < k THEN Said(a)[n] ELSE Said(a)[n + 1]}
             V == {l.val : l \in L}
  <1>1. \A l \in L : l.val \in V
    OBVIOUS
  <1> HIDE DEF V
  <1>2. N \in Nat /\ Len(a) = N + 1 /\ k \in 1..(N + 1)
    OBVIOUS
  <1>3. /\ Said(a)[0] = <<>> /\ Responses(a) = Said(a)[N + 1]
        /\ \A n \in 1..(N + 1) :
              Said(a)[n] = IF a[n].kind = "response"
                           THEN Append(Said(a)[n - 1], a[n].val) ELSE Said(a)[n - 1]
    <2>1. SaysInTurn(a, V)
      BY <1>1, SaidDef
    <2> QED BY <2>1 DEF SaysInTurn
  <1>4. /\ Said(b)[0] = <<>> /\ Responses(b) = Said(b)[N]
        /\ \A n \in 1..N :
              Said(b)[n] = IF b[n].kind = "response"
                           THEN Append(Said(b)[n - 1], b[n].val) ELSE Said(b)[n - 1]
    <2>1. SaysInTurn(b, V)
      BY <1>1, SaidDef
    <2> QED BY <2>1 DEF SaysInTurn
  <1>5. Said(a)[k] = Said(a)[k - 1]
    BY <1>2, <1>3
  <1>6. \A i \in 1..N : Same(b[i], IF i < k THEN a[i] ELSE a[i + 1])
    OBVIOUS
  <1> HIDE DEF N
  <1>7. 0 \in S
    BY <1>2, <1>3, <1>4
  <1>8. ASSUME NEW n \in 1..N, n - 1 \in S PROVE n \in S
    <2>1. /\ n \in 0..N /\ n \in 1..(N + 1) /\ n + 1 \in 1..(N + 1)
          /\ (n + 1) - 1 = n /\ (n - 1) + 1 = n
      BY <1>2
    <2>2. Said(b)[n - 1] = IF n - 1 < k THEN Said(a)[n - 1] ELSE Said(a)[n]
      BY <1>8, <2>1
    <2>3. CASE n < k
      <3>1. Said(b)[n - 1] = Said(a)[n - 1]
        BY <1>2, <2>1, <2>2, <2>3
      <3>2. Same(b[n], a[n])
        BY <1>6, <2>3
      <3>3. Said(b)[n] = Said(a)[n]
        BY <1>3, <1>4, <2>1, <3>1, <3>2 DEF Same
      <3> QED BY <2>1, <2>3, <3>3
    <2>4. CASE ~(n < k)
      <3>1. Said(b)[n - 1] = Said(a)[n]
        <4>1. CASE n = k
          BY <1>2, <1>5, <2>1, <2>2, <4>1
        <4>2. CASE n # k
          BY <1>2, <2>1, <2>2, <2>4, <4>2
        <4> QED BY <4>1, <4>2
      <3>2. Same(b[n], a[n + 1])
        BY <1>6, <2>4
      <3>3. Said(b)[n] = Said(a)[n + 1]
        BY <1>3, <1>4, <2>1, <3>1, <3>2 DEF Same
      <3> QED BY <2>1, <2>4, <3>3
    <2> QED BY <2>3, <2>4
  <1> HIDE DEF S
  <1>9. \A n \in 0..N : n \in S
    BY <1>2, <1>7, <1>8, UpTo
  <1>10. N \in S
    BY <1>2, <1>9
  <1>11. Said(b)[N] = Said(a)[N + 1]
    <2>1. CASE N < k
      <3>1. k = N + 1
        BY <1>2, <2>1
      <3> QED BY <1>2, <1>5, <1>10, <2>1, <3>1 DEF S
    <2>2. CASE ~(N < k)
      BY <1>10, <2>2 DEF S
    <2> QED BY <2>1, <2>2
  <1> QED BY <1>3, <1>4, <1>11

-----------------------------------------------------------------------------
(* Writer states.  V is the set of what lines carry: events carry payloads. *)

EntryOf(V) ==
    {e \in [kind : EventKinds \cup {"response"}, val : V, bytes : Nat, seq : Nat,
            dropped : BOOLEAN, indexed : BOOLEAN] : IsEvent(e) => e.val \in Payload}

WriterOf(V) == [queue : Seq(EntryOf(V)), pending : Nat, last : Nat]

Weights(q) == [i \in DOMAIN q |-> IF q[i].dropped THEN 0 ELSE q[i].bytes]

\* The account is right.
Sound(V, w) == w \in WriterOf(V) /\ w.pending = Total(Weights(w.queue))

\* Over the hard cap only responses are kept.
Pressed(w) ==
    w.pending > HardCap =>
        \A i \in DOMAIN w.queue : IsEvent(w.queue[i]) => w.queue[i].dropped

Bounded(V, w) == Sound(V, w) /\ Pressed(w)

\* From w to v nothing leaves the queue or comes back to life, responses stay.
Keeps(w, v) ==
    /\ Len(w.queue) <= Len(v.queue) /\ w.last <= v.last
    /\ \A i \in 1..Len(w.queue) :
          /\ v.queue[i].kind = w.queue[i].kind
          /\ w.queue[i].dropped => v.queue[i].dropped
          /\ ~IsEvent(w.queue[i]) => /\ v.queue[i].dropped = w.queue[i].dropped
                                     /\ v.queue[i].val = w.queue[i].val

\* From w to v no entry gets a number.
Unsealed(w, v) ==
    \A i \in 1..Len(v.queue) :
        v.queue[i].seq = IF i <= Len(w.queue) THEN w.queue[i].seq ELSE 0

\* Both relations are transitive.
LEMMA KeepsTransitive ==
    ASSUME NEW V, NEW u \in WriterOf(V), NEW v \in WriterOf(V), NEW w \in WriterOf(V),
           Keeps(u, v), Keeps(v, w)
    PROVE  /\ Keeps(u, w)
           /\ Unsealed(u, v) /\ Unsealed(v, w) => Unsealed(u, w)
  <1>1. /\ Len(u.queue) \in Nat /\ Len(v.queue) \in Nat /\ Len(w.queue) \in Nat
        /\ u.last \in Nat /\ v.last \in Nat /\ w.last \in Nat
    BY DEF WriterOf
  <1>2. Keeps(u, w)
    BY SMTT(30), <1>1 DEF Keeps, IsEvent
  <1>3. ASSUME Unsealed(u, v), Unsealed(v, w) PROVE Unsealed(u, w)
    <2>1. Len(u.queue) <= Len(v.queue) /\ Len(v.queue) <= Len(w.queue)
      BY DEF Keeps
    <2>2. ASSUME NEW i \in 1..Len(w.queue)
          PROVE  w.queue[i].seq = IF i <= Len(u.queue) THEN u.queue[i].seq ELSE 0
      <3>1. CASE i <= Len(v.queue)
        <4>1. i \in 1..Len(v.queue)
          BY <1>1, <3>1
        <4> QED BY <1>3, <3>1, <4>1 DEF Unsealed
      <3>2. CASE ~(i <= Len(v.queue))
        BY <1>1, <1>3, <2>1, <3>2 DEF Unsealed
      <3> QED BY <3>1, <3>2
    <2> QED BY <2>2 DEF Unsealed
  <1> QED BY <1>2, <1>3

\* The fields of an entry, and an entry with another value in one of them.
LEMMA EntryFields ==
    ASSUME NEW V, NEW e \in EntryOf(V)
    PROVE  /\ e.kind \in EventKinds \cup {"response"} /\ e.val \in V /\ e.bytes \in Nat
           /\ e.seq \in Nat /\ e.dropped \in BOOLEAN /\ e.indexed \in BOOLEAN
           /\ IsEvent(e) => e.val \in Payload
  BY DEF EntryOf

\* An entry that is dropped, or not.
LEMMA EntryDropped ==
    ASSUME NEW V, NEW e \in EntryOf(V), NEW b \in BOOLEAN
    PROVE  LET f == [e EXCEPT !.dropped = b]
           IN  /\ f \in EntryOf(V) /\ f.dropped = b
               /\ f.kind = e.kind /\ f.val = e.val /\ f.bytes = e.bytes
               /\ f.seq = e.seq /\ f.indexed = e.indexed
  BY DEF EntryOf, IsEvent

\* An entry that leaves the index, or not.
LEMMA EntryIndexed ==
    ASSUME NEW V, NEW e \in EntryOf(V), NEW b \in BOOLEAN
    PROVE  LET f == [e EXCEPT !.indexed = b]
           IN  /\ f \in EntryOf(V) /\ f.indexed = b
               /\ f.kind = e.kind /\ f.val = e.val /\ f.bytes = e.bytes
               /\ f.seq = e.seq /\ f.dropped = e.dropped
  BY DEF EntryOf, IsEvent

\* An entry that is given a number.
LEMMA EntrySealed ==
    ASSUME NEW V, NEW e \in EntryOf(V), NEW n \in Nat
    PROVE  LET f == [e EXCEPT !.seq = n]
           IN  /\ f \in EntryOf(V) /\ f.seq = n
               /\ f.kind = e.kind /\ f.val = e.val /\ f.bytes = e.bytes
               /\ f.dropped = e.dropped /\ f.indexed = e.indexed
  BY DEF EntryOf, IsEvent

\* A queue rewritten entry by entry.
LEMMA Rewritten ==
    ASSUME NEW E, NEW q \in Seq(E), NEW r, r = [i \in DOMAIN q |-> r[i]],
           \A i \in 1..Len(q) : r[i] \in E
    PROVE  r \in Seq(E) /\ Len(r) = Len(q)
  <1> DEFINE N == Len(q)
  <1>1. /\ N \in Nat /\ DOMAIN q = 1..N /\ r = [i \in DOMAIN q |-> r[i]]
        /\ \A i \in 1..N : r[i] \in E
    OBVIOUS
  <1>2. r \in [1..N -> E]
    <2> HIDE DEF N
    <2> QED BY <1>1
  <1>3. r \in Seq(E)
    <2> HIDE DEF N
    <2> QED BY <1>1, <1>2, SeqDef
  <1>4. DOMAIN r = 1..N /\ DOMAIN r = 1..Len(r) /\ Len(r) \in Nat
    <2> HIDE DEF N
    <2> QED BY <1>2, <1>3, LenProperties
  <1> HIDE DEF N
  <1>5. Len(r) = N
    BY <1>1, <1>4
  <1> QED BY <1>3, <1>5 DEF N

\* The weights of a queue, position by position.
LEMMA WeightsSeq ==
    ASSUME NEW V, NEW q \in Seq(EntryOf(V))
    PROVE  /\ Weights(q) \in Seq(Nat) /\ Len(Weights(q)) = Len(q)
           /\ \A i \in 1..Len(q) : Weights(q)[i] = IF q[i].dropped THEN 0 ELSE q[i].bytes
  <1>1. \A i \in 1..Len(q) : q[i].bytes \in Nat
    BY EntryFields
  <1> QED BY <1>1 DEF Weights

-----------------------------------------------------------------------------
(* maybeEnforceHardCap *)

\* A pass gives back the bytes of the events it drops; the second drops all.
LEMMA DropSound ==
    ASSUME NEW V, NEW w, Sound(V, w), NEW all \in BOOLEAN
    PROVE  LET v == Drop(w, all)
           IN  /\ Sound(V, v) /\ Keeps(w, v) /\ Unsealed(w, v)
               /\ all => \A i \in 1..Len(v.queue) :
                            IsEvent(v.queue[i]) => v.queue[i].dropped
  <1> DEFINE q == w.queue
             N == Len(q)
             gone(i) == Droppable(q[i], all)
             r == [i \in DOMAIN q |-> Shed(q[i], all)]
             freed == [i \in DOMAIN q |-> IF gone(i) THEN q[i].bytes ELSE 0]
             bare == [w EXCEPT !.queue = r, !.pending = w.pending - Total(freed)]
             v == Drop(w, all)
  <1>1. /\ w \in WriterOf(V) /\ q \in Seq(EntryOf(V)) /\ w.pending \in Nat /\ w.last \in Nat
        /\ w.pending = Total(Weights(q)) /\ N \in Nat /\ DOMAIN q = 1..N
    BY DEF Sound, WriterOf
  <1>2. \A i \in 1..N : q[i] \in EntryOf(V)
    BY <1>1
  <1>3. ASSUME NEW i \in 1..N
        PROVE  /\ r[i] \in EntryOf(V) /\ r[i].dropped = (q[i].dropped \/ gone(i))
               /\ r[i].kind = q[i].kind /\ r[i].val = q[i].val
               /\ r[i].bytes = q[i].bytes /\ r[i].seq = q[i].seq
    <2> DEFINE e == q[i]
               b == e.dropped \/ gone(i)
    <2>1. b \in BOOLEAN
      OBVIOUS
    <2>2. r[i] = [e EXCEPT !.dropped = b]
      BY <1>1 DEF Shed
    <2>3. e \in EntryOf(V)
      BY <1>2
    <2> HIDE DEF e, b, r
    <2>4. /\ r[i] \in EntryOf(V) /\ r[i].dropped = b
          /\ r[i].kind = e.kind /\ r[i].val = e.val
          /\ r[i].bytes = e.bytes /\ r[i].seq = e.seq
      BY <2>1, <2>2, <2>3, EntryDropped
    <2> QED BY <2>4 DEF e, b
  <1>4. r = [i \in DOMAIN q |-> r[i]]
    OBVIOUS
  <1>5. v = bare \/ v = [bare EXCEPT !.last = @ + 1]
    BY DEF Drop, NextSequence
  <1>6. \A i \in 1..N : freed[i] = IF gone(i) THEN q[i].bytes ELSE 0
    BY <1>1
  <1>7. freed \in Seq(Nat) /\ Len(freed) = N
    <2>1. \A i \in 1..N : q[i].bytes \in Nat
      BY <1>2, EntryFields
    <2> QED BY <1>1, <2>1
  <1> HIDE DEF r, freed
  <1>8. r \in Seq(EntryOf(V)) /\ Len(r) = N
    <2>1. \A i \in 1..Len(q) : r[i] \in EntryOf(V)
      BY <1>3
    <2> HIDE DEF q
    <2> QED BY <1>1, <1>4, <2>1, Rewritten
  <1>9. Total(Weights(q)) = Total(Weights(r)) + Total(freed)
    <2>1. /\ Weights(q) \in Seq(Nat) /\ Weights(r) \in Seq(Nat)
          /\ Len(Weights(q)) = N /\ Len(Weights(r)) = N
      BY <1>1, <1>8, WeightsSeq
    <2>2. ASSUME NEW i \in 1..N PROVE Weights(q)[i] = Weights(r)[i] + freed[i]
      <3>1. /\ Weights(q)[i] = IF q[i].dropped THEN 0 ELSE q[i].bytes
            /\ Weights(r)[i] = IF r[i].dropped THEN 0 ELSE r[i].bytes
        BY <1>1, <1>8, WeightsSeq
      <3>2. q[i].bytes \in Nat /\ r[i].bytes = q[i].bytes
        BY <1>2, <1>3, EntryFields
      <3>3. gone(i) => ~q[i].dropped
        BY DEF Droppable
      <3>4. r[i].dropped <=> (q[i].dropped \/ gone(i))
        BY <1>3
      <3>5. freed[i] = IF gone(i) THEN q[i].bytes ELSE 0
        BY <1>6
      <3> HIDE DEF gone
      <3> QED BY <3>1, <3>2, <3>3, <3>4, <3>5
    <2>3. \A i \in 1..Len(Weights(q)) : Weights(q)[i] = Weights(r)[i] + freed[i]
      BY <2>1, <2>2
    <2>4. Len(Weights(r)) = Len(Weights(q)) /\ Len(freed) = Len(Weights(q))
      BY <1>7, <2>1
    <2> HIDE DEF N, q
    <2> QED BY <1>7, <2>1, <2>3, <2>4, TotalPlus
  <1>10. Total(freed) \in Nat /\ Total(Weights(r)) \in Nat
    <2>1. Weights(r) \in Seq(Nat)
      BY <1>8, WeightsSeq
    <2> QED BY <1>7, <2>1, TotalNat
  <1>11. /\ v.queue = r /\ v.pending = Total(Weights(r)) /\ v \in WriterOf(V)
         /\ w.last <= v.last
    <2>1. w.pending - Total(freed) = Total(Weights(r))
      BY <1>1, <1>9, <1>10
    <2>2. bare = [w EXCEPT !.queue = r, !.pending = Total(Weights(r))]
      BY <2>1
    <2>3. /\ bare \in WriterOf(V) /\ bare.queue = r /\ bare.pending = Total(Weights(r))
          /\ bare.last = w.last
      <3> HIDE DEF q
      <3> QED BY <1>1, <1>8, <1>10, <2>2 DEF WriterOf
    <2> HIDE DEF v, q, bare
    <2>4. CASE v = bare
      BY <1>1, <2>3, <2>4
    <2>5. CASE v = [bare EXCEPT !.last = @ + 1]
      BY <1>1, <2>3, <2>5 DEF WriterOf
    <2> QED BY <1>5, <2>4, <2>5
  <1> HIDE DEF v, gone
  <1>12. Keeps(w, v)
    <2>1. ASSUME NEW i \in 1..N, ~IsEvent(q[i]) PROVE r[i].dropped = q[i].dropped
      <3>1. ~gone(i)
        BY <2>1 DEF gone, Droppable
      <3>2. (q[i].dropped \/ gone(i)) = q[i].dropped
        <4>1. q[i].dropped \in BOOLEAN
          BY <1>2, EntryFields
        <4> QED BY <3>1, <4>1
      <3> QED BY <1>3, <3>2
    <2>2. \A i \in 1..N : q[i].dropped => r[i].dropped
      BY <1>3
    <2>3. \A i \in 1..N : r[i].kind = q[i].kind /\ r[i].val = q[i].val
      BY <1>3
    <2>4. Len(w.queue) <= Len(v.queue) /\ Len(w.queue) = N /\ v.queue = r
      BY <1>1, <1>8, <1>11
    <2> HIDE DEF N
    <2>5. ASSUME NEW i \in 1..N
          PROVE  /\ v.queue[i].kind = w.queue[i].kind
                 /\ w.queue[i].dropped => v.queue[i].dropped
                 /\ ~IsEvent(w.queue[i]) => /\ v.queue[i].dropped = w.queue[i].dropped
                                            /\ v.queue[i].val = w.queue[i].val
      BY <2>1, <2>2, <2>3, <2>4
    <2> QED BY <1>11, <2>4, <2>5 DEF Keeps
  <1>13. Unsealed(w, v)
    BY <1>1, <1>3, <1>8, <1>11 DEF Unsealed
  <1>14. ASSUME all PROVE \A i \in 1..Len(v.queue) : IsEvent(v.queue[i]) => v.queue[i].dropped
    <2>1. \A i \in 1..N : IsEvent(r[i]) => q[i].dropped \/ gone(i)
      BY <1>3, <1>14 DEF gone, Droppable, IsEvent
    <2> QED BY <1>3, <1>8, <1>11, <2>1
  <1> QED BY <1>8, <1>11, <1>12, <1>13, <1>14 DEF v, Sound

\* After it the account is right and over the cap only responses are kept.
LEMMA EnforceHardCapBounded ==
    ASSUME NEW V, NEW w, Sound(V, w)
    PROVE  LET v == EnforceHardCap(w)
           IN  Bounded(V, v) /\ Keeps(w, v) /\ Unsealed(w, v)
  <1> DEFINE v == EnforceHardCap(w)
  <1>1. w \in WriterOf(V) /\ w.pending \in Nat /\ HardCap \in Nat
    BY WatermarkAssumption DEF Sound, WriterOf
  <1>2. CASE w.pending <= HardCap
    <2>1. v = w
      BY <1>2, Zenon DEF EnforceHardCap
    <2>2. Keeps(w, w) /\ Unsealed(w, w)
      <3>1. Len(w.queue) \in Nat /\ w.last \in Nat
        BY <1>1 DEF WriterOf
      <3> QED BY <3>1 DEF Keeps, Unsealed
    <2>3. Pressed(w)
      BY <1>1, <1>2 DEF Pressed
    <2> QED BY <2>1, <2>2, <2>3 DEF Bounded
  <1>3. CASE ~(w.pending <= HardCap) /\ Drop(w, FALSE).pending <= HardCap
    <2>1. v = Drop(w, FALSE)
      BY <1>3, Zenon DEF EnforceHardCap
    <2>2. FALSE \in BOOLEAN
      OBVIOUS
    <2>3. Sound(V, v) /\ Keeps(w, v) /\ Unsealed(w, v)
      BY <2>1, <2>2, DropSound, Zenon
    <2>4. Pressed(v)
      <3>1. v.pending \in Nat
        BY <2>3 DEF Sound, WriterOf
      <3>2. v.pending <= HardCap
        BY <1>3, <2>1, Zenon
      <3> HIDE DEF v
      <3> QED BY <1>1, <3>1, <3>2 DEF Pressed
    <2> QED BY <2>3, <2>4 DEF Bounded
  <1>4. CASE ~(w.pending <= HardCap) /\ ~(Drop(w, FALSE).pending <= HardCap)
    <2>1. v = Drop(w, TRUE)
      BY <1>4, Zenon DEF EnforceHardCap
    <2>2. TRUE \in BOOLEAN
      OBVIOUS
    <2>3. /\ Sound(V, v) /\ Keeps(w, v) /\ Unsealed(w, v)
          /\ \A i \in 1..Len(v.queue) : IsEvent(v.queue[i]) => v.queue[i].dropped
      BY <2>1, <2>2, DropSound, Zenon
    <2>4. DOMAIN v.queue = 1..Len(v.queue)
      BY <2>3 DEF Sound, WriterOf
    <2> QED BY <2>3, <2>4 DEF Bounded, Pressed
  <1> QED BY <1>2, <1>3, <1>4, Zenon

-----------------------------------------------------------------------------
(* The other operations of the writer. *)

\* From w to v the entries change in their index flags alone.
Relisted(w, v) ==
    /\ Len(v.queue) = Len(w.queue)
    /\ \A i \in 1..Len(w.queue) :
          /\ v.queue[i].kind = w.queue[i].kind /\ v.queue[i].val = w.queue[i].val
          /\ v.queue[i].bytes = w.queue[i].bytes /\ v.queue[i].seq = w.queue[i].seq
          /\ v.queue[i].dropped = w.queue[i].dropped

\* A writer whose entries differ in their numbers and index flags alone.
LEMMA Relabelled ==
    ASSUME NEW V, NEW w, Bounded(V, w), NEW v \in WriterOf(V),
           Len(v.queue) = Len(w.queue), v.pending = w.pending, w.last <= v.last,
           \A i \in 1..Len(w.queue) :
               /\ v.queue[i].kind = w.queue[i].kind /\ v.queue[i].val = w.queue[i].val
               /\ v.queue[i].bytes = w.queue[i].bytes
               /\ v.queue[i].dropped = w.queue[i].dropped
    PROVE  /\ Bounded(V, v) /\ Keeps(w, v)
           /\ (\A i \in 1..Len(w.queue) : v.queue[i].seq = w.queue[i].seq)
                 => Unsealed(w, v)
  <1> DEFINE q == w.queue
             r == v.queue
             N == Len(q)
  <1>1. /\ q \in Seq(EntryOf(V)) /\ r \in Seq(EntryOf(V)) /\ N \in Nat
        /\ DOMAIN q = 1..N /\ DOMAIN r = 1..N
        /\ w.pending = Total(Weights(q)) /\ Pressed(w)
    BY DEF Bounded, Sound, WriterOf
  <1>2. \A i \in 1..N : /\ r[i].kind = q[i].kind /\ r[i].val = q[i].val
                        /\ r[i].bytes = q[i].bytes /\ r[i].dropped = q[i].dropped
    OBVIOUS
  <1>3. Weights(r) = Weights(q)
    <2> HIDE DEF N, q, r
    <2> QED BY <1>1, <1>2 DEF Weights
  <1>4. Sound(V, v)
    BY <1>1, <1>3 DEF Sound
  <1>5. Pressed(v)
    <2> HIDE DEF N
    <2> QED BY <1>1, <1>2 DEF Pressed, IsEvent
  <1>6. Keeps(w, v)
    BY <1>1, <1>2 DEF Keeps, IsEvent
  <1>7. (\A i \in 1..N : r[i].seq = q[i].seq) => Unsealed(w, v)
    BY <1>1 DEF Unsealed
  <1> QED BY <1>4, <1>5, <1>6, <1>7 DEF Bounded

\* coalesceIndex.delete changes what may be replaced and nothing else.
LEMMA UnindexBounded ==
    ASSUME NEW V, NEW w, Bounded(V, w), NEW kind
    PROVE  LET v == Unindex(w, kind)
           IN  /\ Bounded(V, v) /\ Keeps(w, v) /\ Unsealed(w, v)
               /\ v.last = w.last /\ Relisted(w, v)
               /\ \A i \in 1..Len(w.queue) :
                     v.queue[i].indexed = (w.queue[i].indexed /\ w.queue[i].kind # kind)
  <1> DEFINE q == w.queue
             without(e) == [e EXCEPT !.indexed = @ /\ e.kind # kind]
             r == [i \in DOMAIN q |-> without(q[i])]
             v == [w EXCEPT !.queue = r]
  <1>1. /\ w \in WriterOf(V) /\ q \in Seq(EntryOf(V)) /\ Len(q) \in Nat
        /\ DOMAIN q = 1..Len(q)
    BY DEF Bounded, Sound, WriterOf
  <1>2. ASSUME NEW i \in 1..Len(q)
        PROVE  /\ r[i] \in EntryOf(V) /\ r[i].dropped = q[i].dropped
               /\ r[i].kind = q[i].kind /\ r[i].val = q[i].val
               /\ r[i].bytes = q[i].bytes /\ r[i].seq = q[i].seq
               /\ r[i].indexed = (q[i].indexed /\ q[i].kind # kind)
    <2> DEFINE e == q[i]
               b == e.indexed /\ e.kind # kind
    <2>1. e \in EntryOf(V) /\ b \in BOOLEAN /\ r[i] = [e EXCEPT !.indexed = b]
      BY <1>1
    <2> HIDE DEF e, b, r
    <2>2. /\ r[i] \in EntryOf(V) /\ r[i].dropped = e.dropped
          /\ r[i].kind = e.kind /\ r[i].val = e.val
          /\ r[i].bytes = e.bytes /\ r[i].seq = e.seq /\ r[i].indexed = b
      BY <2>1, EntryIndexed
    <2> QED BY <2>2 DEF e, b
  <1>3. r = [i \in DOMAIN q |-> r[i]]
    OBVIOUS
  <1> HIDE DEF r
  <1>4. r \in Seq(EntryOf(V)) /\ Len(r) = Len(q)
    <2>1. \A i \in 1..Len(q) : r[i] \in EntryOf(V)
      BY <1>2
    <2> HIDE DEF q
    <2> QED BY <1>1, <1>3, <2>1, Rewritten
  <1>5. v \in WriterOf(V) /\ v.queue = r /\ v.pending = w.pending /\ v.last = w.last
    <2> HIDE DEF q
    <2> QED BY <1>1, <1>4 DEF WriterOf
  <1>6. v = Unindex(w, kind)
    BY DEF Unindex, r
  <1>7. w.last <= v.last
    BY <1>1, <1>5 DEF WriterOf
  <1> HIDE DEF v
  <1>8. Bounded(V, v) /\ Keeps(w, v) /\ Unsealed(w, v)
    BY <1>2, <1>4, <1>5, <1>7, Relabelled
  <1>9. Relisted(w, v)
    BY <1>2, <1>4, <1>5 DEF Relisted
  <1>10. \A i \in 1..Len(w.queue) :
            v.queue[i].indexed = (w.queue[i].indexed /\ w.queue[i].kind # kind)
    BY <1>2, <1>5
  <1> QED BY <1>5, <1>6, <1>8, <1>9, <1>10

\* coalesceIndex.clear changes what may be replaced and nothing else.
LEMMA ClearIndexBounded ==
    ASSUME NEW V, NEW w, Bounded(V, w)
    PROVE  LET v == ClearIndex(w)
           IN  /\ Bounded(V, v) /\ Keeps(w, v) /\ Unsealed(w, v)
               /\ v.last = w.last /\ Relisted(w, v)
               /\ \A i \in 1..Len(w.queue) : ~v.queue[i].indexed
  <1> DEFINE q == w.queue
             r == [i \in DOMAIN q |-> [q[i] EXCEPT !.indexed = FALSE]]
             v == [w EXCEPT !.queue = r]
  <1>1. /\ w \in WriterOf(V) /\ q \in Seq(EntryOf(V)) /\ Len(q) \in Nat
        /\ DOMAIN q = 1..Len(q)
    BY DEF Bounded, Sound, WriterOf
  <1>2. ASSUME NEW i \in 1..Len(q)
        PROVE  /\ r[i] \in EntryOf(V) /\ r[i].dropped = q[i].dropped
               /\ r[i].kind = q[i].kind /\ r[i].val = q[i].val
               /\ r[i].bytes = q[i].bytes /\ r[i].seq = q[i].seq /\ ~r[i].indexed
    <2> DEFINE e == q[i]
               b == FALSE
    <2>1. e \in EntryOf(V) /\ b \in BOOLEAN /\ r[i] = [e EXCEPT !.indexed = b]
      BY <1>1
    <2> HIDE DEF e, b, r
    <2>2. /\ r[i] \in EntryOf(V) /\ r[i].dropped = e.dropped
          /\ r[i].kind = e.kind /\ r[i].val = e.val
          /\ r[i].bytes = e.bytes /\ r[i].seq = e.seq /\ r[i].indexed = b
      BY <2>1, EntryIndexed
    <2> QED BY <2>2 DEF e, b
  <1>3. r = [i \in DOMAIN q |-> r[i]]
    OBVIOUS
  <1> HIDE DEF r
  <1>4. r \in Seq(EntryOf(V)) /\ Len(r) = Len(q)
    <2>1. \A i \in 1..Len(q) : r[i] \in EntryOf(V)
      BY <1>2
    <2> HIDE DEF q
    <2> QED BY <1>1, <1>3, <2>1, Rewritten
  <1>5. v \in WriterOf(V) /\ v.queue = r /\ v.pending = w.pending /\ v.last = w.last
    <2> HIDE DEF q
    <2> QED BY <1>1, <1>4 DEF WriterOf
  <1>6. v = ClearIndex(w)
    BY DEF ClearIndex, r
  <1>7. w.last <= v.last
    BY <1>1, <1>5 DEF WriterOf
  <1> HIDE DEF v
  <1>8. Bounded(V, v) /\ Keeps(w, v) /\ Unsealed(w, v)
    BY <1>2, <1>4, <1>5, <1>7, Relabelled
  <1>9. Relisted(w, v)
    BY <1>2, <1>4, <1>5 DEF Relisted
  <1>10. \A i \in 1..Len(w.queue) : ~v.queue[i].indexed
    BY <1>2, <1>5
  <1> QED BY <1>5, <1>6, <1>8, <1>9, <1>10

\* An entry joins the queue, before the hard cap is enforced.
Pushed(w, e, mid) ==
    /\ Push(w, e) = EnforceHardCap(mid)
    /\ mid.queue = Append(w.queue, e) /\ mid.last = w.last

\* push is that, and then maybeEnforceHardCap.
LEMMA PushSteps ==
    ASSUME NEW V, NEW w, Bounded(V, w),
           NEW e \in EntryOf(V), ~e.dropped, e.seq = 0
    PROVE  \E mid : /\ Sound(V, mid) /\ Keeps(w, mid) /\ Unsealed(w, mid)
                   /\ Pushed(w, e, mid)
  <1> DEFINE q == w.queue
             r == Append(q, e)
             N == Len(q)
             p == w.pending + e.bytes
             mid == [w EXCEPT !.queue = r, !.pending = p]
  <1>1. /\ w \in WriterOf(V) /\ q \in Seq(EntryOf(V)) /\ N \in Nat /\ DOMAIN q = 1..N
        /\ w.pending \in Nat /\ w.pending = Total(Weights(q))
    BY DEF Bounded, Sound, WriterOf
  <1>2. e.bytes \in Nat
    BY EntryFields
  <1>3. /\ r \in Seq(EntryOf(V)) /\ Len(r) = N + 1 /\ r[N + 1] = e
        /\ \A i \in 1..N : r[i] = q[i]
    BY <1>1
  <1> HIDE DEF r, q, N
  <1>4. Weights(r) = Append(Weights(q), e.bytes)
    <2>1. /\ Weights(r) \in Seq(Nat) /\ Weights(q) \in Seq(Nat)
          /\ Len(Weights(r)) = N + 1 /\ Len(Weights(q)) = N
      BY <1>1, <1>3, WeightsSeq DEF N
    <2>2. Append(Weights(q), e.bytes) \in Seq(Nat) /\ Len(Append(Weights(q), e.bytes)) = N + 1
      BY <1>2, <2>1
    <2>3. ASSUME NEW i \in 1..(N + 1)
          PROVE  Weights(r)[i] = Append(Weights(q), e.bytes)[i]
      <3>1. Weights(r)[i] = IF r[i].dropped THEN 0 ELSE r[i].bytes
        BY <1>3, WeightsSeq
      <3>2. CASE i = N + 1
        BY <1>2, <1>3, <2>1, <3>1, <3>2
      <3>3. CASE i # N + 1
        <4>1. i \in 1..N
          BY <1>1, <3>3
        <4>2. Weights(q)[i] = IF q[i].dropped THEN 0 ELSE q[i].bytes
          BY <1>1, <4>1, WeightsSeq DEF N
        <4> QED BY <1>2, <1>3, <2>1, <3>1, <4>1, <4>2
      <3> QED BY <3>2, <3>3
    <2> QED BY <2>1, <2>2, <2>3, SeqEqual
  <1>5. Total(Weights(r)) = w.pending + e.bytes
    <2>1. Weights(q) \in Seq(Nat)
      BY <1>1, WeightsSeq
    <2> QED BY <1>1, <1>2, <1>4, <2>1, TotalAppend
  <1>6. /\ mid \in WriterOf(V) /\ mid.queue = r /\ mid.pending = p
        /\ mid.last = w.last
    <2>1. p \in Nat
      BY <1>1, <1>2
    <2> HIDE DEF p
    <2> QED BY <1>1, <1>3, <2>1 DEF WriterOf
  <1> HIDE DEF mid
  <1>7. Sound(V, mid)
    BY <1>5, <1>6 DEF Sound
  <1>8. Keeps(w, mid) /\ Unsealed(w, mid)
    <2>1. Len(w.queue) = N /\ w.queue = q /\ Len(mid.queue) = N + 1
      BY <1>3, <1>6 DEF N, q
    <2>2. w.last <= mid.last
      BY <1>1, <1>6 DEF WriterOf
    <2>3. Keeps(w, mid)
      BY <1>1, <1>3, <1>6, <2>1, <2>2 DEF Keeps
    <2>4. ASSUME NEW i \in 1..(N + 1)
          PROVE  r[i].seq = IF i <= N THEN q[i].seq ELSE 0
      <3>1. CASE i <= N
        BY <1>1, <1>3, <3>1
      <3>2. CASE ~(i <= N)
        BY <1>1, <1>3, <3>2
      <3> QED BY <3>1, <3>2
    <2> QED BY <1>6, <2>1, <2>3, <2>4 DEF Unsealed
  <1>9. Push(w, e) = EnforceHardCap(mid)
    BY DEF Push, mid, r, q
  <1>10. Pushed(w, e, mid)
    BY <1>6, <1>9 DEF Pushed, r, q
  <1> QED BY <1>7, <1>8, <1>10

\* push
LEMMA PushBounded ==
    ASSUME NEW V, NEW w, Bounded(V, w),
           NEW e \in EntryOf(V), ~e.dropped, e.seq = 0
    PROVE  LET v == Push(w, e)
           IN  Bounded(V, v) /\ Keeps(w, v) /\ Unsealed(w, v)
  <1> DEFINE v == Push(w, e)
  <1>1. PICK mid : /\ Sound(V, mid) /\ Keeps(w, mid) /\ Unsealed(w, mid)
                   /\ Pushed(w, e, mid)
    BY PushSteps
  <1>0. v = EnforceHardCap(mid)
    BY <1>1 DEF Pushed
  <1> HIDE DEF v
  <1>2. Bounded(V, v) /\ Keeps(mid, v) /\ Unsealed(mid, v)
    BY <1>0, <1>1, EnforceHardCapBounded
  <1>3. w \in WriterOf(V) /\ mid \in WriterOf(V) /\ v \in WriterOf(V)
    BY <1>1, <1>2 DEF Bounded, Sound
  <1>4. Keeps(w, v) /\ Unsealed(w, v)
    BY <1>1, <1>2, <1>3, KeepsTransitive
  <1> QED BY <1>2, <1>4 DEF v

\* An entry of the queue changes, before the hard cap is enforced.
Merged(w, k, val, bytes, mid) ==
    /\ Merge(w, k, val, bytes) = EnforceHardCap(mid)
    /\ Len(mid.queue) = Len(w.queue) /\ mid.last = w.last
    /\ \A i \in 1..Len(w.queue) :
          /\ i # k => mid.queue[i] = w.queue[i]
          /\ mid.queue[i].kind = w.queue[i].kind /\ mid.queue[i].seq = w.queue[i].seq
          /\ mid.queue[i].dropped = w.queue[i].dropped
          /\ mid.queue[i].indexed = w.queue[i].indexed
    /\ mid.queue[k].val = IF w.queue[k].kind = "frame" THEN w.queue[k].val \o val ELSE val
    /\ w.queue[k].kind # "frame" => mid.queue[k].bytes = bytes

\* A merge is that, and then maybeEnforceHardCap.
LEMMA MergeSteps ==
    ASSUME NEW V, Payload \subseteq V, NEW w, Bounded(V, w),
           NEW k \in 1..Len(w.queue), IsEvent(w.queue[k]), ~w.queue[k].dropped,
           NEW val \in Payload, NEW bytes \in Nat
    PROVE  \E mid : /\ Sound(V, mid) /\ Keeps(w, mid) /\ Unsealed(w, mid)
                   /\ Merged(w, k, val, bytes, mid)
  <1> DEFINE q == w.queue
             N == Len(q)
             nval == IF q[k].kind = "frame" THEN q[k].val \o val ELSE val
             nbytes == IF q[k].kind = "frame" THEN q[k].bytes + bytes ELSE bytes
             e == [q[k] EXCEPT !.val = nval, !.bytes = nbytes]
             r == [q EXCEPT ![k] = e]
             p == IF q[k].kind = "frame" THEN w.pending + bytes
                  ELSE w.pending + bytes - q[k].bytes
             mid == [w EXCEPT !.queue = r, !.pending = p]
  <1>1. /\ w \in WriterOf(V) /\ q \in Seq(EntryOf(V)) /\ N \in Nat /\ DOMAIN q = 1..N
        /\ w.pending \in Nat /\ w.pending = Total(Weights(q)) /\ k \in 1..N
    BY DEF Bounded, Sound, WriterOf
  <1>2. q[k] \in EntryOf(V) /\ q[k].bytes \in Nat /\ q[k].val \in Payload
    <2>1. q[k] \in EntryOf(V)
      BY <1>1
    <2> QED BY <2>1, EntryFields
  <1>3. nval \in Payload /\ nbytes \in Nat
    BY <1>2 DEF Payload
  <1>4. /\ e \in EntryOf(V) /\ e.bytes = nbytes /\ e.kind = q[k].kind
        /\ e.seq = q[k].seq /\ e.dropped = q[k].dropped
        /\ e.val = nval /\ e.indexed = q[k].indexed
    <2> DEFINE x == q[k]
    <2>1. x \in EntryOf(V) /\ e = [x EXCEPT !.val = nval, !.bytes = nbytes]
      BY <1>2
    <2> HIDE DEF x, e, nval, nbytes
    <2>2. /\ e \in EntryOf(V) /\ e.bytes = nbytes /\ e.kind = x.kind
          /\ e.seq = x.seq /\ e.dropped = x.dropped
          /\ e.val = nval /\ e.indexed = x.indexed
      BY <1>3, <2>1 DEF EntryOf, IsEvent
    <2> QED BY <2>2 DEF x
  <1>5. Merge(w, k, val, bytes) = EnforceHardCap(mid)
    <2>1. CASE q[k].kind = "frame"
      <3>1. mid = [w EXCEPT !.queue[k].val = @ \o val, !.queue[k].bytes = @ + bytes,
                            !.pending = @ + bytes]
        BY <1>1, <1>2, <2>1 DEF WriterOf, EntryOf
      <3> HIDE DEF mid
      <3> QED BY <2>1, <3>1 DEF Merge
    <2>2. CASE q[k].kind # "frame"
      <3>1. mid = [w EXCEPT !.queue[k].val = val, !.queue[k].bytes = bytes,
                            !.pending = @ + bytes - w.queue[k].bytes]
        BY <1>1, <1>2, <2>2 DEF WriterOf, EntryOf
      <3> HIDE DEF mid
      <3> QED BY <2>2, <3>1 DEF Merge
    <2> QED BY <2>1, <2>2
  <1> HIDE DEF e, nval
  <1>6. /\ r \in Seq(EntryOf(V)) /\ Len(r) = N /\ r[k] = e
        /\ \A i \in 1..N : i # k => r[i] = q[i]
    BY <1>1, <1>4
  <1> HIDE DEF r
  <1>7. p \in Nat /\ Total(Weights(r)) = p
    <2>1. /\ Weights(q) \in Seq(Nat) /\ Weights(r) \in Seq(Nat)
          /\ Len(Weights(q)) = N /\ Len(Weights(r)) = N
      BY <1>1, <1>6, WeightsSeq
    <2>2. \A i \in 1..N : i # k => Weights(r)[i] = Weights(q)[i]
      <3>1. ASSUME NEW i \in 1..N, i # k PROVE Weights(r)[i] = Weights(q)[i]
        <4>1. /\ Weights(q)[i] = IF q[i].dropped THEN 0 ELSE q[i].bytes
              /\ Weights(r)[i] = IF r[i].dropped THEN 0 ELSE r[i].bytes
          BY <1>1, <1>6, WeightsSeq
        <4> QED BY <1>6, <3>1, <4>1
      <3> QED BY <3>1
    <2>3. Weights(q)[k] = q[k].bytes /\ Weights(r)[k] = nbytes
      <3>1. /\ Weights(q)[k] = IF q[k].dropped THEN 0 ELSE q[k].bytes
            /\ Weights(r)[k] = IF r[k].dropped THEN 0 ELSE r[k].bytes
        BY <1>1, <1>6, WeightsSeq
      <3>2. ~q[k].dropped /\ ~r[k].dropped /\ r[k].bytes = nbytes
        BY <1>4, <1>6
      <3> HIDE DEF nbytes
      <3> QED BY <3>1, <3>2
    <2>4. /\ Total(Weights(r)) + q[k].bytes = Total(Weights(q)) + nbytes
          /\ q[k].bytes <= Total(Weights(q))
      <3> DEFINE s == Weights(q)
                 t == Weights(r)
      <3>1. /\ s \in Seq(Nat) /\ t \in Seq(Nat) /\ Len(t) = Len(s) /\ k \in 1..Len(s)
            /\ \A i \in 1..Len(s) : i # k => t[i] = s[i]
        BY <1>1, <2>1, <2>2
      <3>2. s[k] = q[k].bytes /\ t[k] = nbytes
        BY <2>3
      <3> HIDE DEF s, t, nbytes
      <3>3. Total(t) + s[k] = Total(s) + t[k] /\ s[k] <= Total(s)
        BY <3>1, TotalChange
      <3> QED BY <3>2, <3>3 DEF s, t
    <2>5. Total(Weights(r)) \in Nat
      BY <2>1, TotalNat
    <2> QED BY <1>1, <1>2, <2>4, <2>5
  <1> HIDE DEF p
  <1>8. /\ mid \in WriterOf(V) /\ mid.queue = r /\ mid.pending = p /\ mid.last = w.last
    BY <1>1, <1>6, <1>7 DEF WriterOf
  <1> HIDE DEF mid
  <1>9. Sound(V, mid)
    BY <1>7, <1>8 DEF Sound
  <1>10. Keeps(w, mid) /\ Unsealed(w, mid)
    <2>1. \A i \in 1..N : r[i].kind = q[i].kind /\ r[i].seq = q[i].seq
                            /\ r[i].dropped = q[i].dropped
      BY <1>4, <1>6
    <2>2. \A i \in 1..N : ~IsEvent(q[i]) => r[i].val = q[i].val
      <3>1. IsEvent(q[k])
        OBVIOUS
      <3> QED BY <1>6, <3>1
    <2>3. w.last <= mid.last /\ Len(mid.queue) = N /\ Len(w.queue) = N
      BY <1>1, <1>6, <1>8 DEF WriterOf
    <2> HIDE DEF N
    <2>4. Keeps(w, mid)
      BY <1>1, <1>8, <2>1, <2>2, <2>3 DEF Keeps
    <2> QED BY <1>1, <1>8, <2>1, <2>3, <2>4 DEF Unsealed
  <1>11. Merged(w, k, val, bytes, mid)
    <2>1. \A i \in 1..N : /\ i # k => r[i] = q[i]
                          /\ r[i].kind = q[i].kind /\ r[i].seq = q[i].seq
                          /\ r[i].dropped = q[i].dropped /\ r[i].indexed = q[i].indexed
      BY <1>4, <1>6
    <2>2. r[k].val = IF q[k].kind = "frame" THEN q[k].val \o val ELSE val
      BY <1>4, <1>6 DEF nval
    <2>3. q[k].kind # "frame" => r[k].bytes = bytes
      BY <1>4, <1>6
    <2>4. mid.queue = r /\ Len(r) = Len(w.queue) /\ mid.last = w.last
      BY <1>6, <1>8
    <2> HIDE DEF nbytes
    <2> QED BY <1>5, <2>1, <2>2, <2>3, <2>4 DEF Merged
  <1> QED BY <1>9, <1>10, <1>11

\* Under pressure an event takes the place, or joins the bytes, of the one queued.
LEMMA MergeBounded ==
    ASSUME NEW V, Payload \subseteq V, NEW w, Bounded(V, w),
           NEW k \in 1..Len(w.queue), IsEvent(w.queue[k]), ~w.queue[k].dropped,
           NEW val \in Payload, NEW bytes \in Nat
    PROVE  LET v == Merge(w, k, val, bytes)
           IN  Bounded(V, v) /\ Keeps(w, v) /\ Unsealed(w, v)
  <1> DEFINE v == Merge(w, k, val, bytes)
  <1>1. PICK mid : /\ Sound(V, mid) /\ Keeps(w, mid) /\ Unsealed(w, mid)
                   /\ Merged(w, k, val, bytes, mid)
    BY MergeSteps
  <1>0. v = EnforceHardCap(mid)
    BY <1>1 DEF Merged
  <1> HIDE DEF v
  <1>2. Bounded(V, v) /\ Keeps(mid, v) /\ Unsealed(mid, v)
    BY <1>0, <1>1, EnforceHardCapBounded
  <1>3. w \in WriterOf(V) /\ mid \in WriterOf(V) /\ v \in WriterOf(V)
    BY <1>1, <1>2 DEF Bounded, Sound
  <1>4. Keeps(w, v) /\ Unsealed(w, v)
    BY <1>1, <1>2, <1>3, KeepsTransitive
  <1> QED BY <1>2, <1>4 DEF v

\* enqueueEvent
LEMMA EnqueueEventBounded ==
    ASSUME NEW V, Payload \subseteq V, NEW w, Bounded(V, w),
           NEW kind \in EventKinds, NEW val \in Payload, NEW bytes \in Nat
    PROVE  LET v == EnqueueEvent(w, kind, val, bytes)
           IN  Bounded(V, v) /\ Keeps(w, v) /\ Unsealed(w, v)
  <1> DEFINE g == IF kind = "attention" THEN AttentionGuard(w) ELSE w
             target == {i \in Indexed(g, kind) : ~g.queue[i].dropped}
             lost == kind = "attention"
                       /\ \E i \in Indexed(w, "widget") : w.queue[i].dropped
             merges == kind \in Mergeable /\ g.pending > SoftWatermark /\ target # {}
             k == CHOOSE i \in target : TRUE
             b == HasKey(kind)
             e == [Entry(kind, val, bytes) EXCEPT !.indexed = b]
             v == EnqueueEvent(w, kind, val, bytes)
  <1>1. v = IF lost THEN w ELSE IF merges THEN Merge(g, k, val, bytes)
            ELSE Push(Unindex(g, kind), e)
    BY DEF EnqueueEvent
  <1>2. Bounded(V, g) /\ Keeps(w, g) /\ Unsealed(w, g)
    <2>1. Bounded(V, AttentionGuard(w)) /\ Keeps(w, AttentionGuard(w))
            /\ Unsealed(w, AttentionGuard(w))
      BY UnindexBounded DEF AttentionGuard
    <2>2. Keeps(w, w) /\ Unsealed(w, w)
      <3>1. Len(w.queue) \in Nat /\ w.last \in Nat
        BY DEF Bounded, Sound, WriterOf
      <3> QED BY <3>1 DEF Keeps, Unsealed
    <2> QED BY <2>1, <2>2
  <1>3. w \in WriterOf(V) /\ g \in WriterOf(V)
    BY <1>2 DEF Bounded, Sound
  <1>4. CASE lost
    <2>1. v = w
      BY <1>1, <1>4
    <2>2. Keeps(w, w) /\ Unsealed(w, w)
      <3>1. Len(w.queue) \in Nat /\ w.last \in Nat
        BY <1>3 DEF WriterOf
      <3> QED BY <3>1 DEF Keeps, Unsealed
    <2> QED BY <2>1, <2>2
  <1>5. CASE ~lost /\ merges
    <2> HIDE DEF g
    <2>1. v = Merge(g, k, val, bytes)
      BY <1>1, <1>5
    <2>2. k \in target
      BY <1>5
    <2>3. /\ k \in 1..Len(g.queue) /\ g.queue[k].kind = kind /\ ~g.queue[k].dropped
      BY <1>3, <2>2 DEF Indexed, WriterOf
    <2>4. IsEvent(g.queue[k])
      BY <2>3 DEF IsEvent, EventKinds, PlainKinds, Mergeable
    <2> HIDE DEF k, v
    <2>5. Bounded(V, v) /\ Keeps(g, v) /\ Unsealed(g, v)
      BY <1>2, <2>1, <2>3, <2>4, MergeBounded
    <2>6. v \in WriterOf(V)
      BY <2>5 DEF Bounded, Sound
    <2>7. Keeps(w, v) /\ Unsealed(w, v)
      BY <1>2, <1>3, <2>5, <2>6, KeepsTransitive
    <2> QED BY <2>5, <2>7 DEF v
  <1>6. CASE ~lost /\ ~merges
    <2> DEFINE u == Unindex(g, kind)
    <2>1. v = Push(u, e)
      BY <1>1, <1>6
    <2> HIDE DEF g
    <2>2. Bounded(V, u) /\ Keeps(g, u) /\ Unsealed(g, u)
      BY <1>2, UnindexBounded
    <2>3. e \in EntryOf(V) /\ ~e.dropped /\ e.seq = 0
      <3>1. b \in BOOLEAN
        BY DEF HasKey
      <3> HIDE DEF b
      <3> QED BY <3>1 DEF Entry, EntryOf, IsEvent
    <2> HIDE DEF u, v, e
    <2>4. Bounded(V, v) /\ Keeps(u, v) /\ Unsealed(u, v)
      BY <2>1, <2>2, <2>3, PushBounded
    <2>5. u \in WriterOf(V) /\ v \in WriterOf(V)
      BY <2>2, <2>4 DEF Bounded, Sound
    <2>6. Keeps(w, u) /\ Unsealed(w, u)
      BY <1>2, <1>3, <2>2, <2>5, KeepsTransitive
    <2>7. Keeps(w, v) /\ Unsealed(w, v)
      BY <1>3, <2>4, <2>5, <2>6, KeepsTransitive
    <2> QED BY <2>4, <2>7 DEF v
  <1> QED BY <1>4, <1>5, <1>6

\* enqueueResponse
LEMMA EnqueueResponseBounded ==
    ASSUME NEW V, NEW w, Bounded(V, w), NEW val \in V
    PROVE  LET v == EnqueueResponse(w, val)
           IN  Bounded(V, v) /\ Keeps(w, v) /\ Unsealed(w, v)
  <1> DEFINE e == Entry("response", val, 1)
  <1>1. e \in EntryOf(V) /\ ~e.dropped /\ e.seq = 0
    BY DEF Entry, EntryOf, IsEvent
  <1> HIDE DEF e
  <1>2. Bounded(V, Push(w, e)) /\ Keeps(w, Push(w, e)) /\ Unsealed(w, Push(w, e))
    BY <1>1, PushBounded
  <1> QED BY <1>2 DEF EnqueueResponse, e

-----------------------------------------------------------------------------
(* Numbers: a barrier gives the live events theirs, in queue order. *)

Open(q) == {i \in DOMAIN q : IsEvent(q[i]) /\ ~q[i].dropped /\ q[i].seq = 0}

Rank(q, i) == Cardinality({j \in Open(q) : j <= i})

\* Ranks are positions among the open entries.
LEMMA Ranks ==
    ASSUME NEW V, NEW q \in Seq(EntryOf(V))
    PROVE  /\ Cardinality(Open(q)) \in Nat
           /\ \A i \in Open(q) : Rank(q, i) \in Nat \ {0} /\ Rank(q, i) <= Cardinality(Open(q))
           /\ \A i, j \in Open(q) : i < j => Rank(q, i) < Rank(q, j)
  <1>1. Len(q) \in Nat /\ DOMAIN q = 1..Len(q) /\ Open(q) \subseteq 1..Len(q)
    BY DEF Open
  <1>2. IsFiniteSet(1..Len(q))
    BY <1>1, FS_Interval
  <1>3. IsFiniteSet(Open(q)) /\ Cardinality(Open(q)) \in Nat
    BY <1>1, <1>2, FS_Subset, FS_CardinalityType
  <1> DEFINE below(i) == {j \in Open(q) : j <= i}
  <1>4. ASSUME NEW i \in Open(q)
        PROVE  /\ IsFiniteSet(below(i)) /\ Cardinality(below(i)) \in Nat \ {0}
               /\ Cardinality(below(i)) <= Cardinality(Open(q))
    <2>1. below(i) \subseteq Open(q) /\ i \in below(i)
      BY <1>1
    <2>2. IsFiniteSet(below(i)) /\ Cardinality(below(i)) <= Cardinality(Open(q))
      BY <1>3, <2>1, FS_Subset
    <2>3. Cardinality(below(i)) \in Nat
      BY <2>2, FS_CardinalityType
    <2>4. Cardinality(below(i)) # 0
      BY <2>1, <2>2, FS_EmptySet
    <2> QED BY <2>2, <2>3, <2>4
  <1>5. ASSUME NEW i \in Open(q), NEW j \in Open(q), i < j
        PROVE  Cardinality(below(i)) < Cardinality(below(j))
    <2>1. below(i) \subseteq below(j) \ {j} /\ j \in below(j)
      BY <1>1, <1>5
    <2>2. /\ IsFiniteSet(below(j) \ {j})
          /\ Cardinality(below(j) \ {j}) = Cardinality(below(j)) - 1
      BY <1>4, <2>1, FS_RemoveElement
    <2>3. Cardinality(below(i)) <= Cardinality(below(j) \ {j})
      BY <2>1, <2>2, FS_Subset
    <2>4. Cardinality(below(i)) \in Nat /\ Cardinality(below(j)) \in Nat
      BY <1>4
    <2> QED BY <2>2, <2>3, <2>4
  <1> QED BY <1>3, <1>4, <1>5 DEF Rank

\* A barrier numbers entries and changes nothing else of them.
LEMMA SealBounded ==
    ASSUME NEW V, NEW w, Bounded(V, w)
    PROVE  LET v == Seal(w)
           IN  /\ Bounded(V, v) /\ Keeps(w, v) /\ Len(v.queue) = Len(w.queue)
               /\ v.last = w.last + Cardinality(Open(w.queue))
               /\ \A i \in 1..Len(w.queue) :
                     /\ v.queue[i].kind = w.queue[i].kind /\ v.queue[i].val = w.queue[i].val
                     /\ v.queue[i].bytes = w.queue[i].bytes
                     /\ v.queue[i].dropped = w.queue[i].dropped
                     /\ v.queue[i].seq = IF i \in Open(w.queue)
                                         THEN w.last + Rank(w.queue, i)
                                         ELSE w.queue[i].seq
  <1> DEFINE q == w.queue
             number(i) == IF i \in Open(q) THEN w.last + Rank(q, i) ELSE q[i].seq
             r == [i \in DOMAIN q |-> [q[i] EXCEPT !.seq = number(i)]]
             last == w.last + Cardinality(Open(q))
             v == [w EXCEPT !.queue = r, !.last = last]
  <1>1. /\ w \in WriterOf(V) /\ q \in Seq(EntryOf(V)) /\ Len(q) \in Nat
        /\ DOMAIN q = 1..Len(q) /\ w.last \in Nat
    BY DEF Bounded, Sound, WriterOf
  <1>2. ASSUME NEW i \in 1..Len(q)
        PROVE  /\ r[i] \in EntryOf(V) /\ r[i].dropped = q[i].dropped
               /\ r[i].kind = q[i].kind /\ r[i].val = q[i].val
               /\ r[i].bytes = q[i].bytes /\ r[i].seq = number(i)
    <2> DEFINE e == q[i]
               n == number(i)
    <2>1. e \in EntryOf(V) /\ r[i] = [e EXCEPT !.seq = n]
      BY <1>1
    <2>2. n \in Nat
      <3>1. e.seq \in Nat
        BY <2>1, EntryFields
      <3>2. i \in Open(q) => Rank(q, i) \in Nat
        <4> HIDE DEF q
        <4> QED BY <1>1, Ranks
      <3> QED BY <1>1, <3>1, <3>2
    <2> HIDE DEF e, n, r
    <2>3. /\ r[i] \in EntryOf(V) /\ r[i].dropped = e.dropped
          /\ r[i].kind = e.kind /\ r[i].val = e.val
          /\ r[i].bytes = e.bytes /\ r[i].seq = n
      BY <2>1, <2>2, EntrySealed
    <2> QED BY <2>3 DEF e, n
  <1>3. r = [i \in DOMAIN q |-> r[i]]
    OBVIOUS
  <1> HIDE DEF r
  <1>4. r \in Seq(EntryOf(V)) /\ Len(r) = Len(q)
    <2>1. \A i \in 1..Len(q) : r[i] \in EntryOf(V)
      BY <1>2
    <2> HIDE DEF q
    <2> QED BY <1>1, <1>3, <2>1, Rewritten
  <1>5. last \in Nat /\ w.last <= last
    <2>1. Cardinality(Open(q)) \in Nat
      <3> HIDE DEF q
      <3> QED BY <1>1, Ranks
    <2> QED BY <1>1, <2>1
  <1>6. v \in WriterOf(V) /\ v.queue = r /\ v.pending = w.pending /\ v.last = last
    <2> HIDE DEF q, last
    <2> QED BY <1>1, <1>4, <1>5 DEF WriterOf
  <1>7. v = Seal(w)
    BY DEF Seal, r, Open, Rank
  <1> HIDE DEF v
  <1>8. Bounded(V, v) /\ Keeps(w, v)
    BY <1>2, <1>4, <1>5, <1>6, Relabelled
  <1> QED BY <1>2, <1>4, <1>6, <1>7, <1>8

\* SequencesIncrease of a writer, a wire and a last number read.
Ordered(w, lines, last) ==
    /\ last <= w.last
    /\ \A i \in DOMAIN lines : IsEvent(lines[i]) =>
          /\ last < lines[i].seq /\ lines[i].seq <= w.last
          /\ \A j \in DOMAIN lines :
                i < j /\ IsEvent(lines[j]) => lines[i].seq < lines[j].seq
          /\ \A j \in DOMAIN w.queue :
                Numbered(w.queue[j]) => lines[i].seq < w.queue[j].seq
    /\ \A j \in DOMAIN w.queue : Numbered(w.queue[j]) =>
          /\ last < w.queue[j].seq /\ w.queue[j].seq <= w.last
          /\ \A i \in DOMAIN w.queue : i < j /\ Live(w.queue[i]) =>
                Numbered(w.queue[i]) /\ w.queue[i].seq < w.queue[j].seq

LineOf(V) == [kind : EventKinds \cup {"response"}, val : V, seq : Nat]

\* The order survives whatever numbers nothing.
LEMMA UnsealedOrdered ==
    ASSUME NEW V, NEW w \in WriterOf(V), NEW v \in WriterOf(V),
           NEW lines \in Seq(LineOf(V)), NEW last \in Nat,
           Keeps(w, v), Unsealed(w, v), Ordered(w, lines, last)
    PROVE  Ordered(v, lines, last)
  <1> DEFINE q == w.queue
             r == v.queue
  <1>1. /\ q \in Seq(EntryOf(V)) /\ r \in Seq(EntryOf(V)) /\ w.last \in Nat /\ v.last \in Nat
        /\ Len(q) \in Nat /\ Len(r) \in Nat /\ DOMAIN q = 1..Len(q) /\ DOMAIN r = 1..Len(r)
        /\ Len(q) <= Len(r) /\ w.last <= v.last
    BY DEF WriterOf, Keeps
  <1>2. \A i \in DOMAIN lines : lines[i].seq \in Nat
    <2>1. \A i \in DOMAIN lines : lines[i] \in LineOf(V)
      OBVIOUS
    <2> QED BY <2>1 DEF LineOf
  <1>3. \A i \in 1..Len(q) : q[i].seq \in Nat /\ q[i].dropped \in BOOLEAN
    <2> HIDE DEF q, r
    <2> QED BY <1>1, EntryFields
  <1>4. ASSUME NEW i \in 1..Len(q)
        PROVE  /\ r[i].seq = q[i].seq /\ i \in 1..Len(r)
               /\ Live(r[i]) => Live(q[i]) /\ (IsEvent(r[i]) <=> IsEvent(q[i]))
    BY SMTT(30), <1>1 DEF Keeps, Unsealed, Live, IsEvent
  <1>5. ASSUME NEW j \in 1..Len(r), Numbered(r[j])
        PROVE  j \in 1..Len(q) /\ Numbered(q[j]) /\ r[j].seq = q[j].seq
    <2>1. j \in 1..Len(q)
      BY <1>1, <1>5 DEF Unsealed, Numbered
    <2> QED BY <1>4, <1>5, <2>1 DEF Numbered
  <1>6. ASSUME NEW i \in 1..Len(r), NEW j \in 1..Len(r), Numbered(r[j]), i < j, Live(r[i])
        PROVE  Numbered(r[i]) /\ r[i].seq < r[j].seq
    <2>1. j \in 1..Len(q) /\ Numbered(q[j]) /\ r[j].seq = q[j].seq
      BY <1>5, <1>6
    <2>2. i \in 1..Len(q)
      BY <1>1, <1>6, <2>1
    <2>3. Live(q[i]) /\ r[i].seq = q[i].seq
      BY <1>4, <1>6, <2>2
    <2>4. Numbered(q[i]) /\ q[i].seq < q[j].seq
      BY <1>1, <1>6, <2>1, <2>2, <2>3 DEF Ordered
    <2> QED BY <1>6, <2>1, <2>3, <2>4 DEF Numbered
  <1>7. \A j \in 1..Len(q) : Numbered(q[j]) => last < q[j].seq /\ q[j].seq <= w.last
    BY <1>1 DEF Ordered
  <1>8. ASSUME NEW j \in 1..Len(r), Numbered(r[j])
        PROVE  last < r[j].seq /\ r[j].seq <= v.last
    <2>1. j \in 1..Len(q) /\ Numbered(q[j]) /\ r[j].seq = q[j].seq
      BY <1>5, <1>8
    <2>2. last < q[j].seq /\ q[j].seq <= w.last /\ q[j].seq \in Nat
      BY <1>3, <1>7, <2>1
    <2> QED BY <1>1, <2>1, <2>2
  <1>9. ASSUME NEW i \in DOMAIN lines, IsEvent(lines[i])
        PROVE  /\ last < lines[i].seq /\ lines[i].seq <= v.last
               /\ \A j \in DOMAIN lines :
                     i < j /\ IsEvent(lines[j]) => lines[i].seq < lines[j].seq
               /\ \A j \in 1..Len(r) : Numbered(r[j]) => lines[i].seq < r[j].seq
    <2>1. /\ last < lines[i].seq /\ lines[i].seq <= w.last
          /\ \A j \in DOMAIN lines :
                i < j /\ IsEvent(lines[j]) => lines[i].seq < lines[j].seq
          /\ \A j \in 1..Len(q) : Numbered(q[j]) => lines[i].seq < q[j].seq
      BY <1>1, <1>9 DEF Ordered
    <2>2. lines[i].seq <= v.last
      BY <1>1, <1>2, <2>1
    <2>3. \A j \in 1..Len(r) : Numbered(r[j]) => lines[i].seq < r[j].seq
      BY <1>5, <2>1
    <2> QED BY <2>1, <2>2, <2>3
  <1>10. last <= v.last
    BY <1>1 DEF Ordered
  <1> QED BY <1>1, <1>6, <1>8, <1>9, <1>10 DEF Ordered

\* The order survives a barrier.
LEMMA SealOrdered ==
    ASSUME NEW V, NEW w, Bounded(V, w),
           NEW lines \in Seq(LineOf(V)), NEW last \in Nat, Ordered(w, lines, last)
    PROVE  Ordered(Seal(w), lines, last)
  <1> DEFINE v == Seal(w)
             q == w.queue
             r == v.queue
             N == Len(q)
             top == w.last
  <1>1. /\ w \in WriterOf(V) /\ q \in Seq(EntryOf(V)) /\ N \in Nat /\ DOMAIN q = 1..N
        /\ top \in Nat
    BY DEF Bounded, Sound, WriterOf
  <1>2. /\ v \in WriterOf(V) /\ Len(r) = N /\ v.last = top + Cardinality(Open(q))
        /\ \A i \in 1..N : /\ r[i].kind = q[i].kind /\ r[i].dropped = q[i].dropped
                           /\ r[i].seq = IF i \in Open(q) THEN top + Rank(q, i) ELSE q[i].seq
    BY SealBounded DEF Bounded, Sound
  <1> HIDE DEF v
  <1>3. r \in Seq(EntryOf(V)) /\ DOMAIN r = 1..N
    BY <1>2 DEF WriterOf
  <1>4. \A i \in 1..N : q[i].seq \in Nat
    <2> HIDE DEF q
    <2> QED BY <1>1, EntryFields
  <1>5. /\ Cardinality(Open(q)) \in Nat
        /\ \A i \in Open(q) : Rank(q, i) \in Nat \ {0} /\ Rank(q, i) <= Cardinality(Open(q))
        /\ \A i, j \in Open(q) : i < j => Rank(q, i) < Rank(q, j)
    <2> HIDE DEF q
    <2> QED BY <1>1, Ranks
  <1>6. \A i \in DOMAIN lines : lines[i].seq \in Nat
    <2>1. \A i \in DOMAIN lines : lines[i] \in LineOf(V)
      OBVIOUS
    <2> QED BY <2>1 DEF LineOf
  <1>7. /\ last <= top
        /\ \A j \in 1..N : Numbered(q[j]) =>
              /\ last < q[j].seq /\ q[j].seq <= top
              /\ \A i \in 1..N : i < j /\ Live(q[i]) => Numbered(q[i]) /\ q[i].seq < q[j].seq
    BY <1>1 DEF Ordered
  <1> HIDE DEF r, q, N, top
  <1>8. \A j \in 1..N : Live(r[j]) <=> Live(q[j])
    BY <1>2 DEF Live, IsEvent
  <1>9. \A j \in 1..N : j \in Open(q) <=> Live(q[j]) /\ q[j].seq = 0
    BY <1>1 DEF Live, Open
  <1>10. ASSUME NEW j \in 1..N, Numbered(r[j])
         PROVE  \/ j \in Open(q) /\ r[j].seq = top + Rank(q, j)
                \/ j \notin Open(q) /\ Numbered(q[j]) /\ r[j].seq = q[j].seq
    BY <1>2, <1>8, <1>9, <1>10 DEF Numbered
  <1>11. ASSUME NEW j \in 1..N, Live(r[j])
         PROVE  Numbered(r[j])
    <2>1. CASE j \in Open(q)
      <3>1. r[j].seq = top + Rank(q, j) /\ Rank(q, j) \in Nat \ {0}
        BY <1>2, <1>5, <2>1
      <3> QED BY <1>1, <1>11, <3>1 DEF Numbered
    <2>2. CASE j \notin Open(q)
      BY <1>2, <1>8, <1>9, <1>11, <2>2 DEF Numbered
    <2> QED BY <2>1, <2>2
  <1>12. ASSUME NEW j \in 1..N, Numbered(r[j])
         PROVE  last < r[j].seq /\ r[j].seq <= v.last /\ (j \in Open(q) => top < r[j].seq)
    <2>1. CASE j \in Open(q)
      BY <1>1, <1>2, <1>5, <1>7, <1>10, <1>12, <2>1
    <2>2. CASE j \notin Open(q)
      BY SMTT(30), <1>1, <1>2, <1>4, <1>5, <1>7, <1>10, <1>12, <2>2
    <2> QED BY <2>1, <2>2
  <1>13. ASSUME NEW i \in 1..N, NEW j \in 1..N, Numbered(r[j]), i < j, Live(r[i])
         PROVE  Numbered(r[i]) /\ r[i].seq < r[j].seq
    <2>1. Numbered(r[i])
      BY <1>11, <1>13
    <2>2. CASE j \notin Open(q)
      <3>1. Numbered(q[j]) /\ r[j].seq = q[j].seq
        BY <1>10, <1>13, <2>2
      <3>2. Numbered(q[i]) /\ q[i].seq < q[j].seq
        BY <1>7, <1>8, <1>13, <3>1
      <3>3. i \notin Open(q)
        BY <1>9, <3>2 DEF Numbered
      <3> QED BY <1>2, <2>1, <3>1, <3>2, <3>3
    <2>3. CASE j \in Open(q) /\ i \in Open(q)
      BY <1>1, <1>2, <1>5, <1>13, <2>1, <2>3
    <2>4. CASE j \in Open(q) /\ i \notin Open(q)
      <3>1. r[i].seq <= top
        BY <1>7, <1>10, <2>1, <2>4
      <3>2. top < r[j].seq /\ r[j].seq \in Nat
        BY <1>1, <1>2, <1>5, <2>4
      <3>3. r[i].seq \in Nat
        BY <1>2, <1>4, <2>4
      <3> QED BY <1>1, <2>1, <3>1, <3>2, <3>3
    <2> QED BY <2>2, <2>3, <2>4
  <1>14. ASSUME NEW i \in DOMAIN lines, IsEvent(lines[i])
         PROVE  /\ last < lines[i].seq /\ lines[i].seq <= v.last
                /\ \A j \in DOMAIN lines :
                      i < j /\ IsEvent(lines[j]) => lines[i].seq < lines[j].seq
                /\ \A j \in 1..N : Numbered(r[j]) => lines[i].seq < r[j].seq
    <2>1. /\ last < lines[i].seq /\ lines[i].seq <= top
          /\ \A j \in DOMAIN lines :
                i < j /\ IsEvent(lines[j]) => lines[i].seq < lines[j].seq
          /\ \A j \in 1..N : Numbered(q[j]) => lines[i].seq < q[j].seq
      BY <1>1, <1>14 DEF Ordered, q, top
    <2>2. lines[i].seq <= v.last
      BY <1>1, <1>2, <1>5, <1>6, <2>1
    <2>3. ASSUME NEW j \in 1..N, Numbered(r[j]) PROVE lines[i].seq < r[j].seq
      <3>1. CASE j \in Open(q)
        <4>1. top < r[j].seq /\ r[j].seq \in Nat
          BY <1>1, <1>2, <1>5, <3>1
        <4> QED BY <1>1, <1>6, <2>1, <4>1
      <3>2. CASE j \notin Open(q)
        BY <1>10, <2>1, <2>3, <3>2
      <3> QED BY <3>1, <3>2
    <2> QED BY <2>1, <2>2, <2>3
  <1>15. last <= v.last
    BY <1>1, <1>2, <1>5, <1>7
  <1> QED BY <1>3, <1>12, <1>13, <1>14, <1>15 DEF Ordered, r, v

-----------------------------------------------------------------------------
(* The steps of the barrier, the pump and the peer. *)

\* enqueueBarrierResponse
LEMMA EnqueueBarrierBounded ==
    ASSUME NEW V, NEW w, Bounded(V, w), NEW val \in V
    PROVE  LET v == EnqueueBarrier(w, val)
           IN  /\ Bounded(V, v) /\ Keeps(w, v)
               /\ \A lines \in Seq(LineOf(V)), last \in Nat :
                     Ordered(w, lines, last) => Ordered(v, lines, last)
  <1> DEFINE s == Seal(w)
             c == ClearIndex(s)
             v == EnqueueResponse(c, val)
  <1>1. Bounded(V, s) /\ Keeps(w, s)
    BY SealBounded
  <1>2. \A lines \in Seq(LineOf(V)), last \in Nat :
           Ordered(w, lines, last) => Ordered(s, lines, last)
    BY SealOrdered
  <1> HIDE DEF s
  <1>3. Bounded(V, c) /\ Keeps(s, c) /\ Unsealed(s, c)
    BY <1>1, ClearIndexBounded
  <1> HIDE DEF c
  <1>4. Bounded(V, v) /\ Keeps(c, v) /\ Unsealed(c, v)
    BY <1>3, EnqueueResponseBounded
  <1> HIDE DEF v
  <1>5. w \in WriterOf(V) /\ s \in WriterOf(V) /\ c \in WriterOf(V) /\ v \in WriterOf(V)
    BY <1>1, <1>3, <1>4 DEF Bounded, Sound
  <1>6. Keeps(s, v) /\ Unsealed(s, v)
    BY <1>3, <1>4, <1>5, KeepsTransitive
  <1>7. Keeps(w, v)
    BY <1>1, <1>5, <1>6, KeepsTransitive
  <1>8. \A lines \in Seq(LineOf(V)), last \in Nat :
           Ordered(w, lines, last) => Ordered(v, lines, last)
    BY <1>2, <1>5, <1>6, UnsealedOrdered
  <1>9. v = EnqueueBarrier(w, val)
    BY DEF v, c, s, EnqueueBarrier, Sealed
  <1> QED BY <1>4, <1>7, <1>8, <1>9

\* The pump takes the first entry.
LEMMA PumpBounded ==
    ASSUME NEW V, Bounded(V, writer), wire \in Seq(LineOf(V)), read \in Nat, PumpWrite
    PROVE  /\ Bounded(V, writer') /\ wire' \in Seq(LineOf(V))
           /\ Ordered(writer, wire, read) => Ordered(writer', wire', read')
  <1> DEFINE q == writer.queue
             e == Head(q)
             t == Tail(q)
             N == Len(t)
             fresh == IsEvent(e) /\ ~e.dropped /\ e.seq = 0
             seq == IF fresh THEN writer.last + 1 ELSE e.seq
             line == [kind |-> e.kind, val |-> e.val, seq |-> seq]
             silent == e.dropped \/ (IsEvent(e) /\ e.bytes > MaxFrame)
  <1>1. /\ writer \in WriterOf(V) /\ q \in Seq(EntryOf(V)) /\ q # <<>>
        /\ writer.last \in Nat /\ writer.pending \in Nat
        /\ writer.pending = Total(Weights(q)) /\ Pressed(writer)
    BY DEF Bounded, Sound, WriterOf, PumpWrite
  <1>2. /\ e \in EntryOf(V) /\ e = q[1] /\ t \in Seq(EntryOf(V)) /\ N \in Nat
        /\ Len(q) = N + 1 /\ DOMAIN q = 1..(N + 1) /\ DOMAIN t = 1..N
        /\ \A i \in 1..N : t[i] = q[i + 1]
    <2> HIDE DEF q
    <2> QED BY <1>1
  <1>3. /\ e.kind \in EventKinds \cup {"response"} /\ e.val \in V /\ e.bytes \in Nat
        /\ e.seq \in Nat
    BY <1>2, EntryFields
  <1>4. /\ writer' = [queue |-> t, pending |-> writer.pending - Weight(e),
                      last |-> IF fresh THEN writer.last + 1 ELSE writer.last]
        /\ wire' = IF silent THEN wire ELSE Append(wire, line)
        /\ read' = read
    BY DEF PumpWrite
  <1>5. line \in LineOf(V) /\ seq \in Nat
    BY <1>1, <1>3 DEF LineOf
  <1>6. wire' \in Seq(LineOf(V))
    <2> HIDE DEF line, silent
    <2> QED BY <1>4, <1>5
  <1> HIDE DEF e, t, N
  <1>7. /\ Total(Weights(q)) = Weight(e) + Total(Weights(t))
        /\ Weight(e) \in Nat /\ Total(Weights(t)) \in Nat
    <2> DEFINE a == Weights(q)
               b == Weights(t)
    <2>1. /\ a \in Seq(Nat) /\ Len(a) = N + 1 /\ b \in Seq(Nat) /\ Len(b) = N
          /\ \A i \in 1..(N + 1) : a[i] = IF q[i].dropped THEN 0 ELSE q[i].bytes
          /\ \A i \in 1..N : b[i] = IF t[i].dropped THEN 0 ELSE t[i].bytes
      <3> HIDE DEF q
      <3>1. Len(q) = N + 1 /\ Len(t) = N
        BY <1>2 DEF N
      <3> QED BY <1>1, <1>2, <3>1, WeightsSeq
    <2> HIDE DEF a, b, q
    <2>2. a # <<>> /\ Len(Tail(a)) = N /\ \A i \in 1..N : Tail(a)[i] = a[i + 1]
      BY <1>2, <2>1
    <2>3. \A i \in 1..N : Tail(a)[i] = b[i]
      <3>1. ASSUME NEW i \in 1..N PROVE Tail(a)[i] = b[i]
        <4>1. i + 1 \in 1..(N + 1) /\ t[i] = q[i + 1]
          BY <1>2
        <4> QED BY <2>1, <2>2, <4>1
      <3> QED BY <3>1
    <2>4. Tail(a) \in Seq(Nat)
      BY <2>1, <2>2
    <2>5. Tail(a) = b
      BY <2>1, <2>2, <2>3, <2>4, SeqEqual
    <2>6. Total(a) = a[1] + Total(b)
      BY <2>1, <2>2, <2>5, TotalTail
    <2>7. a[1] = Weight(e)
      <3>1. 1 \in 1..(N + 1)
        BY <1>2
      <3> QED BY <1>2, <2>1, <3>1 DEF Weight
    <2>8. Total(b) \in Nat
      BY <2>1, TotalNat
    <2>9. Weight(e) \in Nat
      BY <1>3 DEF Weight
    <2> QED BY <2>6, <2>7, <2>8, <2>9 DEF a, b
  <1>8. /\ writer'.queue = t /\ writer'.pending = Total(Weights(t))
        /\ writer'.pending <= writer.pending
        /\ writer'.last = IF fresh THEN writer.last + 1 ELSE writer.last
    BY <1>1, <1>4, <1>7
  <1>9. writer' \in WriterOf(V)
    <2>1. (IF fresh THEN writer.last + 1 ELSE writer.last) \in Nat
      BY <1>1
    <2> DEFINE last == IF fresh THEN writer.last + 1 ELSE writer.last
               p == writer.pending - Weight(e)
    <2>2. p \in Nat /\ last \in Nat
      BY <1>1, <1>7
    <2>3. writer' = [queue |-> t, pending |-> p, last |-> last]
      BY <1>4
    <2> HIDE DEF last, p
    <2> QED BY <1>2, <2>2, <2>3 DEF WriterOf
  <1>10. Pressed(writer')
    <2>1. SUFFICES ASSUME writer'.pending > HardCap, NEW i \in 1..N, IsEvent(t[i])
                   PROVE  t[i].dropped
      BY <1>2, <1>8 DEF Pressed
    <2>2. writer.pending > HardCap
      BY <1>1, <1>8, <1>9, <2>1, WatermarkAssumption DEF WriterOf
    <2>3. i + 1 \in 1..(N + 1) /\ t[i] = q[i + 1]
      BY <1>2
    <2> QED BY <1>1, <1>2, <2>1, <2>2, <2>3 DEF Pressed
  <1>11. ASSUME Ordered(writer, wire, read) PROVE Ordered(writer', wire', read')
    <2> DEFINE last == writer.last
               M == Len(wire)
    <2>1. /\ M \in Nat /\ DOMAIN wire = 1..M /\ last \in Nat
          /\ \A i \in 1..M : wire[i].seq \in Nat
      <3>1. \A i \in 1..Len(wire) : wire[i] \in LineOf(V)
        OBVIOUS
      <3> QED BY <1>1, <3>1 DEF LineOf
    <2>2. \A i \in 1..N : t[i].seq \in Nat
      <3>1. \A i \in 1..N : t[i] \in EntryOf(V)
        BY <1>2
      <3> QED BY <3>1, EntryFields
    <2>3. /\ read <= last
          /\ \A i \in 1..M : IsEvent(wire[i]) =>
                /\ read < wire[i].seq /\ wire[i].seq <= last
                /\ \A j \in 1..M : i < j /\ IsEvent(wire[j]) => wire[i].seq < wire[j].seq
                /\ \A j \in 1..(N + 1) : Numbered(q[j]) => wire[i].seq < q[j].seq
          /\ \A j \in 1..(N + 1) : Numbered(q[j]) =>
                /\ read < q[j].seq /\ q[j].seq <= last
                /\ \A i \in 1..(N + 1) :
                      i < j /\ Live(q[i]) => Numbered(q[i]) /\ q[i].seq < q[j].seq
      BY <1>2, <1>11, <2>1 DEF Ordered
    <2>4. /\ \A i \in 1..M : IsEvent(wire[i]) =>
                \A j \in 1..N : Numbered(t[j]) => wire[i].seq < t[j].seq
          /\ \A j \in 1..N : Numbered(t[j]) =>
                /\ read < t[j].seq /\ t[j].seq <= last
                /\ \A i \in 1..N :
                      i < j /\ Live(t[i]) => Numbered(t[i]) /\ t[i].seq < t[j].seq
                /\ Live(e) => Numbered(e) /\ e.seq < t[j].seq
      <3>1. ASSUME NEW j \in 1..N, Numbered(t[j])
            PROVE  /\ read < t[j].seq /\ t[j].seq <= last
                   /\ \A i \in 1..M : IsEvent(wire[i]) => wire[i].seq < t[j].seq
                   /\ \A i \in 1..N :
                         i < j /\ Live(t[i]) => Numbered(t[i]) /\ t[i].seq < t[j].seq
                   /\ Live(e) => Numbered(e) /\ e.seq < t[j].seq
        <4>1. j + 1 \in 1..(N + 1) /\ t[j] = q[j + 1] /\ 1 \in 1..(N + 1) /\ 1 < j + 1
          BY <1>2
        <4>2. \A i \in 1..N : i + 1 \in 1..(N + 1) /\ t[i] = q[i + 1] /\ (i < j => i + 1 < j + 1)
          BY <1>2
        <4>3. \A i \in 1..M : IsEvent(wire[i]) => wire[i].seq < t[j].seq
          BY <2>3, <3>1, <4>1
        <4>4. \A i \in 1..N : i < j /\ Live(t[i]) => Numbered(t[i]) /\ t[i].seq < t[j].seq
          BY <2>3, <3>1, <4>1, <4>2
        <4>5. Live(e) => Numbered(e) /\ e.seq < t[j].seq
          BY <1>2, <2>3, <3>1, <4>1
        <4> QED BY <2>3, <3>1, <4>1, <4>3, <4>4, <4>5
      <3> QED BY <3>1
    <2>5. last <= writer'.last /\ writer'.last \in Nat
      BY <1>8, <2>1
    <2>6. ASSUME ~silent, IsEvent(e)
          PROVE  /\ read < seq /\ seq <= writer'.last
                 /\ \A i \in 1..M : IsEvent(wire[i]) => wire[i].seq < seq
                 /\ \A j \in 1..N : Numbered(t[j]) => seq < t[j].seq
      <3>1. Live(e) /\ 1 \in 1..(N + 1)
        BY <1>2, <2>6 DEF Live
      <3>2. CASE fresh
        <4>1. seq = last + 1 /\ writer'.last = last + 1 /\ ~Numbered(e)
          BY <1>8, <3>2 DEF Numbered
        <4> HIDE DEF seq, last
        <4>2. \A j \in 1..N : ~Numbered(t[j])
          BY <2>4, <3>1, <4>1
        <4> QED BY <2>1, <2>3, <4>1, <4>2
      <3>3. CASE ~fresh
        <4>1. seq = e.seq /\ writer'.last = last /\ Numbered(e) /\ e = q[1]
          BY <1>2, <1>8, <3>1, <3>3 DEF Numbered, Live
        <4> HIDE DEF seq, last
        <4>2. /\ read < e.seq /\ e.seq <= last
              /\ \A i \in 1..M : IsEvent(wire[i]) => wire[i].seq < e.seq
          BY <2>3, <3>1, <4>1
        <4> QED BY <2>4, <3>1, <4>1, <4>2
      <3> QED BY <3>2, <3>3
    <2> HIDE DEF last, M
    <2>7. \A i \in 1..M : IsEvent(wire[i]) => wire[i].seq <= writer'.last
      BY <2>1, <2>3, <2>5
    <2>8. \A j \in 1..N : Numbered(t[j]) => t[j].seq <= writer'.last
      BY <2>1, <2>2, <2>4, <2>5
    <2>9. read <= writer'.last
      BY <2>1, <2>3, <2>5
    <2>10. CASE silent
      <3>1. wire' = wire /\ read' = read /\ DOMAIN wire = 1..M /\ DOMAIN t = 1..N
        BY <1>2, <1>4, <2>1, <2>10
      <3> QED BY <1>8, <2>3, <2>4, <2>7, <2>8, <2>9, <3>1 DEF Ordered
    <2>11. CASE ~silent
      <3>1. wire' = Append(wire, line) /\ read' = read
        BY <1>4, <2>11
      <3>2. /\ DOMAIN wire' = 1..(M + 1) /\ wire'[M + 1] = line /\ M + 1 \in 1..(M + 1)
            /\ \A i \in 1..M : wire'[i] = wire[i]
        <4> HIDE DEF line
        <4> QED BY <2>1, <3>1 DEF M
      <3>3. line.kind = e.kind /\ line.seq = seq
        OBVIOUS
      <3> HIDE DEF line, seq, silent
      <3>4. IsEvent(line) <=> IsEvent(e)
        BY <3>3 DEF IsEvent
      <3>5. ASSUME NEW i \in 1..(M + 1), IsEvent(wire'[i])
            PROVE  /\ read < wire'[i].seq /\ wire'[i].seq <= writer'.last
                   /\ \A j \in 1..(M + 1) :
                         i < j /\ IsEvent(wire'[j]) => wire'[i].seq < wire'[j].seq
                   /\ \A j \in 1..N : Numbered(t[j]) => wire'[i].seq < t[j].seq
        <4>1. CASE i = M + 1
          <5>1. wire'[i] = line /\ IsEvent(e) /\ \A j \in 1..(M + 1) : ~(i < j)
            BY <2>1, <3>2, <3>4, <3>5, <4>1
          <5> QED BY <2>6, <2>11, <3>3, <5>1
        <4>2. CASE i # M + 1
          <5>1. i \in 1..M /\ wire'[i] = wire[i] /\ IsEvent(wire[i])
            BY <2>1, <3>2, <3>5, <4>2
          <5>2. ASSUME NEW j \in 1..(M + 1), i < j, IsEvent(wire'[j])
                PROVE  wire'[i].seq < wire'[j].seq
            <6>1. CASE j = M + 1
              BY <2>6, <2>11, <3>2, <3>3, <3>4, <5>1, <5>2, <6>1
            <6>2. CASE j # M + 1
              <7>1. j \in 1..M /\ wire'[j] = wire[j]
                BY <2>1, <3>2, <6>2
              <7> QED BY <2>3, <5>1, <5>2, <7>1
            <6> QED BY <6>1, <6>2
          <5> QED BY <2>3, <2>4, <2>7, <5>1, <5>2
        <4> QED BY <4>1, <4>2
      <3>6. DOMAIN t = 1..N
        BY <1>2
      <3> QED BY <1>8, <2>4, <2>8, <2>9, <3>1, <3>2, <3>5, <3>6 DEF Ordered
    <2> QED BY <2>10, <2>11
  <1> QED BY <1>6, <1>8, <1>9, <1>10, <1>11 DEF Bounded, Sound

\* The peer reads a line.
LEMMA PeerReadOrdered ==
    ASSUME NEW V, writer \in WriterOf(V), wire \in Seq(LineOf(V)), read \in Nat, PeerRead
    PROVE  /\ wire' \in Seq(LineOf(V)) /\ read' \in Nat /\ writer' = writer
           /\ Ordered(writer, wire, read) => Ordered(writer', wire', read')
  <1> DEFINE M == Len(Tail(wire))
  <1>1. /\ wire # <<>> /\ wire' = Tail(wire) /\ writer' = writer
        /\ read' = IF Head(wire).kind = "response" THEN read ELSE Head(wire).seq
    BY DEF PeerRead
  <1>2. /\ M \in Nat /\ wire' \in Seq(LineOf(V)) /\ DOMAIN wire' = 1..M
        /\ DOMAIN wire = 1..(M + 1) /\ Head(wire) = wire[1] /\ Head(wire) \in LineOf(V)
        /\ \A i \in 1..M : wire'[i] = wire[i + 1]
    BY <1>1
  <1>3. read' \in Nat
    BY <1>1, <1>2 DEF LineOf
  <1> HIDE DEF M
  <1>4. ASSUME Ordered(writer, wire, read) PROVE Ordered(writer', wire', read')
    <2>1. 1 \in 1..(M + 1)
      BY <1>2
    <2>2. /\ read <= writer.last
          /\ \A i \in 1..(M + 1) : IsEvent(wire[i]) =>
                /\ read < wire[i].seq /\ wire[i].seq <= writer.last
                /\ \A j \in 1..(M + 1) :
                      i < j /\ IsEvent(wire[j]) => wire[i].seq < wire[j].seq
                /\ \A j \in DOMAIN writer.queue :
                      Numbered(writer.queue[j]) => wire[i].seq < writer.queue[j].seq
          /\ \A j \in DOMAIN writer.queue : Numbered(writer.queue[j]) =>
                /\ read < writer.queue[j].seq /\ writer.queue[j].seq <= writer.last
                /\ \A i \in DOMAIN writer.queue : i < j /\ Live(writer.queue[i]) =>
                      Numbered(writer.queue[i]) /\ writer.queue[i].seq < writer.queue[j].seq
      BY <1>2, <1>4 DEF Ordered
    <2>3. /\ read' <= writer.last
          /\ \A i \in 1..M : IsEvent(wire'[i]) => read' < wire'[i].seq
          /\ \A j \in DOMAIN writer.queue :
                Numbered(writer.queue[j]) => read' < writer.queue[j].seq
      <3>1. CASE Head(wire).kind = "response"
        <4>1. read' = read
          BY <1>1, <3>1
        <4>2. \A i \in 1..M : i + 1 \in 1..(M + 1)
          BY <1>2
        <4> QED BY <1>2, <2>2, <4>1, <4>2
      <3>2. CASE Head(wire).kind # "response"
        <4>1. read' = wire[1].seq /\ IsEvent(wire[1])
          BY <1>1, <1>2, <3>2 DEF IsEvent
        <4>2. \A i \in 1..M : i + 1 \in 1..(M + 1) /\ 1 < i + 1
          BY <1>2
        <4> QED BY <1>2, <2>1, <2>2, <4>1, <4>2
      <3> QED BY <3>1, <3>2
    <2>4. ASSUME NEW i \in 1..M, IsEvent(wire'[i])
          PROVE  /\ wire'[i].seq <= writer.last
                 /\ \A j \in 1..M : i < j /\ IsEvent(wire'[j]) => wire'[i].seq < wire'[j].seq
                 /\ \A j \in DOMAIN writer.queue :
                       Numbered(writer.queue[j]) => wire'[i].seq < writer.queue[j].seq
      <3>1. i + 1 \in 1..(M + 1) /\ wire'[i] = wire[i + 1]
        BY <1>2
      <3>2. \A j \in 1..M : j + 1 \in 1..(M + 1) /\ wire'[j] = wire[j + 1]
                              /\ (i < j => i + 1 < j + 1)
        BY <1>2
      <3> QED BY <2>2, <2>4, <3>1, <3>2
    <2> QED BY <1>1, <1>2, <2>2, <2>3, <2>4 DEF Ordered
  <1> QED BY <1>1, <1>2, <1>3, <1>4

-----------------------------------------------------------------------------
(* The specification. *)

\* The entries of OutTypeOK are those the lemmas speak of.
LEMMA PayloadEntries ==
    EntryOf(Payload) = [kind : EventKinds \cup {"response"}, val : Payload,
                        bytes : Nat, seq : Nat, dropped : BOOLEAN, indexed : BOOLEAN]
  BY DEF EntryOf

\* The invariant: account and pressure, and the shapes they are stated over.
LEMMA PressureForm ==
    PressureBounded <=> /\ Bounded(Payload, writer) /\ wire \in Seq(LineOf(Payload))
                        /\ read \in Nat /\ queued \in 0..MaxQueued
  <1>1. OutTypeOK <=> /\ writer \in WriterOf(Payload) /\ wire \in Seq(LineOf(Payload))
                      /\ read \in Nat /\ queued \in 0..MaxQueued
    BY PayloadEntries DEF OutTypeOK, WriterOf, LineOf
  <1> QED BY <1>1 DEF PressureBounded, Bounded, Sound, Pressed, Weights

\* The order of the specification is the one the lemmas speak of.
LEMMA OrderForm ==
    SequencesIncrease <=> Ordered(writer, wire, read)
  BY DEF SequencesIncrease, Ordered

\* The same of the next state.
LEMMA NextForms ==
    /\ PressureBounded' <=> /\ Bounded(Payload, writer') /\ wire' \in Seq(LineOf(Payload))
                            /\ read' \in Nat /\ queued' \in 0..MaxQueued
    /\ SequencesIncrease' <=> Ordered(writer', wire', read')
  <1>1. OutTypeOK' <=> /\ writer' \in WriterOf(Payload) /\ wire' \in Seq(LineOf(Payload))
                       /\ read' \in Nat /\ queued' \in 0..MaxQueued
    BY PayloadEntries DEF OutTypeOK, WriterOf, LineOf
  <1> QED BY <1>1 DEF PressureBounded, Bounded, Sound, Pressed, Weights,
                      SequencesIncrease, Ordered

\* An empty writer is in order.
LEMMA EmptyBounded ==
    ASSUME NEW V, NEW last \in Nat, NEW w, w = [queue |-> <<>>, pending |-> 0, last |-> last]
    PROVE  Bounded(V, w)
  <1>1. w \in WriterOf(V) /\ w.queue = <<>> /\ w.pending = 0
    BY DEF WriterOf
  <1>2. Weights(<<>>) = <<>>
    BY DEF Weights
  <1>3. <<>> \in Seq(Nat) /\ Len(<<>>) = 0
    OBVIOUS
  <1>4. Total(<<>>) = 0
    BY <1>3, SumsDef
  <1>5. Pressed(w)
    BY <1>1 DEF Pressed
  <1> QED BY <1>1, <1>2, <1>4, <1>5 DEF Bounded, Sound

\* A step that puts an entry in the queue.
LEMMA HostStep ==
    ASSUME PressureBounded,
           (\E kind \in EventKinds : HostEvent(kind)) \/ HostResponse \/ HostBarrier
    PROVE  /\ PressureBounded' /\ Keeps(writer, writer') /\ wire' = wire
           /\ SequencesIncrease => SequencesIncrease'
  <1>1. /\ Bounded(Payload, writer) /\ wire \in Seq(LineOf(Payload))
        /\ read \in Nat /\ queued \in 0..MaxQueued /\ MaxQueued \in Nat
    BY PressureForm, WatermarkAssumption
  <1>2. /\ queued < MaxQueued /\ queued' = queued + 1 /\ wire' = wire /\ read' = read
        /\ queued' \in 0..MaxQueued /\ queued \in Nat
    BY <1>1 DEF HostEvent, HostResponse, HostBarrier
  <1>3. SUFFICES /\ Bounded(Payload, writer') /\ Keeps(writer, writer')
                 /\ Ordered(writer, wire, read) => Ordered(writer', wire, read)
    BY <1>1, <1>2, NextForms, OrderForm
  <1>4. ASSUME Bounded(Payload, writer'), Keeps(writer, writer'), Unsealed(writer, writer')
        PROVE  Ordered(writer, wire, read) => Ordered(writer', wire, read)
    <2>1. writer \in WriterOf(Payload) /\ writer' \in WriterOf(Payload)
      BY <1>1, <1>4 DEF Bounded, Sound
    <2> QED BY <1>1, <1>4, <2>1, UnsealedOrdered
  <1>5. ASSUME NEW kind \in EventKinds, HostEvent(kind)
        PROVE  /\ Bounded(Payload, writer') /\ Keeps(writer, writer')
               /\ Unsealed(writer, writer')
    <2>1. PICK n \in {1, 2} :
             writer' = EnqueueEvent(writer, kind, [i \in 1..n |-> queued], n)
      BY <1>5 DEF HostEvent
    <2> DEFINE val == [i \in 1..n |-> queued]
    <2>2. val \in Payload /\ n \in Nat
      BY <1>2 DEF Payload
    <2> HIDE DEF val
    <2>3. writer' = EnqueueEvent(writer, kind, val, n)
      BY <2>1 DEF val
    <2> QED BY <1>1, <2>2, <2>3, EnqueueEventBounded
  <1>6. ASSUME HostResponse
        PROVE  /\ Bounded(Payload, writer') /\ Keeps(writer, writer')
               /\ Unsealed(writer, writer')
    <2> DEFINE val == <<queued>>
    <2>1. val \in Payload /\ writer' = EnqueueResponse(writer, val)
      BY <1>2, <1>6 DEF Payload, HostResponse
    <2> HIDE DEF val
    <2> QED BY <1>1, <2>1, EnqueueResponseBounded
  <1>7. ASSUME HostBarrier
        PROVE  /\ Bounded(Payload, writer') /\ Keeps(writer, writer')
               /\ Ordered(writer, wire, read) => Ordered(writer', wire, read)
    <2> DEFINE val == <<Sealed(writer).last>>
    <2>1. Sealed(writer).last \in Nat
      <3>1. Bounded(Payload, Seal(writer))
        BY <1>1, SealBounded
      <3>2. Bounded(Payload, Sealed(writer))
        BY <3>1, ClearIndexBounded DEF Sealed
      <3> QED BY <3>2 DEF Bounded, Sound, WriterOf
    <2>2. val \in Payload /\ writer' = EnqueueBarrier(writer, val)
      BY <1>7, <2>1 DEF Payload, HostBarrier
    <2> HIDE DEF val
    <2> QED BY <1>1, <2>2, EnqueueBarrierBounded
  <1> QED BY <1>4, <1>5, <1>6, <1>7

\* Every step keeps the account, the pressure bound and the order.
LEMMA OutStep ==
    ASSUME PressureBounded, SequencesIncrease, [OutNext]_outVars
    PROVE  PressureBounded' /\ SequencesIncrease'
  <1>1. /\ Bounded(Payload, writer) /\ wire \in Seq(LineOf(Payload))
        /\ read \in Nat /\ queued \in 0..MaxQueued
        /\ Ordered(writer, wire, read) /\ writer \in WriterOf(Payload)
    BY PressureForm, OrderForm DEF Bounded, Sound
  <1>2. CASE PumpWrite
    <2>1. read' = read /\ queued' = queued
      BY <1>2 DEF PumpWrite
    <2>2. /\ Bounded(Payload, writer') /\ wire' \in Seq(LineOf(Payload))
          /\ Ordered(writer', wire', read')
      BY <1>1, <1>2, PumpBounded
    <2> QED BY <1>1, <2>1, <2>2, NextForms
  <1>3. CASE PumpFail
    <2> DEFINE last == writer'.last
    <2>1. /\ writer' = [queue |-> <<>>, pending |-> 0, last |-> last]
          /\ writer.last \in Nat /\ last \in Nat /\ writer.last <= last
          /\ wire' = wire /\ read' = read /\ queued' = queued
      BY <1>1, <1>3 DEF PumpFail, WriterOf
    <2>2. Bounded(Payload, writer')
      BY <2>1, EmptyBounded
    <2>3. Ordered(writer', wire', read')
      <3>1. \A i \in DOMAIN wire : wire[i].seq \in Nat
        <4>1. \A i \in DOMAIN wire : wire[i] \in LineOf(Payload)
          BY <1>1
        <4> QED BY <4>1 DEF LineOf
      <3>2. writer'.queue = <<>> /\ DOMAIN writer'.queue = {}
        BY <2>1
      <3> HIDE DEF last
      <3>3. read <= writer.last /\ writer'.last = last
        BY <1>1 DEF Ordered, last
      <3>4. \A i \in DOMAIN wire : IsEvent(wire[i]) =>
               /\ read < wire[i].seq /\ wire[i].seq <= writer.last
               /\ \A j \in DOMAIN wire :
                     i < j /\ IsEvent(wire[j]) => wire[i].seq < wire[j].seq
        BY <1>1 DEF Ordered
      <3> QED BY <1>1, <2>1, <3>1, <3>2, <3>3, <3>4 DEF Ordered
    <2> QED BY <1>1, <2>1, <2>2, <2>3, NextForms
  <1>4. CASE PeerRead
    <2>1. /\ wire' \in Seq(LineOf(Payload)) /\ read' \in Nat /\ writer' = writer
          /\ Ordered(writer', wire', read')
      BY <1>1, <1>4, PeerReadOrdered
    <2>2. queued' = queued
      BY <1>4 DEF PeerRead
    <2>3. Bounded(Payload, writer')
      BY <1>1, <2>1
    <2> QED BY <1>1, <2>1, <2>2, <2>3, NextForms
  <1>5. CASE (\E kind \in EventKinds : HostEvent(kind)) \/ HostResponse \/ HostBarrier
    BY <1>5, HostStep
  <1>6. CASE UNCHANGED outVars
    <2>1. writer' = writer /\ wire' = wire /\ read' = read /\ queued' = queued
      BY <1>6 DEF outVars
    <2>2. Bounded(Payload, writer') /\ Ordered(writer', wire', read')
      BY <1>1, <2>1
    <2> QED BY <1>1, <2>1, <2>2, NextForms
  <1> QED BY <1>2, <1>3, <1>4, <1>5, <1>6 DEF OutNext

\* It starts so.
LEMMA OutStart ==
    ASSUME OutInit PROVE PressureBounded /\ SequencesIncrease
  <1>1. /\ writer = [queue |-> <<>>, pending |-> 0, last |-> 0]
        /\ wire = <<>> /\ read = 0 /\ queued = 0
    BY DEF OutInit, EmptyWriter
  <1>2. 0 \in Nat /\ queued \in 0..MaxQueued /\ wire \in Seq(LineOf(Payload)) /\ read \in Nat
    BY <1>1, WatermarkAssumption
  <1>3. Bounded(Payload, writer)
    <2> DEFINE z == 0
    <2>1. z \in Nat /\ writer = [queue |-> <<>>, pending |-> 0, last |-> z]
      BY <1>1
    <2> HIDE DEF z
    <2> QED BY <2>1, EmptyBounded
  <1>4. Ordered(writer, wire, read)
    <2>1. writer.queue = <<>> /\ writer.last = 0
      BY <1>1
    <2> QED BY <1>1, <2>1 DEF Ordered
  <1> QED BY <1>2, <1>3, <1>4, PressureForm, OrderForm

\* pendingBytes is what is queued and not dropped, and over the hard cap only
\* responses are: through every merge, shed, seal and pump step.
THEOREM PressureAlways == OutSpec => []PressureBounded
  <1> DEFINE Inv == PressureBounded /\ SequencesIncrease
  <1>1. OutInit => Inv
    BY OutStart
  <1>2. Inv /\ [OutNext]_outVars => Inv'
    BY OutStep
  <1>3. Inv => PressureBounded
    OBVIOUS
  <1> QED BY <1>1, <1>2, <1>3, PTL DEF OutSpec

\* The peer never reads a number twice or out of order, whether a barrier or
\* the write allocated it.
THEOREM SequencesAlways == OutSpec => []SequencesIncrease
  <1> DEFINE Inv == PressureBounded /\ SequencesIncrease
  <1>1. OutInit => Inv
    BY OutStart
  <1>2. Inv /\ [OutNext]_outVars => Inv'
    BY OutStep
  <1>3. Inv => SequencesIncrease
    OBVIOUS
  <1> QED BY <1>1, <1>2, <1>3, PTL DEF OutSpec

-----------------------------------------------------------------------------
(* The responses that are still to be read. *)

\* What the pump will write for an entry; a dropped one says nothing.
Outlook(e) == [kind |-> IF e.dropped THEN "dropped" ELSE e.kind, val |-> e.val]

UnreadOf(w, lines) == lines \o [i \in DOMAIN w.queue |-> Outlook(w.queue[i])]

Spoken(V) == LineOf(V) \cup [kind : EventKinds \cup {"response", "dropped"}, val : V]

\* What is to be read, position by position: the wire, then the queue.
LEMMA UnreadLines ==
    ASSUME NEW V, NEW w \in WriterOf(V), NEW lines \in Seq(LineOf(V))
    PROVE  LET u == UnreadOf(w, lines)
           IN  /\ u \in Seq(Spoken(V)) /\ Len(u) = Len(lines) + Len(w.queue)
               /\ \A i \in 1..Len(lines) : u[i] = lines[i]
               /\ \A i \in 1..Len(w.queue) : u[Len(lines) + i] = Outlook(w.queue[i])
               /\ \A l \in Spoken(V) : l.val \in V
  <1> DEFINE q == w.queue
             o == [i \in DOMAIN q |-> Outlook(q[i])]
             S == Spoken(V)
  <1>1. q \in Seq(EntryOf(V)) /\ Len(q) \in Nat /\ DOMAIN q = 1..Len(q)
    BY DEF WriterOf
  <1>2. ASSUME NEW i \in 1..Len(q) PROVE o[i] = Outlook(q[i]) /\ o[i] \in S
    <2>1. q[i] \in EntryOf(V)
      BY <1>1
    <2>2. q[i].kind \in EventKinds \cup {"response"} /\ q[i].val \in V
      BY <2>1, EntryFields
    <2> QED BY <1>1, <2>2 DEF Outlook, Spoken
  <1>3. o = [i \in DOMAIN q |-> o[i]]
    OBVIOUS
  <1> HIDE DEF o
  <1>4. o \in Seq(S) /\ Len(o) = Len(q)
    <2>1. \A i \in 1..Len(q) : o[i] \in S
      BY <1>2
    <2> HIDE DEF q, S
    <2> QED BY <1>1, <1>3, <2>1, Rewritten
  <1>5. lines \in Seq(S)
    <2>1. \A i \in 1..Len(lines) : lines[i] \in S
      BY DEF Spoken
    <2> HIDE DEF S
    <2> QED BY <2>1
  <1>6. \A l \in S : l.val \in V
    BY DEF Spoken, LineOf
  <1> HIDE DEF S
  <1>7. /\ lines \o o \in Seq(S) /\ Len(lines \o o) = Len(lines) + Len(o)
        /\ \A i \in 1..Len(lines) : (lines \o o)[i] = lines[i]
        /\ \A i \in 1..Len(o) : (lines \o o)[Len(lines) + i] = o[i]
    BY <1>4, <1>5
  <1>8. UnreadOf(w, lines) = lines \o o
    BY DEF UnreadOf, o
  <1> QED BY <1>2, <1>4, <1>6, <1>7, <1>8 DEF S

\* What keeps the queue keeps the responses to be read, and adds at the end.
LEMMA UnreadKept ==
    ASSUME NEW V, NEW w \in WriterOf(V), NEW v \in WriterOf(V),
           NEW lines \in Seq(LineOf(V)), Keeps(w, v)
    PROVE  IsPrefix(Responses(UnreadOf(w, lines)), Responses(UnreadOf(v, lines)))
  <1> DEFINE a == UnreadOf(w, lines)
             b == UnreadOf(v, lines)
             M == Len(lines)
             N == Len(w.queue)
             L == Spoken(V)
  <1>1. /\ M \in Nat /\ N \in Nat /\ Len(v.queue) \in Nat /\ N <= Len(v.queue)
    BY DEF WriterOf, Keeps
  <1>2. /\ a \in Seq(L) /\ Len(a) = M + N /\ \A l \in L : l.val \in V
        /\ \A i \in 1..M : a[i] = lines[i]
        /\ \A i \in 1..N : a[M + i] = Outlook(w.queue[i])
    BY UnreadLines
  <1>3. /\ b \in Seq(L) /\ Len(b) = M + Len(v.queue)
        /\ \A i \in 1..M : b[i] = lines[i]
        /\ \A i \in 1..Len(v.queue) : b[M + i] = Outlook(v.queue[i])
    BY UnreadLines
  <1> HIDE DEF a, b, M, L
  <1>4. ASSUME NEW i \in 1..N PROVE Same(Outlook(w.queue[i]), Outlook(v.queue[i]))
    <2> DEFINE e == w.queue[i]
               f == v.queue[i]
    <2>1. /\ f.kind = e.kind /\ (e.dropped => f.dropped)
          /\ ~IsEvent(e) => f.dropped = e.dropped /\ f.val = e.val
      BY DEF Keeps
    <2> HIDE DEF e, f
    <2>2. Same(Outlook(e), Outlook(f))
      BY <2>1 DEF Same, Outlook, IsEvent
    <2> QED BY <2>2 DEF e, f
  <1> HIDE DEF N
  <1>5. ASSUME NEW i \in 1..(M + N) PROVE Same(a[i], b[i])
    <2>1. CASE i \in 1..M
      BY <1>2, <1>3, <2>1 DEF Same
    <2>2. CASE i \notin 1..M
      <3>1. i - M \in 1..N /\ i - M \in 1..Len(v.queue) /\ M + (i - M) = i
        BY <1>1, <2>2
      <3> QED BY <1>2, <1>3, <1>4, <3>1
    <2> QED BY <2>1, <2>2
  <1>6. M + N \in 0..Len(a) /\ M + N \in 0..Len(b) /\ M + N <= Len(b)
    BY <1>1, <1>2, <1>3
  <1>7. Said(a)[M + N] = Said(b)[M + N]
    <2> DEFINE m == M + N
    <2>1. m \in 0..Len(a) /\ m <= Len(b) /\ \A i \in 1..m : Same(a[i], b[i])
      BY <1>5, <1>6
    <2> HIDE DEF m
    <2>2. Said(a)[m] = Said(b)[m]
      BY ZenonT(60), <1>2, <1>3, <2>1, SaidSame
    <2> QED BY <2>2 DEF m
  <1>8. IsPrefix(Said(b)[M + N], Responses(b))
    BY <1>2, <1>3, <1>6, SaidGrows
  <1>9. Responses(a) = Said(a)[M + N]
    <2>1. SaysInTurn(a, V)
      BY <1>2, SaidDef
    <2> QED BY <1>2, <2>1 DEF SaysInTurn
  <1> QED BY <1>7, <1>8, <1>9 DEF a, b

\* Responses begin with themselves.
LEMMA ResponsesBegin ==
    ASSUME NEW V, NEW L, \A l \in L : l.val \in V, NEW lines \in Seq(L)
    PROVE  IsPrefix(Responses(lines), Responses(lines))
  <1>1. SaysInTurn(lines, V)
    BY SaidDef
  <1>2. Len(lines) \in 0..Len(lines)
    OBVIOUS
  <1>3. IsPrefix(Said(lines)[Len(lines)], Responses(lines))
    BY <1>2, SaidGrows
  <1> QED BY <1>1, <1>3 DEF SaysInTurn

\* The pump moves a response to the wire, and says nothing of what is dropped.
LEMMA UnreadPumped ==
    ASSUME NEW V, writer \in WriterOf(V), wire \in Seq(LineOf(V)),
           writer' \in WriterOf(V), wire' \in Seq(LineOf(V)), PumpWrite
    PROVE  Responses(UnreadOf(writer', wire')) = Responses(UnreadOf(writer, wire))
  <1> DEFINE q == writer.queue
             t == writer'.queue
             e == Head(q)
             M == Len(wire)
             N == Len(t)
             a == UnreadOf(writer, wire)
             b == UnreadOf(writer', wire')
             L == Spoken(V)
  <1>1. q \in Seq(EntryOf(V)) /\ q # <<>> /\ t = Tail(q) /\ M \in Nat
    BY DEF WriterOf, PumpWrite
  <1>2. /\ N \in Nat /\ Len(q) = N + 1 /\ e = q[1] /\ e \in EntryOf(V)
        /\ \A i \in 1..N : t[i] = q[i + 1]
    <2> HIDE DEF q, t
    <2> QED BY <1>1
  <1>3. /\ a \in Seq(L) /\ Len(a) = M + Len(q) /\ \A l \in L : l.val \in V
        /\ \A i \in 1..M : a[i] = wire[i]
        /\ \A i \in 1..Len(q) : a[M + i] = Outlook(q[i])
    BY UnreadLines
  <1>4. /\ b \in Seq(L) /\ Len(b) = Len(wire') + N
        /\ \A i \in 1..Len(wire') : b[i] = wire'[i]
        /\ \A i \in 1..N : b[Len(wire') + i] = Outlook(t[i])
    BY UnreadLines
  <1>5. PICK n : wire' = IF e.dropped \/ (IsEvent(e) /\ e.bytes > MaxFrame) THEN wire
                         ELSE Append(wire, [kind |-> e.kind, val |-> e.val, seq |-> n])
    BY DEF PumpWrite
  <1> HIDE DEF a, b, L, e, q, t, N
  <1>6. a[M + 1] = Outlook(e) /\ \A i \in 1..N : a[M + 1 + i] = Outlook(t[i])
    <2>1. 1 \in 1..Len(q) /\ \A i \in 1..N : i + 1 \in 1..Len(q) /\ M + 1 + i = M + (i + 1)
      BY <1>1, <1>2
    <2> QED BY <1>2, <1>3, <2>1
  <1>7. CASE e.dropped \/ (IsEvent(e) /\ e.bytes > MaxFrame)
    <2>1. wire' = wire
      BY <1>5, <1>7
    <2>2. /\ M + 1 \in 1..Len(a) /\ Len(a) = Len(b) + 1
          /\ Len(b) = M + N
      BY <1>1, <1>2, <1>3, <1>4, <2>1
    <2>3. a[M + 1].kind # "response"
      BY <1>6, <1>7 DEF Outlook, IsEvent
    <2>4. ASSUME NEW i \in 1..Len(b)
          PROVE  Same(b[i], IF i < M + 1 THEN a[i] ELSE a[i + 1])
      <3>1. CASE i < M + 1
        <4>1. i \in 1..M
          BY <1>1, <3>1
        <4> QED BY <1>3, <1>4, <2>1, <3>1, <4>1 DEF Same
      <3>2. CASE ~(i < M + 1)
        <4>1. i - M \in 1..N /\ M + (i - M) = i /\ M + 1 + (i - M) = i + 1
          BY <1>1, <1>2, <2>2, <3>2
        <4>2. b[i] = Outlook(t[i - M]) /\ a[i + 1] = Outlook(t[i - M])
          BY <1>4, <1>6, <2>1, <4>1
        <4> QED BY <3>2, <4>2 DEF Same
      <3> QED BY <3>1, <3>2
    <2> DEFINE k == M + 1
    <2>5. /\ k \in 1..Len(a) /\ a[k].kind # "response"
          /\ \A i \in 1..Len(b) : Same(b[i], IF i < k THEN a[i] ELSE a[i + 1])
      BY <2>2, <2>3, <2>4
    <2> HIDE DEF k, M
    <2>6. Responses(b) = Responses(a)
      BY <1>3, <1>4, <2>2, <2>5, SaidSkip
    <2> QED BY <2>6 DEF a, b
  <1>8. CASE ~(e.dropped \/ (IsEvent(e) /\ e.bytes > MaxFrame))
    <2> DEFINE line == [kind |-> e.kind, val |-> e.val, seq |-> n]
    <2>1. wire' = Append(wire, line)
      BY <1>5, <1>8
    <2>2. Same(line, Outlook(e))
      BY <1>8 DEF Same, Outlook
    <2> HIDE DEF line
    <2>3. Len(wire') = M + 1 /\ wire'[M + 1] = line /\ \A i \in 1..M : wire'[i] = wire[i]
      BY <2>1
    <2>4. Len(b) = Len(a) /\ Len(a) = M + N + 1
      BY <1>1, <1>2, <1>3, <1>4, <2>3
    <2>5. ASSUME NEW i \in 1..Len(a) PROVE Same(a[i], b[i])
      <3>1. CASE i \in 1..M
        <4>1. i \in 1..Len(wire')
          BY <2>3, <3>1, <1>1
        <4> QED BY <1>3, <1>4, <2>3, <3>1, <4>1 DEF Same
      <3>2. CASE i = M + 1
        <4>1. M + 1 \in 1..Len(wire')
          BY <1>1, <2>3
        <4>2. b[i] = line /\ a[i] = Outlook(e)
          BY <1>4, <1>6, <2>3, <3>2, <4>1
        <4> QED BY <2>2, <4>2 DEF Same
      <3>3. CASE i > M + 1
        <4>1. i - (M + 1) \in 1..N /\ M + 1 + (i - (M + 1)) = i
          BY <1>1, <1>2, <2>4, <3>3
        <4>2. b[i] = Outlook(t[i - (M + 1)]) /\ a[i] = Outlook(t[i - (M + 1)])
          BY <1>4, <1>6, <2>3, <4>1
        <4> QED BY <4>2 DEF Same
      <3>4. i \in Int /\ 1 <= i
        BY <1>1, <1>2, <2>4
      <3>5. i \in 1..M \/ i = M + 1 \/ i > M + 1
        BY <1>1, <3>4
      <3> QED BY <3>1, <3>2, <3>3, <3>5
    <2> DEFINE m == Len(a)
    <2>6. /\ m \in 0..Len(a) /\ m <= Len(b) /\ \A i \in 1..m : Same(a[i], b[i])
      BY <1>1, <1>2, <2>4, <2>5
    <2> HIDE DEF m
    <2>7. Said(a)[m] = Said(b)[m]
      BY <1>3, <1>4, <2>6, SaidSame
    <2>8. SaysInTurn(a, V) /\ SaysInTurn(b, V)
      BY <1>3, <1>4, SaidDef
    <2>9. Responses(a) = Said(a)[m] /\ Responses(b) = Said(b)[m]
      BY <2>4, <2>8 DEF SaysInTurn, m
    <2> QED BY <2>7, <2>9 DEF a, b
  <1> QED BY <1>7, <1>8

\* The property's Unread is the UnreadOf of the lemmas, in both states.
LEMMA UnreadForm ==
    /\ Unread = UnreadOf(writer, wire)
    /\ Unread' = UnreadOf(writer', wire')
  BY DEF Unread, UnreadOf, Outlook

\* No step but a read or a broken stream takes a response away, alters it or
\* moves it: what is still to be read only grows, at the end.
THEOREM ResponsesKeptAlways == OutSpec => ResponsesKept
  <1> DEFINE Kept == PeerRead \/ PumpFail \/ IsPrefix(Responses(Unread), Responses(Unread'))
             Inv == PressureBounded /\ SequencesIncrease
  <1>1. ASSUME Inv, [OutNext]_outVars PROVE [Kept]_outVars
    <2>1. /\ writer \in WriterOf(Payload) /\ wire \in Seq(LineOf(Payload))
      BY <1>1, PressureForm DEF Bounded, Sound
    <2>2. writer' \in WriterOf(Payload) /\ wire' \in Seq(LineOf(Payload))
      <3>1. PressureBounded'
        BY <1>1, OutStep
      <3> QED BY <3>1, NextForms DEF Bounded, Sound
    <2>3. CASE PumpWrite
      <3>1. Responses(UnreadOf(writer', wire')) = Responses(UnreadOf(writer, wire))
        BY <2>1, <2>2, <2>3, UnreadPumped
      <3>2. /\ UnreadOf(writer, wire) \in Seq(Spoken(Payload))
            /\ \A l \in Spoken(Payload) : l.val \in Payload
        BY <2>1, UnreadLines
      <3>3. IsPrefix(Responses(UnreadOf(writer, wire)), Responses(UnreadOf(writer, wire)))
        BY <3>2, ResponsesBegin
      <3> QED BY <3>1, <3>3, UnreadForm
    <2>4. CASE (\E kind \in EventKinds : HostEvent(kind)) \/ HostResponse \/ HostBarrier
      <3>1. Keeps(writer, writer') /\ wire' = wire
        BY <1>1, <2>4, HostStep
      <3>2. IsPrefix(Responses(UnreadOf(writer, wire)), Responses(UnreadOf(writer', wire)))
        BY <2>1, <2>2, <3>1, UnreadKept
      <3> QED BY <3>1, <3>2, UnreadForm
    <2> QED BY <1>1, <2>3, <2>4 DEF OutNext
  <1>2. OutInit => Inv
    BY OutStart
  <1>3. Inv /\ [OutNext]_outVars => Inv'
    BY OutStep
  <1>4. Inv /\ [OutNext]_outVars => [Kept]_outVars
    BY <1>1
  <1>5. ResponsesKept <=> [][Kept]_outVars
    BY DEF ResponsesKept
  <1> HIDE DEF Inv, Kept
  <1> QED BY <1>2, <1>3, <1>4, <1>5, PTL DEF OutSpec
=============================================================================
