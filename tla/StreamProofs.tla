---------------------------- MODULE StreamProofs -----------------------------
(***************************************************************************)
(* Theorems about what receives and writes a stream: RtspClient, for any    *)
(* number of frames, parts of a frame, keep-alives and losses; and          *)
(* Mp4Files, for any number of frames of any lengths at any times.          *)
(***************************************************************************)
EXTENDS RtspClient, Mp4Files, FiniteSetTheorems, SequenceTheorems, WellFoundedInduction, TLAPS

-----------------------------------------------------------------------------
(* Sequences that are defined by recursion                                  *)

(* Numbers, if there are any, have a least.                                 *)
LEMMA LeastNat ==
  ASSUME NEW T, T \subseteq Nat, T # {}
  PROVE  \E m \in T : \A k \in T : m <= k
<1>1. IsWellFoundedOn(OpToRel(<, Nat), Nat)
  BY NatLessThanWellFounded
<1>2. PICK m \in T : \A k \in T : ~(<<k, m>> \in OpToRel(<, Nat))
  BY <1>1, WFMin
<1>3. \A k \in T : ~(k < m)
  BY <1>2 DEF OpToRel
<1>4. \A k \in T : m <= k
  BY <1>3
<1> QED
  BY <1>4

(* A function on 0..n that begins at r and goes on by step.                 *)
Recurs(f, n, r, step) ==
  f = [i \in 0..n |-> IF i = 0 THEN r ELSE step[<<i, f[i - 1]>>]]

(* Such a function goes on by one.                                          *)
LEMMA RecursionStep ==
  ASSUME NEW n \in Nat, NEW R, NEW r \in R, NEW step \in [(1..(n + 1)) \X R -> R],
         NEW f \in [0..n -> R], Recurs(f, n, r, step)
  PROVE  \E g \in [0..(n + 1) -> R] : Recurs(g, n + 1, r, step)
<1> DEFINE g == [i \in 0..(n + 1) |-> IF i = n + 1 THEN step[<<n + 1, f[n]>>] ELSE f[i]]
<1>1. /\ g = [i \in 0..(n + 1) |-> g[i]] /\ g[n + 1] = step[<<n + 1, f[n]>>]
      /\ \A i \in 0..n : g[i] = f[i]
  OBVIOUS
<1> HIDE DEF g
<1>2. \A i \in 0..n : f[i] \in R /\ f[i] = IF i = 0 THEN r ELSE step[<<i, f[i - 1]>>]
  <2>1. ASSUME NEW i \in 0..n PROVE f[i] = IF i = 0 THEN r ELSE step[<<i, f[i - 1]>>]
    <3>1. f = [j \in 0..n |-> IF j = 0 THEN r ELSE step[<<j, f[j - 1]>>]]
      BY DEF Recurs
    <3> DEFINE v(j) == IF j = 0 THEN r ELSE step[<<j, f[j - 1]>>]
    <3>2. f = [j \in 0..n |-> v(j)]
      BY <3>1
    <3> HIDE DEF v
    <3>3. f[i] = v(i)
      BY <3>2
    <3> QED
      BY <3>3 DEF v
  <2> QED
    BY <2>1
<1>3. ASSUME NEW i \in 0..(n + 1)
      PROVE  g[i] \in R /\ g[i] = IF i = 0 THEN r ELSE step[<<i, g[i - 1]>>]
  <2>1. CASE i = n + 1
    <3>1. n \in 0..n /\ i - 1 = n /\ i # 0 /\ <<n + 1, f[n]>> \in (1..(n + 1)) \X R
      BY <1>2, <2>1
    <3> QED
      BY <1>1, <2>1, <3>1
  <2>2. CASE i \in 0..n
    <3>1. i # 0 => i - 1 \in 0..n
      BY <2>2
    <3> QED
      BY <1>1, <1>2, <2>2, <3>1
  <2> QED
    BY <2>1, <2>2
<1>4. g \in [0..(n + 1) -> R]
  BY <1>1, <1>3
<1>5. Recurs(g, n + 1, r, step)
  <2> DEFINE v(i) == IF i = 0 THEN r ELSE step[<<i, g[i - 1]>>]
  <2>1. \A i \in 0..(n + 1) : g[i] = v(i)
    BY <1>3
  <2> HIDE DEF v
  <2>2. g = [i \in 0..(n + 1) |-> v(i)]
    BY <1>1, <2>1
  <2> QED
    BY <2>2 DEF Recurs, v
<1> QED
  BY <1>4, <1>5

(* There is one of every length.                                            *)
LEMMA Recursion ==
  ASSUME NEW n \in Nat, NEW R, NEW r \in R, NEW step \in [(1..n) \X R -> R]
  PROVE  \E f \in [0..n -> R] : Recurs(f, n, r, step)
<1> DEFINE T == {k \in Nat : k <= n /\ ~ \E f \in [0..k -> R] : Recurs(f, k, r, step)}
<1>1. SUFFICES ASSUME T # {} PROVE FALSE
  <2>1. ASSUME T = {} PROVE \E f \in [0..n -> R] : Recurs(f, n, r, step)
    BY <2>1
  <2> QED
    BY <2>1
<1>2. PICK m \in T : \A k \in T : m <= k
  BY <1>1, LeastNat
<1>3. m # 0
  <2>1. [i \in 0..0 |-> r] \in [0..0 -> R]
    OBVIOUS
  <2>2. Recurs([i \in 0..0 |-> r], 0, r, step)
    BY DEF Recurs
  <2>3. 0 \notin T
    BY <2>1, <2>2
  <2> QED
    BY <2>3
<1> DEFINE p == m - 1
<1>4. p \in Nat /\ p <= n /\ p + 1 = m /\ m <= n /\ p \notin T
  BY <1>2, <1>3
<1>5. PICK f \in [0..p -> R] : Recurs(f, p, r, step)
  BY <1>4
<1> DEFINE now == [x \in (1..(p + 1)) \X R |-> step[x]]
<1>6. now \in [(1..(p + 1)) \X R -> R]
  BY <1>4
<1>7. \A i \in 1..(p + 1), x \in R : now[<<i, x>>] = step[<<i, x>>]
  OBVIOUS
<1> HIDE DEF p, now
<1>8. ASSUME NEW q \in Nat, q <= p + 1, NEW g \in [0..q -> R]
      PROVE  Recurs(g, q, r, now) <=> Recurs(g, q, r, step)
  <2> DEFINE v(i) == IF i = 0 THEN r ELSE now[<<i, g[i - 1]>>]
             z(i) == IF i = 0 THEN r ELSE step[<<i, g[i - 1]>>]
  <2>1. ASSUME NEW i \in 0..q PROVE v(i) = z(i)
    <3>1. CASE i # 0
      <4>1. i - 1 \in 0..q /\ i \in 1..(p + 1)
        BY <1>4, <1>8, <3>1
      <4>2. g[i - 1] \in R
        BY <1>8, <4>1
      <4> QED
        BY <1>7, <4>1, <4>2
    <3> QED
      BY <3>1
  <2> HIDE DEF v, z
  <2>2. [i \in 0..q |-> v(i)] = [i \in 0..q |-> z(i)]
    BY <2>1
  <2> QED
    BY <2>2 DEF Recurs, v, z
<1>9. Recurs(f, p, r, now)
  BY <1>4, <1>5, <1>8
<1>10. PICK g \in [0..(p + 1) -> R] : Recurs(g, p + 1, r, now)
  BY <1>4, <1>6, <1>9, RecursionStep
<1>11. Recurs(g, p + 1, r, step)
  BY <1>4, <1>8, <1>10
<1>12. g \in [0..m -> R] /\ Recurs(g, m, r, step)
  BY <1>4, <1>10, <1>11
<1>13. ~ \E h \in [0..m -> R] : Recurs(h, m, r, step)
  BY <1>2, Zenon
<1> QED
  BY <1>12, <1>13, Zenon

(* Two of them that go on alike are alike.                                  *)
LEMMA RecursionUnique ==
  ASSUME NEW m \in Nat, NEW f, NEW g, f[0] = g[0],
         \A i \in 1..m : f[i - 1] = g[i - 1] => f[i] = g[i]
  PROVE  \A i \in 0..m : f[i] = g[i]
<1> DEFINE T == {k \in Nat : k <= m /\ f[k] # g[k]}
<1>1. SUFFICES ASSUME T # {} PROVE FALSE
  <2>1. ASSUME T = {} PROVE \A i \in 0..m : f[i] = g[i]
    BY <2>1
  <2> QED
    BY <2>1
<1>2. PICK k \in T : \A i \in T : k <= i
  BY <1>1, LeastNat
<1>3. k \in Nat /\ k # 0 /\ k <= m /\ f[k] # g[k]
  BY <1>2
<1>4. k - 1 \notin T
  <2> HIDE DEF T
  <2> QED
    BY <1>2, <1>3
<1>5. k - 1 \in Nat /\ k - 1 <= m /\ k \in 1..m
  BY <1>3
<1>6. f[k - 1] = g[k - 1]
  BY <1>4, <1>5
<1> QED
  BY <1>3, <1>5, <1>6

-----------------------------------------------------------------------------
(* Payloads and FlattenSeq                                                  *)

Sifts(f, b) ==
  f = [i \in 0..Len(b) |->
         IF i = 0 THEN <<>>
         ELSE IF IsPayload(b[i]) THEN Append(f[i - 1], b[i]) ELSE f[i - 1]]

(* Payloads is defined on every sequence of parts.                          *)
LEMMA SiftsExist ==
  ASSUME NEW b \in Seq(Parts)
  PROVE  \E f \in [0..Len(b) -> Seq(Parts)] : Sifts(f, b)
<1> DEFINE n == Len(b)
           next(i, s) == IF IsPayload(b[i]) THEN Append(s, b[i]) ELSE s
           step == [x \in (1..n) \X Seq(Parts) |-> next(x[1], x[2])]
<1>1. n \in Nat /\ <<>> \in Seq(Parts) /\ \A i \in 1..n : b[i] \in Parts
  BY LenProperties, ElementOfSeq, EmptySeq
<1>2. ASSUME NEW i \in 1..n, NEW s \in Seq(Parts) PROVE next(i, s) \in Seq(Parts)
  BY <1>1, <1>2, AppendProperties
<1> HIDE DEF next, n
<1>3. /\ step \in [(1..n) \X Seq(Parts) -> Seq(Parts)]
      /\ \A i \in 1..n, s \in Seq(Parts) : step[<<i, s>>] = next(i, s)
  BY <1>2
<1> HIDE DEF step
<1>4. PICK f \in [0..n -> Seq(Parts)] : Recurs(f, n, <<>>, step)
  BY <1>1, <1>3, Recursion
<1> DEFINE v(i) == IF i = 0 THEN <<>> ELSE step[<<i, f[i - 1]>>]
           z(i) == IF i = 0 THEN <<>> ELSE next(i, f[i - 1])
<1>5. ASSUME NEW i \in 0..n PROVE v(i) = z(i)
  <2>1. CASE i # 0
    <3>1. i \in 1..n /\ i - 1 \in 0..n
      BY <1>1, <2>1
    <3> QED
      BY <1>3, <1>4, <3>1
  <2> QED
    BY <2>1
<1>6. f = [i \in 0..n |-> v(i)]
  BY <1>4 DEF Recurs
<1> HIDE DEF v, z
<1>7. f = [i \in 0..n |-> z(i)]
  BY <1>5, <1>6
<1>8. Sifts(f, b)
  BY <1>7 DEF Sifts, z, next, n
<1> QED
  BY <1>4, <1>8 DEF n

(* So what it chooses is what it says.                                      *)
LEMMA PayloadsSift ==
  ASSUME NEW b \in Seq(Parts)
  PROVE  \E f : Sifts(f, b) /\ Payloads(b) = f[Len(b)]
<1> DEFINE some == CHOOSE f : Sifts(f, b)
<1>1. Payloads(b) = some[Len(b)]
  BY DEF Payloads, Sifts
<1>2. Sifts(some, b)
  BY SiftsExist
<1> QED
  BY <1>1, <1>2

(* What it says, part by part.                                              *)
LEMMA SiftsAt ==
  ASSUME NEW b, Len(b) \in Nat, NEW f, Sifts(f, b)
  PROVE  /\ f = [i \in 0..Len(b) |-> f[i]] /\ f[0] = <<>>
         /\ \A i \in 1..Len(b) :
              f[i] = IF IsPayload(b[i]) THEN Append(f[i - 1], b[i]) ELSE f[i - 1]
<1> DEFINE z(i) == IF i = 0 THEN <<>>
                   ELSE IF IsPayload(b[i]) THEN Append(f[i - 1], b[i]) ELSE f[i - 1]
<1>1. f = [i \in 0..Len(b) |-> z(i)]
  BY DEF Sifts
<1> HIDE DEF z
<1>2. f = [i \in 0..Len(b) |-> f[i]] /\ \A i \in 0..Len(b) : f[i] = z(i)
  BY <1>1
<1>3. f[0] = <<>>
  BY <1>2 DEF z
<1>4. ASSUME NEW i \in 1..Len(b)
      PROVE  f[i] = IF IsPayload(b[i]) THEN Append(f[i - 1], b[i]) ELSE f[i - 1]
  <2>1. i \in 0..Len(b) /\ i # 0
    OBVIOUS
  <2> QED
    BY <1>2, <2>1 DEF z
<1> QED
  BY <1>2, <1>3, <1>4

(* A part at the end: Payloads keeps it if it is a payload.                 *)
LEMMA PayloadsAppend ==
  ASSUME NEW b \in Seq(Parts), NEW x \in Parts
  PROVE  Payloads(Append(b, x)) = IF IsPayload(x) THEN Append(Payloads(b), x) ELSE Payloads(b)
<1> DEFINE c == Append(b, x)  n == Len(b)
<1>1. /\ c \in Seq(Parts) /\ Len(c) = n + 1 /\ n \in Nat
      /\ c[n + 1] = x /\ \A i \in 1..n : c[i] = b[i]
  BY AppendProperties, LenProperties
<1> HIDE DEF c
<1>2. PICK f : Sifts(f, b) /\ Payloads(b) = f[n]
  BY PayloadsSift
<1>3. PICK g : Sifts(g, c) /\ Payloads(c) = g[n + 1]
  BY <1>1, PayloadsSift
<1>5. f[0] = <<>>
  BY <1>1, <1>2, SiftsAt
<1>6. \A i \in 1..n : f[i] = IF IsPayload(b[i]) THEN Append(f[i - 1], b[i]) ELSE f[i - 1]
  BY <1>1, <1>2, SiftsAt
<1>7. Len(c) = n + 1 /\ Len(c) \in Nat
  BY <1>1
<1> HIDE DEF n
<1>9. g[0] = <<>>
  BY <1>3, <1>7, SiftsAt
<1>10. \A i \in 1..(n + 1) : g[i] = IF IsPayload(c[i]) THEN Append(g[i - 1], c[i]) ELSE g[i - 1]
  BY <1>3, <1>7, SiftsAt
<1>11. \A i \in 1..n : f[i - 1] = g[i - 1] => f[i] = g[i]
  <2>1. ASSUME NEW i \in 1..n, f[i - 1] = g[i - 1] PROVE f[i] = g[i]
    <3>1. i \in 1..(n + 1) /\ c[i] = b[i]
      BY <1>1
    <3>2. g[i] = IF IsPayload(b[i]) THEN Append(g[i - 1], b[i]) ELSE g[i - 1]
      BY <1>10, <3>1
    <3>3. f[i] = IF IsPayload(b[i]) THEN Append(f[i - 1], b[i]) ELSE f[i - 1]
      BY <1>6
    <3>4. f[i - 1] = g[i - 1]
      BY <2>1
    <3>5. CASE IsPayload(b[i])
      BY <3>2, <3>3, <3>4, <3>5
    <3>6. CASE ~IsPayload(b[i])
      BY <3>2, <3>3, <3>4, <3>6
    <3> QED
      BY <3>5, <3>6
  <2> QED
    BY <2>1
<1>12. \A i \in 0..n : f[i] = g[i]
  <2>1. n \in Nat /\ f[0] = g[0]
    BY <1>1, <1>5, <1>9
  <2> QED
    BY <1>11, <2>1, RecursionUnique, ZenonT(60)
<1>13. g[n + 1] = IF IsPayload(x) THEN Append(f[n], x) ELSE f[n]
  <2>1. n + 1 \in 1..(n + 1) /\ (n + 1) - 1 = n /\ n \in 0..n
    BY <1>1
  <2> QED
    BY <1>1, <1>10, <1>12, <2>1
<1> QED
  BY <1>2, <1>3, <1>13 DEF c

-----------------------------------------------------------------------------
(* What FlattenSeq chooses: the first i members of s, joined.               *)
Joins(f, s) == f = [i \in 1..Len(s) |-> IF i = 1 THEN s[i] ELSE f[i - 1] \o s[i]]

(* It is defined on every sequence of sequences but the empty one.          *)
LEMMA JoinsExist ==
  ASSUME NEW S, NEW s \in Seq(Seq(S)), s # <<>>
  PROVE  \E f : Joins(f, s)
<1> DEFINE n == Len(s)
           next(i, t) == t \o s[i]
           step == [x \in (1..n) \X Seq(S) |-> next(x[1], x[2])]
<1>1. n \in Nat /\ n # 0 /\ <<>> \in Seq(S) /\ \A i \in 1..n : s[i] \in Seq(S)
  BY LenProperties, ElementOfSeq, EmptySeq
<1>2. ASSUME NEW i \in 1..n, NEW t \in Seq(S) PROVE next(i, t) \in Seq(S)
  BY <1>1, <1>2, ConcatProperties
<1> HIDE DEF next, n
<1>3. /\ step \in [(1..n) \X Seq(S) -> Seq(S)]
      /\ \A i \in 1..n, t \in Seq(S) : step[<<i, t>>] = next(i, t)
  BY <1>2
<1> HIDE DEF step
<1>4. PICK f \in [0..n -> Seq(S)] : Recurs(f, n, <<>>, step)
  BY <1>1, <1>3, Recursion
<1> DEFINE v(i) == IF i = 0 THEN <<>> ELSE step[<<i, f[i - 1]>>]
           z(i) == IF i = 1 THEN s[i] ELSE f[i - 1] \o s[i]
<1>5. ASSUME NEW i \in 1..n PROVE v(i) = z(i)
  <2>1. i \in 1..n /\ i - 1 \in 0..n /\ i # 0
    BY <1>1
  <2>2. v(i) = next(i, f[i - 1])
    BY <1>3, <1>4, <2>1
  <2>3. CASE i = 1
    <3>1. f[0] = <<>>
      <4>1. f = [j \in 0..n |-> v(j)] /\ v(0) = <<>> /\ 0 \in 0..n
        BY <1>1, <1>4 DEF Recurs
      <4> HIDE DEF v
      <4> QED
        BY <4>1
    <3>2. <<>> \o s[1] = s[1]
      BY <1>1, <2>3, ConcatEmptySeq
    <3>3. i - 1 = 0
      BY <2>3
    <3>4. v(i) = <<>> \o s[1]
      BY <2>2, <2>3, <3>1, <3>3 DEF next
    <3> QED
      BY <2>3, <3>2, <3>4
  <2> QED
    BY <2>2, <2>3 DEF next
<1> DEFINE g == [i \in 1..n |-> f[i]]
<1>6. f = [i \in 0..n |-> v(i)]
  BY <1>4 DEF Recurs
<1> HIDE DEF v, z
<1>7. g = [i \in 1..n |-> z(i)]
  <2>1. ASSUME NEW i \in 1..n PROVE f[i] = z(i)
    <3>1. i \in 0..n
      OBVIOUS
    <3> QED
      BY <1>5, <1>6, <3>1
  <2> QED
    BY <2>1
<1> DEFINE u(i) == IF i = 1 THEN s[i] ELSE g[i - 1] \o s[i]
<1>8. ASSUME NEW i \in 1..n PROVE z(i) = u(i)
  <2>1. CASE i # 1
    <3>1. i - 1 \in 1..n
      BY <1>1, <2>1
    <3> QED
      BY <3>1 DEF z
  <2> QED
    BY <2>1 DEF z
<1> HIDE DEF g, u
<1>10. g = [i \in 1..n |-> u(i)]
  BY <1>7, <1>8
<1>11. Joins(g, s)
  BY <1>10 DEF Joins, u, n
<1> QED
  BY <1>11

(* What it says, member by member.                                          *)
LEMMA JoinsAt ==
  ASSUME NEW s, Len(s) \in Nat, NEW f, Joins(f, s)
  PROVE  /\ f = [i \in 1..Len(s) |-> f[i]]
         /\ \A i \in 1..Len(s) : f[i] = IF i = 1 THEN s[i] ELSE f[i - 1] \o s[i]
<1> DEFINE z(i) == IF i = 1 THEN s[i] ELSE f[i - 1] \o s[i]
<1>1. f = [i \in 1..Len(s) |-> z(i)]
  BY DEF Joins
<1> HIDE DEF z
<1>2. f = [i \in 1..Len(s) |-> f[i]] /\ \A i \in 1..Len(s) : f[i] = z(i)
  BY <1>1
<1> QED
  BY <1>2 DEF z

(* FlattenSeq joins the members, which gives a sequence.                    *)
LEMMA FlattenJoins ==
  ASSUME NEW S, NEW s \in Seq(Seq(S)), s # <<>>
  PROVE  \E f : /\ Joins(f, s) /\ FlattenSeq(s) = f[Len(s)]
                /\ \A i \in 1..Len(s) : f[i] \in Seq(S)
<1> DEFINE n == Len(s)
           flatten == CHOOSE f : Joins(f, s)
<1>1. n \in Nat /\ n # 0 /\ \A i \in 1..n : s[i] \in Seq(S)
  BY LenProperties, ElementOfSeq, EmptySeq
<1>2. FlattenSeq(s) = flatten[n]
  BY <1>1 DEF FlattenSeq, Joins
<1>3. Joins(flatten, s)
  BY JoinsExist
<1> HIDE DEF flatten
<1>4. \A i \in 1..n : flatten[i] = IF i = 1 THEN s[i] ELSE flatten[i - 1] \o s[i]
  BY <1>1, <1>3, JoinsAt
<1> HIDE DEF n
<1> DEFINE T == {k \in Nat : k \in 1..n /\ flatten[k] \notin Seq(S)}
<1>5. ASSUME T # {} PROVE FALSE
  <2>1. PICK k \in T : \A i \in T : k <= i
    BY <1>5, LeastNat
  <2>2. k \in 1..n /\ flatten[k] \notin Seq(S)
    BY <2>1
  <2>3. s[k] \in Seq(S)
    BY <1>1, <2>2
  <2>4. k # 1
    BY <1>4, <2>2, <2>3
  <2>5. k - 1 \in 1..n /\ k - 1 \in Nat
    BY <1>1, <2>2, <2>4
  <2>6. k - 1 \notin T
    <3> HIDE DEF T
    <3> QED
      BY <2>1, <2>2
  <2>7. flatten[k - 1] \in Seq(S)
    BY <2>5, <2>6
  <2>8. flatten[k] = flatten[k - 1] \o s[k]
    BY <1>4, <2>2, <2>4
  <2> QED
    BY <2>2, <2>3, <2>7, <2>8, ConcatProperties
<1>6. \A i \in 1..n : flatten[i] \in Seq(S)
  BY <1>5
<1> QED
  BY <1>2, <1>3, <1>6 DEF n

(* A sequence at the end is joined to what the others give.                 *)
LEMMA FlattenAppend ==
  ASSUME NEW S, NEW s \in Seq(Seq(S)), NEW d \in Seq(S)
  PROVE  FlattenSeq(Append(s, d)) = IF s = <<>> THEN d ELSE FlattenSeq(s) \o d
<1> DEFINE c == Append(s, d)  n == Len(s)
<1>1. /\ c \in Seq(Seq(S)) /\ Len(c) = n + 1 /\ n \in Nat /\ c # <<>>
      /\ c[n + 1] = d /\ \A i \in 1..n : c[i] = s[i]
  BY AppendProperties, LenProperties
<1> HIDE DEF c
<1>2. PICK g : Joins(g, c) /\ FlattenSeq(c) = g[n + 1]
  BY <1>1, FlattenJoins
<1>3. Len(c) \in Nat /\ Len(c) = n + 1
  BY <1>1
<1> HIDE DEF n
<1>4. g = [i \in 1..(n + 1) |-> g[i]]
  BY <1>2, <1>3, JoinsAt
<1>5. \A i \in 1..(n + 1) : g[i] = IF i = 1 THEN c[i] ELSE g[i - 1] \o c[i]
  BY <1>2, <1>3, JoinsAt
<1>6. CASE s = <<>>
  <2>1. n = 0
    BY <1>6 DEF n
  <2>2. g[n + 1] = d
    BY <1>1, <1>5, <2>1
  <2> QED
    BY <1>2, <1>6, <2>2 DEF c
<1>7. CASE s # <<>>
  <2>1. n # 0
    BY <1>7, EmptySeq DEF n
  <2>2. PICK f : Joins(f, s) /\ FlattenSeq(s) = f[n]
    BY <1>7, FlattenJoins DEF n
  <2>3. Len(s) \in Nat /\ Len(s) = n
    BY <1>1 DEF n
  <2>4. \A i \in 1..n : f[i] = IF i = 1 THEN s[i] ELSE f[i - 1] \o s[i]
    BY <2>2, <2>3, JoinsAt
  <2> DEFINE T == {k \in Nat : k \in 1..n /\ f[k] # g[k]}
  <2>5. ASSUME T # {} PROVE FALSE
    <3>1. PICK k \in T : \A i \in T : k <= i
      BY <2>5, LeastNat
    <3>2. k \in 1..n /\ k \in 1..(n + 1) /\ f[k] # g[k] /\ s[k] = c[k]
      BY <1>1, <3>1
    <3>3. k - 1 \notin T
      <4> HIDE DEF T
      <4> QED
        BY <3>1, <3>2
    <3>4. k # 1
      BY <1>5, <2>4, <3>2
    <3>5. f[k - 1] = g[k - 1]
      <4>1. k - 1 \in 1..n /\ k - 1 \in Nat
        BY <1>1, <3>2, <3>4
      <4> QED
        BY <3>3, <4>1
    <3>6. f[k] = f[k - 1] \o s[k]
      BY <2>4, <3>2, <3>4
    <3>7. g[k] = g[k - 1] \o c[k]
      BY <1>5, <3>2, <3>4
    <3> QED
      BY <3>2, <3>5, <3>6, <3>7
  <2>6. f[n] = g[n]
    <3>1. n \in 1..n /\ n \in Nat
      BY <1>1, <2>1
    <3>2. T = {}
      BY <2>5
    <3>3. n \notin T
      <4> HIDE DEF T
      <4> QED
        BY <3>2
    <3> QED
      BY <3>1, <3>3
  <2>7. g[n + 1] = g[n] \o d
    <3>1. n + 1 \in 1..(n + 1) /\ n + 1 # 1 /\ (n + 1) - 1 = n
      BY <1>1, <2>1
    <3> QED
      BY <1>1, <1>5, <3>1
  <2> QED
    BY <1>2, <1>7, <2>2, <2>6, <2>7 DEF c
<1> QED
  BY <1>6, <1>7

-----------------------------------------------------------------------------
(* What a packet adds                                                       *)

(* A member put at the end of the second is at the end of both.             *)
LEMMA EndOfBoth ==
  ASSUME NEW S, NEW s \in Seq(S), NEW b \in Seq(S), NEW x \in S
  PROVE  s \o Append(b, x) = Append(s \o b, x)
<1> DEFINE l == s \o Append(b, x)  r == Append(s \o b, x)
<1>1. Len(s) \in Nat /\ Len(b) \in Nat
  BY LenProperties
<1>2. /\ Append(b, x) \in Seq(S) /\ Len(Append(b, x)) = Len(b) + 1
      /\ Append(b, x)[Len(b) + 1] = x /\ \A i \in 1..Len(b) : Append(b, x)[i] = b[i]
  BY AppendProperties
<1>3. /\ s \o b \in Seq(S) /\ Len(s \o b) = Len(s) + Len(b)
      /\ \A i \in 1..(Len(s) + Len(b)) : (s \o b)[i] = IF i <= Len(s) THEN s[i] ELSE b[i - Len(s)]
  BY ConcatProperties
<1>4. /\ l \in Seq(S) /\ Len(l) = Len(s) + (Len(b) + 1)
      /\ \A i \in 1..(Len(s) + (Len(b) + 1)) :
           l[i] = IF i <= Len(s) THEN s[i] ELSE Append(b, x)[i - Len(s)]
  <2> DEFINE a == Append(b, x)
  <2>1. a \in Seq(S) /\ Len(a) = Len(b) + 1
    BY <1>2
  <2> HIDE DEF a
  <2>2. /\ s \o a \in Seq(S) /\ Len(s \o a) = Len(s) + Len(a)
        /\ \A i \in 1..(Len(s) + Len(a)) : (s \o a)[i] = IF i <= Len(s) THEN s[i] ELSE a[i - Len(s)]
    BY <2>1, ConcatProperties
  <2>3. Len(s) + Len(a) = Len(s) + (Len(b) + 1)
    BY <2>1
  <2> QED
    BY <2>2, <2>3 DEF a
<1>5. /\ r \in Seq(S) /\ Len(r) = (Len(s) + Len(b)) + 1
      /\ r[(Len(s) + Len(b)) + 1] = x
      /\ \A i \in 1..(Len(s) + Len(b)) : r[i] = (s \o b)[i]
  BY <1>3, AppendProperties
<1> HIDE DEF l, r
<1>6. \A i \in 1..Len(l) : l[i] = r[i]
  <2>1. ASSUME NEW i \in 1..Len(l) PROVE l[i] = r[i]
    <3>1. i \in 1..(Len(s) + (Len(b) + 1)) /\ i \in Nat
      BY <1>1, <1>4
    <3>2. CASE i = (Len(s) + Len(b)) + 1
      <4>1. ~(i <= Len(s)) /\ i - Len(s) = Len(b) + 1
        BY <1>1, <3>2
      <4> QED
        BY <1>2, <1>4, <1>5, <3>1, <3>2, <4>1
    <3>3. CASE i # (Len(s) + Len(b)) + 1
      <4>1. i \in 1..(Len(s) + Len(b))
        BY <1>1, <3>1, <3>3
      <4>2. r[i] = IF i <= Len(s) THEN s[i] ELSE b[i - Len(s)]
        BY <1>3, <1>5, <4>1
      <4>3. ~(i <= Len(s)) => i - Len(s) \in 1..Len(b)
        BY <1>1, <4>1
      <4>4. l[i] = IF i <= Len(s) THEN s[i] ELSE Append(b, x)[i - Len(s)]
        BY <1>4, <3>1
      <4> QED
        BY <1>2, <4>2, <4>3, <4>4
    <3> QED
      BY <3>2, <3>3
  <2> QED
    BY <2>1
<1>7. Len(l) = Len(r)
  BY <1>1, <1>4, <1>5
<1>8. l = r
  BY <1>4, <1>5, <1>6, <1>7, SeqEqual
<1> QED
  BY <1>8 DEF l, r

(* Two members at the end are one and then the other.                       *)
LEMMA PairAtEnd ==
  ASSUME NEW S, NEW s \in Seq(S), NEW x \in S, NEW y \in S
  PROVE  s \o <<x, y>> = Append(Append(s, x), y)
<1>1. <<x>> \in Seq(S) /\ <<>> \in Seq(S)
  OBVIOUS
<1>2. <<x, y>> = Append(<<x>>, y)
  OBVIOUS
<1>3. <<x>> = Append(<<>>, x)
  OBVIOUS
<1>4. s \o Append(<<x>>, y) = Append(s \o <<x>>, y)
  BY <1>1, EndOfBoth
<1>5. s \o Append(<<>>, x) = Append(s \o <<>>, x)
  BY <1>1, EndOfBoth
<1>6. s \o <<>> = s
  BY ConcatEmptySeq
<1> QED
  BY <1>2, <1>3, <1>4, <1>5, <1>6

(* A video packet adds its payload, and nothing else that counts as one.    *)
LEMMA JoinedAdds ==
  ASSUME NEW s \in Seq(Parts), NEW b \in Seq(Parts), NEW p \in Packets, p.kind # "audio"
  PROVE  /\ Joined(b, p) \in Seq(Parts) /\ Payload(p) \in Parts
         /\ Payloads(s \o Joined(b, p)) = Append(Payloads(s \o b), Payload(p))
<1> DEFINE E == SetsMark  U == UnitMark(p)  P == Payload(p)
<1>1. /\ p.kind \in Kinds /\ p.frame \in 0..MaxFrames /\ 0 \in 0..MaxFrames
      /\ p.kind # "unit" /\ p.kind # "E"
  BY RtspAssumption DEF Packets, Kinds
<1>2. E \in Parts /\ U \in Parts /\ P \in Parts
  BY <1>1 DEF Parts, SetsMark, UnitMark, Payload
<1>3. ~IsPayload(E) /\ ~IsPayload(U) /\ IsPayload(P)
  BY <1>1 DEF IsPayload, SetsMark, UnitMark, Payload
<1> HIDE DEF E, U, P
<1>4. ASSUME NEW c \in Seq(Parts), NEW x \in Parts
      PROVE  /\ Append(c, x) \in Seq(Parts)
             /\ Payloads(s \o Append(c, x)) =
                  IF IsPayload(x) THEN Append(Payloads(s \o c), x) ELSE Payloads(s \o c)
  <2>1. s \o c \in Seq(Parts)
    BY <1>4, ConcatProperties
  <2>2. s \o Append(c, x) = Append(s \o c, x)
    BY <1>4, EndOfBoth
  <2> QED
    BY <1>4, <2>1, <2>2, AppendProperties, PayloadsAppend
<1>5. ASSUME NEW c \in Seq(Parts), Payloads(s \o c) = Payloads(s \o b), Joined(b, p) = c \o <<U, P>>
      PROVE  /\ Joined(b, p) \in Seq(Parts)
             /\ Payloads(s \o Joined(b, p)) = Append(Payloads(s \o b), P)
  <2>1. Joined(b, p) = Append(Append(c, U), P)
    BY <1>2, <1>5, PairAtEnd
  <2>2. Append(c, U) \in Seq(Parts) /\ Payloads(s \o Append(c, U)) = Payloads(s \o b)
    BY <1>2, <1>3, <1>4, <1>5
  <2> QED
    BY <1>2, <1>3, <1>4, <2>1, <2>2
<1>6. Payloads(s \o Append(b, E)) = Payloads(s \o b) /\ Append(b, E) \in Seq(Parts)
  BY <1>2, <1>3, <1>4
<1>7. CASE ~Fragment(p)
  <2>1. Joined(b, p) = b \o <<U, P>>
    <3>1. ~Starts(p)
      BY <1>7 DEF Fragment, Starts
    <3> QED
      BY <1>7, <3>1 DEF Joined, U, P
  <2> QED
    BY <1>2, <1>5, <2>1 DEF P
<1>8. CASE Fragment(p) /\ Starts(p) /\ p.kind = "keyStart" /\ b = <<>>
  <2>1. b \o <<E>> = Append(b, E)
    BY <1>2, <1>8
  <2>2. Joined(b, p) = (b \o <<E>>) \o <<U, P>>
    BY <1>8 DEF Joined, E, U, P
  <2> QED
    BY <1>2, <1>5, <1>6, <2>1, <2>2 DEF P
<1>9. CASE Fragment(p) /\ Starts(p) /\ ~(p.kind = "keyStart" /\ b = <<>>)
  <2>1. b \o <<>> = b
    BY ConcatEmptySeq
  <2>2. Joined(b, p) = (b \o <<>>) \o <<U, P>>
    BY <1>9 DEF Joined, U, P
  <2> QED
    BY <1>2, <1>5, <2>1, <2>2 DEF P
<1>10. CASE Fragment(p) /\ ~Starts(p)
  <2>1. Joined(b, p) = Append(b, P)
    BY <1>10 DEF Joined, P
  <2> QED
    BY <1>2, <1>3, <1>4, <2>1 DEF P
<1> QED
  BY <1>2, <1>7, <1>8, <1>9, <1>10 DEF P

-----------------------------------------------------------------------------
(* Types                                                                    *)

(* A reply is one of Replies.                                               *)
LEMMA ReplyType ==
  ASSUME NEW a \in {"ok", "challenge", "refused"}, NEW s \in BOOLEAN, NEW v \in BOOLEAN,
         NEW u \in BOOLEAN
  PROVE  Reply(a, s, v, u) \in Replies \cup Packets
BY DEF Reply, Replies

(* A command is one of CommandsSent, and so up keeps its type.              *)
LEMMA CommandType ==
  ASSUME TypeOK, NEW c \in Commands
  PROVE  /\ Command(c, client.auth, client.session) \in CommandsSent
         /\ Append(up, Command(c, client.auth, client.session)) \in Seq(CommandsSent)
<1>1. Command(c, client.auth, client.session) \in CommandsSent
  BY DEF Command, CommandsSent, TypeOK, ClientStates
<1> QED
  BY <1>1, AppendProperties DEF TypeOK

(* What doRtspParse makes of the client's state is a state of the client.   *)
LEMMA ParsedType ==
  ASSUME NEW c \in ClientStates, NEW r, r.session \in BOOLEAN, r.audio \in BOOLEAN,
         c.at = "reading"
  PROVE  /\ Parsed(c, r) \in ClientStates
         /\ Parsed(c, r).at = "handling" =>
              /\ Parsed(c, r).say.cmd \in Commands
              /\ Parsed(c, r).say.then \in Commands \cup {"SETAUDIO"}
<1> DEFINE Good(d) == /\ d \in ClientStates
                      /\ d.at = "handling" => d.say.cmd \in Commands
                                              /\ d.say.then \in Commands \cup {"SETAUDIO"}
<1>1. ASSUME NEW d \in ClientStates, NEW x \in Commands, NEW y \in Commands \cup {"SETAUDIO"}
      PROVE  Good(SayNext(d, x, y))
  BY <1>1 DEF SayNext, ClientStates
<1>2. ASSUME NEW x \in Ended PROVE Good([c EXCEPT !.at = x])
  BY <1>2 DEF ClientStates, Ended
<1>3. Good(c)
  OBVIOUS
<1>4. /\ {"OPTIONS", "DESCRIBE", "SETUP", "PLAY"} \subseteq Commands
      /\ "thrown" \in Ended /\ "undefined" \in Ended
  BY DEF Commands, Ended
<1>5. SetAuth(c) \in ClientStates /\ c.cmd \in Commands \cup {"SETAUDIO"}
  BY DEF SetAuth, ClientStates
<1>6. /\ [c EXCEPT !.offered = r.audio] \in ClientStates
      /\ [c EXCEPT !.session = @ \/ r.session] \in ClientStates
      /\ [[c EXCEPT !.session = @ \/ r.session] EXCEPT !.audio = "set"] \in ClientStates
  BY DEF ClientStates
<1> HIDE DEF Good
<1>7. c.cmd \in Commands => Good(Challenged(c))
  BY <1>1, <1>2, <1>4, <1>5 DEF Challenged
<1>8. Good(Described(c, r))
  BY <1>1, <1>2, <1>4, <1>6 DEF Described
<1>9. Good(SetUp(c, r))
  BY <1>1, <1>4, <1>6 DEF SetUp
<1>10. Good(Parsed(c, r))
  BY <1>1, <1>3, <1>4, <1>5, <1>7, <1>8, <1>9 DEF Parsed
<1> QED
  BY <1>10 DEF Good

(* The sequence of one member.                                              *)
LEMMA OneMember ==
  ASSUME NEW S, NEW x \in S
  PROVE  <<x>> \in Seq(S)
OBVIOUS

(* The type at the beginning, and after each step.                          *)
LEMMA InitType == Init => TypeOK
<1> SUFFICES ASSUME Init PROVE TypeOK
  OBVIOUS
<1>1. server \in ServerStates
  <2>1. <<>> \in Seq(Kinds) /\ 0 \in 0..MaxFrames /\ 0 \in 0..MaxAudio /\ 0 \in 0..MaxLost
    BY RtspAssumption
  <2> QED
    BY <2>1 DEF Init, ServerStates
<1>2. client \in ClientStates /\ client.at # "handling"
  <2>1. client \in [at : {"reading"}, cmd : {"OPTIONS"}, session : {FALSE}, auth : {FALSE},
                    audio : {"no", "want"}, offered : {FALSE}, say : {Nothing}]
    BY DEF Init
  <2>2. Nothing \in [cmd : Commands \cup {None}, then : Commands \cup {"SETAUDIO", None}]
    BY DEF Nothing
  <2>3. "OPTIONS" \in Commands
    BY DEF Commands
  <2> QED
    BY <2>1, <2>2, <2>3 DEF ClientStates
<1>3. up \in Seq(CommandsSent)
  <2>1. Command("OPTIONS", FALSE, FALSE) \in CommandsSent
    BY DEF Command, CommandsSent, Commands
  <2> DEFINE c == Command("OPTIONS", FALSE, FALSE)
  <2>2. up = <<c>>
    BY DEF Init
  <2> HIDE DEF c
  <2>3. <<c>> \in Seq(CommandsSent)
    BY <2>1, OneMember DEF c
  <2> QED
    BY <2>2, <2>3
<1>4. said \in Seq(Commands)
  BY DEF Init, Commands
<1>5. down \in Seq(Replies \cup Packets) /\ dbuf \in Seq(Parts) /\ frames \in Seq(Seq(Parts))
      /\ heard \in Seq(Packets)
  BY DEF Init
<1>6. alive \in 0..MaxAlive /\ slow \in BOOLEAN
  <2>1. alive = 0 /\ slow = FALSE
    BY DEF Init
  <2>2. 0 \in 0..MaxAlive /\ FALSE \in BOOLEAN
    BY RtspAssumption
  <2> QED
    BY <2>1, <2>2, Zenon
<1> QED
  BY <1>1, <1>2, <1>3, <1>4, <1>5, <1>6 DEF TypeOK

LEMMA TypeStep == TypeOK /\ [Next]_vars => TypeOK'
<1> SUFFICES ASSUME TypeOK, [Next]_vars PROVE TypeOK'
  OBVIOUS
<1>1. /\ server \in ServerStates /\ client \in ClientStates
      /\ client.at = "handling" =>
           client.say.cmd \in Commands /\ client.say.then \in Commands \cup {"SETAUDIO"}
      /\ up \in Seq(CommandsSent) /\ down \in Seq(Replies \cup Packets)
      /\ dbuf \in Seq(Parts) /\ frames \in Seq(Seq(Parts)) /\ heard \in Seq(Packets)
      /\ said \in Seq(Commands) /\ alive \in 0..MaxAlive /\ slow \in BOOLEAN
  BY DEF TypeOK
<1>2. /\ client.at = "handling" => client.say.cmd \in Commands
                                  /\ client.say.then \in Commands \cup {"SETAUDIO"}
      /\ client.cmd \in Commands \cup {"SETAUDIO"} /\ client.session \in BOOLEAN
      /\ client.auth \in BOOLEAN /\ client.audio \in {"no", "want", "set"}
  BY <1>1 DEF ClientStates
<1>3. {"OPTIONS", "DESCRIBE", "SETUP", "PLAY", "GET_PARAMETER", "TEARDOWN"} = Commands
  BY DEF Commands
<1>4. ASSUME NEW a \in {"ok", "challenge", "refused"}, NEW s \in BOOLEAN, NEW v \in BOOLEAN,
             NEW u \in BOOLEAN
      PROVE  Append(down, Reply(a, s, v, u)) \in Seq(Replies \cup Packets)
  BY <1>1, <1>4, ReplyType, AppendProperties
<1>5. CASE ServerReplies
  <2>1. up # <<>> /\ up' = Tail(up)
    BY <1>5 DEF ServerReplies
  <2>2. up' \in Seq(CommandsSent) /\ Head(up) \in CommandsSent
    BY <1>1, <2>1, HeadTailProperties
  <2>3. server' \in ServerStates
    <3> DEFINE c == Head(up)
               s == [server EXCEPT !.session = @ \/ c.cmd = "SETUP",
                       !.state = CASE c.cmd = "PLAY" /\ c.session -> "playing"
                                   [] c.cmd = "TEARDOWN" -> "gone" [] OTHER -> @]
    <3>1. server' = server \/ server' = s
      BY <1>5 DEF ServerReplies
    <3>2. s \in ServerStates
      BY <1>1, <2>2 DEF ServerStates, CommandsSent
    <3> QED
      BY <1>1, <3>1, <3>2
  <2>4. down' \in Seq(Replies \cup Packets)
    <3>1. server.audio \in BOOLEAN
      BY <1>1 DEF ServerStates
    <3> DEFINE c == Head(up)
    <3>2. \/ down' = Append(down, Reply("challenge", FALSE, FALSE, FALSE))
          \/ down' = Append(down, Reply("ok", c.cmd = "SETUP", c.cmd = "DESCRIBE",
                                        c.cmd = "DESCRIBE" /\ server.audio))
          \/ down' = Append(down, Reply("refused", FALSE, FALSE, FALSE))
      BY <1>5 DEF ServerReplies
    <3> DEFINE p == (c.cmd = "SETUP")  q == (c.cmd = "DESCRIBE")
               r == (c.cmd = "DESCRIBE" /\ server.audio)
    <3>3. p \in BOOLEAN /\ q \in BOOLEAN /\ r \in BOOLEAN
      OBVIOUS
    <3>4. Append(down, Reply("ok", p, q, r)) \in Seq(Replies \cup Packets)
      <4> HIDE DEF p, q, r
      <4> QED
        BY <1>4, <3>3
    <3> QED
      BY <1>4, <3>2, <3>4
  <2>5. slow' \in BOOLEAN
    BY <1>1, <1>5 DEF ServerReplies
  <2>6. UNCHANGED <<client, dbuf, frames, heard, said, alive>>
    BY <1>5 DEF ServerReplies
  <2> QED
    BY <1>1, <2>2, <2>3, <2>4, <2>5, <2>6 DEF TypeOK
<1>6. CASE ServerHangsUp
  <2>1. server' \in ServerStates
    BY <1>1, <1>6 DEF ServerHangsUp, ServerStates
  <2> QED
    BY <1>1, <1>6, <2>1 DEF ServerHangsUp, TypeOK
<1>7. CASE ServerSends
  <2>1. UNCHANGED <<client, up, dbuf, frames, heard, said, alive, slow>>
    BY <1>7 DEF ServerSends
  <2>2. /\ server.left \in Seq(Kinds) /\ server.frame \in 0..MaxFrames
        /\ server.sounds \in 0..MaxAudio /\ server.lost \in 0..MaxLost
    BY <1>1 DEF ServerStates
  <2>3. server' \in ServerStates /\ down' \in Seq(Replies \cup Packets)
    <3>1. CASE /\ server.frame < MaxFrames
               /\ \E shape \in Shapes : server' = [server EXCEPT !.left = shape, !.frame = @ + 1]
               /\ UNCHANGED down
      <4>1. PICK shape \in Shapes : server' = [server EXCEPT !.left = shape, !.frame = @ + 1]
        BY <3>1
      <4>2. shape \in Seq(Kinds) /\ server.frame + 1 \in 0..MaxFrames
        BY <2>2, <3>1, RtspAssumption
      <4>3. server' \in ServerStates
        BY <1>1, <4>1, <4>2 DEF ServerStates
      <4> QED
        BY <1>1, <3>1, <4>3
    <3>2. CASE /\ server.left # <<>>
               /\ \/ /\ down' = Append(down, Packet(Head(server.left), server.frame, Len(server.left) = 1))
                     /\ server' = [server EXCEPT !.left = Tail(@)]
                  \/ /\ server.lost < MaxLost /\ UNCHANGED down
                     /\ server' = [server EXCEPT !.left = Tail(@), !.lost = @ + 1]
      <4>1. Head(server.left) \in Kinds /\ Tail(server.left) \in Seq(Kinds)
        BY <2>2, <3>2, HeadTailProperties
      <4>2. Packet(Head(server.left), server.frame, Len(server.left) = 1) \in Packets
        BY <2>2, <4>1 DEF Packet, Packets
      <4>3. server.lost < MaxLost => server.lost + 1 \in 0..MaxLost
        BY <2>2, RtspAssumption
      <4>4. /\ [server EXCEPT !.left = Tail(@)] \in ServerStates
            /\ server.lost < MaxLost => [server EXCEPT !.left = Tail(@), !.lost = @ + 1] \in ServerStates
        BY <1>1, <4>1, <4>3 DEF ServerStates
      <4>5. Append(down, Packet(Head(server.left), server.frame, Len(server.left) = 1))
              \in Seq(Replies \cup Packets)
        BY <1>1, <4>2, AppendProperties
      <4> QED
        BY <1>1, <3>2, <4>4, <4>5
    <3>3. CASE /\ server.sounds < MaxAudio
               /\ server' = [server EXCEPT !.sounds = @ + 1]
               /\ down' = Append(down, Packet("audio", 0, TRUE))
      <4>1. Packet("audio", 0, TRUE) \in Packets /\ server.sounds + 1 \in 0..MaxAudio
        BY <2>2, <3>3, RtspAssumption DEF Packet, Packets
      <4>2. server' \in ServerStates
        BY <1>1, <3>3, <4>1 DEF ServerStates
      <4>3. down' \in Seq(Replies \cup Packets)
        BY <1>1, <3>3, <4>1, AppendProperties
      <4> QED
        BY <4>2, <4>3
    <3> QED
      BY <1>7, <3>1, <3>2, <3>3 DEF ServerSends
  <2>4. /\ client' = client /\ up' = up /\ dbuf' = dbuf /\ frames' = frames /\ heard' = heard
        /\ said' = said /\ alive' = alive /\ slow' = slow
    BY <2>1
  <2> QED
    BY <1>1, <2>3, <2>4 DEF TypeOK
<1>8. CASE HandleReply
  <2>1. /\ client.at = "reading" /\ down # <<>> /\ Head(down).kind = "reply"
        /\ client' = Parsed(client, Head(down)) /\ down' = Tail(down)
        /\ UNCHANGED <<server, up, dbuf, frames, heard, said, alive, slow>>
    BY <1>8 DEF HandleReply
  <2>2. Head(down) \in Replies \cup Packets /\ down' \in Seq(Replies \cup Packets)
    BY <1>1, <2>1, HeadTailProperties
  <2>3. Head(down).session \in BOOLEAN /\ Head(down).audio \in BOOLEAN
    BY <2>1, <2>2 DEF Replies, Packets, Kinds
  <2>4. /\ client' \in ClientStates
        /\ client'.at = "handling" =>
             client'.say.cmd \in Commands /\ client'.say.then \in Commands \cup {"SETAUDIO"}
    <3> DEFINE head == Head(down)  parsed == Parsed(client, head)
    <3>1. client \in ClientStates /\ client.at = "reading" /\ head.session \in BOOLEAN /\ head.audio \in BOOLEAN
      BY <1>1, <2>1, <2>3
    <3>2. client' = parsed
      BY <2>1
    <3> HIDE DEF head
    <3>3. /\ parsed \in ClientStates
          /\ parsed.at = "handling" =>
               parsed.say.cmd \in Commands /\ parsed.say.then \in Commands \cup {"SETAUDIO"}
      BY <3>1, ParsedType
    <3> HIDE DEF parsed
    <3> QED
      BY <3>2, <3>3
  <2> QED
    BY <1>1, <2>1, <2>2, <2>4 DEF TypeOK
<1>9. CASE SayCommand
  <2>1. /\ client.at = "handling"
        /\ client' = [client EXCEPT !.at = "reading", !.cmd = client.say.then, !.say = Nothing]
        /\ up' = Append(up, Command(client.say.cmd, client.auth, client.session))
        /\ said' = Append(said, client.say.cmd)
        /\ UNCHANGED <<server, down, dbuf, frames, heard, alive, slow>>
    BY <1>9 DEF SayCommand
  <2>2. Nothing \in [cmd : Commands \cup {None}, then : Commands \cup {"SETAUDIO", None}]
    BY DEF Nothing
  <2>3. client' \in ClientStates /\ client'.at # "handling"
    BY <1>1, <1>2, <2>1, <2>2 DEF ClientStates
  <2>4. up' \in Seq(CommandsSent) /\ said' \in Seq(Commands)
    BY <1>1, <1>2, <2>1, CommandType, AppendProperties
  <2> QED
    BY <1>1, <2>1, <2>3, <2>4 DEF TypeOK
<1>10. CASE Stop
  <2>1. /\ client' = [client EXCEPT !.cmd = "TEARDOWN"]
        /\ up' = Append(up, Command("TEARDOWN", client.auth, client.session))
        /\ said' = Append(said, "TEARDOWN")
        /\ UNCHANGED <<server, down, dbuf, frames, heard, alive, slow>>
    BY <1>10 DEF Stop
  <2>2. client' \in ClientStates /\ client'.at = client.at /\ client'.say = client.say
    BY <1>1, <1>3, <2>1 DEF ClientStates
  <2>3. up' \in Seq(CommandsSent) /\ said' \in Seq(Commands)
    BY <1>1, <1>3, <2>1, CommandType, AppendProperties
  <2> QED
    BY <1>1, <2>1, <2>2, <2>3 DEF TypeOK
<1>11. CASE ReadThrows
  <2>1. /\ client' = [client EXCEPT !.at = "thrown"] /\ slow' \in BOOLEAN
        /\ UNCHANGED <<server, up, down, dbuf, frames, heard, said, alive>>
    BY <1>11 DEF ReadThrows
  <2>2. client' \in ClientStates /\ client'.at # "handling"
    BY <1>1, <2>1 DEF ClientStates, Ended
  <2> QED
    BY <1>1, <2>1, <2>2 DEF TypeOK
<1>12. CASE HandlePacket
  <2> DEFINE p == Head(down)
             b == Joined(dbuf, p)
             full == p.kind # "audio" /\ Complete(p, server.hevc)
  <2>1. /\ client.at = "reading" /\ down # <<>> /\ p.kind # "reply"
        /\ dbuf' = IF p.kind = "audio" THEN dbuf ELSE IF full THEN <<>> ELSE b
        /\ heard' = IF p.kind = "audio" THEN heard ELSE Append(heard, p)
        /\ frames' = IF full THEN Append(frames, b) ELSE frames
        /\ down' = Tail(down) /\ UNCHANGED <<server, said, slow>>
    BY <1>12 DEF HandlePacket, AfterFrame
  <2>2. \/ client' = [client EXCEPT !.at = "returned"] /\ UNCHANGED <<up, alive>>
        \/ UNCHANGED <<client, up, alive>>
        \/ /\ alive < MaxAlive /\ alive' = alive + 1
           /\ client' = [client EXCEPT !.cmd = "GET_PARAMETER"]
           /\ up' = Append(up, Command("GET_PARAMETER", client.auth, client.session))
    BY <1>12 DEF HandlePacket
  <2>3. p \in Replies \cup Packets /\ down' \in Seq(Replies \cup Packets)
    BY <1>1, <2>1, HeadTailProperties
  <2>4. p \in Packets
    BY <2>1, <2>3 DEF Replies
  <2>5. /\ [client EXCEPT !.at = "returned"] \in ClientStates
        /\ [client EXCEPT !.at = "returned"].at # "handling"
        /\ [client EXCEPT !.cmd = "GET_PARAMETER"] \in ClientStates
        /\ [client EXCEPT !.cmd = "GET_PARAMETER"].at = "reading"
    BY <1>1, <1>3, <2>1 DEF ClientStates, Ended
  <2>6. client' \in ClientStates /\ client'.at # "handling"
    BY <1>1, <2>1, <2>2, <2>5
  <2>7. up' \in Seq(CommandsSent)
    BY <1>1, <1>3, <2>2, CommandType
  <2>8. alive' \in 0..MaxAlive
    BY <1>1, <2>2, RtspAssumption
  <2>9. ASSUME p.kind # "audio"
        PROVE  b \in Seq(Parts) /\ Payload(p) \in Parts
    BY <1>1, <2>4, <2>9, JoinedAdds
  <2> HIDE DEF p, b
  <2>10. dbuf' \in Seq(Parts) /\ heard' \in Seq(Packets) /\ frames' \in Seq(Seq(Parts))
    <3>1. <<>> \in Seq(Parts)
      OBVIOUS
    <3>2. CASE p.kind = "audio"
      BY <1>1, <2>1, <3>2
    <3>3. CASE p.kind # "audio"
      <4>1. Append(heard, p) \in Seq(Packets) /\ Append(frames, b) \in Seq(Seq(Parts))
        BY <1>1, <2>4, <2>9, <3>3, AppendProperties
      <4> QED
        BY <1>1, <2>1, <2>9, <3>1, <3>3, <4>1
    <3> QED
      BY <3>2, <3>3
  <2> QED
    BY <1>1, <2>1, <2>3, <2>6, <2>7, <2>8, <2>10 DEF TypeOK
<1>13. CASE UNCHANGED vars
  BY <1>1, <1>13 DEF vars, TypeOK
<1> QED
  BY <1>5, <1>6, <1>7, <1>8, <1>9, <1>10, <1>11, <1>12, <1>13 DEF Next, Server, Client

-----------------------------------------------------------------------------
(* Media                                                                    *)

(* What the user was given, as one sequence.                                *)
Given(f) == IF f = <<>> THEN <<>> ELSE FlattenSeq(f)

(* The user's frames, and what is in dbuf_ behind them.                     *)
LEMMA GivenThen ==
  ASSUME NEW f \in Seq(Seq(Parts)), NEW d \in Seq(Parts)
  PROVE  Given(f) \in Seq(Parts) /\ FlattenSeq(Append(f, d)) = Given(f) \o d
<1>1. CASE f = <<>>
  <2>1. <<>> \o d = d
    BY ConcatEmptySeq
  <2>2. FlattenSeq(Append(f, d)) = d
    BY <1>1, FlattenAppend
  <2>3. Given(f) = <<>> /\ <<>> \in Seq(Parts)
    BY <1>1 DEF Given
  <2> QED
    BY <2>1, <2>2, <2>3
<1>2. CASE f # <<>>
  <2>1. Len(f) \in 1..Len(f)
    BY <1>2, LenProperties, EmptySeq
  <2>2. FlattenSeq(f) \in Seq(Parts)
    BY <1>2, <2>1, FlattenJoins
  <2> QED
    BY <1>2, <2>2, FlattenAppend DEF Given
<1> QED
  BY <1>1, <1>2

(* Nothing has come and nothing was given.                                  *)
LEMMA MediaInit == Init => PacketsConserved
<1> SUFFICES ASSUME Init PROVE PacketsConserved
  OBVIOUS
<1>1. frames = <<>> /\ dbuf = <<>> /\ heard = <<>>
  BY DEF Init
<1>2. <<>> \in Seq(Parts) /\ <<>> \in Seq(Seq(Parts)) /\ Len(<<>>) = 0
  OBVIOUS
<1>3. FlattenSeq(Append(<<>>, <<>>)) = <<>>
  BY <1>2, FlattenAppend
<1>4. Payloads(<<>>) = <<>>
  BY <1>2, PayloadsSift, SiftsAt
<1> QED
  BY <1>1, <1>3, <1>4 DEF PacketsConserved

(* The payloads of what came, with one more packet.                         *)
LEMMA HeardMore ==
  ASSUME NEW h \in Seq(Packets), NEW p \in Packets
  PROVE  [i \in DOMAIN Append(h, p) |-> Payload(Append(h, p)[i])]
           = Append([i \in DOMAIN h |-> Payload(h[i])], Payload(p))
<1> DEFINE a == Append(h, p)  g == [i \in DOMAIN h |-> Payload(h[i])]
<1>1. /\ Len(h) \in Nat /\ DOMAIN h = 1..Len(h) /\ DOMAIN a = 1..(Len(h) + 1)
      /\ \A i \in 1..Len(h) : a[i] = h[i]
      /\ a[Len(h) + 1] = p
  BY AppendProperties, LenProperties
<1> HIDE DEF a
<1>2. g \in Seq({Payload(h[i]) : i \in 1..Len(h)} \cup {Payload(p)}) /\ Len(g) = Len(h)
  BY <1>1
<1> HIDE DEF g
<1>3. DOMAIN Append(g, Payload(p)) = 1..(Len(h) + 1)
      /\ \A i \in 1..Len(h) : Append(g, Payload(p))[i] = g[i]
      /\ Append(g, Payload(p))[Len(h) + 1] = Payload(p)
  BY <1>1, <1>2, AppendProperties, LenProperties
<1>4. \A i \in 1..(Len(h) + 1) : Payload(a[i]) = Append(g, Payload(p))[i]
  <2>1. \A i \in 1..Len(h) : g[i] = Payload(h[i])
    BY <1>1 DEF g
  <2> QED
    BY <1>1, <1>3, <2>1
<1> QED
  BY <1>1, <1>3, <1>4 DEF a, g

(* Only a packet changes frames, dbuf and heard, and it adds to the one     *)
(* side what it adds to the other.                                          *)
LEMMA MediaStep == TypeOK /\ PacketsConserved /\ [Next]_vars => PacketsConserved'
<1> SUFFICES ASSUME TypeOK, PacketsConserved, [Next]_vars PROVE PacketsConserved'
  OBVIOUS
<1>1. CASE UNCHANGED <<frames, dbuf, heard>>
  BY <1>1 DEF PacketsConserved
<1>2. CASE HandlePacket
  <2> DEFINE p == Head(down)
             b == Joined(dbuf, p)
             full == p.kind # "audio" /\ Complete(p, server.hevc)
             s == Given(frames)
  <2>1. /\ down # <<>> /\ p.kind # "reply"
        /\ dbuf' = IF p.kind = "audio" THEN dbuf ELSE IF full THEN <<>> ELSE b
        /\ heard' = IF p.kind = "audio" THEN heard ELSE Append(heard, p)
        /\ frames' = IF full THEN Append(frames, b) ELSE frames
    BY <1>2 DEF HandlePacket, AfterFrame
  <2>2. CASE p.kind = "audio"
    BY <1>1, <2>1, <2>2
  <2>3. CASE p.kind # "audio"
    <3>1. /\ dbuf \in Seq(Parts) /\ frames \in Seq(Seq(Parts))
          /\ s \in Seq(Parts)
          /\ down \in Seq(Replies \cup Packets)
      BY GivenThen DEF TypeOK
    <3>2. p \in Packets
      <4>1. p \in Replies \cup Packets
        BY <2>1, <3>1, HeadTailProperties
      <4> QED
        BY <2>1, <4>1 DEF Replies
    <3>3. /\ b \in Seq(Parts)
          /\ Payloads(s \o b) = Append(Payloads(s \o dbuf), Payload(p))
      BY <2>3, <3>1, <3>2, JoinedAdds
    <3>4. Payloads(s \o dbuf) = [i \in DOMAIN heard |-> Payload(heard[i])]
      BY <3>1, GivenThen DEF PacketsConserved
    <3>8. Payloads(s \o b) = [i \in DOMAIN heard' |-> Payload(heard'[i])]
      BY <2>1, <2>3, <3>2, <3>3, <3>4, HeardMore DEF TypeOK
    <3>5. FlattenSeq(Append(frames, b)) = s \o b
      BY <3>1, <3>3, GivenThen
    <3> HIDE DEF b, p, s
    <3>6. CASE ~full
      BY <2>1, <2>3, <3>5, <3>6, <3>8 DEF PacketsConserved
    <3>7. CASE full
      <4> DEFINE f == Append(frames, b)
      <4>1. f \in Seq(Seq(Parts)) /\ f # <<>> /\ <<>> \in Seq(Parts)
        BY <3>1, <3>3, AppendProperties
      <4> HIDE DEF f
      <4>2. FlattenSeq(Append(f, <<>>)) = Given(f) \o <<>> /\ Given(f) \in Seq(Parts)
        BY <4>1, GivenThen
      <4>3. Given(f) \o <<>> = Given(f)
        BY <4>2, ConcatEmptySeq
      <4>4. Given(f) = s \o b
        BY <3>5, <4>1 DEF Given, f
      <4>5. frames' = f /\ dbuf' = <<>> /\ heard' = Append(heard, p)
        BY <2>1, <2>3, <3>7 DEF f
      <4> QED
        BY <3>8, <4>2, <4>3, <4>4, <4>5 DEF PacketsConserved
    <3> QED
      BY <3>6, <3>7
  <2> QED
    BY <2>2, <2>3
<1>3. CASE Server \/ HandleReply \/ SayCommand \/ ReadThrows \/ Stop
  BY <1>1, <1>3 DEF Server, ServerReplies, ServerHangsUp, ServerSends, HandleReply, SayCommand,
                    ReadThrows, Stop
<1>4. CASE UNCHANGED vars
  BY <1>1, <1>4 DEF vars
<1> QED
  BY <1>2, <1>3, <1>4 DEF Next, Client

-----------------------------------------------------------------------------
(* Where one frame ends and the next begins                                 *)

(* The frames of which a packet may still come: n is the frame the server   *)
(* is sending, more whether some of it is left.                             *)
Video(x) == x.kind \notin {"reply", "audio"}
Comes(f, n, more, d) ==
  \/ \E i \in DOMAIN d : Video(d[i]) /\ f = d[i].frame
  \/ f = n + 1 \/ (f = n /\ more)

(* The packets under way come frame by frame, the marked one last.          *)
InLine(n, more, d) ==
  /\ \A i, j \in DOMAIN d :
       i < j /\ Video(d[i]) /\ Video(d[j]) =>
         d[i].frame <= d[j].frame /\ (d[i].marker => d[i].frame < d[j].frame)
  /\ \A i \in DOMAIN d :
       Video(d[i]) => d[i].frame <= n /\ (d[i].marker => d[i].frame < n \/ ~more)

(* What comes after a step comes from a frame that was to come before it.   *)
Later(n, more, d, m, less, e) ==
  /\ InLine(m, less, e)
  /\ \A f \in Nat : Comes(f, m, less, e) => \E g \in Nat : g <= f /\ Comes(g, n, more, d)

Arriving == Replies \cup Packets

LEMMA PacketFields ==
  ASSUME NEW x \in Arriving, Video(x)
  PROVE  x \in Packets /\ x.frame \in Nat /\ x.marker \in BOOLEAN /\ x.kind \in Kinds
BY RtspAssumption DEF Arriving, Video, Replies, Packets

LEMMA MoreUnderWay ==
  ASSUME NEW d \in Seq(Arriving), NEW x \in Arriving, NEW n \in Nat, NEW more \in BOOLEAN,
         NEW less \in BOOLEAN, InLine(n, more, d),
         Video(x) => x.frame = n /\ more /\ (x.marker => ~less),
         less => more
  PROVE  Later(n, more, d, n, less, Append(d, x))
<1> DEFINE e == Append(d, x)
<1>1. /\ Len(d) \in Nat /\ DOMAIN d = 1..Len(d) /\ DOMAIN e = 1..(Len(d) + 1)
      /\ \A i \in 1..Len(d) : e[i] = d[i] /\ d[i] \in Arriving
      /\ e[Len(d) + 1] = x
  BY AppendProperties, LenProperties, ElementOfSeq
<1> HIDE DEF e
<1>2. \A i \in DOMAIN d : Video(d[i]) => d[i].frame \in Nat /\ d[i].marker \in BOOLEAN
  BY <1>1, PacketFields
<1>3. ASSUME NEW i \in DOMAIN e, NEW j \in DOMAIN e, i < j, Video(e[i]), Video(e[j])
      PROVE  e[i].frame <= e[j].frame /\ (e[i].marker => e[i].frame < e[j].frame)
  <2>1. i \in DOMAIN d /\ e[i] = d[i]
    BY <1>1, <1>3
  <2>2. CASE j \in DOMAIN d
    BY <1>1, <1>3, <2>1, <2>2 DEF InLine
  <2>3. CASE j = Len(d) + 1
    BY <1>1, <1>3, <2>1, <2>3 DEF InLine
  <2> QED
    BY <1>1, <2>2, <2>3
<1>4. ASSUME NEW i \in DOMAIN e, Video(e[i])
      PROVE  e[i].frame <= n /\ (e[i].marker => e[i].frame < n \/ ~less)
  <2>1. CASE i \in DOMAIN d
    BY <1>1, <1>4, <2>1 DEF InLine
  <2>2. CASE i = Len(d) + 1
    BY <1>1, <1>4, <2>2
  <2> QED
    BY <1>1, <2>1, <2>2
<1>5. InLine(n, less, e)
  BY <1>3, <1>4 DEF InLine
<1>6. ASSUME NEW f \in Nat, Comes(f, n, less, e)
      PROVE  Comes(f, n, more, d)
  <2>1. CASE \E i \in DOMAIN e : Video(e[i]) /\ f = e[i].frame
    <3>1. PICK i \in DOMAIN e : Video(e[i]) /\ f = e[i].frame
      BY <2>1
    <3>2. CASE i \in DOMAIN d
      BY <1>1, <3>1, <3>2 DEF Comes
    <3>3. CASE i = Len(d) + 1
      BY <1>1, <3>1, <3>3 DEF Comes
    <3> QED
      BY <1>1, <3>2, <3>3
  <2> QED
    BY <1>6, <2>1 DEF Comes
<1> QED
  BY <1>5, <1>6 DEF Later, e

LEMMA LessUnderWay ==
  ASSUME NEW d \in Seq(Arriving), d # <<>>, NEW n \in Nat, NEW more \in BOOLEAN,
         InLine(n, more, d)
  PROVE  /\ Later(n, more, d, n, more, Tail(d))
         /\ \A f \in Nat : Comes(f, n, more, Tail(d)) => Comes(f, n, more, d)
         /\ Video(Head(d)) =>
              /\ Comes(Head(d).frame, n, more, d)
              /\ \A f \in Nat : Comes(f, n, more, Tail(d)) =>
                   Head(d).frame <= f /\ (Head(d).marker => Head(d).frame < f)
<1> DEFINE e == Tail(d)  h == Head(d)
<1>1. /\ Len(d) \in Nat /\ Len(d) > 0 /\ DOMAIN d = 1..Len(d) /\ DOMAIN e = 1..(Len(d) - 1)
      /\ \A i \in 1..(Len(d) - 1) : e[i] = d[i + 1]
      /\ h = d[1] /\ \A i \in 1..Len(d) : d[i] \in Arriving
  BY HeadTailProperties, LenProperties, EmptySeq, ElementOfSeq
<1> HIDE DEF e, h
<1>2. \A i \in DOMAIN d : Video(d[i]) => d[i].frame \in Nat /\ d[i].marker \in BOOLEAN
  BY <1>1, PacketFields
<1>3. \A i \in DOMAIN e : i + 1 \in DOMAIN d /\ 1 < i + 1 /\ e[i] = d[i + 1]
  BY <1>1
<1>4. 1 \in DOMAIN d
  BY <1>1
<1>5. InLine(n, more, e)
  <2>1. \A i, j \in DOMAIN e : i < j => i + 1 < j + 1
    BY <1>1
  <2> QED
    BY <1>3, <2>1 DEF InLine
<1>6. \A f \in Nat : Comes(f, n, more, e) => Comes(f, n, more, d)
  BY <1>3 DEF Comes
<1>7. ASSUME Video(h) PROVE Comes(h.frame, n, more, d)
  BY <1>1, <1>4, <1>7 DEF Comes
<1>8. ASSUME Video(h), NEW f \in Nat, Comes(f, n, more, e)
      PROVE  h.frame <= f /\ (h.marker => h.frame < f)
  <2>1. /\ h.frame \in Nat /\ h.frame <= n /\ (h.marker => h.frame < n \/ ~more)
        /\ h.marker \in BOOLEAN
    BY <1>1, <1>2, <1>4, <1>8 DEF InLine
  <2>2. CASE \E i \in DOMAIN e : Video(e[i]) /\ f = e[i].frame
    BY <1>1, <1>3, <1>4, <1>8, <2>2 DEF InLine
  <2>3. CASE f = n + 1 \/ (f = n /\ more)
    BY <2>1, <2>3
  <2> QED
    BY <1>8, <2>2, <2>3 DEF Comes
<1>9. \A f \in Nat : f <= f
  OBVIOUS
<1> QED
  BY <1>5, <1>6, <1>7, <1>8, <1>9 DEF Later, e, h

LEMMA NextFrame ==
  ASSUME NEW d \in Seq(Arriving), NEW n \in Nat, NEW less \in BOOLEAN, InLine(n, FALSE, d)
  PROVE  Later(n, FALSE, d, n + 1, less, d)
<1>1. \A i \in DOMAIN d : Video(d[i]) => d[i].frame \in Nat /\ d[i].marker \in BOOLEAN
  BY LenProperties, ElementOfSeq, PacketFields
<1>2. InLine(n + 1, less, d)
  BY <1>1 DEF InLine
<1>3. ASSUME NEW f \in Nat, Comes(f, n + 1, less, d)
      PROVE  \E g \in Nat : g <= f /\ Comes(g, n, FALSE, d)
  <2>1. CASE \E i \in DOMAIN d : Video(d[i]) /\ f = d[i].frame
    BY <2>1 DEF Comes
  <2>2. CASE f = n + 1 + 1 \/ f = n + 1
    <3>1. n + 1 \in Nat /\ n + 1 <= f /\ Comes(n + 1, n, FALSE, d)
      BY <2>2 DEF Comes
    <3> QED
      BY <3>1
  <2> QED
    BY <1>3, <2>1, <2>2 DEF Comes
<1> QED
  BY <1>2, <1>3 DEF Later

LEMMA PacketLost ==
  ASSUME NEW d \in Seq(Arriving), NEW n \in Nat, NEW more \in BOOLEAN, NEW less \in BOOLEAN,
         less => more, InLine(n, more, d)
  PROVE  Later(n, more, d, n, less, d)
<1>1. InLine(n, less, d)
  BY DEF InLine
<1>2. \A f \in Nat : Comes(f, n, less, d) => Comes(f, n, more, d)
  BY DEF Comes
<1>3. \A f \in Nat : f <= f
  OBVIOUS
<1> QED
  BY <1>1, <1>2, <1>3 DEF Later

(* The invariant.  What was given belongs to frames that are over, what is  *)
(* in dbuf to none whose end came, and such an end is behind everything     *)
(* that is still to come.                                                   *)
GivenOver(f, fs) == \A i \in DOMAIN fs : \A x \in ToSet(fs[i]) : x # SetsMark => x[2] < f
HeldOpen(f, d) == \A x \in ToSet(d) : x # SetsMark => x[2] <= f
OrderInv ==
  /\ InLine(server.frame, server.left # <<>>, down)
  /\ \A f \in Nat :
       Comes(f, server.frame, server.left # <<>>, down) =>
         /\ GivenOver(f, frames) /\ HeldOpen(f, dbuf)
         /\ \A g \in Nat : EndCame(g) => g < f
  /\ \A x \in ToSet(dbuf) : x # SetsMark => ~EndCame(x[2])

(* What OrderInv and FramesApart say of frames and dbuf, taken apart.       *)
Given1(fs) == \A i, j \in DOMAIN fs : i < j => Before(fs[i], fs[j])
Held1(fs, d) == \A i \in DOMAIN fs : Before(fs[i], d)

InParts(fs, d, all) ==
  /\ (\A i, j \in DOMAIN all : i < j => Before(all[i], all[j])) <=> Given1(fs) /\ Held1(fs, d)
  /\ DOMAIN all = DOMAIN fs \cup {Len(fs) + 1}
  /\ \A i \in DOMAIN fs : all[i] = fs[i] /\ fs[i] \in Seq(Parts)
  /\ all[Len(fs) + 1] = d

LEMMA AllFrames ==
  ASSUME NEW fs \in Seq(Seq(Parts)), NEW d \in Seq(Parts)
  PROVE  InParts(fs, d, Append(fs, d))
<1> DEFINE all == Append(fs, d)
<1>1. /\ Len(fs) \in Nat /\ DOMAIN fs = 1..Len(fs) /\ DOMAIN all = 1..(Len(fs) + 1)
      /\ \A i \in DOMAIN fs : all[i] = fs[i] /\ fs[i] \in Seq(Parts)
      /\ all[Len(fs) + 1] = d
  BY AppendProperties, LenProperties, ElementOfSeq
<1> HIDE DEF all
<1>2. DOMAIN all = DOMAIN fs \cup {Len(fs) + 1} /\ \A i \in DOMAIN fs : i < Len(fs) + 1 /\ i \in Nat
  BY <1>1
<1>3. ASSUME \A i, j \in DOMAIN all : i < j => Before(all[i], all[j])
      PROVE  Given1(fs) /\ Held1(fs, d)
  BY <1>1, <1>2, <1>3 DEF Given1, Held1
<1>4. ASSUME Given1(fs), Held1(fs, d), NEW i \in DOMAIN all, NEW j \in DOMAIN all, i < j
      PROVE  Before(all[i], all[j])
  <2>1. i \in DOMAIN fs /\ all[i] = fs[i]
    BY <1>1, <1>4
  <2>2. CASE j \in DOMAIN fs
    BY <1>1, <1>4, <2>1, <2>2 DEF Given1
  <2>3. CASE j = Len(fs) + 1
    BY <1>1, <1>4, <2>1, <2>3 DEF Held1
  <2> QED
    BY <1>2, <2>2, <2>3
<1> QED
  BY <1>1, <1>2, <1>3, <1>4 DEF InParts, all

LEMMA ApartIs ==
  TypeOK => /\ (FramesApart <=> /\ Given1(frames) /\ Held1(frames, dbuf)
                                /\ (\A i \in DOMAIN frames : Apart(frames[i])) /\ Apart(dbuf))
<1> SUFFICES ASSUME TypeOK
             PROVE  FramesApart <=> /\ Given1(frames) /\ Held1(frames, dbuf)
                                    /\ (\A i \in DOMAIN frames : Apart(frames[i])) /\ Apart(dbuf)
  OBVIOUS
<1> DEFINE all == Append(frames, dbuf)
<1>1. frames \in Seq(Seq(Parts)) /\ dbuf \in Seq(Parts)
  BY DEF TypeOK
<1>0. all = Append(frames, dbuf)
  OBVIOUS
<1>3. FramesApart <=> /\ \A i, j \in DOMAIN all : i < j => Before(all[i], all[j])
                      /\ \A i \in DOMAIN all : Apart(all[i])
  BY DEF FramesApart
<1> HIDE DEF all
<1>5. InParts(frames, dbuf, all)
  BY <1>0, <1>1, AllFrames
<1>2. /\ (\A i, j \in DOMAIN all : i < j => Before(all[i], all[j]))
           <=> Given1(frames) /\ Held1(frames, dbuf)
      /\ DOMAIN all = DOMAIN frames \cup {Len(frames) + 1}
      /\ \A i \in DOMAIN frames : all[i] = frames[i]
      /\ all[Len(frames) + 1] = dbuf
  BY <1>5 DEF InParts
<1>4. (\A i \in DOMAIN all : Apart(all[i]))
        <=> (\A i \in DOMAIN frames : Apart(frames[i])) /\ Apart(dbuf)
  BY <1>2
<1> QED
  BY <1>2, <1>3, <1>4

(* Nothing has come, and nothing is to come but frames.                     *)
LEMMA OrderInit == Init => OrderInv /\ FramesApart
<1> SUFFICES ASSUME Init PROVE OrderInv /\ FramesApart
  OBVIOUS
<1>1. /\ frames = <<>> /\ dbuf = <<>> /\ heard = <<>> /\ down = <<>>
      /\ server.frame = 0 /\ server.left = <<>>
  BY DEF Init
<1>2. DOMAIN frames = {} /\ ToSet(dbuf) = {} /\ DOMAIN heard = {} /\ DOMAIN down = {}
  BY <1>1 DEF ToSet
<1>3. OrderInv
  BY <1>2 DEF OrderInv, InLine, GivenOver, HeldOpen, EndCame
<1>4. Given1(frames) /\ Held1(frames, dbuf) /\ Apart(dbuf)
  BY <1>2 DEF Given1, Held1, Apart
<1> QED
  BY <1>2, <1>3, <1>4, InitType, ApartIs

LEMMA HeldNat == ASSUME NEW b \in Seq(Parts), NEW x \in ToSet(b) PROVE x[2] \in Nat
<1>1. x \in Parts
  BY LenProperties, ElementOfSeq DEF ToSet
<1> QED
  BY <1>1, RtspAssumption DEF Parts

LEMMA NoPacketTaken ==
  ASSUME OrderInv, FramesApart, UNCHANGED <<frames, dbuf, heard>>, server'.hevc = server.hevc,
         Later(server.frame, server.left # <<>>, down, server'.frame, server'.left # <<>>, down'),
         TypeOK
  PROVE  OrderInv' /\ FramesApart'
<1>1. \A f : EndCame(f)' <=> EndCame(f)
  BY DEF EndCame
<1>2. FramesApart'
  <2> DEFINE all == Append(frames, dbuf)
  <2>1. /\ \A i, j \in DOMAIN all : i < j => Before(all[i], all[j])
        /\ \A i \in DOMAIN all : Apart(all[i])
    BY DEF FramesApart
  <2>2. \A b : Apart(b) => Apart(b)'
    BY <1>1 DEF Apart
  <2>3. \A a, b : Before(a, b) => Before(a, b)'
    BY DEF Before
  <2>4. all' = all
    OBVIOUS
  <2> HIDE DEF all
  <2>5. /\ \A i, j \in DOMAIN all : i < j => Before(all[i], all[j])'
        /\ \A i \in DOMAIN all : Apart(all[i])'
    BY <2>1, <2>2, <2>3, <2>4
  <2> QED
    BY <2>4, <2>5 DEF FramesApart, all
<1>3. ASSUME NEW f \in Nat, Comes(f, server'.frame, server'.left # <<>>, down')
      PROVE  /\ GivenOver(f, frames') /\ HeldOpen(f, dbuf')
             /\ \A g \in Nat : EndCame(g)' => g < f
  <2>1. PICK e \in Nat : e <= f /\ Comes(e, server.frame, server.left # <<>>, down)
    BY <1>3 DEF Later
  <2>2. GivenOver(e, frames) /\ HeldOpen(e, dbuf) /\ \A g \in Nat : EndCame(g) => g < e
    BY <2>1 DEF OrderInv
  <2>3. dbuf \in Seq(Parts) /\ \A i \in DOMAIN frames : frames[i] \in Seq(Parts)
    BY AllFrames DEF TypeOK, InParts
  <2>5. GivenOver(f, frames')
    BY <2>1, <2>2, <2>3, HeldNat DEF GivenOver
  <2>6. HeldOpen(f, dbuf')
    BY <2>1, <2>2, <2>3, HeldNat DEF HeldOpen
  <2>7. \A g \in Nat : EndCame(g)' => g < f
    BY <1>1, <2>1, <2>2
  <2> QED
    BY <2>5, <2>6, <2>7
<1>4. \A x \in ToSet(dbuf') : x # SetsMark => ~EndCame(x[2])'
  BY <1>1 DEF OrderInv
<1>5. InLine(server'.frame, server'.left # <<>>, down')
  BY DEF Later
<1>6. OrderInv'
  BY <1>3, <1>4, <1>5 DEF OrderInv
<1> QED
  BY <1>2, <1>6

(* What dbuf_ holds after a packet: the packet, what it held, and perhaps   *)
(* the parameter sets.                                                      *)
LEMMA JoinedHas ==
  ASSUME NEW b \in Seq(Parts), NEW p \in Packets, p.kind # "audio", NEW x \in ToSet(Joined(b, p)),
         x # SetsMark
  PROVE  x \in ToSet(b) \/ x[2] = p.frame
<1>0. /\ SetsMark \in Parts /\ UnitMark(p) \in Parts /\ Payload(p) \in Parts
      /\ UnitMark(p)[2] = p.frame /\ Payload(p)[2] = p.frame
  BY RtspAssumption DEF Packets, Parts, SetsMark, UnitMark, Payload, Kinds
<1> DEFINE Small(s) == \A i \in DOMAIN s : s[i] = SetsMark \/ s[i][2] = p.frame
<1>1. ASSUME NEW c \in Seq(Parts), NEW s \in Seq(Parts), Small(s), NEW y \in ToSet(c \o s), y # SetsMark,
             \A z \in ToSet(c) : z = SetsMark \/ z \in ToSet(b)
      PROVE  y \in ToSet(b) \/ y[2] = p.frame
  <2>1. PICK i \in DOMAIN (c \o s) : y = (c \o s)[i]
    BY <1>1 DEF ToSet
  <2>2. /\ Len(c) \in Nat /\ Len(s) \in Nat /\ DOMAIN c = 1..Len(c) /\ DOMAIN s = 1..Len(s)
        /\ c \o s \in Seq(Parts) /\ Len(c \o s) = Len(c) + Len(s)
        /\ DOMAIN (c \o s) = 1..(Len(c) + Len(s))
        /\ (c \o s)[i] = IF i <= Len(c) THEN c[i] ELSE s[i - Len(c)]
    BY <1>1, <2>1, ConcatProperties, LenProperties
  <2>3. CASE i <= Len(c)
    BY <1>1, <2>1, <2>2, <2>3 DEF ToSet
  <2>4. CASE i > Len(c)
    BY <1>1, <2>1, <2>2, <2>4
  <2> QED
    BY <2>1, <2>2, <2>3, <2>4
<1>2. CASE ~Fragment(p)
  <2>1. Joined(b, p) = b \o <<UnitMark(p), Payload(p)>>
    BY <1>2 DEF Joined, Starts, Fragment
  <2>2. <<UnitMark(p), Payload(p)>> \in Seq(Parts) /\ Small(<<UnitMark(p), Payload(p)>>)
    BY <1>0
  <2> HIDE DEF Small
  <2> QED
    BY <1>1, <2>1, <2>2
<1>3. CASE Fragment(p) /\ Starts(p) /\ p.kind = "keyStart" /\ b = <<>>
  <2>1. Joined(b, p) = (b \o <<SetsMark>>) \o <<UnitMark(p), Payload(p)>>
    BY <1>3 DEF Joined
  <2>2. b \o <<SetsMark>> = <<SetsMark>> /\ <<SetsMark>> \in Seq(Parts)
    BY <1>0, <1>3, ConcatEmptySeq
  <2>3. \A z \in ToSet(<<SetsMark>>) : z = SetsMark
    BY DEF ToSet
  <2>4. <<UnitMark(p), Payload(p)>> \in Seq(Parts) /\ Small(<<UnitMark(p), Payload(p)>>)
    BY <1>0
  <2> HIDE DEF Small
  <2> QED
    BY <1>1, <2>1, <2>2, <2>3, <2>4
<1>4. CASE Fragment(p) /\ Starts(p) /\ ~(p.kind = "keyStart" /\ b = <<>>)
  <2>1. b \o <<>> = b
    BY ConcatEmptySeq
  <2>2. Joined(b, p) = b \o <<UnitMark(p), Payload(p)>>
    BY <1>4, <2>1 DEF Joined
  <2>3. <<UnitMark(p), Payload(p)>> \in Seq(Parts) /\ Small(<<UnitMark(p), Payload(p)>>)
    BY <1>0
  <2> HIDE DEF Small
  <2> QED
    BY <1>1, <2>2, <2>3
<1>5. CASE Fragment(p) /\ ~Starts(p)
  <2>1. Joined(b, p) = Append(b, Payload(p))
    BY <1>5 DEF Joined
  <2>2. Append(b, Payload(p)) = b \o <<Payload(p)>>
    BY <1>0, AppendIsConcat
  <2>3. <<Payload(p)>> \in Seq(Parts) /\ Small(<<Payload(p)>>)
    BY <1>0
  <2> HIDE DEF Small
  <2> QED
    BY <1>1, <2>1, <2>2, <2>3
<1> QED
  BY <1>2, <1>3, <1>4, <1>5

(* Apart, of a frame and of what is heard after the step.                   *)
ApartAfter(b) ==
  \A x \in ToSet(b), y \in ToSet(b) : OfFrames(x, y) /\ x[2] < y[2] => ~EndCame(x[2])'

LEMMA ApartNext ==
  ASSUME TypeOK', Given1(frames'), Held1(frames', dbuf'),
         \A i \in DOMAIN frames' : ApartAfter(frames'[i]), ApartAfter(dbuf')
  PROVE  FramesApart'
<1> DEFINE all == Append(frames', dbuf')
<1>1. frames' \in Seq(Seq(Parts)) /\ dbuf' \in Seq(Parts)
  BY DEF TypeOK
<1>2. InParts(frames', dbuf', all)
  BY <1>1, AllFrames
<1>3. (\A i \in DOMAIN all : ApartAfter(all[i])) /\ (\A i, j \in DOMAIN all : i < j => Before(all[i], all[j]))
      => FramesApart'
  BY DEF FramesApart, Apart, ApartAfter
<1> HIDE DEF all
<1>4. \A i \in DOMAIN all : ApartAfter(all[i])
  <2>1. /\ DOMAIN all = DOMAIN frames' \cup {Len(frames') + 1}
        /\ \A i \in DOMAIN frames' : all[i] = frames'[i]
        /\ all[Len(frames') + 1] = dbuf'
    BY <1>2 DEF InParts
  <2> QED
    BY <2>1
<1>5. \A i, j \in DOMAIN all : i < j => Before(all[i], all[j])
  BY <1>2 DEF InParts
<1> QED
  BY <1>3, <1>4, <1>5

(* A video packet: it goes to the end of what dbuf_ holds, and if it is the *)
(* last of its frame all of that is given.                                  *)
LEMMA PacketTaken ==
  ASSUME TypeOK, OrderInv, FramesApart, NEW p, down # <<>>, p = Head(down), Video(p),
         UNCHANGED server, down' = Tail(down), heard' = Append(heard, p),
         IF Complete(p, server.hevc)
         THEN frames' = Append(frames, Joined(dbuf, p)) /\ dbuf' = <<>>
         ELSE frames' = frames /\ dbuf' = Joined(dbuf, p),
         TypeOK'
  PROVE  OrderInv' /\ FramesApart'
<1> DEFINE b == Joined(dbuf, p)  n == server.frame  more == server.left # <<>>
<1>1. /\ down \in Seq(Arriving) /\ frames \in Seq(Seq(Parts)) /\ dbuf \in Seq(Parts)
      /\ heard \in Seq(Packets) /\ server \in ServerStates
  BY DEF TypeOK, Arriving
<1>2. n \in Nat /\ more \in BOOLEAN
  BY <1>1, RtspAssumption DEF ServerStates
<1>3. p \in Packets /\ p.frame \in Nat /\ p.marker \in BOOLEAN /\ p.kind # "audio"
  <2>1. p \in Arriving
    BY <1>1, HeadTailProperties
  <2> QED
    BY <2>1, PacketFields DEF Video
<1>4. /\ InLine(n, more, down') /\ Comes(p.frame, n, more, down)
      /\ \A f \in Nat : Comes(f, n, more, down') => Comes(f, n, more, down)
      /\ \A f \in Nat : Comes(f, n, more, down') => p.frame <= f /\ (p.marker => p.frame < f)
  <2>1. InLine(n, more, down)
    BY DEF OrderInv
  <2> QED
    BY <1>1, <1>2, <2>1, LessUnderWay DEF Later
<1>5. /\ GivenOver(p.frame, frames) /\ HeldOpen(p.frame, dbuf)
      /\ \A g \in Nat : EndCame(g) => g < p.frame
  BY <1>3, <1>4 DEF OrderInv
<1>6. \A g \in Nat : EndCame(g)' <=> EndCame(g) \/ (Complete(p, server.hevc) /\ g = p.frame)
  <2>1. /\ Len(heard) \in Nat /\ DOMAIN heard = 1..Len(heard)
        /\ DOMAIN heard' = 1..(Len(heard) + 1)
        /\ \A i \in 1..Len(heard) : heard'[i] = heard[i]
        /\ heard'[Len(heard) + 1] = p
    BY <1>1, <1>3, AppendProperties, LenProperties
  <2>2. Complete(p, server.hevc) <=>
          p.marker /\ p.kind # "sets" /\ (server.hevc => p.kind = "end")
    BY DEF Complete
  <2>3. \A i \in DOMAIN heard' : i \in DOMAIN heard \/ i = Len(heard) + 1
    BY <2>1
  <2>4. DOMAIN heard \subseteq DOMAIN heard' /\ Len(heard) + 1 \in DOMAIN heard'
    BY <2>1
  <2> QED
    BY <2>1, <2>2, <2>3, <2>4 DEF EndCame
<1>7. ASSUME NEW x \in ToSet(b), x # SetsMark
      PROVE  (x \in ToSet(dbuf) \/ x[2] = p.frame) /\ x[2] <= p.frame /\ x[2] \in Nat
  <2>1. x \in ToSet(dbuf) \/ x[2] = p.frame
    BY <1>1, <1>3, <1>7, JoinedHas
  <2>2. x[2] <= p.frame
    BY <1>3, <1>5, <1>7, <2>1 DEF HeldOpen
  <2>3. x \in ToSet(dbuf) => x[2] \in Nat
    BY <1>1, HeldNat
  <2> QED
    BY <1>3, <2>1, <2>2, <2>3
<1>8. ASSUME NEW x \in ToSet(b), x # SetsMark PROVE ~EndCame(x[2])
  BY <1>3, <1>5, <1>7, <1>8 DEF OrderInv
<1>9. ASSUME NEW i \in DOMAIN frames PROVE frames[i] \in Seq(Parts)
  BY <1>1, ElementOfSeq, LenProperties
<1>10. Given1(frames) /\ Held1(frames, dbuf) /\ \A i \in DOMAIN frames : Apart(frames[i])
  BY ApartIs
<1> HIDE DEF b, n, more
<1>11. Held1(frames, b)
  <2> SUFFICES ASSUME NEW i \in DOMAIN frames, NEW x \in ToSet(frames[i]), NEW y \in ToSet(b),
                      OfFrames(x, y)
               PROVE  x[2] < y[2]
    BY DEF Held1, Before
  <2>1. x # SetsMark /\ y # SetsMark
    BY DEF OfFrames
  <2>2. CASE y \in ToSet(dbuf)
    BY <1>10, <2>2 DEF Held1, Before
  <2>3. CASE y[2] = p.frame
    BY <1>5, <2>1, <2>3 DEF GivenOver
  <2> QED
    BY <1>7, <2>1, <2>2, <2>3
<1>12. ASSUME NEW i \in DOMAIN frames PROVE ApartAfter(frames[i])
  <2> SUFFICES ASSUME NEW x \in ToSet(frames[i]), NEW y \in ToSet(frames[i]), OfFrames(x, y),
                      x[2] < y[2]
               PROVE  ~EndCame(x[2])'
    BY <1>9 DEF ApartAfter
  <2>1. x[2] \in Nat /\ x[2] < p.frame
    BY <1>5, <1>9, HeldNat DEF GivenOver, OfFrames
  <2> QED
    BY <1>3, <1>6, <1>10, <2>1 DEF Apart
<1>13. ApartAfter(b)
  <2> SUFFICES ASSUME NEW x \in ToSet(b), NEW y \in ToSet(b), OfFrames(x, y), x[2] < y[2]
               PROVE  ~EndCame(x[2])'
    BY DEF ApartAfter
  <2>1. x[2] \in Nat /\ y[2] \in Nat /\ y[2] <= p.frame /\ ~EndCame(x[2])
    BY <1>7, <1>8 DEF OfFrames
  <2> QED
    BY <1>3, <1>6, <2>1
<1>14. /\ p.frame \in Nat /\ Comes(p.frame, n, more, down)
       /\ n = server'.frame /\ more = (server'.left # <<>>)
  BY <1>3, <1>4 DEF n, more
<1>15. ASSUME NEW f \in Nat, Comes(f, n, more, down')
       PROVE  /\ GivenOver(f, frames) /\ HeldOpen(f, b)
              /\ \A g \in Nat : EndCame(g)' => g < f
              /\ p.marker => \A x \in ToSet(b) : x # SetsMark => x[2] < f
  <2>1. p.frame <= f /\ (p.marker => p.frame < f) /\ Comes(f, n, more, down)
    BY <1>4, <1>15
  <2>2. GivenOver(f, frames) /\ \A g \in Nat : EndCame(g) => g < f
    BY <1>15, <2>1 DEF OrderInv, n, more
  <2>3. HeldOpen(f, b) /\ (p.marker => \A x \in ToSet(b) : x # SetsMark => x[2] < f)
    BY <1>3, <1>7, <1>15, <2>1 DEF HeldOpen
  <2>4. Complete(p, server.hevc) => p.marker
    BY DEF Complete
  <2> QED
    BY <1>6, <2>1, <2>2, <2>3, <2>4
<1>16. b \in Seq(Parts)
  BY <1>1, <1>3, EmptySeq, JoinedAdds DEF b
<1>17. CASE Complete(p, server.hevc)
  <2>1. /\ frames' = Append(frames, b) /\ dbuf' = <<>> /\ p.marker
        /\ InParts(frames, b, frames')
    BY <1>1, <1>16, <1>17, AllFrames DEF Complete, b
  <2>2. DOMAIN frames' = DOMAIN frames \cup {Len(frames) + 1} /\ frames'[Len(frames) + 1] = b
        /\ \A i \in DOMAIN frames : frames'[i] = frames[i]
    BY <2>1 DEF InParts
  <2>3. ToSet(dbuf') = {}
    BY <2>1 DEF ToSet
  <2>4. Given1(frames')
    BY <1>10, <1>11, <2>1 DEF InParts, Given1
  <2>5. Held1(frames', dbuf') /\ ApartAfter(dbuf')
    BY <2>3 DEF Held1, Before, ApartAfter
  <2>6. \A i \in DOMAIN frames' : ApartAfter(frames'[i])
    BY <1>12, <1>13, <2>2
  <2>7. FramesApart'
    BY <2>4, <2>5, <2>6, ApartNext
  <2>8. ASSUME NEW f \in Nat, Comes(f, n, more, down') PROVE GivenOver(f, frames')
    BY <1>15, <2>1, <2>2, <2>8 DEF GivenOver
  <2>9. ASSUME NEW f \in Nat, Comes(f, n, more, down')
        PROVE  HeldOpen(f, dbuf') /\ \A g \in Nat : EndCame(g)' => g < f
    BY <1>15, <2>3, <2>9 DEF HeldOpen
  <2>10. OrderInv'
    BY <1>4, <1>14, <2>3, <2>8, <2>9 DEF OrderInv
  <2> QED
    BY <2>7, <2>10
<1>18. CASE ~Complete(p, server.hevc)
  <2>1. frames' = frames /\ dbuf' = b
    BY <1>18 DEF b
  <2>2. \A i \in DOMAIN frames' : ApartAfter(frames'[i])
    BY <1>12, <2>1
  <2>3. ApartAfter(dbuf')
    BY <1>13, <2>1
  <2>4. FramesApart'
    BY <1>10, <1>11, <2>1, <2>2, <2>3, ApartNext
  <2>5. ASSUME NEW f \in Nat, Comes(f, n, more, down')
        PROVE  GivenOver(f, frames') /\ HeldOpen(f, dbuf') /\ \A g \in Nat : EndCame(g)' => g < f
    BY <1>15, <2>1, <2>5
  <2>6. ASSUME NEW x \in ToSet(dbuf'), x # SetsMark PROVE ~EndCame(x[2])'
    BY <1>6, <1>7, <1>8, <1>18, <2>1, <2>6
  <2>7. OrderInv'
    BY <1>4, <1>14, <2>5, <2>6 DEF OrderInv
  <2> QED
    BY <2>4, <2>7
<1> QED
  BY <1>17, <1>18

LEMMA OrderStep ==
  TypeOK /\ OrderInv /\ FramesApart /\ [Next]_vars => OrderInv' /\ FramesApart'
<1> SUFFICES ASSUME TypeOK, OrderInv, FramesApart, [Next]_vars
             PROVE  OrderInv' /\ FramesApart'
  OBVIOUS
<1> DEFINE n == server.frame  more == server.left # <<>>  less == server'.left # <<>>
<1>1. /\ down \in Seq(Arriving) /\ n \in Nat /\ server \in ServerStates
      /\ server.left \in Seq(Kinds) /\ InLine(n, more, down)
  BY RtspAssumption DEF TypeOK, ServerStates, Arriving, OrderInv
<1>2. TypeOK'
  BY TypeStep
<1>3. ASSUME UNCHANGED <<frames, dbuf, heard>>, server'.hevc = server.hevc,
             Later(n, more, down, server'.frame, less, down')
      PROVE  OrderInv' /\ FramesApart'
  BY <1>3, NoPacketTaken
<1>4. ASSUME UNCHANGED <<frames, dbuf, heard, down>>, server'.hevc = server.hevc,
             server'.frame = n, less => more
      PROVE  OrderInv' /\ FramesApart'
  <2>1. Later(n, more, down, n, less, down)
    BY <1>1, <1>4, PacketLost
  <2> QED
    BY <1>3, <1>4, <2>1
<1>5. ASSUME UNCHANGED <<frames, dbuf, heard>>, server'.hevc = server.hevc, server'.frame = n,
             less => more, NEW x \in Arriving, down' = Append(down, x),
             Video(x) => x.frame = n /\ more /\ (x.marker => ~less)
      PROVE  OrderInv' /\ FramesApart'
  <2>1. Later(n, more, down, n, less, Append(down, x))
    BY <1>1, <1>5, MoreUnderWay
  <2> QED
    BY <1>3, <1>5, <2>1
<1>6. ASSUME UNCHANGED <<server, frames, dbuf, heard>>, down # <<>>, down' = Tail(down)
      PROVE  OrderInv' /\ FramesApart'
  <2>1. Later(n, more, down, n, more, Tail(down))
    BY <1>1, <1>6, LessUnderWay
  <2> QED
    BY <1>3, <1>6, <2>1
<1>7. CASE ServerReplies
  <2>1. /\ UNCHANGED <<frames, dbuf, heard>>
        /\ server'.hevc = server.hevc /\ server'.frame = n /\ server'.left = server.left
    BY <1>1, <1>7 DEF ServerReplies, ServerStates
  <2>2. PICK answer \in {"ok", "challenge", "refused"}, s \in BOOLEAN, v \in BOOLEAN, a \in BOOLEAN :
          down' = Append(down, Reply(answer, s, v, a))
    BY <1>1, <1>7 DEF ServerReplies, ServerStates
  <2>3. Reply(answer, s, v, a) \in Arriving /\ ~Video(Reply(answer, s, v, a))
    BY DEF Reply, Replies, Arriving, Video
  <2> QED
    BY <1>5, <2>1, <2>2, <2>3
<1>8. CASE ServerHangsUp
  <2>1. /\ UNCHANGED <<frames, dbuf, heard, down>>
        /\ server'.hevc = server.hevc /\ server'.frame = n /\ server'.left = server.left
    BY <1>1, <1>8 DEF ServerHangsUp, ServerStates
  <2> QED
    BY <1>4, <2>1
<1>9. CASE ServerSends
  <2>1. UNCHANGED <<frames, dbuf, heard>>
    BY <1>9 DEF ServerSends
  <2>2. CASE /\ server.left = <<>> /\ server.frame < MaxFrames
             /\ \E shape \in Shapes : server' = [server EXCEPT !.left = shape, !.frame = @ + 1]
             /\ UNCHANGED down
    <3>1. server'.hevc = server.hevc /\ server'.frame = n + 1 /\ more = FALSE /\ less \in BOOLEAN
      BY <1>1, <2>2 DEF ServerStates
    <3>2. Later(n, FALSE, down, n + 1, less, down)
      BY <1>1, <3>1, NextFrame
    <3> QED
      BY <1>3, <2>1, <2>2, <3>1, <3>2
  <2>3. CASE /\ server.left # <<>>
             /\ down' = Append(down, Packet(Head(server.left), server.frame, Len(server.left) = 1))
             /\ server' = [server EXCEPT !.left = Tail(@)]
    <3> DEFINE x == Packet(Head(server.left), server.frame, Len(server.left) = 1)
    <3>1. server'.hevc = server.hevc /\ server'.frame = n /\ server'.left = Tail(server.left)
      BY <1>1, <2>3 DEF ServerStates
    <3>2. Len(server.left) = 1 => Tail(server.left) = <<>>
      <4>1. Tail(server.left) \in Seq(Kinds) /\ Len(Tail(server.left)) = Len(server.left) - 1
        BY <1>1, <2>3, HeadTailProperties
      <4>2. Tail(server.left) # <<>> => Len(Tail(server.left)) \in Nat \ {0}
        BY <4>1, EmptySeq
      <4> QED
        BY <4>1, <4>2
    <3>3. x \in Arriving /\ x.frame = n /\ (x.marker => Len(server.left) = 1)
      <4>1. Head(server.left) \in Kinds
        BY <1>1, <2>3, HeadTailProperties
      <4> QED
        BY <1>1, <4>1 DEF Packet, Packets, Arriving, ServerStates
    <3> HIDE DEF x
    <3>4. down' = Append(down, x)
      BY <2>3 DEF x
    <3> QED
      BY <1>5, <2>1, <2>3, <3>1, <3>2, <3>3, <3>4
  <2>4. CASE /\ server.left # <<>> /\ UNCHANGED down
             /\ server' = [server EXCEPT !.left = Tail(@), !.lost = @ + 1]
    <3>1. server'.hevc = server.hevc /\ server'.frame = n
      BY <1>1, <2>4 DEF ServerStates
    <3> QED
      BY <1>4, <2>1, <2>4, <3>1
  <2>5. CASE /\ server' = [server EXCEPT !.sounds = @ + 1]
             /\ down' = Append(down, Packet("audio", 0, TRUE))
    <3> DEFINE x == Packet("audio", 0, TRUE)
    <3>1. server'.hevc = server.hevc /\ server'.frame = n /\ server'.left = server.left
      BY <1>1, <2>5 DEF ServerStates
    <3>2. x \in Arriving /\ ~Video(x)
      BY RtspAssumption DEF Packet, Packets, Arriving, Video
    <3>3. down' = Append(down, x)
      BY <2>5
    <3> HIDE DEF x
    <3> QED
      BY <1>5, <2>1, <3>1, <3>2, <3>3
  <2> QED
    BY <1>9, <2>2, <2>3, <2>4, <2>5 DEF ServerSends
<1>10. CASE HandleReply
  BY <1>6, <1>10 DEF HandleReply
<1>11. CASE SayCommand \/ Stop \/ ReadThrows
  BY <1>4, <1>11 DEF SayCommand, Stop, ReadThrows
<1>12. CASE HandlePacket
  <2> DEFINE p == Head(down)
             b == Joined(dbuf, p)
             full == p.kind # "audio" /\ Complete(p, server.hevc)
  <2>1. /\ down # <<>> /\ p.kind # "reply" /\ down' = Tail(down) /\ UNCHANGED server
        /\ dbuf' = IF p.kind = "audio" THEN dbuf ELSE IF full THEN <<>> ELSE b
        /\ heard' = IF p.kind = "audio" THEN heard ELSE Append(heard, p)
        /\ frames' = IF full THEN Append(frames, b) ELSE frames
    BY <1>12 DEF HandlePacket, AfterFrame
  <2>2. CASE p.kind = "audio"
    BY <1>6, <2>1, <2>2
  <2>3. CASE p.kind # "audio"
    <3>1. Video(p) /\ heard' = Append(heard, p)
      BY <2>1, <2>3 DEF Video
    <3>2. IF Complete(p, server.hevc)
          THEN frames' = Append(frames, Joined(dbuf, p)) /\ dbuf' = <<>>
          ELSE frames' = frames /\ dbuf' = Joined(dbuf, p)
      BY <2>1, <2>3
    <3> QED
      BY <1>2, <2>1, <3>1, <3>2, PacketTaken
  <2> QED
    BY <2>2, <2>3
<1>13. CASE UNCHANGED vars
  BY <1>4, <1>13 DEF vars
<1> QED
  BY <1>7, <1>8, <1>9, <1>10, <1>11, <1>12, <1>13 DEF Next, Server, Client

-----------------------------------------------------------------------------
(* The handshake                                                            *)

Early == {"OPTIONS", "DESCRIBE", "SETAUDIO", "SETUP"}
Late == {"PLAY", "GET_PARAMETER"}

WantsSound(s, c) == s.audio /\ c.audio # "no"
FromSetup(s, c) ==
  (IF WantsSound(s, c) THEN <<"SETUP", "SETUP">> ELSE <<"SETUP">>) \o <<"PLAY">>
FromDescribe(s, c) ==
  (IF s.demands = {"DESCRIBE"} THEN <<"DESCRIBE", "DESCRIBE">> ELSE <<"DESCRIBE">>)
  \o FromSetup(s, c)

(* What is still to be said while the reply that cmd names is awaited.      *)
Rest(s, c, cmd) ==
  CASE cmd = "OPTIONS" ->
         IF "OPTIONS" \in s.demands /\ ~c.auth THEN <<"OPTIONS">> \o FromDescribe(s, c)
         ELSE FromDescribe(s, c)
    [] cmd = "DESCRIBE" ->
         IF s.demands = {"DESCRIBE"} /\ ~c.auth THEN <<"DESCRIBE">> \o FromSetup(s, c)
         ELSE FromSetup(s, c)
    [] cmd = "SETAUDIO" -> IF WantsSound(s, c) THEN <<"SETUP">> \o <<"PLAY">> ELSE <<"PLAY">>
    [] cmd = "SETUP" -> <<"PLAY">>
    [] cmd \notin Early -> <<>>

(* What the client knows by then.                                           *)
Learnt(s, c, cmd) ==
  /\ cmd = "OPTIONS" => (c.auth => "OPTIONS" \in s.demands)
  /\ cmd # "OPTIONS" => ("OPTIONS" \in s.demands => c.auth)
  /\ cmd = "SETAUDIO" => c.offered = s.audio
  /\ cmd \in {"OPTIONS", "DESCRIBE", "SETAUDIO"} => c.audio # "set"
  /\ cmd \in {"SETUP", "PLAY"} => c.session

Awaited(cmd) == IF cmd = "SETAUDIO" THEN "SETUP" ELSE cmd
Answer(s, c) ==
  LET a == Awaited(c.cmd) IN
  IF a \in s.demands /\ ~(c.auth /\ s.trusts) THEN Reply("challenge", FALSE, FALSE, FALSE)
  ELSE Reply("ok", a = "SETUP", a = "DESCRIBE", a = "DESCRIBE" /\ s.audio)

(* One command or one reply is on its way, until PLAY is said.              *)
OneUnderWay ==
  /\ server.state = "asked"
  /\ \/ up = <<Command(Awaited(client.cmd), client.auth, client.session)>> /\ down = <<>>
     \/ up = <<>> /\ down = <<Answer(server, client)>>
Waiting ==
  /\ client.cmd \in Early \cup Late
  /\ client.cmd \in Early => OneUnderWay
  /\ Learnt(server, client, client.cmd) /\ said \o Rest(server, client, client.cmd) = Script
Handling ==
  LET cmd == client.say.cmd  then == client.say.then IN
  /\ server.state = "asked" /\ up = <<>> /\ down = <<>>
  /\ then \in Early \cup {"PLAY"} /\ cmd = Awaited(then)
  /\ Learnt(server, client, then)
  /\ said \o (<<cmd>> \o Rest(server, client, then)) = Script
WithSession == \A i \in DOMAIN up : up[i].cmd = "PLAY" => up[i].session
InScript ==
  /\ client.at = "reading" => Waiting
  /\ client.at = "handling" => Handling
  /\ client.at \in Ended => IsPrefix(said, Script)
  /\ WithSession
Undisturbed == "TEARDOWN" \notin ToSet(said) /\ ~slow

HInv == TypeOK /\ (Undisturbed => InScript)

(* Two members and the rest are one, another and the rest.                  *)
LEMMA SequenceOfTwo ==
  ASSUME NEW S, NEW x \in S, NEW y \in S, NEW s \in Seq(S)
  PROVE  <<x, y>> \o s = <<x>> \o (<<y>> \o s)
<1>1. <<x>> \in Seq(S) /\ <<y>> \in Seq(S) /\ <<x, y>> \in Seq(S)
  OBVIOUS
<1> DEFINE a == <<x>>  b == <<y>>
<1>2. a \o b = <<x, y>>
  <2>1. a \o Append(<<>>, y) = Append(a \o <<>>, y)
    BY <1>1, EndOfBoth
  <2>2. a \o <<>> = a
    BY <1>1, ConcatEmptySeq
  <2>3. <<y>> = Append(<<>>, y)
    OBVIOUS
  <2>4. <<x, y>> = Append(<<x>>, y)
    OBVIOUS
  <2> QED
    BY <2>1, <2>2, <2>3, <2>4
<1>3. a \in Seq(S) /\ b \in Seq(S)
  BY <1>1
<1> HIDE DEF a, b
<1>4. (a \o b) \o s = a \o (b \o s)
  BY <1>3, ConcatAssociative
<1> QED
  BY <1>2, <1>4 DEF a, b

(* Every part of the script that lies ahead begins with the command that    *)
(* comes next.                                                              *)
LEMMA RestIs ==
  ASSUME NEW s, NEW c
  PROVE  /\ FromSetup(s, c) \in Seq(Commands) /\ FromDescribe(s, c) \in Seq(Commands)
         /\ \A cmd : Rest(s, c, cmd) \in Seq(Commands)
         /\ FromDescribe(s, c) = IF s.demands = {"DESCRIBE"}
                                 THEN <<"DESCRIBE">> \o (<<"DESCRIBE">> \o FromSetup(s, c))
                                 ELSE <<"DESCRIBE">> \o FromSetup(s, c)
         /\ FromSetup(s, c) = <<"SETUP">> \o Rest(s, c, "SETAUDIO")
<1>1. /\ \A x \in Commands : <<x>> \in Seq(Commands)
      /\ \A x, y \in Commands : <<x, y>> \in Seq(Commands)
  OBVIOUS
<1>2. {"OPTIONS", "DESCRIBE", "SETUP", "PLAY"} \subseteq Commands
  BY DEF Commands
<1>3. /\ <<"SETUP", "SETUP">> \in Seq(Commands) /\ <<"SETUP">> \in Seq(Commands)
      /\ <<"DESCRIBE", "DESCRIBE">> \in Seq(Commands) /\ <<"DESCRIBE">> \in Seq(Commands)
      /\ <<"OPTIONS">> \in Seq(Commands) /\ <<"PLAY">> \in Seq(Commands) /\ <<>> \in Seq(Commands)
  BY <1>1, <1>2
<1>4. FromSetup(s, c) \in Seq(Commands)
  BY <1>3, ConcatProperties DEF FromSetup
<1>5. FromDescribe(s, c) \in Seq(Commands)
  BY <1>3, <1>4, ConcatProperties DEF FromDescribe
<1>6. ASSUME NEW cmd PROVE Rest(s, c, cmd) \in Seq(Commands)
  <2>1. /\ <<"OPTIONS">> \o FromDescribe(s, c) \in Seq(Commands)
        /\ <<"DESCRIBE">> \o FromSetup(s, c) \in Seq(Commands)
        /\ <<"SETUP">> \o <<"PLAY">> \in Seq(Commands)
    BY <1>3, <1>4, <1>5, ConcatProperties
  <2>2. CASE cmd = "OPTIONS"
    BY <1>5, <2>1, <2>2 DEF Rest, Early
  <2>3. CASE cmd = "DESCRIBE"
    BY <1>4, <2>1, <2>3 DEF Rest, Early
  <2>4. CASE cmd = "SETAUDIO"
    BY <1>3, <2>1, <2>4 DEF Rest, Early
  <2>5. CASE cmd = "SETUP"
    BY <1>3, <2>5 DEF Rest, Early
  <2>6. CASE cmd \notin Early
    BY <1>3, <2>6 DEF Rest, Early
  <2> QED
    BY <2>2, <2>3, <2>4, <2>5, <2>6 DEF Early
<1>7. <<"DESCRIBE", "DESCRIBE">> \o FromSetup(s, c) = <<"DESCRIBE">> \o (<<"DESCRIBE">> \o FromSetup(s, c))
  BY <1>2, <1>4, SequenceOfTwo
<1>8. <<"SETUP", "SETUP">> \o <<"PLAY">> = <<"SETUP">> \o (<<"SETUP">> \o <<"PLAY">>)
  BY <1>2, <1>3, SequenceOfTwo
<1>9. Rest(s, c, "SETAUDIO") = IF WantsSound(s, c) THEN <<"SETUP">> \o <<"PLAY">> ELSE <<"PLAY">>
  BY DEF Rest, Early
<1>10. FromDescribe(s, c) = IF s.demands = {"DESCRIBE"}
                                 THEN <<"DESCRIBE">> \o (<<"DESCRIBE">> \o FromSetup(s, c))
                                 ELSE <<"DESCRIBE">> \o FromSetup(s, c)
  <2> DEFINE r == FromSetup(s, c)
  <2>1. FromDescribe(s, c) = (IF s.demands = {"DESCRIBE"} THEN <<"DESCRIBE", "DESCRIBE">> ELSE <<"DESCRIBE">>) \o r
    BY DEF FromDescribe
  <2> HIDE DEF r
  <2>2. <<"DESCRIBE", "DESCRIBE">> \o r = <<"DESCRIBE">> \o (<<"DESCRIBE">> \o r)
    BY <1>7 DEF r
  <2>3. FromDescribe(s, c) = IF s.demands = {"DESCRIBE"} THEN <<"DESCRIBE">> \o (<<"DESCRIBE">> \o r)
                             ELSE <<"DESCRIBE">> \o r
    BY <2>1, <2>2, Zenon
  <2> QED
    BY <2>3 DEF r
<1>11. FromSetup(s, c) = <<"SETUP">> \o Rest(s, c, "SETAUDIO")
  BY <1>8, <1>9, Zenon DEF FromSetup
<1> QED
  BY <1>4, <1>5, <1>6, <1>10, <1>11

(* The script begins with OPTIONS and all that Rest says after it.          *)
LEMMA ScriptIs ==
  Script = IF "OPTIONS" \in server.demands
           THEN <<"OPTIONS">> \o (<<"OPTIONS">> \o FromDescribe(server, client))
           ELSE <<"OPTIONS">> \o FromDescribe(server, client)
<1> DEFINE o == IF "OPTIONS" \in server.demands THEN <<"OPTIONS", "OPTIONS">> ELSE <<"OPTIONS">>
           d == IF server.demands = {"DESCRIBE"} THEN <<"DESCRIBE", "DESCRIBE">> ELSE <<"DESCRIBE">>
           u == IF server.audio /\ client.audio # "no" THEN <<"SETUP", "SETUP">> ELSE <<"SETUP">>
           p == <<"PLAY">>
<1>1. Script = ((o \o d) \o u) \o p
  BY DEF Script
<1>2. FromDescribe(server, client) = d \o (u \o p)
  BY DEF FromDescribe, FromSetup, WantsSound
<1>3. {"OPTIONS", "DESCRIBE", "SETUP", "PLAY"} \subseteq Commands
  BY DEF Commands
<1>4. /\ <<"OPTIONS", "OPTIONS">> \in Seq(Commands) /\ <<"OPTIONS">> \in Seq(Commands)
      /\ <<"DESCRIBE", "DESCRIBE">> \in Seq(Commands) /\ <<"DESCRIBE">> \in Seq(Commands)
      /\ <<"SETUP", "SETUP">> \in Seq(Commands) /\ <<"SETUP">> \in Seq(Commands)
      /\ <<"PLAY">> \in Seq(Commands)
  BY <1>3
<1>5. o \in Seq(Commands) /\ d \in Seq(Commands) /\ u \in Seq(Commands) /\ p \in Seq(Commands)
  BY <1>4
<1> HIDE DEF o, d, u, p
<1>6. ((o \o d) \o u) \o p = o \o (d \o (u \o p))
  <2>1. o \o d \in Seq(Commands) /\ u \o p \in Seq(Commands)
    BY <1>5, ConcatProperties
  <2>2. ((o \o d) \o u) \o p = (o \o d) \o (u \o p)
    BY <1>5, <2>1, ConcatAssociative
  <2>3. (o \o d) \o (u \o p) = o \o (d \o (u \o p))
    <3> DEFINE v == u \o p
    <3>1. v \in Seq(Commands)
      BY <2>1
    <3> HIDE DEF v
    <3>2. (o \o d) \o v = o \o (d \o v)
      BY <1>5, <3>1, ConcatAssociative
    <3> QED
      BY <3>2 DEF v
  <2> QED
    BY <2>2, <2>3
<1>7. FromDescribe(server, client) \in Seq(Commands)
  BY RestIs
<1>8. <<"OPTIONS", "OPTIONS">> \o FromDescribe(server, client)
        = <<"OPTIONS">> \o (<<"OPTIONS">> \o FromDescribe(server, client))
  BY <1>3, <1>7, SequenceOfTwo
<1>9. Script = o \o FromDescribe(server, client)
  BY <1>1, <1>2, <1>6
<1> QED
  BY <1>8, <1>9, Zenon DEF o

(* A sequence is a prefix of what it begins.                                *)
LEMMA Prefix ==
  ASSUME NEW S, NEW s \in Seq(S), NEW r \in Seq(S)
  PROVE  IsPrefix(s, s \o r)
<1> DEFINE z == s \o r  n == Len(s)
<1>1. /\ z \in Seq(S) /\ Len(z) = n + Len(r) /\ n \in Nat /\ Len(r) \in Nat
      /\ \A i \in 1..(n + Len(r)) : z[i] = IF i <= n THEN s[i] ELSE r[i - n]
  BY ConcatProperties, LenProperties
<1>2. \A i \in 1..n : s[i] \in S /\ z[i] = s[i]
  BY <1>1, ElementOfSeq
<1> HIDE DEF z
<1>3. n \in Int /\ 1 \in Int /\ n - 1 + 1 = n
  BY <1>1
<1>4. /\ SubSeq(s, 1, n) \in Seq(S) /\ Len(SubSeq(s, 1, n)) = IF 1 <= n THEN n ELSE 0
      /\ \A i \in 1..n : SubSeq(s, 1, n)[i] = s[1 + i - 1]
  <2> HIDE DEF n
  <2>1. /\ SubSeq(s, 1, n) \in Seq(S) /\ Len(SubSeq(s, 1, n)) = IF 1 <= n THEN n - 1 + 1 ELSE 0
        /\ \A i \in 1..(n - 1 + 1) : SubSeq(s, 1, n)[i] = s[1 + i - 1]
    BY <1>2, <1>3, SubSeqProperties
  <2> QED
    BY <1>3, <2>1
<1>5. /\ SubSeq(z, 1, n) \in Seq(S) /\ Len(SubSeq(z, 1, n)) = IF 1 <= n THEN n ELSE 0
      /\ \A i \in 1..n : SubSeq(z, 1, n)[i] = z[1 + i - 1]
  <2> HIDE DEF n
  <2>1. /\ SubSeq(z, 1, n) \in Seq(S) /\ Len(SubSeq(z, 1, n)) = IF 1 <= n THEN n - 1 + 1 ELSE 0
        /\ \A i \in 1..(n - 1 + 1) : SubSeq(z, 1, n)[i] = z[1 + i - 1]
    BY <1>2, <1>3, SubSeqProperties
  <2> QED
    BY <1>3, <2>1
<1> DEFINE a == SubSeq(s, 1, n)  b == SubSeq(z, 1, n)
<1>6. Len(a) = n /\ Len(b) = n /\ a \in Seq(S) /\ b \in Seq(S)
  BY <1>1, <1>4, <1>5
<1>7. \A i \in 1..n : a[i] = b[i]
  <2>1. ASSUME NEW i \in 1..n PROVE a[i] = b[i]
    <3>1. 1 + i - 1 = i
      BY <1>1
    <3>2. a[i] = s[1 + i - 1] /\ b[i] = z[1 + i - 1] /\ z[i] = s[i]
      BY <1>2, <1>4, <1>5
    <3> QED
      BY <3>1, <3>2
  <2> QED
    BY <2>1
<1> HIDE DEF a, b
<1>8. a = b
  BY <1>6, <1>7, SeqEqual
<1> QED
  BY <1>1, <1>8 DEF IsPrefix, z, a, b

(* The rest depends on what is offered, what is wanted and whether the      *)
(* challenge was answered.                                                  *)
LEMMA RestSame ==
  ASSUME NEW s, NEW c, NEW t, NEW d, t.demands = s.demands, t.audio = s.audio,
         c.audio # "no" <=> d.audio # "no"
  PROVE  /\ FromSetup(t, d) = FromSetup(s, c) /\ FromDescribe(t, d) = FromDescribe(s, c)
         /\ Rest(t, d, "SETAUDIO") = Rest(s, c, "SETAUDIO")
         /\ d.auth = c.auth => \A cmd : Rest(t, d, cmd) = Rest(s, c, cmd)
<1>1. WantsSound(t, d) = WantsSound(s, c)
  BY DEF WantsSound
<1>2. FromSetup(t, d) = FromSetup(s, c)
  BY <1>1, Zenon DEF FromSetup
<1>3. FromDescribe(t, d) = FromDescribe(s, c)
  BY <1>2, Zenon DEF FromDescribe
<1>4. Rest(t, d, "SETAUDIO") = Rest(s, c, "SETAUDIO")
  BY <1>1 DEF Rest, Early
<1>5. ASSUME NEW cmd, d.auth = c.auth PROVE Rest(t, d, cmd) = Rest(s, c, cmd)
  <2> DEFINE fs == FromSetup(s, c)  fd == FromDescribe(s, c)
  <2>1. FromSetup(t, d) = fs /\ FromDescribe(t, d) = fd
    BY <1>2, <1>3
  <2> HIDE DEF fs, fd
  <2> QED
    BY <1>1, <1>5, <2>1 DEF Rest, Early, fs, fd
<1> QED
  BY <1>2, <1>3, <1>4, <1>5

(* The script depends on the server's nature and on whether the client      *)
(* wants sound, which does not change.                                      *)
LEMMA ScriptSame ==
  ASSUME server'.demands = server.demands, server'.audio = server.audio,
         client.audio # "no" <=> client'.audio # "no"
  PROVE  Script' = Script
BY DEF Script

(* Play has said OPTIONS and waits for the answer.                          *)
LEMMA HInit == Init => InScript
<1> SUFFICES ASSUME Init PROVE InScript
  OBVIOUS
<1>1. /\ server.state = "asked"
      /\ client.at = "reading" /\ client.cmd = "OPTIONS" /\ client.auth = FALSE
      /\ client.session = FALSE /\ client.audio # "set"
  BY DEF Init
<1>2. /\ up = <<Command("OPTIONS", FALSE, FALSE)>> /\ said = <<"OPTIONS">> /\ down = <<>>
  BY DEF Init
<1>3. Awaited(client.cmd) = "OPTIONS" /\ "OPTIONS" \in Early
  BY <1>1 DEF Awaited, Early
<1>4. OneUnderWay
  BY <1>1, <1>2, <1>3 DEF OneUnderWay
<1>5. said \o Rest(server, client, client.cmd) = Script
  <2> DEFINE fd == FromDescribe(server, client)
  <2>1. Rest(server, client, "OPTIONS") = IF "OPTIONS" \in server.demands THEN <<"OPTIONS">> \o fd ELSE fd
    BY <1>1 DEF Rest, Early
  <2> HIDE DEF fd
  <2>2. Script = IF "OPTIONS" \in server.demands THEN <<"OPTIONS">> \o (<<"OPTIONS">> \o fd)
                 ELSE <<"OPTIONS">> \o fd
    BY ScriptIs DEF fd
  <2> QED
    BY <1>1, <1>2, <2>1, <2>2, Zenon
<1>6. Learnt(server, client, client.cmd)
  BY <1>1 DEF Learnt
<1>7. WithSession
  <2>1. Command("OPTIONS", FALSE, FALSE).cmd = "OPTIONS"
    BY DEF Command
  <2> DEFINE o == Command("OPTIONS", FALSE, FALSE)
  <2>2. \A i \in DOMAIN up : up[i].cmd = "OPTIONS"
    <3>1. up = <<o>> /\ o.cmd = "OPTIONS"
      BY <1>2, <2>1
    <3> HIDE DEF o
    <3>2. DOMAIN <<o>> = {1} /\ <<o>>[1] = o
      OBVIOUS
    <3> QED
      BY <3>1, <3>2
  <2> QED
    BY <2>2 DEF WithSession
<1>8. Waiting
  BY <1>1, <1>3, <1>4, <1>5, <1>6 DEF Waiting
<1> QED
  BY <1>1, <1>7, <1>8 DEF InScript, Ended

(* The reply that is awaited: what the client says next is what Rest says,  *)
(* or it gives up.                                                          *)
LEMMA ReplyInScript ==
  ASSUME TypeOK, NEW d, d = Parsed(client, Answer(server, client)), server \in ServerStates,
         client.at = "reading", client.cmd \in Early, Learnt(server, client, client.cmd)
  PROVE  /\ client.audio # "no" <=> d.audio # "no"
         /\ \/ d.at \in Ended
            \/ /\ d.at = "handling" /\ d.say.then \in Early \cup {"PLAY"}
               /\ d.say.cmd = Awaited(d.say.then) /\ Learnt(server, d, d.say.then)
               /\ <<d.say.cmd>> \o Rest(server, d, d.say.then) = Rest(server, client, client.cmd)
<1> DEFINE c == client  r == Answer(server, client)
           Goes(e) == /\ e.at = "handling" /\ e.say.then \in Early \cup {"PLAY"}
                      /\ e.say.cmd = Awaited(e.say.then) /\ Learnt(server, e, e.say.then)
                      /\ <<e.say.cmd>> \o Rest(server, e, e.say.then) = Rest(server, client, client.cmd)
<1>1. /\ c \in ClientStates /\ server.demands \in Demands /\ server.audio \in BOOLEAN
      /\ c.audio \in {"no", "want", "set"} /\ c.auth \in BOOLEAN /\ server.trusts \in BOOLEAN
      /\ c.session \in BOOLEAN
  BY DEF TypeOK, ClientStates, ServerStates
<1>2. /\ "SETUP" \notin server.demands
      /\ "DESCRIBE" \in server.demands /\ "OPTIONS" \notin server.demands => server.demands = {"DESCRIBE"}
      /\ "OPTIONS" \in server.demands => server.demands # {"DESCRIBE"}
  BY <1>1 DEF Demands
<1>3. /\ FromDescribe(server, c) = IF server.demands = {"DESCRIBE"}
                                   THEN <<"DESCRIBE">> \o (<<"DESCRIBE">> \o FromSetup(server, c))
                                   ELSE <<"DESCRIBE">> \o FromSetup(server, c)
      /\ FromSetup(server, c) = <<"SETUP">> \o Rest(server, c, "SETAUDIO")
  BY RestIs
<1>4. ASSUME NEW e \in ClientStates, NEW x, NEW y
      PROVE  LET f == SayNext(e, x, y) IN
             /\ f.at = "handling" /\ f.say.cmd = x /\ f.say.then = y
             /\ f.auth = e.auth /\ f.audio = e.audio /\ f.offered = e.offered /\ f.session = e.session
  BY <1>4 DEF SayNext, ClientStates
<1>5. /\ r.answer = IF Awaited(c.cmd) \in server.demands /\ ~(c.auth /\ server.trusts)
                    THEN "challenge" ELSE "ok"
      /\ r.answer = "ok" => /\ r.session = (Awaited(c.cmd) = "SETUP")
                            /\ r.video = (Awaited(c.cmd) = "DESCRIBE")
                            /\ r.audio = (Awaited(c.cmd) = "DESCRIBE" /\ server.audio)
  BY DEF Answer, Reply
<1> HIDE DEF c, r, Goes
<1>6. ASSUME NEW e \in ClientStates, e.auth = c.auth, c.audio # "no" <=> e.audio # "no", NEW x, NEW y,
             y \in Early \cup {"PLAY"}, x = Awaited(y), Learnt(server, e, y),
             <<x>> \o Rest(server, c, y) = Rest(server, c, c.cmd)
      PROVE  Goes(SayNext(e, x, y)) /\ (c.audio # "no" <=> SayNext(e, x, y).audio # "no")
  <2> DEFINE f == SayNext(e, x, y)
  <2>1. /\ f.at = "handling" /\ f.say.cmd = x /\ f.say.then = y
        /\ f.auth = e.auth /\ f.audio = e.audio /\ f.offered = e.offered /\ f.session = e.session
    BY <1>4, <1>6
  <2> HIDE DEF f
  <2>2. Rest(server, f, y) = Rest(server, c, y)
    <3>1. f.auth = c.auth /\ (c.audio # "no" <=> f.audio # "no")
      BY <1>6, <2>1
    <3>2. \A cmd : Rest(server, f, cmd) = Rest(server, c, cmd)
      BY <3>1, RestSame
    <3> QED
      BY <3>2
  <2>3. Learnt(server, f, y)
    BY <1>6, <2>1 DEF Learnt
  <2> QED
    BY <1>6, <2>1, <2>2, <2>3 DEF Goes, c, f
<1>7. ASSUME NEW x \in Ended
      PROVE  [c EXCEPT !.at = x].at \in Ended /\ [c EXCEPT !.at = x].audio = c.audio
  BY <1>1 DEF ClientStates
<1>8. CASE c.cmd = "OPTIONS"
  <2>1. Awaited(c.cmd) = "OPTIONS"
    BY <1>8 DEF Awaited
  <2>2. CASE r.answer = "challenge"
    <3>1. d = Challenged(c) /\ "OPTIONS" \in server.demands
      BY <1>5, <1>8, <2>1, <2>2 DEF Parsed, c, r
    <3>2. CASE c.auth
      BY <1>7, <3>1, <3>2 DEF Challenged, c, Ended
    <3>3. CASE ~c.auth
      <4> DEFINE e == SetAuth(c)
      <4>1. /\ e \in ClientStates /\ e.auth = TRUE /\ e.audio = c.audio
        BY <1>1 DEF SetAuth, ClientStates
      <4>2. d = SayNext(e, "OPTIONS", "OPTIONS")
        BY <1>8, <3>1, <3>3 DEF Challenged
      <4> HIDE DEF e
      <4>3. /\ d.at = "handling" /\ d.say.cmd = "OPTIONS" /\ d.say.then = "OPTIONS"
            /\ d.auth = TRUE /\ d.audio = c.audio
        BY <1>4, <4>1, <4>2
      <4>4. Rest(server, d, "OPTIONS") = FromDescribe(server, d)
        BY <4>3 DEF Rest, Early
      <4>5. FromDescribe(server, d) = FromDescribe(server, c)
        BY <4>3, RestSame
      <4>6. Rest(server, c, "OPTIONS") = <<"OPTIONS">> \o FromDescribe(server, c)
        BY <3>1, <3>3 DEF Rest, Early
      <4>7. Learnt(server, d, "OPTIONS")
        BY <1>8, <3>1, <4>3 DEF Learnt, c
      <4> QED
        BY <1>8, <4>3, <4>4, <4>5, <4>6, <4>7 DEF Awaited, Early, c
    <3> QED
      BY <1>1, <3>2, <3>3
  <2>3. CASE r.answer = "ok"
    <3>1. d = SayNext(c, "DESCRIBE", "DESCRIBE")
      BY <1>8, <2>3 DEF Parsed, c, r
    <3>2. "OPTIONS" \in server.demands => c.auth
      BY <1>5, <2>1, <2>3
    <3>3. c.auth => "OPTIONS" \in server.demands
      BY <1>8 DEF Learnt, c
    <3>4. Learnt(server, c, "DESCRIBE")
      BY <1>8, <3>2 DEF Learnt, c
    <3>5. Rest(server, c, "OPTIONS") = FromDescribe(server, c)
      BY <3>2 DEF Rest, Early
    <3>6. Rest(server, c, "DESCRIBE") = IF server.demands = {"DESCRIBE"}
                                       THEN <<"DESCRIBE">> \o FromSetup(server, c)
                                       ELSE FromSetup(server, c)
      BY <1>2, <3>3 DEF Rest, Early
    <3>7. <<"DESCRIBE">> \o Rest(server, c, "DESCRIBE") = Rest(server, c, c.cmd)
      BY <1>3, <1>8, <3>5, <3>6
    <3>8. Goes(d) /\ (c.audio # "no" <=> d.audio # "no")
      <4>1. "DESCRIBE" \in Early \cup {"PLAY"} /\ "DESCRIBE" = Awaited("DESCRIBE")
        BY DEF Early, Awaited
      <4> QED
        BY <1>1, <1>6, <3>1, <3>4, <3>7, <4>1
    <3> QED
      BY <3>8 DEF Goes, c
  <2> QED
    BY <1>5, <2>2, <2>3
<1>9. CASE c.cmd = "DESCRIBE"
  <2>1. Awaited(c.cmd) = "DESCRIBE"
    BY <1>9 DEF Awaited
  <2>2. "OPTIONS" \in server.demands => c.auth
    BY <1>9 DEF Learnt, c
  <2>3. CASE r.answer = "challenge"
    <3>1. d = Challenged(c) /\ "DESCRIBE" \in server.demands
      BY <1>5, <1>9, <2>1, <2>3 DEF Parsed, c, r
    <3>2. CASE c.auth
      BY <1>7, <3>1, <3>2 DEF Challenged, c, Ended
    <3>3. CASE ~c.auth
      <4> DEFINE e == SetAuth(c)
      <4>1. /\ e \in ClientStates /\ e.auth = TRUE /\ e.audio = c.audio
        BY <1>1 DEF SetAuth, ClientStates
      <4>2. d = SayNext(e, "DESCRIBE", "DESCRIBE")
        BY <1>9, <3>1, <3>3 DEF Challenged
      <4> HIDE DEF e
      <4>3. /\ d.at = "handling" /\ d.say.cmd = "DESCRIBE" /\ d.say.then = "DESCRIBE"
            /\ d.auth = TRUE /\ d.audio = c.audio
        BY <1>4, <4>1, <4>2
      <4>4. Rest(server, d, "DESCRIBE") = FromSetup(server, d)
        BY <4>3 DEF Rest, Early
      <4>5. FromSetup(server, d) = FromSetup(server, c)
        BY <4>3, RestSame
      <4>6. Rest(server, c, "DESCRIBE") = <<"DESCRIBE">> \o FromSetup(server, c)
        BY <1>2, <2>2, <3>1, <3>3 DEF Rest, Early
      <4>7. Learnt(server, d, "DESCRIBE")
        BY <1>9, <4>3 DEF Learnt, c
      <4> QED
        BY <1>9, <4>3, <4>4, <4>5, <4>6, <4>7 DEF Awaited, Early, c
    <3> QED
      BY <1>1, <3>2, <3>3
  <2>4. CASE r.answer = "ok"
    <3> DEFINE e == [c EXCEPT !.offered = r.audio]
    <3>1. r.video = TRUE /\ r.audio = server.audio
      BY <1>1, <1>5, <2>1, <2>4
    <3>2. /\ e \in ClientStates /\ e.auth = c.auth /\ e.audio = c.audio /\ e.offered = server.audio
      BY <1>1, <3>1 DEF ClientStates
    <3>3. d = SayNext(e, "SETUP", "SETAUDIO")
      BY <1>9, <2>4, <3>1 DEF Parsed, Described, c, r
    <3> HIDE DEF e
    <3>4. Learnt(server, e, "SETAUDIO")
      BY <1>9, <2>2, <3>2 DEF Learnt, c
    <3>5. server.demands = {"DESCRIBE"} => c.auth
      BY <1>5, <2>1, <2>4
    <3>6. Rest(server, c, "DESCRIBE") = FromSetup(server, c)
      BY <3>5 DEF Rest, Early
    <3>7. <<"SETUP">> \o Rest(server, c, "SETAUDIO") = Rest(server, c, c.cmd)
      BY <1>3, <1>9, <3>6
    <3>8. Goes(d) /\ (c.audio # "no" <=> d.audio # "no")
      <4>1. "SETAUDIO" \in Early \cup {"PLAY"} /\ "SETUP" = Awaited("SETAUDIO")
        BY DEF Early, Awaited
      <4> QED
        BY <1>6, <3>2, <3>3, <3>4, <3>7, <4>1
    <3> QED
      BY <3>8 DEF Goes, c
  <2> QED
    BY <1>5, <2>3, <2>4
<1>10. CASE c.cmd = "SETAUDIO"
  <2>1. Awaited(c.cmd) = "SETUP" /\ r.answer = "ok" /\ r.session = TRUE
    BY <1>2, <1>5, <1>10 DEF Awaited
  <2>2. d = SetUp(c, r) /\ c.offered = server.audio /\ c.audio # "set"
        /\ ("OPTIONS" \in server.demands => c.auth)
    BY <1>10 DEF Parsed, Learnt, c, r
  <2> DEFINE e == [c EXCEPT !.session = @ \/ r.session]
             g == [e EXCEPT !.audio = "set"]
  <2>3. e \in ClientStates /\ e.session = TRUE /\ e.auth = c.auth /\ e.audio = c.audio
    BY <1>1, <2>1 DEF ClientStates
  <2>4. g \in ClientStates /\ g.session = TRUE /\ g.auth = c.auth /\ g.audio = "set"
    BY <2>3 DEF ClientStates
  <2>5. d = IF c.audio = "want" /\ c.offered THEN SayNext(g, "SETUP", "SETUP") ELSE SayNext(e, "PLAY", "PLAY")
    BY <2>2 DEF SetUp
  <2> HIDE DEF e, g
  <2>6. Rest(server, c, c.cmd) = IF WantsSound(server, c) THEN <<"SETUP">> \o <<"PLAY">> ELSE <<"PLAY">>
    BY <1>10 DEF Rest, Early
  <2>7. Rest(server, c, "SETUP") = <<"PLAY">> /\ Rest(server, c, "PLAY") = <<>>
    BY DEF Rest, Early
  <2>8. CASE c.audio = "want" /\ c.offered
    <3>1. WantsSound(server, c)
      BY <2>2, <2>8 DEF WantsSound
    <3>2. <<"SETUP">> \o Rest(server, c, "SETUP") = Rest(server, c, c.cmd)
      BY <2>6, <2>7, <3>1
    <3>3. Learnt(server, g, "SETUP")
      BY <2>2, <2>4 DEF Learnt
    <3>4. Goes(d) /\ (c.audio # "no" <=> d.audio # "no")
      <4>1. "SETUP" \in Early \cup {"PLAY"} /\ "SETUP" = Awaited("SETUP")
        BY DEF Early, Awaited
      <4>2. c.audio # "no" <=> g.audio # "no"
        BY <2>4, <2>8
      <4> QED
        BY <1>6, <2>4, <2>5, <2>8, <3>2, <3>3, <4>1, <4>2
    <3> QED
      BY <3>4 DEF Goes, c
  <2>9. CASE ~(c.audio = "want" /\ c.offered)
    <3>1. ~WantsSound(server, c)
      BY <1>1, <2>2, <2>9 DEF WantsSound
    <3>2. <<"PLAY">> \o Rest(server, c, "PLAY") = Rest(server, c, c.cmd)
      <4>1. <<"PLAY">> \o <<>> = <<"PLAY">>
        OBVIOUS
      <4> QED
        BY <2>6, <2>7, <3>1, <4>1
    <3>3. Learnt(server, e, "PLAY")
      BY <2>2, <2>3 DEF Learnt
    <3>4. Goes(d) /\ (c.audio # "no" <=> d.audio # "no")
      <4>1. "PLAY" \in Early \cup {"PLAY"} /\ "PLAY" = Awaited("PLAY")
        BY DEF Early, Awaited
      <4> QED
        BY <1>6, <2>3, <2>5, <2>9, <3>2, <3>3, <4>1
    <3> QED
      BY <3>4 DEF Goes, c
  <2> QED
    BY <2>8, <2>9
<1>11. CASE c.cmd = "SETUP"
  <2>1. d = SayNext(c, "PLAY", "PLAY")
    BY <1>11 DEF Parsed, c, r
  <2>2. Rest(server, c, c.cmd) = <<"PLAY">> /\ Rest(server, c, "PLAY") = <<>>
    BY <1>11 DEF Rest, Early
  <2>3. <<"PLAY">> \o Rest(server, c, "PLAY") = Rest(server, c, c.cmd)
    <3>1. <<"PLAY">> \o <<>> = <<"PLAY">>
      OBVIOUS
    <3> QED
      BY <2>2, <3>1
  <2>4. Learnt(server, c, "PLAY")
    BY <1>11 DEF Learnt, c
  <2>5. Goes(d) /\ (c.audio # "no" <=> d.audio # "no")
    <3>1. "PLAY" \in Early \cup {"PLAY"} /\ "PLAY" = Awaited("PLAY")
      BY DEF Early, Awaited
    <3> QED
      BY <1>1, <1>6, <2>1, <2>3, <2>4, <3>1
  <2> QED
    BY <2>5 DEF Goes, c
<1> QED
  BY <1>8, <1>9, <1>10, <1>11 DEF Early, c

(* A command at the end of what is on its way.                              *)
LEMMA WithSessionAppend ==
  ASSUME TypeOK, WithSession, NEW x \in CommandsSent, x.cmd = "PLAY" => x.session, up' = Append(up, x)
  PROVE  WithSession'
<1>1. up \in Seq(CommandsSent)
  BY DEF TypeOK
<1>2. /\ Len(up) \in Nat /\ Len(up') = Len(up) + 1 /\ up'[Len(up) + 1] = x
      /\ \A i \in 1..Len(up) : up'[i] = up[i]
      /\ up' \in Seq(CommandsSent)
  BY <1>1, AppendProperties, LenProperties
<1>3. DOMAIN up' = 1..(Len(up) + 1) /\ DOMAIN up = 1..Len(up)
  BY <1>1, <1>2, LenProperties
<1>4. ASSUME NEW i \in DOMAIN up' PROVE up'[i].cmd = "PLAY" => up'[i].session
  <2>1. CASE i = Len(up) + 1
    BY <1>2, <2>1
  <2>2. CASE i \in 1..Len(up)
    BY <1>2, <1>3, <2>2 DEF WithSession
  <2> QED
    BY <1>2, <1>3, <2>1, <2>2
<1> QED
  BY <1>4 DEF WithSession

(* A command that the server takes leaves the others as they were.          *)
LEMMA WithSessionTail ==
  ASSUME TypeOK, WithSession, up # <<>>, up' = Tail(up)
  PROVE  WithSession'
<1>1. up \in Seq(CommandsSent)
  BY DEF TypeOK
<1>2. /\ Len(up) \in Nat /\ Len(up') = Len(up) - 1 /\ up' \in Seq(CommandsSent)
      /\ \A i \in 1..(Len(up) - 1) : up'[i] = up[i + 1]
  BY <1>1, HeadTailProperties, LenProperties
<1>3. DOMAIN up' = 1..(Len(up) - 1) /\ DOMAIN up = 1..Len(up)
  BY <1>1, <1>2, LenProperties
<1>4. ASSUME NEW i \in DOMAIN up' PROVE up'[i].cmd = "PLAY" => up'[i].session
  <2>1. i + 1 \in DOMAIN up /\ up'[i] = up[i + 1]
    BY <1>2, <1>3
  <2> QED
    BY <2>1 DEF WithSession
<1> QED
  BY <1>4 DEF WithSession

(* What has been said is the beginning of the script.                       *)
LEMMA SaidIsPrefix ==
  ASSUME TypeOK, NEW r \in Seq(Commands), said \o r = Script
  PROVE  IsPrefix(said, Script)
BY Prefix DEF TypeOK

(* doRtspParse: the command that is to be said next is the next of the      *)
(* script.                                                                  *)
LEMMA ReplyKeeps ==
  ASSUME TypeOK, InScript, HandleReply
  PROVE  InScript'
<1>1. /\ client.at = "reading" /\ down # <<>> /\ Head(down).kind = "reply"
      /\ client' = Parsed(client, Head(down)) /\ down' = Tail(down)
      /\ server' = server /\ up' = up /\ said' = said
  BY DEF HandleReply
<1>2. Waiting /\ WithSession
  BY <1>1 DEF InScript
<1>3. WithSession'
  BY <1>1, <1>2 DEF WithSession
<1>4. CASE client.cmd \in Late
  <2>1. client' = client
    <3>1. /\ client.cmd # "OPTIONS" /\ client.cmd # "DESCRIBE" /\ client.cmd # "SETAUDIO"
          /\ client.cmd # "SETUP"
      BY <1>4 DEF Late
    <3> QED
      BY <1>1, <3>1 DEF Parsed
  <2>2. client.cmd \notin Early
    BY <1>4 DEF Early, Late
  <2>3. Script' = Script
    BY <1>1, <2>1, ScriptSame
  <2>4. Rest(server, client, client.cmd)' = Rest(server, client, client.cmd)
    BY <1>1, <2>1
  <2>5. Learnt(server, client, client.cmd)'
    BY <1>1, <1>2, <2>1 DEF Waiting
  <2>6. Waiting'
    BY <1>1, <1>2, <2>1, <2>2, <2>3, <2>4, <2>5 DEF Waiting
  <2> QED
    BY <1>1, <1>3, <2>1, <2>6 DEF InScript, Ended
<1>5. CASE client.cmd \in Early
  <2>1. OneUnderWay /\ Learnt(server, client, client.cmd) 
        /\ said \o Rest(server, client, client.cmd) = Script
    BY <1>2, <1>5 DEF Waiting
  <2>2. server.state = "asked" /\ up = <<>> /\ down = <<Answer(server, client)>>
    BY <1>1, <2>1 DEF OneUnderWay
  <2>3. Head(down) = Answer(server, client) /\ down' = <<>>
    BY <1>1, <2>2
  <2>4. server \in ServerStates
    BY DEF TypeOK
  <2>5. client' = Parsed(client, Answer(server, client))
    BY <1>1, <2>3
  <2>6. /\ client.audio # "no" <=> client'.audio # "no"
        /\ \/ client'.at \in Ended
           \/ /\ client'.at = "handling" /\ client'.say.then \in Early \cup {"PLAY"}
              /\ client'.say.cmd = Awaited(client'.say.then)
              /\ Learnt(server, client', client'.say.then)
              /\ <<client'.say.cmd>> \o Rest(server, client', client'.say.then)
                   = Rest(server, client, client.cmd)
    BY <1>1, <1>5, <2>1, <2>4, <2>5, ReplyInScript
  <2>7. Script' = Script
    BY <1>1, <2>6, ScriptSame
  <2>8. CASE client'.at \in Ended
    <3>1. IsPrefix(said, Script)
      BY <2>1, RestIs, SaidIsPrefix
    <3> QED
      BY <1>1, <1>3, <2>7, <2>8, <3>1 DEF InScript, Ended
  <2>9. CASE client'.at = "handling"
    <3>1. client'.at \notin Ended
      BY <2>9 DEF Ended
    <3>2. /\ client'.say.then \in Early \cup {"PLAY"}
          /\ client'.say.cmd = Awaited(client'.say.then)
          /\ Learnt(server', client', client'.say.then)
          /\ said' \o (<<client'.say.cmd>> \o Rest(server', client', client'.say.then)) = Script'
      BY <1>1, <2>1, <2>6, <2>7, <3>1
    <3>3. Handling'
      BY <1>1, <2>2, <2>3, <3>2 DEF Handling
    <3> QED
      BY <1>3, <2>9, <3>1, <3>3 DEF InScript
  <2> QED
    BY <2>6, <2>8, <2>9
<1> QED
  BY <1>2, <1>4, <1>5 DEF Waiting

(* doWriteCmd: what was said grows by the command that was next.            *)
LEMMA SayKeeps ==
  ASSUME TypeOK, InScript, SayCommand
  PROVE  InScript'
<1> DEFINE cmd == client.say.cmd  then == client.say.then
<1>1. /\ client.at = "handling"
      /\ client' = [client EXCEPT !.at = "reading", !.cmd = then, !.say = Nothing]
      /\ up' = Append(up, Command(cmd, client.auth, client.session))
      /\ said' = Append(said, cmd) /\ server' = server /\ down' = down
  BY DEF SayCommand
<1>2. client \in ClientStates /\ cmd \in Commands /\ said \in Seq(Commands)
  BY <1>1 DEF TypeOK
<1>3. /\ client'.at = "reading" /\ client'.cmd = then
      /\ client'.auth = client.auth /\ client'.audio = client.audio /\ client'.session = client.session
      /\ client'.offered = client.offered
  BY <1>1, <1>2 DEF ClientStates
<1>4. /\ server.state = "asked" /\ up = <<>> /\ down = <<>>
      /\ then \in Early \cup {"PLAY"} /\ cmd = Awaited(then)
      /\ Learnt(server, client, then)
      /\ said \o (<<cmd>> \o Rest(server, client, then)) = Script
  BY <1>1 DEF InScript, Handling
<1>5. WithSession
  BY DEF InScript
<1>6. Script' = Script
  BY <1>1, <1>3, ScriptSame
<1> HIDE DEF cmd, then
<1>7. Rest(server', client', then) = Rest(server, client, then)
  <2>1. client'.auth = client.auth /\ (client.audio # "no" <=> client'.audio # "no")
    BY <1>3
  <2>2. server'.demands = server.demands /\ server'.audio = server.audio
    BY <1>1
  <2>3. \A x : Rest(server', client', x) = Rest(server, client, x)
    BY <2>1, <2>2, RestSame
  <2> QED
    BY <2>3
<1>8. Learnt(server', client', then)
  BY <1>1, <1>3, <1>4 DEF Learnt
<1>9. said' \o Rest(server', client', then) = Script'
  <2> DEFINE r == Rest(server, client, then)  o == <<cmd>>
  <2>1. r \in Seq(Commands) /\ o \in Seq(Commands)
    BY <1>2, RestIs, OneMember
  <2>2. said \o o = Append(said, cmd)
    <3>1. said \o Append(<<>>, cmd) = Append(said \o <<>>, cmd)
      <4>1. <<>> \in Seq(Commands)
        OBVIOUS
      <4> QED
        BY <1>2, <4>1, EndOfBoth
    <3>2. said \o <<>> = said
      BY <1>2, ConcatEmptySeq
    <3>3. <<cmd>> = Append(<<>>, cmd)
      OBVIOUS
    <3> QED
      BY <3>1, <3>2, <3>3
  <2>3. said \o (o \o r) = Script
    BY <1>4
  <2> HIDE DEF r, o
  <2>4. (said \o o) \o r = said \o (o \o r)
    BY <1>2, <2>1, ConcatAssociative
  <2>5. Append(said, cmd) \o r = Script
    BY <2>2, <2>3, <2>4
  <2>6. said' = Append(said, cmd) /\ Rest(server', client', then) = r
    BY <1>1, <1>7 DEF r, cmd
  <2> QED
    BY <1>6, <2>5, <2>6
<1>10. up' = <<Command(Awaited(then), client'.auth, client'.session)>>
  <2> DEFINE x == Command(cmd, client.auth, client.session)
  <2>1. up' = Append(<<>>, x)
    BY <1>1, <1>4 DEF cmd
  <2> HIDE DEF x
  <2>2. Append(<<>>, x) = <<x>>
    OBVIOUS
  <2> QED
    BY <1>3, <1>4, <2>1, <2>2 DEF x
<1>11. OneUnderWay'
  BY <1>1, <1>3, <1>4, <1>10 DEF OneUnderWay
<1>12. Waiting'
  <2>1. then \in Early \cup Late
    BY <1>4 DEF Late
  <2> QED
    BY <1>3, <1>8, <1>9, <1>11, <2>1 DEF Waiting
<1>13. WithSession'
  <2> DEFINE x == Command(cmd, client.auth, client.session)
  <2>1. x \in CommandsSent
    BY <1>2, CommandType
  <2>2. x.cmd = cmd /\ x.session = client.session
    BY DEF Command
  <2>3. cmd = "PLAY" => client.session
    <3>1. cmd = "PLAY" => then = "PLAY"
      BY <1>4 DEF Awaited
    <3> QED
      BY <1>4, <3>1 DEF Learnt
  <2>4. up' = Append(up, x)
    BY <1>1 DEF cmd
  <2> HIDE DEF x
  <2> QED
    BY <1>5, <2>1, <2>2, <2>3, <2>4, WithSessionAppend
<1> QED
  BY <1>3, <1>12, <1>13 DEF InScript, Ended

(* The server's answer is the one the client waits for.                     *)
LEMMA AnswerKeeps ==
  ASSUME TypeOK, InScript, ServerReplies, slow' = slow, ~slow
  PROVE  InScript'
<1>1. /\ server.state # "gone" /\ up # <<>> /\ up' = Tail(up)
      /\ client' = client /\ said' = said
  BY DEF ServerReplies
<1>2. WithSession'
  BY <1>1, WithSessionTail DEF InScript
<1> DEFINE c == Head(up)  known == c.auth /\ server.trusts
           s == [server EXCEPT !.session = @ \/ c.cmd = "SETUP",
                   !.state = CASE c.cmd = "PLAY" /\ c.session -> "playing"
                               [] c.cmd = "TEARDOWN" -> "gone" [] OTHER -> @]
<1>3. \/ /\ c.cmd \in server.demands /\ ~known
         /\ down' = Append(down, Reply("challenge", FALSE, FALSE, FALSE)) /\ server' = server
      \/ /\ c.cmd \notin server.demands \/ known
         /\ down' = Append(down, Reply("ok", c.cmd = "SETUP", c.cmd = "DESCRIBE",
                                       c.cmd = "DESCRIBE" /\ server.audio))
         /\ server' = s
  BY DEF ServerReplies
<1>4. server \in ServerStates
  BY DEF TypeOK
<1>5. /\ s.demands = server.demands /\ s.audio = server.audio /\ s.trusts = server.trusts
      /\ c.cmd \notin {"PLAY", "TEARDOWN"} => s.state = server.state
  BY <1>4 DEF ServerStates
<1> HIDE DEF s
<1>6. /\ server'.demands = server.demands /\ server'.audio = server.audio
      /\ server'.trusts = server.trusts
  BY <1>3, <1>5
<1>7. Script' = Script /\ \A cmd : Rest(server', client', cmd) = Rest(server, client, cmd)
  <2>1. client'.auth = client.auth /\ (client.audio # "no" <=> client'.audio # "no")
    BY <1>1
  <2> QED
    BY <1>6, <2>1, RestSame, ScriptSame
<1>8. client.at # "handling"
  BY <1>1 DEF InScript, Handling
<1>9. CASE client.at = "reading"
  <2>1. Waiting
    BY <1>9 DEF InScript
  <2>2. Learnt(server', client', client'.cmd) /\ said' \o Rest(server', client', client'.cmd) = Script'
    BY <1>1, <1>6, <1>7, <2>1 DEF Waiting, Learnt
  <2>3. ASSUME client.cmd \in Early PROVE OneUnderWay'
    <3> DEFINE x == Command(Awaited(client.cmd), client.auth, client.session)
    <3>1. server.state = "asked" /\ up = <<x>> /\ down = <<>>
      BY <1>1, <2>1, <2>3 DEF Waiting, OneUnderWay
    <3>2. x.cmd = Awaited(client.cmd) /\ x.auth = client.auth
      BY DEF Command
    <3> HIDE DEF x
    <3>3. c = x /\ up' = <<>>
      BY <1>1, <3>1
    <3>4. c.cmd \notin {"PLAY", "TEARDOWN"}
      BY <2>3, <3>2, <3>3 DEF Awaited, Early
    <3>5. server'.state = "asked"
      BY <1>3, <1>5, <3>1, <3>4
    <3>6. down' = Append(<<>>, Answer(server, client))
      <4>1. known = (client.auth /\ server.trusts)
        BY <3>2, <3>3
      <4>2. c.cmd = Awaited(client.cmd)
        BY <3>2, <3>3
      <4> HIDE DEF c, known
      <4> QED
        BY <1>3, <3>1, <4>1, <4>2 DEF Answer
    <3>7. Answer(server', client') = Answer(server, client)
      BY <1>1, <1>6 DEF Answer
    <3>8. down' = <<Answer(server', client')>>
      <4> DEFINE a == Answer(server, client)
      <4>1. down' = Append(<<>>, a) /\ Answer(server', client') = a
        BY <3>6, <3>7
      <4> HIDE DEF a
      <4>2. Append(<<>>, a) = <<a>>
        OBVIOUS
      <4> QED
        BY <4>1, <4>2
    <3> QED
      BY <3>3, <3>5, <3>8 DEF OneUnderWay
  <2>4. Waiting'
    BY <1>1, <2>1, <2>2, <2>3 DEF Waiting
  <2> QED
    BY <1>1, <1>2, <1>9, <2>4 DEF InScript, Ended
<1>10. CASE client.at \in Ended
  BY <1>1, <1>2, <1>7, <1>10 DEF InScript, Ended
<1> QED
  BY <1>8, <1>9, <1>10 DEF TypeOK, ClientStates

(* A packet, and the keep-alive it may bring, are outside the script.       *)
LEMMA PacketKeeps ==
  ASSUME TypeOK, InScript, HandlePacket
  PROVE  InScript'
<1>1. /\ client.at = "reading" /\ down # <<>> /\ Head(down).kind # "reply"
      /\ server' = server /\ said' = said
      /\ \/ client' = [client EXCEPT !.at = "returned"] /\ up' = up
         \/ client' = client /\ up' = up
         \/ /\ client' = [client EXCEPT !.cmd = "GET_PARAMETER"]
            /\ up' = Append(up, Command("GET_PARAMETER", client.auth, client.session))
  BY DEF HandlePacket
<1>2. Waiting /\ WithSession
  BY <1>1 DEF InScript
<1>3. client \in ClientStates
  BY DEF TypeOK
<1>4. client.cmd \in Late
  <2>1. ASSUME client.cmd \in Early PROVE FALSE
    <3>1. down = <<Answer(server, client)>>
      BY <1>1, <1>2, <2>1 DEF Waiting, OneUnderWay
    <3>2. Head(down) = Answer(server, client)
      BY <3>1
    <3>3. Answer(server, client).kind = "reply"
      BY DEF Answer, Reply
    <3> QED
      BY <1>1, <3>2, <3>3
  <2> QED
    BY <1>2, <2>1 DEF Waiting
<1>5. /\ client'.auth = client.auth /\ client'.audio = client.audio /\ client'.session = client.session
      /\ client'.offered = client.offered
      /\ client'.cmd \in {client.cmd, "GET_PARAMETER"} /\ client'.at \in {"reading", "returned"}
  BY <1>1, <1>3 DEF ClientStates
<1>6. client'.cmd \in Late /\ client'.cmd \notin Early /\ client.cmd \notin Early
  BY <1>4, <1>5 DEF Late, Early
<1>7. Script' = Script
  BY <1>1, <1>5, ScriptSame
<1>8. Rest(server, client, client.cmd) = <<>> /\ Rest(server', client', client'.cmd) = <<>>
  BY <1>6 DEF Rest, Early
<1>9. said \o <<>> = Script
  BY <1>2, <1>8 DEF Waiting
<1>10. Learnt(server', client', client'.cmd)
  BY <1>1, <1>2, <1>4, <1>5, <1>6 DEF Learnt, Waiting, Late
<1>11. Waiting'
  BY <1>1, <1>6, <1>7, <1>8, <1>9, <1>10 DEF Waiting
<1>12. IsPrefix(said', Script')
  <2>1. <<>> \in Seq(Commands)
    OBVIOUS
  <2>2. IsPrefix(said, Script)
    BY <1>9, <2>1, SaidIsPrefix
  <2> QED
    BY <1>1, <1>7, <2>2
<1>13. WithSession'
  <2>1. CASE up' = up
    BY <1>2, <2>1 DEF WithSession
  <2>2. CASE up' = Append(up, Command("GET_PARAMETER", client.auth, client.session))
    <3> DEFINE x == Command("GET_PARAMETER", client.auth, client.session)
    <3>1. x \in CommandsSent /\ x.cmd = "GET_PARAMETER"
      BY CommandType DEF Command, Commands
    <3> HIDE DEF x
    <3> QED
      BY <1>2, <2>2, <3>1, WithSessionAppend DEF x
  <2> QED
    BY <1>1, <2>1, <2>2
<1> QED
  BY <1>5, <1>11, <1>12, <1>13 DEF InScript, Ended

(* The invariant is inductive.                                              *)
LEMMA HStep == HInv /\ [Next]_vars => HInv'
<1> SUFFICES ASSUME HInv, [Next]_vars PROVE HInv'
  OBVIOUS
<1>1. TypeOK /\ TypeOK'
  BY TypeStep DEF HInv
<1>2. SUFFICES ASSUME Undisturbed' PROVE InScript'
  BY <1>1 DEF HInv
<1>3. ASSUME said' = said, slow' = slow PROVE InScript
  BY <1>2, <1>3 DEF HInv, Undisturbed
<1>4. CASE ServerReplies
  <2>1. ~slow' /\ said' = said
    BY <1>2, <1>4 DEF Undisturbed, ServerReplies
  <2>2. slow' = slow
    BY <1>4, <2>1 DEF ServerReplies
  <2> QED
    BY <1>1, <1>3, <1>4, <2>1, <2>2, AnswerKeeps
<1>5. CASE ServerHangsUp
  BY <1>2, <1>5 DEF ServerHangsUp, Undisturbed
<1>6. CASE ServerSends
  <2>1. /\ server.state = "playing"
        /\ UNCHANGED <<client, up, said, slow>>
    BY <1>6 DEF ServerSends
  <2>2. InScript
    BY <1>3, <2>1
  <2>3. server'.demands = server.demands /\ server'.audio = server.audio
    BY <1>1, <1>6 DEF ServerSends, TypeOK, ServerStates
  <2>4. Script' = Script /\ \A cmd : Rest(server', client', cmd) = Rest(server, client, cmd)
    <3>1. client'.auth = client.auth /\ (client.audio # "no" <=> client'.audio # "no")
      BY <2>1
    <3> QED
      BY <2>3, <3>1, RestSame, ScriptSame
  <2>5. client.at # "handling"
    BY <2>1, <2>2 DEF InScript, Handling
  <2>6. ASSUME client.at = "reading" PROVE Waiting'
    <3>1. client.cmd \notin Early /\ Waiting
      BY <2>1, <2>2, <2>6 DEF InScript, Waiting, OneUnderWay
    <3> QED
      BY <2>1, <2>3, <2>4, <3>1 DEF Waiting, Learnt
  <2> QED
    BY <2>1, <2>2, <2>4, <2>5, <2>6 DEF InScript, WithSession
<1>7. CASE HandleReply
  BY <1>1, <1>3, <1>7, ReplyKeeps DEF HandleReply
<1>8. CASE SayCommand
  <2>1. said' = Append(said, client.say.cmd) /\ slow' = slow
    BY <1>8 DEF SayCommand
  <2>2. Undisturbed
    <3>1. client.say.cmd \in Commands /\ said \in Seq(Commands) 
      BY <1>1, <1>8 DEF SayCommand, TypeOK
    <3>2. /\ DOMAIN said = 1..Len(said) /\ Len(said) \in Nat /\ Len(said') = Len(said) + 1
          /\ \A i \in 1..Len(said) : said'[i] = said[i]
          /\ said' \in Seq(Commands)
      BY <2>1, <3>1, AppendProperties, LenProperties
    <3>3. DOMAIN said' = 1..(Len(said) + 1)
      BY <3>2, LenProperties
    <3>4. \A i \in DOMAIN said : i \in DOMAIN said' /\ said'[i] = said[i]
      BY <3>2, <3>3
    <3>5. ToSet(said) \subseteq ToSet(said')
      BY <3>4 DEF ToSet
    <3> QED
      BY <1>2, <2>1, <3>5 DEF Undisturbed
  <2> QED
    BY <1>1, <1>8, <2>2, SayKeeps DEF HInv
<1>9. CASE Stop
  <2>1. said' = Append(said, "TEARDOWN") /\ said \in Seq(Commands)
    BY <1>1, <1>9 DEF Stop, TypeOK
  <2>2. "TEARDOWN" \in Commands
    BY DEF Commands
  <2>3. Len(said) + 1 \in DOMAIN said' /\ said'[Len(said) + 1] = "TEARDOWN"
    BY <2>1, <2>2, AppendProperties, LenProperties
  <2>4. "TEARDOWN" \in ToSet(said')
    BY <2>3 DEF ToSet
  <2> QED
    BY <1>2, <2>4 DEF Undisturbed
<1>10. CASE ReadThrows
  <2>1. /\ client.at = "reading" /\ client' = [client EXCEPT !.at = "thrown"]
        /\ UNCHANGED <<server, up, down, said>>
        /\ slow' = (slow \/ up # <<>> \/ server.state # "asked")
    BY <1>10 DEF ReadThrows
  <2>2. ~slow /\ Undisturbed
    BY <1>2, <2>1 DEF Undisturbed
  <2>3. Waiting /\ WithSession
    BY <2>1, <2>2 DEF HInv, InScript
  <2>4. client'.at = "thrown" /\ client'.audio = client.audio
    BY <1>1, <2>1 DEF TypeOK, ClientStates
  <2>5. Script' = Script
    BY <2>1, <2>4, ScriptSame
  <2>6. IsPrefix(said, Script)
    BY <1>1, <2>3, RestIs, SaidIsPrefix DEF Waiting
  <2> QED
    BY <2>1, <2>3, <2>4, <2>5, <2>6 DEF InScript, Ended, WithSession
<1>11. CASE HandlePacket
  BY <1>1, <1>3, <1>11, PacketKeeps DEF HandlePacket
<1>12. CASE UNCHANGED vars
  <2>1. UNCHANGED <<server, client, up, down, said, slow>>
    BY <1>12 DEF vars
  <2>2. InScript
    BY <1>3, <2>1
  <2>3. Script' = Script
    BY <2>1, ScriptSame
  <2> QED
    BY <2>1, <2>2, <2>3 DEF InScript, Waiting, Handling, OneUnderWay, WithSession
<1> QED
  BY <1>4, <1>5, <1>6, <1>7, <1>8, <1>9, <1>10, <1>11, <1>12 DEF Next, Server, Client

-----------------------------------------------------------------------------
(* What was said so far is a prefix of the script.                          *)
LEMMA InScriptOK == HInv => Handshake
<1> SUFFICES ASSUME HInv, Undisturbed
             PROVE  IsPrefix(said, Script) /\ \A i \in DOMAIN up : up[i].cmd = "PLAY" => up[i].session
  BY DEF Handshake, Undisturbed
<1>1. TypeOK /\ InScript
  BY DEF HInv
<1>2. WithSession
  BY <1>1 DEF InScript
<1>3. IsPrefix(said, Script)
  <2>1. CASE client.at = "reading"
    BY <1>1, <2>1, RestIs, SaidIsPrefix DEF InScript, Waiting
  <2>2. CASE client.at = "handling"
    <3> DEFINE r == Rest(server, client, client.say.then)  o == <<client.say.cmd>>
    <3>1. said \o (o \o r) = Script /\ client.say.cmd \in Commands
      BY <1>1, <2>2 DEF InScript, Handling, TypeOK
    <3>2. o \o r \in Seq(Commands)
      <4>1. o \in Seq(Commands) /\ r \in Seq(Commands)
        BY <3>1, RestIs, OneMember
      <4> HIDE DEF o, r
      <4> QED
        BY <4>1, ConcatProperties
    <3> QED
      BY <1>1, <3>1, <3>2, SaidIsPrefix
  <2>3. CASE client.at \in Ended
    BY <1>1, <2>3 DEF InScript
  <2> QED
    BY <1>1, <2>1, <2>2, <2>3 DEF TypeOK, ClientStates
<1> QED
  BY <1>2, <1>3 DEF WithSession

(* THEOREM.  The server, the client, what is under way between them and     *)
(* what the user was given are of their type, for any bounds: a command     *)
(* that doRtspParse leaves to be said is one that doWriteCmd knows.         *)
THEOREM RtspTypeCorrect == Spec => []TypeOK
BY InitType, TypeStep, PTL DEF Spec

(* THEOREM.  For every server - whichever commands of Demands it wants      *)
(* credentials for, with sound or without - and any number of packets among *)
(* the replies and of keep-alives, Play says the commands of the handshake  *)
(* in order, each once or, challenged, twice, and asks to PLAY a session    *)
(* the server gave it; unless Stop is called or the server refuses, hangs   *)
(* up or is too slow (doRtspParse, checkAuthorized, doWriteCmd).            *)
THEOREM ScriptFollowed == Spec => []Handshake
<1>1. Init => HInv
  BY InitType, HInit DEF HInv
<1> QED
  BY <1>1, HStep, InScriptOK, PTL DEF Spec

(* THEOREM.  For frames of any number of packets, any of which may be lost  *)
(* on the way, what the user was given, followed by what dbuf_ holds, is    *)
(* what arrived, in order and once; and two frames of the server are put    *)
(* into one only if the end of the former did not come, as Decode knows an  *)
(* end (Packet::Decode, Play, Buffer::Reset; rtp.hpp 68-71, 99-103).        *)
THEOREM NothingLost == Spec => []MediaConserved
<1>1. Init => PacketsConserved /\ FramesApart /\ OrderInv /\ TypeOK
  BY InitType, MediaInit, OrderInit
<1>2. TypeOK /\ PacketsConserved /\ FramesApart /\ OrderInv /\ [Next]_vars
        => (TypeOK /\ PacketsConserved /\ FramesApart /\ OrderInv)'
  BY TypeStep, MediaStep, OrderStep
<1>3. MediaConserved <=> PacketsConserved /\ FramesApart
  BY DEF MediaConserved
<1> QED
  BY <1>1, <1>2, <1>3, PTL DEF Spec
-----------------------------------------------------------------------------
(* Where the pieces of a file begin                                         *)

(* What holds of 0 and, with k, of k + 1, holds up to n.                    *)
LEMMA UpTo ==
  ASSUME NEW n \in Nat, NEW T, 0 \in T, \A k \in 0..n : k < n /\ k \in T => k + 1 \in T
  PROVE  \A k \in 0..n : k \in T
<1> DEFINE U == {k \in Nat : k <= n /\ k \notin T}
<1>1. SUFFICES ASSUME U # {} PROVE FALSE
  <2>1. ASSUME U = {} PROVE \A k \in 0..n : k \in T
    BY <2>1
  <2> QED
    BY <2>1
<1>2. PICK k \in U : \A i \in U : k <= i
  BY <1>1, LeastNat
<1>3. k \in Nat /\ k # 0 /\ k <= n /\ k \notin T
  BY <1>2
<1>4. k - 1 \in Nat /\ k - 1 < n /\ k - 1 \in 0..n /\ (k - 1) + 1 = k
  BY <1>3
<1>5. k - 1 \notin U
  <2> HIDE DEF U
  <2> QED
    BY <1>2, <1>4
<1>6. k - 1 \in T
  BY <1>4, <1>5
<1> QED
  BY <1>3, <1>4, <1>6

(* A sequence of pieces whose lengths are known.                            *)
Measured(file) == Len(file) \in Nat /\ \A i \in 1..Len(file) : file[i].own \in Nat

(* p says where the pieces begin, and where the last one ends.              *)
Places(p, file) ==
  /\ p \in Seq(Nat) /\ Len(p) = Len(file) + 1 /\ p[1] = 0
  /\ \A i \in 1..Len(file) : p[i + 1] = p[i] + file[i].own

Upto(f, file) ==
  f = [n \in 0..Len(file) |->
         IF n = 0 THEN <<0>> ELSE LET p == f[n - 1] IN Append(p, p[n] + file[n].own)]

LEMMA UptoAt ==
  ASSUME NEW file, Measured(file), NEW f, Upto(f, file)
  PROVE  /\ f[0] = <<0>>
         /\ \A n \in 1..Len(file) : f[n] = Append(f[n - 1], f[n - 1][n] + file[n].own)
<1> DEFINE v(n) == IF n = 0 THEN <<0>> ELSE Append(f[n - 1], f[n - 1][n] + file[n].own)
<1>1. f = [n \in 0..Len(file) |-> v(n)]
  BY DEF Upto
<1> HIDE DEF v
<1>2. \A n \in 0..Len(file) : f[n] = v(n)
  BY <1>1
<1>3. 0 \in 0..Len(file) /\ \A n \in 1..Len(file) : n \in 0..Len(file) /\ n # 0
  BY DEF Measured
<1> QED
  BY <1>2, <1>3 DEF v

LEMMA UptoPlaces ==
  ASSUME NEW file, Measured(file), NEW f, Upto(f, file)
  PROVE  Places(f[Len(file)], file)
<1> DEFINE Good(n) == /\ f[n] \in Seq(Nat) /\ Len(f[n]) = n + 1 /\ f[n][1] = 0
                      /\ \A i \in 1..n : f[n][i + 1] = f[n][i] + file[i].own
           T == {n \in Nat : Good(n)}
<1>1. Len(file) \in Nat
  BY DEF Measured
<1>2. 0 \in T
  <2>1. f[0] = <<0>>
    BY UptoAt
  <2>2. <<0>> \in Seq(Nat) /\ Len(<<0>>) = 1 /\ <<0>>[1] = 0
    OBVIOUS
  <2>3. f[0] \in Seq(Nat) /\ Len(f[0]) = 0 + 1 /\ f[0][1] = 0
    BY <2>1, <2>2
  <2>4. \A i \in 1..0 : FALSE
    OBVIOUS
  <2> QED
    BY <2>3, <2>4
<1>3. ASSUME NEW n \in 0..Len(file), n < Len(file), n \in T PROVE n + 1 \in T
  <2> DEFINE x == f[n][n + 1] + file[n + 1].own
             p == f[n]
  <2>1. Good(n)
    BY <1>3
  <2>2. n + 1 \in 1..Len(file) /\ (n + 1) - 1 = n /\ n + 1 \in 1..(n + 1) /\ n + 1 \in Nat
    BY <1>1, <1>3
  <2>3. f[n + 1] = Append(p, x)
    BY <2>2, UptoAt
  <2>4. file[n + 1].own \in Nat
    BY <2>2 DEF Measured
  <2>5. p[n + 1] \in Nat
    BY <2>1, <2>2, ElementOfSeq
  <2>6. x \in Nat
    BY <2>4, <2>5
  <2>7. p \in Seq(Nat) /\ Len(p) = n + 1 /\ p[1] = 0 /\ \A i \in 1..n : p[i + 1] = p[i] + file[i].own
    BY <2>1
  <2>8. x = p[n + 1] + file[n + 1].own
    OBVIOUS
  <2> HIDE DEF x, p
  <2>9. /\ Append(p, x) \in Seq(Nat) /\ Len(Append(p, x)) = (n + 1) + 1
        /\ Append(p, x)[(n + 1) + 1] = x /\ \A i \in 1..(n + 1) : Append(p, x)[i] = p[i]
    BY <2>6, <2>7, AppendProperties
  <2> DEFINE q == Append(p, x)
  <2>10. q \in Seq(Nat) /\ Len(q) = (n + 1) + 1 /\ q[(n + 1) + 1] = x /\ \A i \in 1..(n + 1) : q[i] = p[i]
    BY <2>9
  <2> HIDE DEF q
  <2>11. \A i \in 1..(n + 1) : q[i + 1] = q[i] + file[i].own
    <3>1. ASSUME NEW i \in 1..n PROVE q[i + 1] = q[i] + file[i].own
      <4>1. i + 1 \in 1..(n + 1) /\ i \in 1..(n + 1)
        BY <1>3
      <4> QED
        BY <2>7, <2>10, <4>1
    <3>2. q[(n + 1) + 1] = q[n + 1] + file[n + 1].own
      BY <2>2, <2>8, <2>10
    <3>3. \A i \in 1..(n + 1) : i = n + 1 \/ i \in 1..n
      BY <1>3
    <3> QED
      BY <3>1, <3>2, <3>3
  <2>12. q[1] = 0
    BY <1>3, <2>7, <2>10
  <2>13. f[n + 1] = q
    BY <2>3 DEF q
  <2>14. Good(n + 1)
    BY <2>10, <2>11, <2>12, <2>13
  <2> QED
    BY <2>2, <2>14
<1>4. Len(file) \in T
  <2> HIDE DEF T
  <2>1. \A k \in 0..Len(file) : k < Len(file) /\ k \in T => k + 1 \in T
    BY <1>3
  <2>2. \A k \in 0..Len(file) : k \in T
    BY <1>1, <1>2, <2>1, UpTo
  <2>3. Len(file) \in 0..Len(file)
    BY <1>1
  <2> QED
    BY <2>2, <2>3
<1> QED
  BY <1>4 DEF Places

(* Positions is defined, and says where the pieces begin.                   *)
LEMMA PositionsPlace ==
  ASSUME NEW file, Measured(file)
  PROVE  Places(Positions(file), file)
<1> DEFINE n == Len(file)
           next(i, p) == IF i \in 1..Len(p) THEN Append(p, p[i] + file[i].own) ELSE p
           step == [x \in (1..n) \X Seq(Nat) |-> next(x[1], x[2])]
<1>1. n \in Nat /\ <<0>> \in Seq(Nat) /\ \A i \in 1..n : file[i].own \in Nat
  BY DEF Measured
<1>2. ASSUME NEW i \in 1..n, NEW p \in Seq(Nat) PROVE next(i, p) \in Seq(Nat)
  <2>1. CASE i \in 1..Len(p)
    <3>1. p[i] \in Nat
      BY <2>1, ElementOfSeq
    <3>2. p[i] + file[i].own \in Nat
      BY <1>1, <3>1
    <3> QED
      BY <2>1, <3>2, AppendProperties
  <2> QED
    BY <2>1
<1> HIDE DEF next, n
<1>3. /\ step \in [(1..n) \X Seq(Nat) -> Seq(Nat)]
      /\ \A i \in 1..n, p \in Seq(Nat) : step[<<i, p>>] = next(i, p)
  BY <1>2
<1> HIDE DEF step
<1>4. PICK f \in [0..n -> Seq(Nat)] : Recurs(f, n, <<0>>, step)
  BY <1>1, <1>3, Recursion
<1>5. f[0] = <<0>> /\ \A i \in 1..n : f[i] = next(i, f[i - 1])
  <2> DEFINE v(i) == IF i = 0 THEN <<0>> ELSE step[<<i, f[i - 1]>>]
  <2>1. f = [i \in 0..n |-> v(i)]
    BY <1>4 DEF Recurs
  <2> HIDE DEF v
  <2>2. \A i \in 0..n : f[i] = v(i)
    BY <2>1
  <2>3. ASSUME NEW i \in 1..n PROVE v(i) = next(i, f[i - 1])
    <3>1. i # 0 /\ i - 1 \in 0..n
      BY <1>1
    <3>2. f[i - 1] \in Seq(Nat)
      BY <3>1
    <3> QED
      BY <1>3, <3>1, <3>2 DEF v
  <2>4. v(0) = <<0>>
    BY DEF v
  <2> QED
    BY <1>1, <2>2, <2>3, <2>4
<1>6. \A i \in 0..n : Len(f[i]) = i + 1
  <2> DEFINE T == {i \in Nat : i <= n => Len(f[i]) = i + 1}
  <2>1. 0 \in T
    <3>1. Len(<<0>>) = 0 + 1
      OBVIOUS
    <3>2. Len(f[0]) = 0 + 1
      BY <1>5, <3>1
    <3> QED
      BY <3>2
  <2>2. ASSUME NEW k \in 0..n, k < n, k \in T PROVE k + 1 \in T
    <3>1. k + 1 \in 1..n /\ (k + 1) - 1 = k /\ Len(f[k]) = k + 1 /\ f[k] \in Seq(Nat) /\ k + 1 \in Nat
      BY <1>1, <1>4, <2>2
    <3>2. f[k + 1] = next(k + 1, f[k])
      <4>1. f[k + 1] = next(k + 1, f[(k + 1) - 1])
        BY <1>5, <3>1
      <4> QED
        BY <3>1, <4>1
    <3>a. next(k + 1, f[k]) = Append(f[k], f[k][k + 1] + file[k + 1].own)
      <4>1. k + 1 \in 1..Len(f[k])
        BY <3>1
      <4> QED
        BY <4>1 DEF next
    <3>3. f[k][k + 1] \in Nat /\ file[k + 1].own \in Nat
      BY <1>1, <3>1, ElementOfSeq
    <3>4. f[k][k + 1] + file[k + 1].own \in Nat
      BY <3>3
    <3>5. Len(f[k + 1]) = (k + 1) + 1
      BY <3>1, <3>2, <3>a, <3>4, AppendProperties
    <3> QED
      BY <3>1, <3>5
  <2> HIDE DEF T
  <2>3. \A k \in 0..n : k \in T
    BY <1>1, <2>1, <2>2, UpTo
  <2> QED
    BY <1>1, <2>3 DEF T
<1> DEFINE u(i) == IF i = 0 THEN <<0>> ELSE Append(f[i - 1], f[i - 1][i] + file[i].own)
<1>7. ASSUME NEW i \in 0..n PROVE f[i] = u(i)
  <2>1. CASE i # 0
    <3>1. i \in 1..n /\ i - 1 \in 0..n /\ Len(f[i - 1]) = (i - 1) + 1 /\ i \in 1..Len(f[i - 1])
      BY <1>1, <1>6, <2>1
    <3> QED
      BY <1>5, <2>1, <3>1 DEF next
  <2> QED
    BY <1>5, <2>1
<1>8. f = [i \in 0..n |-> f[i]]
  BY <1>4
<1> HIDE DEF u
<1>9. f = [i \in 0..n |-> u(i)]
  BY <1>7, <1>8
<1>10. Upto(f, file)
  BY <1>9 DEF Upto, u, n
<1> DEFINE some == CHOOSE g : Upto(g, file)
<1>11. Positions(file) = some[Len(file)]
  BY DEF Positions, Upto
<1>12. Upto(some, file)
  BY <1>10
<1> HIDE DEF some
<1> QED
  BY <1>11, <1>12, UptoPlaces

(* Files that begin alike have their pieces in the same places there.       *)
LEMMA SamePlaces ==
  ASSUME NEW a, Measured(a), NEW b, Measured(b), NEW m \in Nat, m <= Len(a), m <= Len(b),
         \A i \in 1..m : a[i].own = b[i].own
  PROVE  \A i \in 1..(m + 1) : Positions(a)[i] = Positions(b)[i]
<1> DEFINE p == Positions(a)  q == Positions(b)
           T == {k \in Nat : p[k + 1] = q[k + 1]}
<1>1. /\ p[1] = 0 /\ \A i \in 1..Len(a) : p[i + 1] = p[i] + a[i].own
      /\ q[1] = 0 /\ \A i \in 1..Len(b) : q[i + 1] = q[i] + b[i].own
  BY PositionsPlace DEF Places
<1>2. Len(a) \in Nat /\ Len(b) \in Nat
  BY DEF Measured
<1> HIDE DEF p, q
<1>3. 0 \in T
  BY <1>1
<1>4. ASSUME NEW k \in 0..m, k < m, k \in T PROVE k + 1 \in T
  <2>1. k + 1 \in 1..Len(a) /\ k + 1 \in 1..Len(b) /\ k + 1 \in 1..m /\ k + 1 \in Nat
    BY <1>2, <1>4
  <2>2. p[(k + 1) + 1] = p[k + 1] + a[k + 1].own /\ q[(k + 1) + 1] = q[k + 1] + b[k + 1].own
    BY <1>1, <2>1
  <2>3. a[k + 1].own = b[k + 1].own /\ p[k + 1] = q[k + 1]
    BY <1>4, <2>1
  <2> QED
    BY <2>1, <2>2, <2>3
<1>5. \A k \in 0..m : k \in T
  <2> HIDE DEF T
  <2> QED
    BY <1>3, <1>4, UpTo
<1>6. ASSUME NEW i \in 1..(m + 1) PROVE p[i] = q[i]
  <2>1. i - 1 \in 0..m /\ (i - 1) + 1 = i
    OBVIOUS
  <2>2. i - 1 \in T
    BY <1>5, <2>1
  <2> QED
    BY <2>1, <2>2
<1> QED
  BY <1>6 DEF p, q


-----------------------------------------------------------------------------
(* Ranks                                                                    *)

(* The rank of an element says how many there are up to it, and the largest *)
(* has that of the set's size.                                              *)
LEMMA NthRange ==
  ASSUME NEW S, S \subseteq Nat, IsFiniteSet(S), NEW i \in S
  PROVE  /\ Nth(S, i) \in 1..Cardinality(S)
         /\ Nth(S, i) = Cardinality(S) => \A j \in S : j <= i
<1> DEFINE U == {j \in S : j <= i}
<1>1. U \in SUBSET S /\ i \in U
  OBVIOUS
<1> HIDE DEF U
<1>2. IsFiniteSet(U) /\ Cardinality(U) <= Cardinality(S) /\ (Cardinality(S) = Cardinality(U) => S = U)
  BY <1>1, FS_Subset
<1>3. Cardinality(U) \in Nat /\ Cardinality(S) \in Nat
  BY <1>2, FS_CardinalityType
<1>4. Cardinality(U) # 0
  BY <1>1, <1>2, FS_EmptySet
<1>5. Nth(S, i) = Cardinality(U)
  BY DEF Nth, U
<1>6. S = U => \A j \in S : j <= i
  BY DEF U
<1> QED
  BY <1>2, <1>3, <1>4, <1>5, <1>6

(* A new largest element gets the next rank, and the others keep theirs.    *)
LEMMA NthAdded ==
  ASSUME NEW S, S \subseteq Nat, IsFiniteSet(S), NEW m \in Nat, \A i \in S : i < m
  PROVE  /\ IsFiniteSet(S \cup {m}) /\ Cardinality(S \cup {m}) = Cardinality(S) + 1
         /\ Nth(S \cup {m}, m) = Cardinality(S) + 1
         /\ \A i \in S : Nth(S \cup {m}, i) = Nth(S, i)
<1>1. m \notin S
  OBVIOUS
<1>2. IsFiniteSet(S \cup {m}) /\ Cardinality(S \cup {m}) = Cardinality(S) + 1
  BY <1>1, FS_AddElement
<1>3. Nth(S \cup {m}, m) = Cardinality(S) + 1
  <2>1. {j \in S \cup {m} : j <= m} = S \cup {m}
    <3>1. \A j \in S \cup {m} : j <= m
      OBVIOUS
    <3> QED
      BY <3>1, Zenon
  <2> QED
    BY <1>2, <2>1 DEF Nth
<1>4. ASSUME NEW i \in S PROVE Nth(S \cup {m}, i) = Nth(S, i)
  <2>1. i < m /\ i \in Nat
    OBVIOUS
  <2>2. ~(m <= i)
    BY <2>1
  <2>3. {j \in S \cup {m} : j <= i} = {j \in S : j <= i}
    BY <2>2
  <2> QED
    BY <2>3 DEF Nth
<1> QED
  BY <1>2, <1>3, <1>4

LEMMA MaxIs ==
  ASSUME NEW S, S \subseteq Nat, NEW m \in S, \A i \in S : i <= m
  PROVE  Max(S) = m
<1>1. \A y \in S : m >= y
  OBVIOUS
<1>2. Max(S) \in S /\ \A y \in S : Max(S) >= y
  BY <1>1, Zenon DEF Max
<1>3. Max(S) >= m /\ m >= Max(S) /\ m \in Nat /\ Max(S) \in Nat
  BY <1>1, <1>2
<1> QED
  BY <1>3

LEMMA MinIs ==
  ASSUME NEW S, S \subseteq Nat, NEW m \in S, \A i \in S : m <= i
  PROVE  Min(S) = m
<1>1. Min(S) \in S /\ \A y \in S : Min(S) <= y
  BY Zenon DEF Min
<1>2. Min(S) <= m /\ m <= Min(S) /\ m \in Nat /\ Min(S) \in Nat
  BY <1>1
<1> QED
  BY <1>2

(* Numbers have a least one.                                                *)
LEMMA MinLeast ==
  ASSUME NEW S, S \subseteq Nat, S # {}
  PROVE  Min(S) \in S /\ \A i \in S : Min(S) <= i
<1>1. PICK m \in S : \A i \in S : m <= i
  BY LeastNat
<1> QED
  BY <1>1, Zenon DEF Min

(* What is added at the end does not change the least, and is the largest.  *)
LEMMA ExtremesAdded ==
  ASSUME NEW S, S \subseteq Nat, NEW m \in Nat, \A i \in S : i < m
  PROVE  /\ Max(S \cup {m}) = m
         /\ Min(S \cup {m}) = IF S = {} THEN m ELSE Min(S)
<1>1. Max(S \cup {m}) = m
  <2>1. S \cup {m} \subseteq Nat /\ m \in S \cup {m} /\ \A i \in S \cup {m} : i <= m
    OBVIOUS
  <2> QED
    BY <2>1, MaxIs
<1>2. CASE S = {}
  <2>1. S \cup {m} \subseteq Nat /\ m \in S \cup {m} /\ \A i \in S \cup {m} : m <= i
    BY <1>2
  <2>2. Min(S \cup {m}) = m
    BY <2>1, MinIs
  <2> QED
    BY <1>1, <1>2, <2>2
<1>3. CASE S # {}
  <2>1. Min(S) \in S /\ \A i \in S : Min(S) <= i
    BY <1>3, MinLeast
  <2>2. Min(S) < m /\ Min(S) \in Nat
    BY <2>1
  <2>3. S \cup {m} \subseteq Nat /\ Min(S) \in S \cup {m} /\ \A i \in S \cup {m} : Min(S) <= i
    BY <2>1, <2>2
  <2>4. Min(S \cup {m}) = Min(S)
    BY <2>3, MinIs
  <2> QED
    BY <1>1, <1>3, <2>4
<1> QED
  BY <1>2, <1>3

(* Numbers with a bound have a largest one.                                 *)
LEMMA MaxGreatest ==
  ASSUME NEW n \in Nat, NEW S, S \subseteq 1..n, S # {}
  PROVE  Max(S) \in S /\ \A i \in S : i <= Max(S)
<1> DEFINE T == {n - i : i \in S}
<1>1. T \subseteq Nat /\ T # {}
  <2>1. \A i \in S : n - i \in Nat
    OBVIOUS
  <2>2. PICK i \in S : TRUE
    OBVIOUS
  <2>3. n - i \in T
    OBVIOUS
  <2>4. T \subseteq Nat
    BY <2>1
  <2> QED
    BY <2>3, <2>4
<1>2. PICK b \in T : \A c \in T : b <= c
  BY <1>1, LeastNat
<1>3. PICK m \in S : b = n - m
  OBVIOUS
<1>4. ASSUME NEW i \in S PROVE i <= m
  <2>1. n - i \in T
    OBVIOUS
  <2> HIDE DEF T
  <2>2. b <= n - i
    BY <1>2, <2>1
  <2> QED
    BY <1>3, <2>2
<1>5. S \subseteq Nat
  OBVIOUS
<1>6. Max(S) = m
  BY <1>4, <1>5, MaxIs
<1> QED
  BY <1>4, <1>6

-----------------------------------------------------------------------------
(* Pieces and files                                                         *)

LEMMA PieceType ==
  ASSUME NEW p \in Pieces
  PROVE  /\ p.own \in Nat
         /\ p.box = "sample" => p.frame \in FramesOffered
         /\ p.box \in {"audio", "video"} => p.frame \in FramesOffered /\ p.dts \in Int
<1>1. p.own \in Nat
  BY DEF Pieces
<1>2. p.box = "sample" => p.frame \in FramesOffered
  BY DEF Pieces, Plain
<1>3. p.box \in {"audio", "video"} => p.frame \in FramesOffered /\ p.dts \in Int
  BY DEF Pieces, Plain
<1> QED
  BY <1>1, <1>2, <1>3

LEMMA FilesMeasured ==
  ASSUME NEW file \in Seq(Pieces)
  PROVE  Measured(file)
<1>1. ASSUME NEW i \in 1..Len(file) PROVE file[i].own \in Nat
  <2>1. file[i] \in Pieces
    BY ElementOfSeq
  <2> QED
    BY <2>1, PieceType
<1> QED
  BY <1>1 DEF Measured

(* A frame's sample.                                                        *)
LEMMA SampleType ==
  ASSUME NEW f \in FramesOffered
  PROVE  /\ Stored(f) \in Nat /\ Track(f) \in 1..2 /\ Sample(f) \in Pieces
         /\ Sample(f).box = "sample" /\ Sample(f).frame = f /\ Sample(f).own = Stored(f)
<1>1. f.len \in Nat
  BY Mp4Assumption DEF FramesOffered
<1>2. Stored(f) \in Nat /\ Track(f) \in 1..2
  BY <1>1 DEF Stored, Track
<1>3. Sample(f) \in Pieces
  BY <1>2 DEF Sample, Pieces
<1> QED
  BY <1>2, <1>3 DEF Sample

(* A file that goes on keeps what it holds, and where.                      *)
LEMMA FileExtended ==
  ASSUME NEW file \in Seq(Pieces), NEW more \in Seq(Pieces)
  PROVE  /\ file \o more \in Seq(Pieces) /\ Len(file \o more) = Len(file) + Len(more)
         /\ \A i \in 1..Len(file) : (file \o more)[i] = file[i]
         /\ \A i \in 1..Len(more) : (file \o more)[Len(file) + i] = more[i]
         /\ \A i \in 1..(Len(file) + 1) : Positions(file \o more)[i] = Positions(file)[i]
<1> DEFINE both == file \o more
<1>1. /\ both \in Seq(Pieces) /\ Len(both) = Len(file) + Len(more)
      /\ \A i \in 1..Len(file) : both[i] = file[i]
      /\ \A i \in 1..Len(more) : both[Len(file) + i] = more[i]
  <2>1. both \in Seq(Pieces) /\ Len(both) = Len(file) + Len(more)
    BY ConcatProperties
  <2>2. \A i \in 1..(Len(file) + Len(more)) :
          both[i] = IF i <= Len(file) THEN file[i] ELSE more[i - Len(file)]
    BY ConcatProperties
  <2>3. Len(file) \in Nat /\ Len(more) \in Nat
    OBVIOUS
  <2> HIDE DEF both
  <2>4. ASSUME NEW i \in 1..Len(file) PROVE both[i] = file[i]
    <3>1. i \in 1..(Len(file) + Len(more)) /\ i <= Len(file)
      BY <2>3
    <3> QED
      BY <2>2, <3>1
  <2>5. ASSUME NEW i \in 1..Len(more) PROVE both[Len(file) + i] = more[i]
    <3>1. /\ Len(file) + i \in 1..(Len(file) + Len(more)) /\ ~(Len(file) + i <= Len(file))
          /\ (Len(file) + i) - Len(file) = i
      BY <2>3
    <3> QED
      BY <2>2, <3>1
  <2> QED
    BY <2>1, <2>4, <2>5
<1>2. Measured(file) /\ Measured(both)
  BY <1>1, FilesMeasured
<1>3. Len(file) \in Nat /\ Len(more) \in Nat /\ Len(file) <= Len(both) /\ Len(file) <= Len(file)
  BY <1>1
<1> HIDE DEF both
<1>4. \A i \in 1..Len(file) : both[i].own = file[i].own
  BY <1>1
<1>5. \A i \in 1..(Len(file) + 1) : Positions(both)[i] = Positions(file)[i]
  BY <1>2, <1>3, <1>4, SamePlaces
<1> QED
  BY <1>1, <1>5 DEF both

(* Where the pieces of a file begin.                                        *)
LEMMA FilePlaces ==
  ASSUME NEW file \in Seq(Pieces)
  PROVE  /\ Positions(file)[1] = 0
         /\ \A i \in 1..(Len(file) + 1) : Positions(file)[i] \in Nat
         /\ \A i \in 1..Len(file) : Positions(file)[i + 1] = Positions(file)[i] + file[i].own
<1>1. Places(Positions(file), file)
  BY FilesMeasured, PositionsPlace
<1> DEFINE p == Positions(file)
<1>2. p \in Seq(Nat) /\ Len(p) = Len(file) + 1
  BY <1>1 DEF Places
<1> HIDE DEF p
<1>3. \A i \in 1..(Len(file) + 1) : p[i] \in Nat
  BY <1>2, ElementOfSeq
<1> QED
  BY <1>1, <1>3 DEF Places, p

(* A quotient and its remainder.                                            *)
LEMMA WrappedOnce ==
  ASSUME NEW a \in Int, NEW n \in Nat, n > 0, NEW q \in Int, NEW r \in 0..(n - 1), a = n * q + r
  PROVE  a % n = r
OBVIOUS
(* A sum that wraps, wrapped before.                                        *)
LEMMA WrappedTwice ==
  ASSUME NEW a \in Nat, NEW b \in Nat, NEW n \in Nat, n > 0
  PROVE  ((a % n) + b) % n = (a + b) % n
<1> DEFINE p == a \div n  r == a % n  q == (r + b) \div n  s == (r + b) % n
<1>1. p \in Int /\ r \in 0..(n - 1) /\ a = n * p + r
  OBVIOUS
<1>2. r + b \in Int
  BY <1>1
<1> HIDE DEF p, r
<1>3. q \in Int /\ s \in 0..(n - 1) /\ r + b = n * q + s
  BY <1>2
<1>4. (r + b) % n = s
  OBVIOUS
<1> HIDE DEF q, s
<1>5. p + q \in Int /\ a + b \in Int /\ a + b = n * (p + q) + s
  <2>1. n * (p + q) = n * p + n * q
    BY <1>1, <1>3
  <2> QED
    BY <1>1, <1>3, <2>1
<1>6. (a + b) % n = s
  <2> DEFINE c == p + q  d == a + b
  <2>1. c \in Int /\ d \in Int /\ d = n * c + s
    BY <1>5
  <2> HIDE DEF c, d
  <2>2. d % n = s
    BY <1>3, <2>1, WrappedOnce
  <2> QED
    BY <2>2 DEF d
<1> QED
  BY <1>4, <1>6 DEF r

-----------------------------------------------------------------------------
(* The tables of a track                                                    *)

(* The samples of a track.                                                  *)
Held(file, k) == {i \in DOMAIN file : file[i].box = "sample" /\ Track(file[i].frame) = k}

(* The tables of a track say where its samples are.                         *)
Table(file, k, t) ==
  /\ Len(t.lengths) = Cardinality(Held(file, k)) /\ Len(t.offsets) = Len(t.lengths)
  /\ ToSet(t.keys) \subseteq 1..Len(t.lengths)
  /\ \A i \in Held(file, k) :
       /\ t.offsets[Nth(Held(file, k), i)] = Positions(file)[i] % Wide
       /\ t.lengths[Nth(Held(file, k), i)] = file[i].own
       /\ Nth(Held(file, k), i) \in ToSet(t.keys) <=> file[i].frame.type = 1

(* They have the times of the first, unless it is 0, and the last.          *)
Timed(file, k, t) ==
  IF Held(file, k) = {} THEN t.first = 0
  ELSE /\ t.last = file[Max(Held(file, k))].frame.ts
       /\ LET ts == file[Min(Held(file, k))].frame.ts IN ts # 0 => t.first = ts

LEMMA HeldType ==
  ASSUME NEW file \in Seq(Pieces), NEW k
  PROVE  /\ Held(file, k) \subseteq 1..Len(file) /\ Held(file, k) \subseteq Nat
         /\ IsFiniteSet(Held(file, k)) /\ Cardinality(Held(file, k)) \in Nat
         /\ \A i \in Held(file, k) : file[i] \in Pieces /\ file[i].frame \in FramesOffered
<1>1. Held(file, k) \subseteq 1..Len(file) /\ Len(file) \in Nat
  BY DEF Held
<1>2. IsFiniteSet(1..Len(file))
  BY <1>1, FS_Interval
<1>3. IsFiniteSet(Held(file, k)) /\ Cardinality(Held(file, k)) \in Nat
  BY <1>1, <1>2, FS_Subset, FS_CardinalityType
<1>4. ASSUME NEW i \in Held(file, k) PROVE file[i] \in Pieces /\ file[i].frame \in FramesOffered
  <2>1. file[i] \in Pieces /\ file[i].box = "sample"
    BY <1>1, ElementOfSeq DEF Held
  <2> QED
    BY <2>1, PieceType
<1> QED
  BY <1>1, <1>3, <1>4

(* What AppendSample does.                                                  *)
LEMMA AppendSampleIs ==
  ASSUME NEW t \in Traks, NEW f \in FramesOffered, NEW offset \in Nat
  PROVE  LET u == AppendSample(t, f, offset) IN
         /\ u \in Traks /\ u.config = t.config /\ u.last = f.ts /\ u.first = FirstOf(t, f.ts)
         /\ u.lengths = Append(t.lengths, Stored(f)) /\ u.offsets = Append(t.offsets, offset)
         /\ u.keys = IF f.type = 1 THEN Append(t.keys, Len(t.lengths) + 1) ELSE t.keys
<1> DEFINE u == AppendSample(t, f, offset)
<1>1. /\ t.config \in Nat \X Nat \X Nat /\ t.first \in Nat /\ t.last \in Nat
      /\ t.lengths \in Seq(Nat) /\ t.offsets \in Seq(Nat) /\ t.keys \in Seq(Nat)
  BY DEF Traks
<1>2. t = [config |-> t.config, first |-> t.first, last |-> t.last, lengths |-> t.lengths,
           offsets |-> t.offsets, keys |-> t.keys]
  BY DEF Traks
<1>3. f.ts \in Nat /\ Stored(f) \in Nat
  BY SampleType, Mp4Assumption DEF FramesOffered
<1>4. /\ Append(t.lengths, Stored(f)) \in Seq(Nat) /\ Append(t.offsets, offset) \in Seq(Nat)
      /\ Append(t.keys, Len(t.lengths) + 1) \in Seq(Nat)
  <2>1. Len(t.lengths) + 1 \in Nat
    BY <1>1
  <2> QED
    BY <1>1, <1>3, <2>1, AppendProperties
<1>5. FirstOf(t, f.ts) \in Nat
  BY <1>1, <1>3 DEF FirstOf
<1>6. /\ u.config = t.config /\ u.last = f.ts /\ u.first = FirstOf(t, f.ts)
      /\ u.lengths = Append(t.lengths, Stored(f)) /\ u.offsets = Append(t.offsets, offset)
      /\ u.keys = IF f.type = 1 THEN Append(t.keys, Len(t.lengths) + 1) ELSE t.keys
  BY <1>2 DEF AppendSample
<1>7. (IF f.type = 1 THEN Append(t.keys, Len(t.lengths) + 1) ELSE t.keys) \in Seq(Nat)
  BY <1>1, <1>4
<1>8. u \in Traks
  BY <1>3, <1>4, <1>5, <1>7 DEF AppendSample, Traks
<1> HIDE DEF u
<1> QED
  BY <1>6, <1>8 DEF u

(* A sample at the end of the file, in the tables of its track.             *)
LEMMA TableAppended ==
  ASSUME NEW file \in Seq(Pieces), NEW t \in Traks, NEW f \in FramesOffered,
         Table(file, Track(f), t)
  PROVE  LET u == AppendSample(t, f, Positions(file)[Len(file) + 1] % Wide)
             more == file \o <<Sample(f)>>  k == Track(f)
         IN u \in Traks /\ Table(more, k, u) /\ (Timed(file, k, t) => Timed(more, k, u))
<1> DEFINE offset == Positions(file)[Len(file) + 1] % Wide
           u == AppendSample(t, f, offset)
           more == file \o <<Sample(f)>>
           k == Track(f)
           m == Len(file) + 1
           S == Held(file, k)
<1>1. /\ Sample(f) \in Pieces /\ Sample(f).box = "sample" /\ Sample(f).frame = f
      /\ Sample(f).own = Stored(f) /\ Stored(f) \in Nat
  BY SampleType
<1>2. <<Sample(f)>> \in Seq(Pieces) /\ Len(<<Sample(f)>>) = 1 /\ <<Sample(f)>>[1] = Sample(f)
  BY <1>1
<1>3. Len(file) \in Nat /\ m \in Nat /\ m \in 1..(Len(file) + 1) /\ 1 \in 1..1
  OBVIOUS
<1>4. /\ more \in Seq(Pieces) /\ Len(more) = m /\ \A i \in 1..Len(file) : more[i] = file[i]
      /\ more[m] = Sample(f) /\ \A i \in 1..m : Positions(more)[i] = Positions(file)[i]
  <2>1. /\ more \in Seq(Pieces) /\ Len(more) = Len(file) + Len(<<Sample(f)>>)
        /\ \A i \in 1..Len(file) : more[i] = file[i]
        /\ \A i \in 1..Len(<<Sample(f)>>) : more[Len(file) + i] = <<Sample(f)>>[i]
        /\ \A i \in 1..(Len(file) + 1) : Positions(more)[i] = Positions(file)[i]
    BY <1>2, FileExtended
  <2>2. more[Len(file) + 1] = Sample(f)
    BY <1>2, <1>3, <2>1
  <2> QED
    BY <1>2, <2>1, <2>2
<1>5. offset \in Nat
  <2>1. Positions(file)[Len(file) + 1] \in Nat
    BY <1>3, FilePlaces
  <2> QED
    BY <2>1, Mp4Assumption
<1>6. /\ S \subseteq 1..Len(file) /\ S \subseteq Nat /\ IsFiniteSet(S) /\ Cardinality(S) \in Nat
      /\ \A i \in S : file[i].frame \in FramesOffered
  BY HeldType
<1>7. Held(more, k) = S \cup {m}
  <2>1. ASSUME NEW i PROVE i \in Held(more, k) <=> i \in S \cup {m}
    <3>1. CASE i \in 1..Len(file)
      <4>1. i # m /\ i \in DOMAIN file /\ i \in DOMAIN more /\ more[i] = file[i]
        BY <1>3, <1>4, <3>1
      <4> QED
        BY <4>1 DEF Held
    <3>2. CASE i = m
      <4>1. i \in DOMAIN more /\ more[i].box = "sample" /\ more[i].frame = f
        BY <1>1, <1>3, <1>4, <3>2
      <4> QED
        BY <3>2, <4>1 DEF Held
    <3>3. CASE ~(i \in 1..Len(file)) /\ i # m
      <4>1. ~(i \in DOMAIN more) /\ ~(i \in S)
        BY <1>3, <1>4, <1>6, <3>3
      <4> QED
        BY <3>3, <4>1 DEF Held
    <3> QED
      BY <3>1, <3>2, <3>3
  <2> QED
    BY <2>1
<1>8. \A i \in S : i < m
  BY <1>3, <1>6
<1> HIDE DEF m, S, offset, more, k
<1>9. /\ Cardinality(S \cup {m}) = Cardinality(S) + 1 /\ Nth(S \cup {m}, m) = Cardinality(S) + 1
      /\ \A i \in S : Nth(S \cup {m}, i) = Nth(S, i)
  BY <1>3, <1>6, <1>8, NthAdded
<1>10. \A i \in S : Nth(S, i) \in 1..Cardinality(S)
  BY <1>6, NthRange
<1>11. /\ u \in Traks /\ u.last = f.ts /\ u.first = FirstOf(t, f.ts)
       /\ u.lengths = Append(t.lengths, Stored(f)) /\ u.offsets = Append(t.offsets, offset)
       /\ u.keys = IF f.type = 1 THEN Append(t.keys, Len(t.lengths) + 1) ELSE t.keys
  BY <1>5, AppendSampleIs
<1>12. t.lengths \in Seq(Nat) /\ t.offsets \in Seq(Nat) /\ t.keys \in Seq(Nat)
  BY DEF Traks
<1> HIDE DEF u
<1> DEFINE c == Cardinality(S)
<1>13. /\ Len(t.lengths) = c /\ Len(t.offsets) = c /\ ToSet(t.keys) \subseteq 1..c /\ c \in Nat
       /\ \A i \in S : /\ t.offsets[Nth(S, i)] = Positions(file)[i] % Wide
                       /\ t.lengths[Nth(S, i)] = file[i].own
                       /\ Nth(S, i) \in ToSet(t.keys) <=> file[i].frame.type = 1
  BY <1>6 DEF Table, S, k
<1> HIDE DEF c
<1>14. /\ Len(u.lengths) = c + 1 /\ u.lengths[c + 1] = Stored(f)
       /\ \A n \in 1..c : u.lengths[n] = t.lengths[n]
  <2>1. Stored(f) \in Nat
    BY <1>1
  <2> QED
    BY <1>11, <1>12, <1>13, <2>1, AppendProperties
<1>15. /\ Len(u.offsets) = c + 1 /\ u.offsets[c + 1] = offset
       /\ \A n \in 1..c : u.offsets[n] = t.offsets[n]
  BY <1>5, <1>11, <1>12, <1>13, AppendProperties
<1>16. ToSet(u.keys) = IF f.type = 1 THEN ToSet(t.keys) \cup {c + 1} ELSE ToSet(t.keys)
  <2>1. CASE f.type = 1
    <3>1. u.keys = Append(t.keys, c + 1) /\ c + 1 \in Nat
      BY <1>11, <1>13, <2>1
    <3>2. /\ Len(u.keys) = Len(t.keys) + 1 /\ u.keys[Len(t.keys) + 1] = c + 1
          /\ \A n \in 1..Len(t.keys) : u.keys[n] = t.keys[n]
      BY <1>12, <3>1, AppendProperties
    <3>3. DOMAIN u.keys = 1..(Len(t.keys) + 1) /\ DOMAIN t.keys = 1..Len(t.keys) /\ Len(t.keys) \in Nat
      BY <1>12, <3>1, <3>2, AppendProperties
    <3>4. \A n : n \in DOMAIN u.keys <=> n \in DOMAIN t.keys \/ n = Len(t.keys) + 1
      BY <3>3
    <3>5. ToSet(u.keys) = ToSet(t.keys) \cup {c + 1}
      <4>1. \A x : x \in ToSet(u.keys) <=> \E n \in DOMAIN u.keys : u.keys[n] = x
        BY DEF ToSet
      <4>2. \A x : x \in ToSet(t.keys) <=> \E n \in DOMAIN t.keys : t.keys[n] = x
        BY DEF ToSet
      <4>3. ASSUME NEW x PROVE x \in ToSet(u.keys) <=> x \in ToSet(t.keys) \/ x = c + 1
        <5>1. \A n \in DOMAIN t.keys : n \in DOMAIN u.keys /\ u.keys[n] = t.keys[n]
          BY <3>2, <3>3, <3>4
        <5>2. x \in ToSet(t.keys) => x \in ToSet(u.keys)
          BY <4>1, <4>2, <5>1
        <5>3. x = c + 1 => x \in ToSet(u.keys)
          BY <3>2, <3>4, <4>1
        <5>4. x \in ToSet(u.keys) => x \in ToSet(t.keys) \/ x = c + 1
          BY <3>2, <3>4, <4>1, <4>2, <5>1
        <5> QED
          BY <5>2, <5>3, <5>4
      <4> QED
        BY <4>3
    <3> QED
      BY <2>1, <3>5
  <2>2. CASE f.type # 1
    BY <1>11, <2>2
  <2> QED
    BY <2>1, <2>2
<1>17. Table(more, k, u)
  <2>1. /\ Len(u.lengths) = Cardinality(Held(more, k)) /\ Len(u.offsets) = Len(u.lengths)
        /\ ToSet(u.keys) \subseteq 1..Len(u.lengths)
    BY <1>7, <1>9, <1>13, <1>14, <1>15, <1>16 DEF c
  <2>2. ASSUME NEW i \in S \cup {m}
        PROVE  /\ u.offsets[Nth(S \cup {m}, i)] = Positions(more)[i] % Wide
               /\ u.lengths[Nth(S \cup {m}, i)] = more[i].own
               /\ Nth(S \cup {m}, i) \in ToSet(u.keys) <=> more[i].frame.type = 1
    <3>1. CASE i \in S
      <4>1. /\ Nth(S \cup {m}, i) = Nth(S, i) /\ Nth(S, i) \in 1..c /\ Nth(S, i) # c + 1
        <5>1. Nth(S \cup {m}, i) = Nth(S, i) /\ Nth(S, i) \in 1..c
          BY <1>9, <1>10, <3>1 DEF c
        <5> QED
          BY <1>13, <5>1
      <4>2. /\ more[i] = file[i] /\ Positions(more)[i] = Positions(file)[i]
        BY <1>3, <1>4, <1>6, <3>1 DEF m
      <4>3. /\ u.offsets[Nth(S, i)] = Positions(file)[i] % Wide /\ u.lengths[Nth(S, i)] = file[i].own
            /\ Nth(S, i) \in ToSet(u.keys) <=> file[i].frame.type = 1
        BY <1>13, <1>14, <1>15, <1>16, <3>1, <4>1
      <4> QED
        BY <4>1, <4>2, <4>3
    <3>2. CASE i = m
      <4>1. Nth(S \cup {m}, i) = c + 1 /\ ~(c + 1 \in ToSet(t.keys))
        BY <1>9, <1>13, <3>2 DEF c
      <4>2. Positions(more)[m] % Wide = offset
        BY <1>3, <1>4 DEF offset, m
      <4>3. more[m].own = Stored(f) /\ more[m].frame = f
        BY <1>1, <1>4
      <4> QED
        BY <1>14, <1>15, <1>16, <3>2, <4>1, <4>2, <4>3
    <3> QED
      BY <3>1, <3>2
  <2> QED
    BY <1>7, <2>1, <2>2 DEF Table
<1>18. ASSUME Timed(file, k, t)
       PROVE  Timed(more, k, u)
  <2>1. Max(S \cup {m}) = m /\ Min(S \cup {m}) = IF S = {} THEN m ELSE Min(S)
    BY <1>3, <1>6, <1>8, ExtremesAdded
  <2>2. more[m].frame = f
    BY <1>1, <1>4
  <2>3. CASE S = {}
    <3>1. t.first = 0 /\ Min(S \cup {m}) = m
      BY <1>18, <2>1, <2>3 DEF Timed, S
    <3>2. u.first = f.ts
      BY <1>11, <3>1 DEF FirstOf
    <3> QED
      BY <1>7, <1>11, <2>1, <2>2, <3>1, <3>2 DEF Timed
  <2>4. CASE S # {}
    <3>1. Min(S) \in S
      BY <1>6, <2>4, MinLeast
    <3>2. file[Min(S)].frame.ts # 0 => t.first = file[Min(S)].frame.ts
      BY <1>18, <2>4 DEF Timed, S
    <3>3. file[Min(S)].frame.ts # 0 => u.first = file[Min(S)].frame.ts
      BY <1>11, <3>2 DEF FirstOf
    <3>4. more[Min(S)] = file[Min(S)]
      BY <1>4, <1>6, <3>1
    <3> QED
      BY <1>7, <1>11, <2>1, <2>2, <2>4, <3>3, <3>4 DEF Timed
  <2> QED
    BY <2>3, <2>4
<1> QED
  BY <1>11, <1>17, <1>18 DEF u, more, k, S, offset

(* A file that changes, without another sample of a track, where it has     *)
(* neither a length nor a sample.                                           *)
LEMMA TableKept ==
  ASSUME NEW file \in Seq(Pieces), NEW other \in Seq(Pieces), NEW k, NEW t, NEW u,
         Len(file) <= Len(other),
         \A i \in 1..Len(file) :
           /\ other[i].own = file[i].own /\ other[i].box = file[i].box
           /\ file[i].box = "sample" => other[i].frame = file[i].frame,
         \A i \in (Len(file) + 1)..Len(other) :
           ~(other[i].box = "sample" /\ Track(other[i].frame) = k),
         u.lengths = t.lengths, u.offsets = t.offsets, u.keys = t.keys,
         u.first = t.first, u.last = t.last
  PROVE  /\ Held(other, k) = Held(file, k)
         /\ Table(file, k, t) => Table(other, k, u)
         /\ Timed(file, k, t) => Timed(other, k, u)
<1>1. Held(file, k) \subseteq 1..Len(file) /\ Held(file, k) \subseteq Nat
  BY HeldType
<1>2. Len(file) \in Nat /\ Len(other) \in Nat
  OBVIOUS
<1>3. Held(other, k) = Held(file, k)
  <2>1. ASSUME NEW i PROVE i \in Held(other, k) <=> i \in Held(file, k)
    <3>1. CASE i \in 1..Len(file)
      <4>1. i \in DOMAIN file /\ i \in DOMAIN other
        BY <1>2, <3>1
      <4> QED
        BY <3>1, <4>1 DEF Held
    <3>2. CASE i \in (Len(file) + 1)..Len(other)
      <4>1. ~(i \in 1..Len(file))
        BY <1>2, <3>2
      <4> QED
        BY <1>1, <3>2, <4>1 DEF Held
    <3>3. CASE ~(i \in 1..Len(file)) /\ ~(i \in (Len(file) + 1)..Len(other))
      <4>1. ~(i \in DOMAIN other)
        BY <1>2, <3>3
      <4> QED
        BY <1>1, <3>3, <4>1 DEF Held
    <3> QED
      BY <3>1, <3>2, <3>3
  <2> QED
    BY <2>1
<1>4. \A i \in 1..(Len(file) + 1) : Positions(other)[i] = Positions(file)[i]
  <2>1. Measured(file) /\ Measured(other)
    BY FilesMeasured
  <2>2. Len(file) <= Len(file)
    BY <1>2
  <2>3. \A i \in 1..Len(file) : other[i].own = file[i].own
    OBVIOUS
  <2> QED
    BY <1>2, <2>1, <2>2, <2>3, SamePlaces
<1>5. ASSUME NEW i \in Held(file, k)
      PROVE  /\ other[i].own = file[i].own /\ other[i].frame = file[i].frame
             /\ Positions(other)[i] = Positions(file)[i]
  <2>1. i \in 1..Len(file) /\ i \in 1..(Len(file) + 1) /\ file[i].box = "sample"
    BY <1>1, <1>2 DEF Held
  <2> QED
    BY <1>4, <2>1
<1>6. Table(file, k, t) => Table(other, k, u)
  BY <1>3, <1>5 DEF Table
<1>7. ASSUME Timed(file, k, t) PROVE Timed(other, k, u)
  <2>1. CASE Held(file, k) = {}
    BY <1>3, <1>7, <2>1 DEF Timed
  <2>2. CASE Held(file, k) # {}
    <3>1. Min(Held(file, k)) \in Held(file, k)
      BY <1>1, <2>2, MinLeast
    <3>2. Max(Held(file, k)) \in Held(file, k)
      BY <1>1, <1>2, <2>2, MaxGreatest
    <3> QED
      BY <1>3, <1>5, <1>7, <2>2, <3>1, <3>2 DEF Timed
  <2> QED
    BY <2>1, <2>2
<1> QED
  BY <1>3, <1>6, <1>7

-----------------------------------------------------------------------------
(* Boxes                                                                    *)

(* SizeOf is where the last box ends.                                       *)
LEMMA SizeOfIs ==
  ASSUME NEW boxes, Measured(boxes)
  PROVE  SizeOf(boxes) = Positions(boxes)[Len(boxes) + 1] /\ SizeOf(boxes) \in Nat
<1> DEFINE n == Len(boxes)
           step == [x \in (1..n) \X Nat |-> x[2] + boxes[x[1]].own]
<1>1. n \in Nat /\ 0 \in Nat /\ \A i \in 1..n : boxes[i].own \in Nat
  BY DEF Measured
<1> HIDE DEF n
<1>2. /\ step \in [(1..n) \X Nat -> Nat]
      /\ \A i \in 1..n, x \in Nat : step[<<i, x>>] = x + boxes[i].own
  BY <1>1
<1> HIDE DEF step
<1>3. PICK f \in [0..n -> Nat] : Recurs(f, n, 0, step)
  BY <1>1, <1>2, Recursion
<1> DEFINE Sum(s) == s = [i \in 0..Len(boxes) |-> IF i = 0 THEN 0 ELSE s[i - 1] + boxes[i].own]
<1>4. Sum(f)
  <2> DEFINE v(i) == IF i = 0 THEN 0 ELSE step[<<i, f[i - 1]>>]
             u(i) == IF i = 0 THEN 0 ELSE f[i - 1] + boxes[i].own
  <2>1. f = [i \in 0..n |-> v(i)]
    BY <1>3 DEF Recurs
  <2>2. ASSUME NEW i \in 0..n PROVE v(i) = u(i)
    <3>1. CASE i # 0
      <4>1. i \in 1..n /\ i - 1 \in 0..n
        BY <1>1, <3>1
      <4>2. f[i - 1] \in Nat
        BY <4>1
      <4> QED
        BY <1>2, <3>1, <4>1, <4>2
    <3> QED
      BY <3>1
  <2> HIDE DEF u, v
  <2>3. f = [i \in 0..n |-> u(i)]
    BY <2>1, <2>2
  <2> QED
    BY <2>3 DEF u, n
<1> DEFINE some == CHOOSE s : Sum(s)
<1>5. SizeOf(boxes) = some[Len(boxes)]
  BY DEF SizeOf
<1>6. Sum(some)
  BY <1>4
<1> HIDE DEF some
<1>7. some[0] = 0 /\ \A i \in 1..n : some[i] = some[i - 1] + boxes[i].own
  <2> DEFINE u(i) == IF i = 0 THEN 0 ELSE some[i - 1] + boxes[i].own
  <2>1. some = [i \in 0..n |-> u(i)]
    BY <1>6 DEF n
  <2> HIDE DEF u, Sum
  <2>2. \A i \in 0..n : some[i] = u(i)
    BY <2>1
  <2>3. 0 \in 0..n /\ \A i \in 1..n : i \in 0..n /\ i # 0
    BY <1>1
  <2> QED
    BY <2>2, <2>3 DEF u
<1> DEFINE p == Positions(boxes)
<1>8. /\ p[1] = 0 /\ p[n + 1] \in Nat
      /\ \A i \in 1..n : p[i] \in Nat /\ p[i + 1] = p[i] + boxes[i].own
  <2>1. p \in Seq(Nat) /\ Len(p) = n + 1 /\ p[1] = 0 /\ \A i \in 1..n : p[i + 1] = p[i] + boxes[i].own
    BY PositionsPlace DEF Places, n
  <2> HIDE DEF p
  <2>2. \A i \in 1..(n + 1) : p[i] \in Nat
    BY <2>1, ElementOfSeq
  <2>3. n + 1 \in 1..(n + 1) /\ \A i \in 1..n : i \in 1..(n + 1)
    BY <1>1
  <2> QED
    BY <2>1, <2>2, <2>3
<1> HIDE DEF p
<1>9. some[n] = p[n + 1]
  <2> DEFINE T == {i \in Nat : i <= n => some[i] = p[i + 1]}
  <2>1. 0 \in T
    BY <1>7, <1>8
  <2>2. ASSUME NEW k \in 0..n, k < n, k \in T PROVE k + 1 \in T
    <3>1. k + 1 \in 1..n /\ (k + 1) - 1 = k /\ k + 1 \in Nat /\ k <= n
      BY <1>1, <2>2
    <3>2. some[k] = p[k + 1]
      BY <1>1, <2>2, <3>1
    <3>3. some[k + 1] = some[k] + boxes[k + 1].own
      BY <1>7, <3>1
    <3>4. p[(k + 1) + 1] = p[k + 1] + boxes[k + 1].own
      BY <1>8, <3>1
    <3> QED
      BY <3>1, <3>2, <3>3, <3>4
  <2> HIDE DEF T
  <2>3. \A k \in 0..n : k \in T
    BY <1>1, <2>1, <2>2, UpTo
  <2>4. n \in T
    BY <1>1, <2>3
  <2> QED
    BY <1>1, <2>4 DEF T
<1> QED
  BY <1>5, <1>8, <1>9 DEF n, p

(* Eleven elements make a sequence.                                         *)
LEMMA Eleven ==
  ASSUME NEW S, NEW a \in S, NEW b \in S, NEW c \in S, NEW d \in S, NEW e \in S, NEW f \in S,
         NEW g \in S, NEW h \in S, NEW i \in S, NEW j \in S, NEW k \in S
  PROVE  <<a, b, c, d, e, f, g, h, i, j, k>> \in Seq(S)
<1> DEFINE s == <<a, b, c, d, e, f, g, h, i, j, k>>
<1>1. /\ s = [n \in 1..11 |-> s[n]] /\ s[1] = a /\ s[2] = b /\ s[3] = c /\ s[4] = d /\ s[5] = e
      /\ s[6] = f /\ s[7] = g /\ s[8] = h /\ s[9] = i /\ s[10] = j /\ s[11] = k
  OBVIOUS
<1> HIDE DEF s
<1>2. \A n \in 1..11 : s[n] \in S
  <2>1. ASSUME NEW n \in 1..11 PROVE s[n] \in S
    <3>1. \/ n = 1 \/ n = 2 \/ n = 3 \/ n = 4 \/ n = 5 \/ n = 6 \/ n = 7 \/ n = 8 \/ n = 9
          \/ n = 10 \/ n = 11
      OBVIOUS
    <3> QED
      BY <1>1, <3>1
  <2> QED
    BY <2>1
<1>3. s \in [1..11 -> S]
  BY <1>1, <1>2
<1> QED
  BY <1>3, SeqDef DEF s

(* The boxes of the tables: no fragment, no sample, no packet.              *)
Heads == [box : Plain \ {"moof"}, size : Int, own : Nat]
MoovPieces == Heads \cup [box : {"mvhd"}, size : Nat, own : Nat, duration : Int]

LEMMA HeadsArePieces ==
  /\ Heads \subseteq MoovPieces /\ MoovPieces \subseteq Pieces
  /\ \A p \in MoovPieces : p.box # "sample" /\ p.box # "moof"
<1>1. Heads \subseteq MoovPieces
  BY DEF MoovPieces
<1>2. MoovPieces \subseteq Pieces
  BY DEF MoovPieces, Heads, Pieces
<1>3. \A p \in MoovPieces : p.box # "sample" /\ p.box # "moof"
  BY DEF MoovPieces, Heads, Plain
<1> QED
  BY <1>1, <1>2, <1>3

LEMMA HeadsMeasured ==
  ASSUME NEW boxes \in Seq(Heads)
  PROVE  Measured(boxes)
<1>1. \A i \in 1..Len(boxes) : boxes[i] \in Heads
  BY ElementOfSeq
<1>2. \A p \in Heads : p.own \in Nat
  BY DEF Heads
<1> QED
  BY <1>1, <1>2 DEF Measured

LEMMA BoxType ==
  ASSUME NEW type \in Plain \ {"moof"}, NEW size \in Nat, NEW own \in Nat
  PROVE  Box(type, size, own) \in Heads /\ Leaf(type, size) \in Heads
BY DEF Box, Leaf, Heads

LEMMA StsdType ==
  ASSUME NEW id, NEW c \in Nat \X Nat \X Nat
  PROVE  Stsd(id, c) \in Seq(Heads)
<1>1. ConfigSize(c) \in Nat
  BY DEF ConfigSize
<1>2. CASE id = 1
  <2>1. 102 + ConfigSize(c) \in Nat /\ 86 + ConfigSize(c) \in Nat
    BY <1>1
  <2>2. /\ Box("stsd", 102 + ConfigSize(c), 16) \in Heads
        /\ Box("avc1", 86 + ConfigSize(c), 86) \in Heads
        /\ Leaf("avcC", ConfigSize(c)) \in Heads
    BY <1>1, <2>1, BoxType DEF Plain
  <2> QED
    BY <1>2, <2>2 DEF Stsd
<1>3. CASE id # 1 /\ id = 2
  <2>1. /\ Box("stsd", 91, 16) \in Heads /\ Box("mp4a", 75, 36) \in Heads /\ Leaf("esds", 39) \in Heads
    BY BoxType DEF Plain
  <2> QED
    BY <1>3, <2>1 DEF Stsd
<1>4. CASE id # 1 /\ id # 2
  BY <1>4 DEF Stsd
<1> QED
  BY <1>2, <1>3, <1>4

LEMMA TablesType ==
  ASSUME NEW id, NEW t \in Traks
  PROVE  Tables(id, t) \in Seq(Heads)
<1> DEFINE n == Len(t.lengths)
           four == <<Leaf("stts", 24), Leaf("stsc", 28), Leaf("stsz", 20 + 4 * n), Leaf("stco", 16 + 4 * n)>>
           sync == IF id = 1 THEN <<Leaf("stss", 16 + 4 * Len(t.keys))>> ELSE <<>>
<1>1. n \in Nat /\ Len(t.keys) \in Nat
  BY DEF Traks
<1>2. 20 + 4 * n \in Nat /\ 16 + 4 * n \in Nat /\ 16 + 4 * Len(t.keys) \in Nat
  BY <1>1
<1>3. /\ Leaf("stts", 24) \in Heads /\ Leaf("stsc", 28) \in Heads
      /\ Leaf("stsz", 20 + 4 * n) \in Heads /\ Leaf("stco", 16 + 4 * n) \in Heads
      /\ Leaf("stss", 16 + 4 * Len(t.keys)) \in Heads
  BY <1>2, BoxType DEF Plain
<1> HIDE DEF n
<1>4. four \in Seq(Heads) /\ sync \in Seq(Heads)
  BY <1>3
<1>5. Tables(id, t) = four \o sync
  BY DEF Tables, n
<1> HIDE DEF four, sync
<1> QED
  BY <1>4, <1>5, ConcatProperties

LEMMA TrakBoxesType ==
  ASSUME NEW id, NEW t \in Traks
  PROVE  TrakBoxes(id, t) \in Seq(Heads)
<1> DEFINE length == SizeOf(Stsd(id, t.config) \o Tables(id, t))
           head == <<Box("trak", 260 + length, 8), Leaf("tkhd", 92), Box("mdia", 160 + length, 8),
                     Leaf("mdhd", 32), Leaf("hdlr", 48), Box("minf", 72 + length, 8), Leaf("vmhd", 20),
                     Box("dinf", 36, 8), Box("dref", 28, 16), Leaf("url ", 12), Box("stbl", 8 + length, 8)>>
<1>1. Stsd(id, t.config) \in Seq(Heads) /\ Tables(id, t) \in Seq(Heads)
  BY StsdType, TablesType DEF Traks
<1>2. Stsd(id, t.config) \o Tables(id, t) \in Seq(Heads)
  BY <1>1, ConcatProperties
<1>3. length \in Nat
  BY <1>2, HeadsMeasured, SizeOfIs
<1> HIDE DEF length
<1>4. 260 + length \in Nat /\ 160 + length \in Nat /\ 72 + length \in Nat /\ 8 + length \in Nat
  BY <1>3
<1>5. /\ Box("trak", 260 + length, 8) \in Heads /\ Leaf("tkhd", 92) \in Heads
      /\ Box("mdia", 160 + length, 8) \in Heads /\ Leaf("mdhd", 32) \in Heads
      /\ Leaf("hdlr", 48) \in Heads /\ Box("minf", 72 + length, 8) \in Heads
  BY <1>4, BoxType DEF Plain
<1>6. /\ Leaf("vmhd", 20) \in Heads /\ Box("dinf", 36, 8) \in Heads /\ Box("dref", 28, 16) \in Heads
      /\ Leaf("url ", 12) \in Heads /\ Box("stbl", 8 + length, 8) \in Heads
  BY <1>4, BoxType DEF Plain
<1>7. head \in Seq(Heads)
  <2> DEFINE a == Box("trak", 260 + length, 8)
             b == Leaf("tkhd", 92)
             c == Box("mdia", 160 + length, 8)
             d == Leaf("mdhd", 32)
             e == Leaf("hdlr", 48)
             f == Box("minf", 72 + length, 8)
             g == Leaf("vmhd", 20)
             h == Box("dinf", 36, 8)
             i == Box("dref", 28, 16)
             j == Leaf("url ", 12)
             k == Box("stbl", 8 + length, 8)
  <2>1. /\ a \in Heads /\ b \in Heads /\ c \in Heads /\ d \in Heads /\ e \in Heads /\ f \in Heads
        /\ g \in Heads /\ h \in Heads /\ i \in Heads /\ j \in Heads /\ k \in Heads
    BY <1>5, <1>6
  <2>2. head = <<a, b, c, d, e, f, g, h, i, j, k>>
    OBVIOUS
  <2> HIDE DEF a, b, c, d, e, f, g, h, i, j, k, head
  <2>3. <<a, b, c, d, e, f, g, h, i, j, k>> \in Seq(Heads)
    BY <2>1, Eleven
  <2> QED
    BY <2>2, <2>3
<1>8. TrakBoxes(id, t) = head \o Stsd(id, t.config) \o Tables(id, t)
  BY DEF TrakBoxes, length
<1> HIDE DEF head
<1>9. head \o Stsd(id, t.config) \in Seq(Heads)
  BY <1>1, <1>7, ConcatProperties
<1>10. (head \o Stsd(id, t.config)) \o Tables(id, t) \in Seq(Heads)
  BY <1>1, <1>9, ConcatProperties
<1> QED
  BY <1>8, <1>10

(* The tables hold no samples and no fragments.                             *)
LEMMA MoovType ==
  ASSUME NEW id, NEW v \in Traks, NEW a \in Traks, NEW mvex \in Seq(Heads), NEW dur \in Int
  PROVE  Moov(id, v, a, mvex, dur) \in Seq(MoovPieces)
<1> DEFINE traks == TrakBoxes(id, v) \o TrakBoxes(2, a)
           size == MoovSize + SizeOf(mvex \o traks)
           head == <<Box("moov", size, 8), Mvhd(dur)>>
<1>1. traks \in Seq(Heads)
  <2>1. TrakBoxes(id, v) \in Seq(Heads) /\ TrakBoxes(2, a) \in Seq(Heads)
    BY TrakBoxesType
  <2> QED
    BY <2>1, ConcatProperties
<1>2. Moov(id, v, a, mvex, dur) = head \o mvex \o traks
  BY DEF Moov
<1> HIDE DEF traks
<1>3. mvex \o traks \in Seq(Heads)
  BY <1>1, ConcatProperties
<1>4. SizeOf(mvex \o traks) \in Nat
  BY <1>3, HeadsMeasured, SizeOfIs
<1>5. size \in Nat
  BY <1>4 DEF MoovSize
<1> HIDE DEF size
<1>6. Box("moov", size, 8) \in MoovPieces
  BY <1>5, BoxType DEF Plain, MoovPieces
<1>7. Mvhd(dur) \in MoovPieces
  BY DEF Mvhd, MoovPieces
<1>8. head \in Seq(MoovPieces)
  BY <1>6, <1>7
<1> HIDE DEF head
<1>9. mvex \in Seq(MoovPieces) /\ traks \in Seq(MoovPieces)
  BY <1>1, HeadsArePieces, SeqMonotonic
<1>10. head \o mvex \in Seq(MoovPieces)
  BY <1>8, <1>9, ConcatProperties
<1>11. (head \o mvex) \o traks \in Seq(MoovPieces)
  BY <1>9, <1>10, ConcatProperties
<1> QED
  BY <1>2, <1>11

-----------------------------------------------------------------------------
(* Mp4: the tables describe the file                                        *)

(* What is inductive in TablesTrue: the tables, the times, and where the     *)
(* writer is.                                                               *)
Mp4Good ==
  /\ \A k \in 1..2 : Table(disk, k, w.trak[k])
  /\ \A k \in 1..2 : Timed(disk, k, w.trak[k])
  /\ w.file # "closed" /\ ~w.begun => disk = <<>>
  /\ w.file # "closed" /\ w.begun =>
       /\ Len(disk) >= 2 /\ disk[2] = Box("mdat", FtypSize + MdatSize, MdatSize)
       /\ w.next = Positions(disk)[Len(disk) + 1] % Wide

(* A sample and its tables, both tracks.                                    *)
Appends(file, trak, f, next, more, now) ==
  /\ file \in Seq(Pieces) /\ trak \in [1..2 -> Traks] /\ f \in FramesOffered
  /\ \A k \in 1..2 : Table(file, k, trak[k]) /\ Timed(file, k, trak[k])
  /\ next = Positions(file)[Len(file) + 1] % Wide
  /\ now = [trak EXCEPT ![Track(f)] = AppendSample(@, f, next)]
  /\ more = file \o <<Sample(f)>>

LEMMA BothAppended ==
  ASSUME NEW file, NEW trak, NEW f, NEW next, NEW more, NEW now,
         Appends(file, trak, f, next, more, now)
  PROVE  /\ now \in [1..2 -> Traks] /\ more \in Seq(Pieces)
         /\ \A k \in 1..2 : Table(more, k, now[k]) /\ Timed(more, k, now[k])
         /\ Positions(more)[Len(more) + 1] % Wide = Advance(next, Stored(f))
         /\ Len(more) = Len(file) + 1 /\ \A i \in 1..Len(file) : more[i] = file[i]
<1>T. /\ file \in Seq(Pieces) /\ trak \in [1..2 -> Traks] /\ f \in FramesOffered
      /\ \A k \in 1..2 : Table(file, k, trak[k]) /\ Timed(file, k, trak[k])
      /\ next = Positions(file)[Len(file) + 1] % Wide
  BY DEF Appends
<1>0. now = [trak EXCEPT ![Track(f)] = AppendSample(@, f, next)] /\ more = file \o <<Sample(f)>>
  BY DEF Appends
<1> DEFINE u == AppendSample(trak[Track(f)], f, next)
<1>1. /\ Track(f) \in 1..2 /\ Sample(f) \in Pieces /\ Sample(f).box = "sample" /\ Sample(f).frame = f
      /\ Sample(f).own = Stored(f)
  BY <1>T, SampleType
<1>2. trak[Track(f)] \in Traks /\ Table(file, Track(f), trak[Track(f)])
  BY <1>1, <1>T
<1>3. /\ u \in Traks /\ Table(more, Track(f), u)
      /\ Timed(file, Track(f), trak[Track(f)]) => Timed(more, Track(f), u)
  <2>1. u = AppendSample(trak[Track(f)], f, Positions(file)[Len(file) + 1] % Wide) /\ more = file \o <<Sample(f)>>
    BY <1>T, <1>0
  <2> HIDE DEF u
  <2> QED
    BY <1>2, <1>T, <2>1, TableAppended
<1>4. now[Track(f)] = u /\ \A k \in 1..2 : k # Track(f) => now[k] = trak[k]
  BY <1>1, <1>T, <1>0
<1>5. now \in [1..2 -> Traks]
  BY <1>1, <1>3, <1>T, <1>0
<1>6. <<Sample(f)>> \in Seq(Pieces) /\ Len(<<Sample(f)>>) = 1 /\ <<Sample(f)>>[1] = Sample(f)
  BY <1>1
<1>7. Len(file) \in Nat /\ 1 \in 1..1
  BY <1>T
<1>8. /\ more \in Seq(Pieces) /\ Len(more) = Len(file) + 1 /\ more[Len(file) + 1] = Sample(f)
      /\ \A i \in 1..Len(file) : more[i] = file[i]
      /\ \A i \in 1..(Len(file) + 1) : Positions(more)[i] = Positions(file)[i]
  <2>1. /\ more \in Seq(Pieces) /\ Len(more) = Len(file) + Len(<<Sample(f)>>)
        /\ \A i \in 1..Len(file) : more[i] = file[i]
        /\ \A i \in 1..Len(<<Sample(f)>>) : more[Len(file) + i] = <<Sample(f)>>[i]
        /\ \A i \in 1..(Len(file) + 1) : Positions(more)[i] = Positions(file)[i]
    BY <1>6, <1>T, <1>0, FileExtended
  <2>2. more[Len(file) + 1] = Sample(f)
    BY <1>6, <1>7, <2>1
  <2> QED
    BY <1>6, <2>1, <2>2
<1> HIDE DEF u
<1>9. Positions(more)[Len(more) + 1] % Wide = Advance(next, Stored(f))
  <2>1. Len(more) \in 1..Len(more) /\ Len(more) = Len(file) + 1 /\ Len(file) + 1 \in 1..(Len(file) + 1)
    BY <1>7, <1>8
  <2>2. Positions(more)[Len(more) + 1] = Positions(more)[Len(more)] + more[Len(more)].own
    BY <1>8, <2>1, FilePlaces
  <2> DEFINE end == Positions(file)[Len(file) + 1]
  <2>3. Positions(more)[Len(more)] = end /\ more[Len(more)].own = Stored(f)
    BY <1>1, <1>8, <2>1
  <2>4. end \in Nat /\ Stored(f) \in Nat /\ Wide \in Nat /\ Wide > 0 /\ next = end % Wide
    BY <1>T, <2>1, FilePlaces, SampleType, Mp4Assumption
  <2> HIDE DEF end
  <2>5. ((end % Wide) + Stored(f)) % Wide = (end + Stored(f)) % Wide
    BY <2>4, WrappedTwice
  <2> QED
    BY <2>2, <2>3, <2>4, <2>5 DEF Advance
<1>10. ASSUME NEW k \in 1..2, k # Track(f)
       PROVE  /\ Held(more, k) = Held(file, k) /\ Table(more, k, now[k])
              /\ Timed(file, k, trak[k]) => Timed(more, k, now[k])
  <2>1. Len(file) <= Len(more)
    BY <1>7, <1>8
  <2>2. \A i \in 1..Len(file) :
          /\ more[i].own = file[i].own /\ more[i].box = file[i].box
          /\ file[i].box = "sample" => more[i].frame = file[i].frame
    BY <1>8
  <2>3. ASSUME NEW i \in (Len(file) + 1)..Len(more) PROVE ~(more[i].box = "sample" /\ Track(more[i].frame) = k)
    <3>1. i = Len(file) + 1
      BY <1>7, <1>8
    <3>2. more[i].frame = f
      BY <1>1, <1>8, <3>1
    <3> QED
      BY <1>10, <3>2
  <2>4. /\ now[k].lengths = trak[k].lengths /\ now[k].offsets = trak[k].offsets
        /\ now[k].keys = trak[k].keys /\ now[k].first = trak[k].first /\ now[k].last = trak[k].last
    BY <1>4, <1>10
  <2>5. /\ Held(more, k) = Held(file, k)
        /\ Table(file, k, trak[k]) => Table(more, k, now[k])
        /\ Timed(file, k, trak[k]) => Timed(more, k, now[k])
    BY <1>8, <1>T, <2>1, <2>2, <2>3, <2>4, TableKept
  <2> QED
    BY <1>T, <2>5
<1>11. \A k \in 1..2 : Table(more, k, now[k]) /\ Timed(more, k, now[k])
  BY <1>1, <1>3, <1>4, <1>10, <1>T
<1> QED
  BY <1>5, <1>8, <1>9, <1>11

(* The members of a writer.                                                 *)
Writing == [kind : Writers, file : {"none", "open", "closed", "undefined"}, begun : BOOLEAN,
            next : Nat, trak : [1..2 -> Traks], seq : 0..MaxOffered, first : Nat, last : Nat,
            lost : BOOLEAN]

(* A frame, with the head of the file if it is the first key frame.         *)
LEMMA Mp4FrameStep ==
  ASSUME FilesTypeOK, w.kind = "mp4", w.file = "open", Mp4Good, NEW f \in FramesOffered,
         NEW config \in Configs, Mp4Frame(f, config)
  PROVE  /\ disk' \in Seq(Pieces) /\ w' \in Writing /\ w'.kind = w.kind /\ w'.seq = w.seq
         /\ Mp4Good'
<1>1. /\ w \in Writing /\ w.trak \in [1..2 -> Traks] /\ w.next \in Nat /\ w.begun \in BOOLEAN
      /\ disk \in Seq(Pieces)
  BY DEF FilesTypeOK, Writing
<1> DEFINE starts == ~w.begun /\ f.type = 1
           head == IF starts THEN <<Leaf("ftyp", FtypSize), Box("mdat", FtypSize + MdatSize, MdatSize)>> ELSE <<>>
           next == IF starts THEN FtypSize + MdatSize ELSE w.next
           trak == IF starts THEN [w.trak EXCEPT ![1].config = config] ELSE w.trak
           file == disk \o head
           now == [trak EXCEPT ![Track(f)] = AppendSample(@, f, next)]
           more == file \o <<Sample(f)>>
<1>3. CASE ~w.begun /\ ~starts
  <2>1. w' = w /\ disk' = disk
    BY <1>3 DEF Mp4Frame
  <2> QED
    BY <1>1, <2>1 DEF Mp4Good
<1>4. CASE ~(~w.begun /\ ~starts)
  <2>1. /\ w' = [w EXCEPT !.begun = TRUE, !.next = Advance(next, Stored(f)), !.trak = now]
        /\ disk' = more
    BY <1>4 DEF Mp4Frame
  <2>2. /\ file \in Seq(Pieces) /\ Len(file) >= 2 /\ file[2] = Box("mdat", FtypSize + MdatSize, MdatSize)
        /\ next = Positions(file)[Len(file) + 1] % Wide /\ next \in Nat
        /\ trak \in [1..2 -> Traks] /\ \A k \in 1..2 : Table(file, k, trak[k]) /\ Timed(file, k, trak[k])
    <3>1. CASE starts
      <4>1. disk = <<>>
        BY <3>1 DEF Mp4Good
      <4>2. head = <<Leaf("ftyp", 28), Box("mdat", 36, 8)>>
        BY <3>1 DEF FtypSize, MdatSize
      <4> DEFINE p == Leaf("ftyp", 28)
                 q == Box("mdat", 36, 8)
      <4>3. /\ p \in Heads /\ q \in Heads
        BY BoxType DEF Plain
      <4>4. /\ p.own = 28 /\ q.own = 8 /\ p.box # "sample" /\ q.box # "sample" /\ p \in Pieces /\ q \in Pieces
        <5>1. p.own = 28 /\ q.own = 8
          BY DEF Leaf, Box
        <5> QED
          BY <4>3, <5>1, HeadsArePieces
      <4> HIDE DEF p, q
      <4>5. head = <<p, q>>
        BY <4>2 DEF p, q
      <4>6. head \in Seq(Pieces) /\ Len(head) = 2 /\ head[1] = p /\ head[2] = q
        BY <4>4, <4>5
      <4>7. <<>> \o head = head
        BY <4>6, ConcatEmptySeq
      <4>8. file = head
        BY <4>1, <4>7
      <4>9. next = 36
        BY <3>1 DEF FtypSize, MdatSize
      <4>10. /\ trak \in [1..2 -> Traks]
             /\ \A k \in 1..2 : /\ trak[k].lengths = w.trak[k].lengths /\ trak[k].offsets = w.trak[k].offsets
                                /\ trak[k].keys = w.trak[k].keys /\ trak[k].first = w.trak[k].first
                                /\ trak[k].last = w.trak[k].last
        <5>1. config \in Nat \X Nat \X Nat
          BY Mp4Assumption
        <5>2. trak = [w.trak EXCEPT ![1].config = config]
          BY <3>1
        <5>3. w.trak[1] \in Traks /\ w.trak[2] \in Traks
          BY <1>1
        <5>4. [w.trak[1] EXCEPT !.config = config] \in Traks
          BY <5>1, <5>3 DEF Traks
        <5> QED
          BY <1>1, <5>2, <5>3, <5>4 DEF Traks
      <4> HIDE DEF head, next, trak, file, starts
      <4>11. Positions(head)[3] = 36
        <5>1. Positions(head)[1] = 0 /\ \A i \in 1..2 : Positions(head)[i + 1] = Positions(head)[i] + head[i].own
          BY <4>6, FilePlaces
        <5>2. Positions(head)[1 + 1] = Positions(head)[1] + head[1].own
          BY <5>1
        <5>3. Positions(head)[2 + 1] = Positions(head)[2] + head[2].own
          BY <5>1
        <5> QED
          BY <4>4, <4>6, <5>1, <5>2, <5>3
      <4>12. ASSUME NEW k \in 1..2
             PROVE  Table(head, k, trak[k]) /\ Timed(head, k, trak[k])
        <5>1. Len(disk) = 0 /\ Len(disk) <= Len(head)
          BY <4>1, <4>6
        <5>2. \A i \in 1..Len(disk) :
                /\ head[i].own = disk[i].own /\ head[i].box = disk[i].box
                /\ disk[i].box = "sample" => head[i].frame = disk[i].frame
          BY <5>1
        <5>3. \A i \in (Len(disk) + 1)..Len(head) : ~(head[i].box = "sample" /\ Track(head[i].frame) = k)
          <6>1. ASSUME NEW i \in (Len(disk) + 1)..Len(head) PROVE head[i].box # "sample"
            <7>1. i = 1 \/ i = 2
              BY <4>6, <5>1
            <7> QED
              BY <4>4, <4>6, <7>1
          <6> QED
            BY <6>1
        <5>4. /\ Table(disk, k, w.trak[k]) => Table(head, k, trak[k])
              /\ Timed(disk, k, w.trak[k]) => Timed(head, k, trak[k])
          BY <1>1, <4>6, <4>10, <5>1, <5>2, <5>3, TableKept
        <5> QED
          BY <5>4 DEF Mp4Good
      <4>14. q = Box("mdat", FtypSize + MdatSize, MdatSize)
        BY DEF q, FtypSize, MdatSize
      <4>15. Len(file) = 2 /\ file[2] = q /\ next = Positions(file)[Len(file) + 1] % Wide /\ file \in Seq(Pieces)
        <5>1. Len(head) + 1 = 3
          BY <4>6
        <5>2. 36 % Wide = 36
          BY Mp4Assumption
        <5> QED
          BY <4>6, <4>8, <4>9, <4>11, <5>1, <5>2
      <4>16. \A k \in 1..2 : Table(file, k, trak[k]) /\ Timed(file, k, trak[k])
        BY <4>8, <4>12
      <4> QED
        BY <4>9, <4>10, <4>14, <4>15, <4>16
    <3>2. CASE ~starts
      <4>1. w.begun
        BY <1>4, <3>2
      <4>2. head = <<>> /\ next = w.next /\ trak = w.trak
        BY <3>2
      <4>3. disk \o <<>> = disk
        BY <1>1, ConcatEmptySeq
      <4>4. file = disk
        BY <4>2, <4>3
      <4> HIDE DEF head, next, trak, file, starts
      <4> QED
        BY <1>1, <4>1, <4>2, <4>4 DEF Mp4Good
    <3> QED
      BY <3>1, <3>2
  <2> HIDE DEF head, next, trak, file, starts
  <2>3. /\ now \in [1..2 -> Traks] /\ more \in Seq(Pieces)
        /\ \A k \in 1..2 : Table(more, k, now[k]) /\ Timed(more, k, now[k])
        /\ Positions(more)[Len(more) + 1] % Wide = Advance(next, Stored(f))
        /\ Len(more) = Len(file) + 1 /\ \A i \in 1..Len(file) : more[i] = file[i]
    <3>1. file \in Seq(Pieces) /\ trak \in [1..2 -> Traks] /\ next = Positions(file)[Len(file) + 1] % Wide
      BY <2>2
    <3>2. \A k \in 1..2 : Table(file, k, trak[k]) /\ Timed(file, k, trak[k])
      BY <2>2
    <3>3. now = [trak EXCEPT ![Track(f)] = AppendSample(@, f, next)] /\ more = file \o <<Sample(f)>>
      OBVIOUS
    <3> HIDE DEF now, more
    <3>4. Appends(file, trak, f, next, more, now)
      BY <3>1, <3>2, <3>3 DEF Appends
    <3> QED
      BY <3>4, BothAppended
  <2>4. Stored(f) \in Nat
    BY SampleType
  <2> HIDE DEF now, more
  <2>5. /\ w'.begun = TRUE /\ w'.next = Advance(next, Stored(f)) /\ w'.trak = now /\ w'.kind = w.kind
        /\ w'.file = w.file /\ w'.seq = w.seq /\ w' \in Writing
    <3>1. Advance(next, Stored(f)) \in Nat
      BY <2>2, <2>4, Mp4Assumption DEF Advance
    <3> QED
      BY <1>1, <2>1, <2>3, <3>1 DEF Writing
  <2>6. Len(more) >= 2 /\ more[2] = Box("mdat", FtypSize + MdatSize, MdatSize)
    <3>1. Len(file) \in Nat /\ 2 \in 1..Len(file)
      BY <2>2
    <3> QED
      BY <2>2, <2>3, <3>1
  <2> QED
    BY <2>1, <2>3, <2>5, <2>6 DEF Mp4Good
<1> QED
  BY <1>3, <1>4

(* Close: the tables hold no samples.                                       *)
LEMMA Mp4CloseStep ==
  ASSUME FilesTypeOK, w.kind = "mp4", w.file = "open", Mp4Good, Mp4Close
  PROVE  /\ disk' \in Seq(Pieces) /\ w' \in Writing /\ w'.kind = w.kind /\ w'.seq = w.seq
         /\ patch' \in Int /\ Mp4Good'
<1>1. /\ w \in Writing /\ w.trak \in [1..2 -> Traks] /\ w.next \in Nat /\ w.begun \in BOOLEAN
      /\ disk \in Seq(Pieces)
  BY DEF FilesTypeOK, Writing
<1> DEFINE moov == Moov(IF w.begun THEN 1 ELSE 0, w.trak[1], w.trak[2], <<>>, Duration(w.trak[1]))
           whole == disk \o moov
           sized(i) == IF i = 2 /\ w.begun THEN [whole[i] EXCEPT !.size = (w.next - FtypSize) % Wide] ELSE whole[i]
<1>2. disk' = [i \in DOMAIN whole |-> sized(i)] /\ patch' = FtypSize /\ w' = [w EXCEPT !.file = "closed"]
  BY DEF Mp4Close
<1>3. moov \in Seq(MoovPieces)
  <2>1. w.trak[1] \in Traks /\ w.trak[2] \in Traks /\ <<>> \in Seq(Heads)
    BY <1>1
  <2>2. w.trak[1].last \in Nat /\ w.trak[1].first \in Nat
    BY <2>1 DEF Traks
  <2>3. Duration(w.trak[1]) \in Int
    BY <2>2 DEF Duration
  <2> QED
    BY <2>1, <2>3, MoovType
<1>4. moov \in Seq(Pieces)
  BY <1>3, HeadsArePieces, SeqMonotonic
<1> HIDE DEF moov
<1>5. /\ whole \in Seq(Pieces) /\ Len(whole) = Len(disk) + Len(moov)
      /\ \A i \in 1..Len(disk) : whole[i] = disk[i]
      /\ \A i \in 1..Len(moov) : whole[Len(disk) + i] = moov[i]
  BY <1>1, <1>4, FileExtended
<1>6. Len(disk) \in Nat /\ Len(moov) \in Nat /\ DOMAIN whole = 1..Len(whole)
  BY <1>1, <1>4, <1>5
<1> HIDE DEF whole
<1>7. ASSUME NEW i \in 1..Len(whole)
      PROVE  /\ sized(i) \in Pieces /\ sized(i).own = whole[i].own /\ sized(i).box = whole[i].box
             /\ whole[i].box = "sample" => sized(i).frame = whole[i].frame
  <2>1. whole[i] \in Pieces
    BY <1>5, ElementOfSeq
  <2>2. CASE i = 2 /\ w.begun
    <3>1. Len(disk) >= 2 /\ disk[2] = Box("mdat", FtypSize + MdatSize, MdatSize)
      BY <2>2 DEF Mp4Good
    <3>2. whole[i] = Box("mdat", FtypSize + MdatSize, MdatSize)
      BY <1>5, <1>6, <2>2, <3>1
    <3>3. sized(i) = [Box("mdat", FtypSize + MdatSize, MdatSize) EXCEPT !.size = (w.next - FtypSize) % Wide]
      BY <2>2, <3>2
    <3>4. (w.next - FtypSize) % Wide \in Int
      BY <1>1, Mp4Assumption DEF FtypSize
    <3>5. sized(i) = Box("mdat", (w.next - FtypSize) % Wide, MdatSize)
      BY <3>3 DEF Box
    <3>6. Box("mdat", (w.next - FtypSize) % Wide, MdatSize) \in Pieces
      BY <3>4 DEF Box, Pieces, Plain, MdatSize
    <3> QED
      BY <3>2, <3>5, <3>6 DEF Box
  <2>3. CASE ~(i = 2 /\ w.begun)
    BY <2>1, <2>3
  <2> QED
    BY <2>2, <2>3
<1> HIDE DEF sized
<1>8. /\ disk' \in Seq(Pieces) /\ Len(disk') = Len(whole) /\ \A i \in 1..Len(whole) : disk'[i] = sized(i)
  <2>1. disk' \in [1..Len(whole) -> Pieces]
    BY <1>2, <1>6, <1>7
  <2>2. Len(whole) \in Nat
    BY <1>5, <1>6
  <2> QED
    BY <1>2, <1>6, <2>1, <2>2, SeqDef
<1>9. w' \in Writing /\ w'.file = "closed" /\ w'.trak = w.trak /\ w'.kind = w.kind /\ w'.seq = w.seq
  BY <1>1, <1>2 DEF Writing
<1>10. ASSUME NEW k \in 1..2
       PROVE  /\ Held(disk', k) = Held(disk, k) /\ Table(disk', k, w.trak[k])
              /\ Timed(disk, k, w.trak[k]) => Timed(disk', k, w.trak[k])
  <2>1. Len(disk) <= Len(disk')
    BY <1>5, <1>6, <1>8
  <2>2. ASSUME NEW i \in 1..Len(disk)
        PROVE  /\ disk'[i].own = disk[i].own /\ disk'[i].box = disk[i].box
               /\ disk[i].box = "sample" => disk'[i].frame = disk[i].frame
    <3>1. i \in 1..Len(whole) /\ whole[i] = disk[i]
      BY <1>5, <1>6
    <3> QED
      BY <1>7, <1>8, <3>1
  <2>3. ASSUME NEW i \in (Len(disk) + 1)..Len(disk') PROVE disk'[i].box # "sample"
    <3>1. i \in 1..Len(whole) /\ i - Len(disk) \in 1..Len(moov) /\ Len(disk) + (i - Len(disk)) = i
      BY <1>5, <1>6, <1>8
    <3>2. whole[i] = moov[i - Len(disk)]
      BY <1>5, <3>1
    <3>3. moov[i - Len(disk)] \in MoovPieces
      BY <1>3, <3>1, ElementOfSeq
    <3> QED
      BY <1>7, <1>8, <3>1, <3>2, <3>3, HeadsArePieces
  <2>4. /\ Held(disk', k) = Held(disk, k)
        /\ Table(disk, k, w.trak[k]) => Table(disk', k, w.trak[k])
        /\ Timed(disk, k, w.trak[k]) => Timed(disk', k, w.trak[k])
    <3>1. \A i \in (Len(disk) + 1)..Len(disk') : ~(disk'[i].box = "sample" /\ Track(disk'[i].frame) = k)
      BY <2>3
    <3> DEFINE t == w.trak[k]
               now == disk'
    <3>2. now \in Seq(Pieces)
      BY <1>8
    <3>3. /\ Len(disk) <= Len(now)
          /\ \A i \in 1..Len(disk) :
               /\ now[i].own = disk[i].own /\ now[i].box = disk[i].box
               /\ disk[i].box = "sample" => now[i].frame = disk[i].frame
          /\ \A i \in (Len(disk) + 1)..Len(now) : ~(now[i].box = "sample" /\ Track(now[i].frame) = k)
      BY <2>1, <2>2, <3>1
    <3> HIDE DEF t, now
    <3>4. /\ Held(now, k) = Held(disk, k)
          /\ Table(disk, k, t) => Table(now, k, t)
          /\ Timed(disk, k, t) => Timed(now, k, t)
      BY <1>1, <3>2, <3>3, TableKept
    <3> QED
      BY <3>4 DEF t, now
  <2> QED
    BY <2>4 DEF Mp4Good
<1>13. Mp4Good'
  BY <1>9, <1>10 DEF Mp4Good
<1> QED
  BY <1>2, <1>8, <1>9, <1>13 DEF FtypSize

-----------------------------------------------------------------------------
(* librtmp::Client: the packets have the times of the frames                *)

(* The key frames with a time, up to the frame i of those in given; the     *)
(* frames that are due, and the time of one of them.                        *)
Begun(given, i) == {j \in 1..i : given[j].type = 1 /\ given[j].ts # 0}
DueIn(given) ==
  {i \in 1..Len(given) : /\ given[i].type = 3 \/ given[i].cut
                         /\ given[i].type = 1 \/ Begun(given, i) # {}}
SinceIn(given, i) ==
  given[i].ts - IF Begun(given, i) = {} THEN given[i].ts ELSE given[Min(Begun(given, i))].ts

(* The packets of a file, and their configurations; the last one may lack   *)
(* its packet.                                                              *)
FramePackets(file) == {i \in 1..Len(file) : file[i].box \in {"audio", "video"}}
KeyPacket(p) == p.box = "video" /\ p.frame.type = 1
Configured(file, broken) ==
  /\ \A i \in 1..Len(file) : KeyPacket(file[i]) => i - 1 \in 1..Len(file) /\ file[i - 1].box = "config"
  /\ \A i \in 1..Len(file) : file[i].box = "config" =>
       IF i = Len(file) THEN broken ELSE i + 1 \in 1..Len(file) /\ KeyPacket(file[i + 1])

(* The frames that are due are the packets.                                 *)
Carries(file, P, given, D) ==
  /\ Cardinality(P) = Cardinality(D)
  /\ \A i \in P, j \in D : Nth(P, i) = Nth(D, j) =>
       file[i].frame = given[j] /\ file[i].dts = SinceIn(given, j)
Timely(file, given, broken) ==
  Carries(file, FramePackets(file), given, DueIn(given)) /\ Configured(file, broken)

(* The time that the packets count from is that of the first key frame.     *)
Counts(first, given) ==
  first = IF Begun(given, Len(given)) = {} THEN 0 ELSE given[Min(Begun(given, Len(given)))].ts
RtmpGood == Timely(disk, offered, w.lost) /\ (~w.lost => Counts(w.first, offered))

(* A frame more.                                                            *)
LEMMA FrameGiven ==
  ASSUME NEW given \in Seq(FramesOffered), NEW f \in FramesOffered
  PROVE  LET now == Append(given, f)  n == Len(given)
             opens == f.type = 1 /\ f.ts # 0
             due == (f.type = 3 \/ f.cut) /\ (f.type = 1 \/ Begun(given, n) # {})
         IN
         /\ n \in Nat /\ now \in Seq(FramesOffered) /\ Len(now) = n + 1 /\ now[n + 1] = f
         /\ \A i \in 1..n : now[i] = given[i]
         /\ Begun(given, n) \subseteq 1..n
         /\ Begun(now, n + 1) = IF opens THEN Begun(given, n) \cup {n + 1} ELSE Begun(given, n)
         /\ DueIn(given) \subseteq 1..n
         /\ DueIn(now) = IF due THEN DueIn(given) \cup {n + 1} ELSE DueIn(given)
         /\ \A i \in 1..n : SinceIn(now, i) = SinceIn(given, i)
<1> DEFINE now == Append(given, f)
           n == Len(given)
           opens == f.type = 1 /\ f.ts # 0
           due == (f.type = 3 \/ f.cut) /\ (f.type = 1 \/ Begun(given, n) # {})
<1>1. /\ n \in Nat /\ now \in Seq(FramesOffered) /\ Len(now) = n + 1 /\ now[n + 1] = f
      /\ \A i \in 1..n : now[i] = given[i]
  BY AppendProperties
<1> HIDE DEF now, n
<1>2. \A i \in 1..n : Begun(now, i) = Begun(given, i) /\ Begun(given, i) \subseteq 1..i
  <2>1. ASSUME NEW i \in 1..n PROVE Begun(now, i) = Begun(given, i)
    <3>1. \A j \in 1..i : j \in 1..n
      BY <1>1
    <3>2. \A j \in 1..i : now[j] = given[j]
      BY <1>1, <3>1
    <3> QED
      BY <3>2, Zenon DEF Begun
  <2> QED
    BY <2>1 DEF Begun
<1>3. Begun(given, n) \subseteq 1..n /\ DueIn(given) \subseteq 1..n
  BY DEF Begun, DueIn, n
<1>4. Begun(now, n + 1) = IF opens THEN Begun(given, n) \cup {n + 1} ELSE Begun(given, n)
  <2>1. ASSUME NEW j PROVE j \in Begun(now, n + 1) <=> j \in Begun(given, n) \/ (j = n + 1 /\ opens)
    <3>1. j \in 1..(n + 1) <=> j \in 1..n \/ j = n + 1
      BY <1>1
    <3>2. ~(n + 1 \in 1..n)
      BY <1>1
    <3> QED
      BY <1>1, <3>1, <3>2 DEF Begun
  <2>2. CASE opens
    BY <2>1, <2>2
  <2>3. CASE ~opens
    <3>1. \A j : j \in Begun(now, n + 1) <=> j \in Begun(given, n)
      BY <2>1, <2>3
    <3>2. Begun(now, n + 1) = Begun(given, n)
      BY <3>1 DEF Begun
    <3> QED
      BY <2>3, <3>2
  <2> QED
    BY <2>2, <2>3
<1>5. \A i \in 1..n : SinceIn(now, i) = SinceIn(given, i)
  <2>1. SUFFICES ASSUME NEW i \in 1..n PROVE SinceIn(now, i) = SinceIn(given, i)
    OBVIOUS
  <2>2. Begun(now, i) = Begun(given, i) /\ now[i] = given[i]
    BY <1>1, <1>2
  <2> DEFINE B == Begun(given, i)
  <2>3. B # {} => now[Min(B)] = given[Min(B)]
    <3>1. B \subseteq 1..i /\ i <= n /\ i \in Nat
      BY <1>1, <1>2
    <3>2. B # {} => Min(B) \in B
      BY <3>1, MinLeast
    <3>3. B # {} => Min(B) \in 1..n
      BY <1>1, <3>1, <3>2
    <3> QED
      BY <1>1, <3>3
  <2> QED
    BY <2>2, <2>3 DEF SinceIn
<1>6. DueIn(now) = IF due THEN DueIn(given) \cup {n + 1} ELSE DueIn(given)
  <2>1. (f.type = 1 \/ Begun(now, n + 1) # {}) <=> (f.type = 1 \/ Begun(given, n) # {})
    BY <1>4
  <2>2. n + 1 \in DueIn(now) <=> due
    <3>1. n + 1 \in 1..Len(now)
      BY <1>1
    <3> QED
      BY <1>1, <2>1, <3>1 DEF DueIn
  <2>3. \A i \in 1..n : i \in DueIn(now) <=> i \in DueIn(given)
    <3>1. \A i \in 1..n : i \in 1..Len(now) /\ i \in 1..Len(given) /\ now[i] = given[i]
      BY <1>1 DEF n
    <3> QED
      BY <1>2, <3>1 DEF DueIn
  <2>4. \A i \in DueIn(now) : i \in 1..n \/ i = n + 1
    BY <1>1 DEF DueIn
  <2>5. ~(n + 1 \in 1..n)
    BY <1>1
  <2> HIDE DEF due
  <2>6. CASE due
    <3>1. \A i : i \in DueIn(now) <=> i \in DueIn(given) \cup {n + 1}
      BY <1>3, <2>2, <2>3, <2>4, <2>5, <2>6
    <3> QED
      BY <2>6, <3>1
  <2>7. CASE ~due
    <3>1. \A i : i \in DueIn(now) <=> i \in DueIn(given)
      BY <1>3, <2>2, <2>3, <2>4, <2>7
    <3>2. DueIn(now) = DueIn(given)
      BY <3>1 DEF DueIn
    <3> QED
      BY <2>7, <3>2
  <2> QED
    BY <2>6, <2>7
<1> QED
  BY <1>1, <1>3, <1>4, <1>5, <1>6 DEF now, n

(* A piece more.                                                            *)
LEMMA PieceMore ==
  ASSUME NEW file \in Seq(Pieces), NEW p \in Pieces
  PROVE  LET more == file \o <<p>>  m == Len(file) IN
         /\ m \in Nat /\ more \in Seq(Pieces) /\ Len(more) = m + 1 /\ more[m + 1] = p
         /\ \A i \in 1..m : more[i] = file[i]
         /\ FramePackets(file) \subseteq 1..m /\ FramePackets(file) \subseteq Nat
         /\ IsFiniteSet(FramePackets(file))
         /\ FramePackets(more) = IF p.box \in {"audio", "video"} THEN FramePackets(file) \cup {m + 1}
                                 ELSE FramePackets(file)
<1> DEFINE more == file \o <<p>>
           m == Len(file)
<1>1. <<p>> \in Seq(Pieces) /\ Len(<<p>>) = 1 /\ <<p>>[1] = p /\ m \in Nat /\ 1 \in 1..1
  OBVIOUS
<1>2. /\ more \in Seq(Pieces) /\ Len(more) = m + 1 /\ more[m + 1] = p
      /\ \A i \in 1..m : more[i] = file[i]
  <2>1. /\ more \in Seq(Pieces) /\ Len(more) = Len(file) + Len(<<p>>)
        /\ \A i \in 1..Len(file) : more[i] = file[i]
        /\ \A i \in 1..Len(<<p>>) : more[Len(file) + i] = <<p>>[i]
    BY <1>1, FileExtended
  <2>2. more[Len(file) + 1] = p
    BY <1>1, <2>1
  <2> QED
    BY <1>1, <2>1, <2>2
<1> HIDE DEF more
<1>3. FramePackets(file) \subseteq 1..m /\ FramePackets(file) \subseteq Nat /\ IsFiniteSet(FramePackets(file))
  <2>1. FramePackets(file) \subseteq 1..m /\ IsFiniteSet(1..m)
    BY <1>1, FS_Interval DEF FramePackets
  <2> QED
    BY <1>1, <2>1, FS_Subset
<1> HIDE DEF m
<1> DEFINE packet == p.box \in {"audio", "video"}
<1>4. ASSUME NEW i PROVE i \in FramePackets(more) <=> i \in FramePackets(file) \/ (i = m + 1 /\ packet)
  <2>1. /\ i \in 1..Len(more) <=> i \in 1..m \/ i = m + 1
        /\ ~(m + 1 \in 1..m)
    BY <1>1, <1>2
  <2> QED
    BY <1>2, <2>1 DEF FramePackets, m
<1>5. CASE packet
  BY <1>1, <1>2, <1>3, <1>4, <1>5 DEF more, m
<1>6. CASE ~packet
  <2>1. \A i : i \in FramePackets(more) <=> i \in FramePackets(file)
    BY <1>4, <1>6
  <2>2. FramePackets(more) = FramePackets(file)
    BY <2>1 DEF FramePackets
  <2> QED
    BY <1>1, <1>2, <1>3, <1>6, <2>2 DEF more, m
<1> QED
  BY <1>5, <1>6

(* A configuration behind the others, and no packet yet.                    *)
LEMMA ConfigSent ==
  ASSUME NEW file \in Seq(Pieces), NEW given \in Seq(FramesOffered), Timely(file, given, FALSE),
         NEW c \in Pieces, c.box = "config"
  PROVE  Timely(file \o <<c>>, given, TRUE)
<1> DEFINE more == file \o <<c>>
           m == Len(file)
           P == FramePackets(file)
<1>1. /\ m \in Nat /\ Len(more) = m + 1 /\ more[m + 1] = c
      /\ \A i \in 1..m : more[i] = file[i]
      /\ P \subseteq 1..m /\ FramePackets(more) = P
  BY PieceMore
<1>2. Configured(file, FALSE) /\ Carries(file, P, given, DueIn(given))
  BY DEF Timely
<1> HIDE DEF more, m, P
<1>3. Carries(more, P, given, DueIn(given))
  <2>1. \A i \in P : more[i] = file[i]
    BY <1>1
  <2> QED
    BY <1>2, <2>1 DEF Carries
<1>4. ASSUME NEW i \in 1..Len(more), KeyPacket(more[i])
      PROVE  i - 1 \in 1..Len(more) /\ more[i - 1].box = "config"
  <2>1. i # m + 1
    BY <1>1, <1>4 DEF KeyPacket
  <2>2. i \in 1..m
    BY <1>1, <2>1
  <2>3. i - 1 \in 1..m /\ file[i - 1].box = "config"
    BY <1>1, <1>2, <1>4, <2>2 DEF Configured, m
  <2> QED
    BY <1>1, <2>3
<1>5. ASSUME NEW i \in 1..Len(more), more[i].box = "config", i # Len(more)
      PROVE  i + 1 \in 1..Len(more) /\ KeyPacket(more[i + 1])
  <2>1. i \in 1..m
    BY <1>1, <1>5
  <2>2. i + 1 \in 1..m /\ KeyPacket(file[i + 1])
    BY <1>1, <1>2, <1>5, <2>1 DEF Configured, m
  <2> QED
    BY <1>1, <2>2
<1>6. Configured(more, TRUE)
  BY <1>4, <1>5 DEF Configured
<1> QED
  BY <1>1, <1>3, <1>6 DEF Timely, more

(* A packet behind the others, of a frame that is due.                      *)
LEMMA PacketSent ==
  ASSUME NEW file \in Seq(Pieces), NEW given \in Seq(FramesOffered), NEW broken \in BOOLEAN,
         Timely(file, given, broken),
         NEW f \in FramesOffered, f.type = 3 \/ f.cut, f.type = 1 \/ Begun(given, Len(given)) # {},
         f.type = 1 => Len(file) > 0 /\ file[Len(file)].box = "config",
         f.type # 1 => ~broken,
         NEW body \in Pieces, body.box = IF f.type = 3 THEN "audio" ELSE "video", body.frame = f,
         body.dts = SinceIn(Append(given, f), Len(given) + 1)
  PROVE  Timely(file \o <<body>>, Append(given, f), FALSE)
<1> DEFINE more == file \o <<body>>
           m == Len(file)
           P == FramePackets(file)
           now == Append(given, f)
           n == Len(given)
           D == DueIn(given)
<1>1. /\ m \in Nat /\ Len(more) = m + 1 /\ more[m + 1] = body
      /\ \A i \in 1..m : more[i] = file[i]
      /\ P \subseteq 1..m /\ P \subseteq Nat /\ IsFiniteSet(P) /\ FramePackets(more) = P \cup {m + 1}
  BY PieceMore
<1>2. /\ n \in Nat /\ Len(now) = n + 1 /\ now[n + 1] = f /\ \A i \in 1..n : now[i] = given[i]
      /\ D \subseteq 1..n /\ DueIn(now) = D \cup {n + 1}
      /\ \A i \in 1..n : SinceIn(now, i) = SinceIn(given, i)
  BY FrameGiven
<1>3. Configured(file, broken) /\ Carries(file, P, given, D)
  BY DEF Timely
<1>4. body.dts = SinceIn(now, n + 1)
  OBVIOUS
<1> HIDE DEF more, m, P, now, n, D
<1>5. D \subseteq Nat /\ IsFiniteSet(D)
  <2>1. IsFiniteSet(1..n)
    BY <1>2, FS_Interval
  <2>2. \A i \in D : i \in Nat
    BY <1>2
  <2>3. IsFiniteSet(D)
    BY <1>2, <2>1, FS_Subset
  <2> QED
    BY <2>2, <2>3
<1>6. /\ Cardinality(P \cup {m + 1}) = Cardinality(P) + 1 /\ Nth(P \cup {m + 1}, m + 1) = Cardinality(P) + 1
      /\ \A i \in P : Nth(P \cup {m + 1}, i) = Nth(P, i)
  <2>1. \A i \in P : i < m + 1
    BY <1>1
  <2>2. m + 1 \in Nat
    BY <1>1
  <2> QED
    BY <1>1, <2>1, <2>2, NthAdded
<1>7. /\ Cardinality(D \cup {n + 1}) = Cardinality(D) + 1 /\ Nth(D \cup {n + 1}, n + 1) = Cardinality(D) + 1
      /\ \A i \in D : Nth(D \cup {n + 1}, i) = Nth(D, i)
  <2>1. \A i \in D : i < n + 1
    BY <1>2
  <2>2. n + 1 \in Nat
    BY <1>2
  <2> QED
    BY <1>5, <2>1, <2>2, NthAdded
<1>8. (\A i \in P : Nth(P, i) \in 1..Cardinality(P)) /\ (\A i \in D : Nth(D, i) \in 1..Cardinality(D))
  BY <1>1, <1>5, NthRange
<1>9. Cardinality(P) = Cardinality(D) /\ Cardinality(D) \in Nat
  BY <1>3, <1>5, FS_CardinalityType DEF Carries
<1>10. ASSUME NEW i \in P \cup {m + 1}, NEW j \in D \cup {n + 1},
              Nth(P \cup {m + 1}, i) = Nth(D \cup {n + 1}, j)
       PROVE  more[i].frame = now[j] /\ more[i].dts = SinceIn(now, j)
  <2>1. CASE i \in P /\ j \in D
    <3>1. Nth(P, i) = Nth(D, j)
      BY <1>6, <1>7, <1>10, <2>1
    <3>2. file[i].frame = given[j] /\ file[i].dts = SinceIn(given, j)
      BY <1>3, <2>1, <3>1 DEF Carries
    <3>3. more[i] = file[i] /\ now[j] = given[j] /\ SinceIn(now, j) = SinceIn(given, j)
      BY <1>1, <1>2, <2>1
    <3> QED
      BY <3>2, <3>3
  <2>2. CASE i \in P /\ j = n + 1
    BY <1>6, <1>7, <1>8, <1>9, <1>10, <2>2
  <2>3. CASE i = m + 1 /\ j \in D
    BY <1>6, <1>7, <1>8, <1>9, <1>10, <2>3
  <2>4. CASE i = m + 1 /\ j = n + 1
    BY <1>1, <1>2, <1>4, <2>4
  <2> QED
    BY <2>1, <2>2, <2>3, <2>4
<1>11. Carries(more, FramePackets(more), now, DueIn(now))
  <2> DEFINE Q == P \cup {m + 1}
             E == D \cup {n + 1}
  <2>1. Cardinality(Q) = Cardinality(E)
    BY <1>6, <1>7, <1>9
  <2>2. \A i \in Q, j \in E : Nth(Q, i) = Nth(E, j) =>
          more[i].frame = now[j] /\ more[i].dts = SinceIn(now, j)
    BY <1>10
  <2>3. FramePackets(more) = Q /\ DueIn(now) = E
    BY <1>1, <1>2
  <2> HIDE DEF Q, E
  <2> QED
    BY <2>1, <2>2, <2>3 DEF Carries
<1>12. ASSUME NEW i \in 1..Len(more), KeyPacket(more[i])
       PROVE  i - 1 \in 1..Len(more) /\ more[i - 1].box = "config"
  <2>1. CASE i = m + 1
    <3>1. f.type = 1
      BY <1>1, <1>12, <2>1 DEF KeyPacket
    <3>2. m > 0 /\ file[m].box = "config"
      BY <3>1 DEF m
    <3>3. m \in 1..m /\ i - 1 = m
      BY <1>1, <2>1, <3>2
    <3> QED
      BY <1>1, <3>2, <3>3
  <2>2. CASE i # m + 1
    <3>1. i \in 1..m
      BY <1>1, <2>2
    <3>2. i - 1 \in 1..m /\ file[i - 1].box = "config"
      BY <1>1, <1>3, <1>12, <3>1 DEF Configured, m
    <3> QED
      BY <1>1, <3>2
  <2> QED
    BY <2>1, <2>2
<1>13. ASSUME NEW i \in 1..Len(more), more[i].box = "config"
       PROVE  i # Len(more) /\ i + 1 \in 1..Len(more) /\ KeyPacket(more[i + 1])
  <2>1. i # m + 1
    BY <1>1, <1>13
  <2>2. i \in 1..m /\ more[i] = file[i]
    BY <1>1, <2>1
  <2>3. CASE i = m
    <3>1. broken
      BY <1>3, <1>13, <2>2, <2>3 DEF Configured, m
    <3>2. f.type = 1
      BY <3>1
    <3> QED
      BY <1>1, <2>3, <3>2 DEF KeyPacket
  <2>4. CASE i # m
    <3>1. i + 1 \in 1..m /\ KeyPacket(file[i + 1])
      BY <1>3, <1>13, <2>2, <2>4 DEF Configured, m
    <3> QED
      BY <1>1, <3>1
  <2> QED
    BY <2>3, <2>4
<1>14. Configured(more, FALSE)
  BY <1>12, <1>13 DEF Configured
<1> QED
  BY <1>11, <1>14 DEF Timely, more, now

(* It makes PacketsTimed.                                                   *)
LEMMA SentIsTimed ==
  ASSUME disk \in Seq(Pieces), offered \in Seq(FramesOffered), w.kind = "rtmp" => RtmpGood
  PROVE  PacketsTimed
<1>1. SUFFICES ASSUME w.kind = "rtmp" PROVE PacketsTimed
  BY DEF PacketsTimed
<1>2. /\ Carries(disk, FramePackets(disk), offered, DueIn(offered)) /\ Configured(disk, w.lost)
  BY <1>1 DEF RtmpGood, Timely
<1>3. DOMAIN disk = 1..Len(disk) /\ DOMAIN offered = 1..Len(offered) /\ Len(disk) \in Nat /\ Len(offered) \in Nat
  OBVIOUS
<1>4. FlvPackets = FramePackets(disk)
  <2>1. \A i : i \in FlvPackets <=> i \in FramePackets(disk)
    BY <1>3 DEF FlvPackets, Of, FramePackets
  <2> QED
    BY <2>1 DEF FlvPackets, FramePackets
<1>5. ASSUME NEW i \in 1..Len(offered) PROVE Begins(i) = Begun(offered, i)
  <2>1. \A j : j \in Begins(i) <=> j \in Begun(offered, i)
    BY <1>3 DEF Begins, Begun, KeyFrames
  <2> QED
    BY <2>1 DEF Begins, Begun
<1>6. Due = DueIn(offered)
  <2>1. \A i : i \in Due <=> i \in DueIn(offered)
    BY <1>3, <1>5 DEF Due, DueIn
  <2> QED
    BY <2>1 DEF Due, DueIn
<1>7. \A j \in Due : Since(j) = SinceIn(offered, j)
  <2>1. \A j \in Due : j \in 1..Len(offered)
    BY <1>3 DEF Due
  <2> QED
    BY <1>5, <2>1 DEF Since, SinceIn
<1>8. /\ Cardinality(FlvPackets) = Cardinality(Due)
      /\ \A i \in FlvPackets, j \in Due : Nth(FlvPackets, i) = Nth(Due, j) =>
           disk[i].frame = offered[j] /\ disk[i].dts = Since(j)
  BY <1>2, <1>4, <1>6, <1>7 DEF Carries
<1>9. \A i \in Of("video") : disk[i].frame.type = 1 => i - 1 \in Of("config")
  <2>1. \A i \in Of("video") : i \in 1..Len(disk) /\ disk[i].box = "video"
    BY <1>3 DEF Of
  <2>2. \A j \in 1..Len(disk) : disk[j].box = "config" => j \in Of("config")
    BY <1>3 DEF Of
  <2> QED
    BY <1>2, <2>1, <2>2 DEF Configured, KeyPacket
<1>10. \A i \in Of("config") :
         IF i = Len(disk) THEN w.lost ELSE i + 1 \in Of("video") /\ disk[i + 1].frame.type = 1
  <2>1. \A i \in Of("config") : i \in 1..Len(disk) /\ disk[i].box = "config"
    BY <1>3 DEF Of
  <2>2. \A j \in 1..Len(disk) : disk[j].box = "video" => j \in Of("video")
    BY <1>3 DEF Of
  <2> QED
    BY <1>2, <2>1, <2>2 DEF Configured, KeyPacket
<1> QED
  BY <1>8, <1>9, <1>10 DEF PacketsTimed

(* Two pieces, and one after the other.                                     *)
LEMMA PairOfPieces ==
  ASSUME NEW p \in Pieces, NEW q \in Pieces
  PROVE  /\ <<p>> \o <<q>> = <<p, q>> /\ <<>> \o <<q>> = <<q>>
         /\ SubSeq(<<q>>, 1, 1) = <<q>>
         /\ SubSeq(<<p, q>>, 1, 1) = <<p>> /\ SubSeq(<<p, q>>, 1, 2) = <<p, q>>
<1>1. <<p>> \in Seq(Pieces) /\ <<q>> \in Seq(Pieces) /\ <<p, q>> \in Seq(Pieces)
  OBVIOUS
<1>2. Len(<<p>>) = 1 /\ Len(<<q>>) = 1 /\ Len(<<p, q>>) = 2
  OBVIOUS
<1>3. <<>> \o <<q>> = <<q>>
  BY <1>1, ConcatEmptySeq
<1>4. <<p>> \o <<q>> = <<p, q>>
  <2> DEFINE both == <<p>> \o <<q>>
  <2>1. /\ both \in Seq(Pieces) /\ Len(both) = 2
        /\ \A i \in 1..2 : both[i] = IF i <= 1 THEN <<p>>[i] ELSE <<q>>[i - 1]
    BY <1>1, <1>2, ConcatProperties
  <2> HIDE DEF both
  <2>2. \A i \in 1..2 : both[i] = <<p, q>>[i]
    BY <2>1
  <2> QED
    BY <1>1, <1>2, <2>1, <2>2, SeqEqual DEF both
<1>5. SubSeq(<<q>>, 1, 1) = <<q>> /\ SubSeq(<<p, q>>, 1, 2) = <<p, q>>
  BY <1>1, <1>2, SubSeqFull
<1>6. SubSeq(<<p, q>>, 1, 1) = <<p>>
  <2> DEFINE s == <<p, q>>
             t == SubSeq(s, 1, 1)
  <2>1. s \in Seq(Pieces) /\ s[1] = p /\ 1 \in 1..1 /\ 1 \in 1..Len(s)
    BY <1>1, <1>2
  <2> HIDE DEF s
  <2>2. t = SubSeq(s, 1, 1 - 1) \o <<s[1]>>
    BY <2>1, SubSeqRecursiveSecond
  <2>3. SubSeq(s, 1, 1 - 1) = <<>>
    BY SubSeqEmpty
  <2>4. <<>> \o <<p>> = <<p>>
    BY <1>1, ConcatEmptySeq
  <2> QED
    BY <2>1, <2>2, <2>3, <2>4 DEF s
<1> QED
  BY <1>3, <1>4, <1>5, <1>6

(* What the connection takes of the packets of a frame: nothing, or a       *)
(* configuration alone, or everything.                                      *)
LEMMA PacketsTaken ==
  ASSUME NEW f, NEW size, NEW c, NEW body,
         c = [box |-> "config", size |-> size, own |-> size, dts |-> f.ts - FirstTime(f)],
         body = [box |-> IF f.type = 3 THEN "audio" ELSE "video", size |-> Body(f), own |-> Body(f),
                 dts |-> f.ts - FirstTime(f), frame |-> f],
         c \in Pieces, body \in Pieces, NEW n \in 0..Len(PacketsOf(f, size))
  PROVE  LET taken == SubSeq(PacketsOf(f, size), 1, n)  k == Len(PacketsOf(f, size)) IN
         /\ k \in 0..2 /\ (n = 0 => taken = <<>>)
         /\ f.type # 3 /\ ~f.cut => k = 0
         /\ (f.type = 3 \/ f.cut) /\ f.type # 1 => k = 1 /\ (n = 1 => taken = <<body>>)
         /\ f.type = 1 /\ f.cut =>
              k = 2 /\ (n = 1 => taken = <<c>>) /\ (n = 2 => taken = <<c, body>>)
<1> DEFINE all == PacketsOf(f, size)
           taken == SubSeq(all, 1, n)
<1>1. /\ f.type # 3 /\ ~f.cut => all = <<>>
      /\ (f.type = 3 \/ f.cut) /\ f.type # 1 => all = <<body>>
      /\ f.type = 1 /\ f.cut => all = <<c, body>>
  <2>1. <<c>> \o <<body>> = <<c, body>> /\ <<>> \o <<body>> = <<body>>
    BY PairOfPieces
  <2> QED
    BY <2>1 DEF PacketsOf
<1>2. n \in 0..Len(all)
  OBVIOUS
<1> HIDE DEF all
<1>3. /\ f.type # 3 /\ ~f.cut => Len(all) = 0
      /\ (f.type = 3 \/ f.cut) /\ f.type # 1 => Len(all) = 1
      /\ f.type = 1 /\ f.cut => Len(all) = 2
  BY <1>1
<1>4. Len(all) \in 0..2 /\ (n = 0 => taken = <<>>)
  <2>1. Len(all) \in 0..2
    BY <1>3
  <2>2. n = 0 => taken = <<>>
    BY SubSeqEmpty
  <2> QED
    BY <2>1, <2>2
<1>5. all = <<body>> /\ n = 1 => taken = <<body>>
  BY PairOfPieces
<1>6. all = <<c, body>> => (n = 1 => taken = <<c>>) /\ (n = 2 => taken = <<c, body>>)
  BY PairOfPieces
<1> HIDE DEF taken
<1> QED
  BY <1>1, <1>3, <1>4, <1>5, <1>6 DEF all, taken

(* A frame for which the writer has a first time, or that brings it.        *)
LEMMA PublishStep ==
  ASSUME FilesTypeOK, w.kind = "rtmp", RtmpGood, NEW f \in FramesOffered, NEW size \in Nat,
         f.type = 1 \/ w.first # 0, Publish(f, size)
  PROVE  /\ disk' \in Seq(Pieces) /\ w' \in Writing /\ w'.kind = w.kind /\ w'.seq = w.seq
         /\ offered' \in {offered, Append(offered, f)} /\ RtmpGood'
<1>1. /\ w \in Writing /\ w.first \in Nat /\ w.lost \in BOOLEAN /\ disk \in Seq(Pieces)
      /\ offered \in Seq(FramesOffered)
  BY DEF FilesTypeOK, Writing
<1>2. f.ts \in Nat /\ f.type \in 1..3 /\ f.len \in Nat /\ f.cut \in BOOLEAN
  BY Mp4Assumption DEF FramesOffered
<1>3. PICK n \in 0..Len(PacketsOf(f, size)) :
        /\ w.lost => n = 0
        /\ w' = [w EXCEPT !.first = FirstTime(f), !.begun = TRUE,
                          !.lost = w.lost \/ n < Len(PacketsOf(f, size))]
        /\ disk' = disk \o SubSeq(PacketsOf(f, size), 1, n)
        /\ offered' = IF w'.lost THEN offered ELSE Append(offered, f)
  BY DEF Publish
<1> DEFINE dts == f.ts - FirstTime(f)
           c == [box |-> "config", size |-> size, own |-> size, dts |-> dts]
           body == [box |-> IF f.type = 3 THEN "audio" ELSE "video", size |-> Body(f), own |-> Body(f),
                    dts |-> dts, frame |-> f]
           taken == SubSeq(PacketsOf(f, size), 1, n)
           k == Len(PacketsOf(f, size))
           now == Append(offered, f)
           m == Len(offered)
           B == Begun(offered, m)
<1>4. FirstTime(f) \in Nat /\ dts \in Int
  BY <1>1, <1>2 DEF FirstTime
<1>5. /\ c \in Pieces /\ c.box = "config" /\ body \in Pieces /\ body.frame = f /\ body.dts = dts
      /\ body.box = IF f.type = 3 THEN "audio" ELSE "video"
  <2>1. Body(f) \in Nat
    BY <1>2 DEF Body
  <2> HIDE DEF dts
  <2> QED
    BY <1>4, <2>1 DEF Pieces
<1>6. /\ k \in 0..2 /\ n \in 0..k /\ (n = 0 => taken = <<>>)
      /\ f.type # 3 /\ ~f.cut => k = 0
      /\ (f.type = 3 \/ f.cut) /\ f.type # 1 => k = 1 /\ (n = 1 => taken = <<body>>)
      /\ f.type = 1 /\ f.cut =>
           k = 2 /\ (n = 1 => taken = <<c>>) /\ (n = 2 => taken = <<c, body>>)
  BY <1>5, PacketsTaken
<1>7. /\ w' \in Writing /\ w'.kind = w.kind /\ w'.seq = w.seq /\ w'.first = FirstTime(f)
      /\ w'.lost = (w.lost \/ n < k)
  BY <1>1, <1>3, <1>4, <1>6 DEF Writing
<1>8. /\ m \in Nat /\ now[m + 1] = f /\ B \subseteq 1..m /\ Len(now) = m + 1
      /\ \A i \in 1..m : now[i] = offered[i]
      /\ Begun(now, m + 1) = IF f.type = 1 /\ f.ts # 0 THEN B \cup {m + 1} ELSE B
      /\ DueIn(offered) \subseteq 1..m
      /\ ~((f.type = 3 \/ f.cut) /\ (f.type = 1 \/ B # {})) => DueIn(now) = DueIn(offered)
      /\ \A i \in 1..m : SinceIn(now, i) = SinceIn(offered, i)
  BY <1>1, FrameGiven
<1>9. Timely(disk, offered, w.lost) /\ (~w.lost => Counts(w.first, offered))
  BY DEF RtmpGood
<1>10. disk' = disk \o taken /\ offered' = IF w'.lost THEN offered ELSE now
  BY <1>3
<1>11. disk \o <<>> = disk
  BY <1>1, ConcatEmptySeq
<1> HIDE DEF c, body, taken, k
<1>12. CASE w'.lost
  <2>1. offered' = offered
    BY <1>10, <1>12
  <2>2. CASE n = 0
    <3>1. disk' = disk
      BY <1>6, <1>10, <1>11, <2>2
    <3>2. Timely(disk, offered, TRUE)
      BY <1>9 DEF Timely, Configured
    <3>3. RtmpGood'
      BY <1>12, <2>1, <3>1, <3>2 DEF RtmpGood
    <3> QED
      BY <1>1, <1>7, <2>1, <3>1, <3>3
  <2>3. CASE n # 0
    <3>1. ~w.lost /\ n < k
      BY <1>3, <1>7, <1>12, <2>3
    <3>2. k = 2 /\ n = 1 /\ taken = <<c>>
      BY <1>2, <1>6, <2>3, <3>1
    <3>3. Timely(disk \o <<c>>, offered, TRUE) /\ disk \o <<c>> \in Seq(Pieces)
      <4>1. Timely(disk, offered, FALSE)
        BY <1>1, <1>9, <3>1
      <4>2. Timely(disk \o <<c>>, offered, TRUE)
        BY <1>1, <1>5, <4>1, ConfigSent
      <4> QED
        BY <1>1, <1>5, <4>2, PieceMore
    <3>4. disk' = disk \o <<c>>
      BY <1>10, <3>2
    <3>5. RtmpGood'
      BY <1>12, <2>1, <3>3, <3>4 DEF RtmpGood
    <3> QED
      BY <1>7, <2>1, <3>3, <3>4, <3>5
  <2> QED
    BY <2>2, <2>3
<1>13. CASE ~w'.lost
  <2>0. ~w.lost /\ ~(n < k)
    BY <1>7, <1>13
  <2>00. n \in Nat /\ k \in Nat /\ n <= k
    BY <1>6
  <2>1. ~w.lost /\ n = k /\ offered' = now
    BY <1>10, <1>13, <2>0, <2>00
  <2>2. Timely(disk, offered, FALSE) /\ Counts(w.first, offered)
    BY <1>1, <1>9, <2>1
  <2>3. IF B = {} THEN w.first = 0 /\ f.type = 1
        ELSE Min(B) \in 1..m /\ w.first = offered[Min(B)].ts /\ w.first # 0
    <3>1. B # {} => Min(B) \in B
      <4>1. B \subseteq Nat
        BY <1>8
      <4> QED
        BY <4>1, MinLeast
    <3>2. B # {} => offered[Min(B)].ts # 0
      BY <3>1 DEF Begun
    <3> QED
      BY <1>8, <2>2, <3>1, <3>2 DEF Counts
  <2>4. Counts(FirstTime(f), now) /\ dts = SinceIn(now, m + 1)
    <3> DEFINE C == Begun(now, m + 1)
    <3>1. CASE B = {} /\ f.ts = 0
      <4>1. C = {} /\ FirstTime(f) = 0
        BY <1>8, <2>3, <3>1 DEF FirstTime
      <4> QED
        BY <1>2, <1>8, <3>1, <4>1 DEF Counts, SinceIn
    <3>2. CASE B = {} /\ f.ts # 0
      <4>1. C = {m + 1} /\ FirstTime(f) = f.ts
        BY <1>8, <2>3, <3>2 DEF FirstTime
      <4>2. Min(C) = m + 1
        <5>1. {m + 1} \subseteq Nat /\ m + 1 \in {m + 1} /\ \A i \in {m + 1} : m + 1 <= i
          BY <1>8
        <5> QED
          BY <4>1, <5>1, MinIs
      <4>3. C # {}
        BY <4>1
      <4> HIDE DEF C
      <4> QED
        BY <1>2, <1>8, <4>1, <4>2, <4>3 DEF Counts, SinceIn, C
    <3>3. CASE B # {}
      <4>1. C # {} /\ Min(C) = Min(B)
        <5>1. B \subseteq Nat /\ m + 1 \in Nat /\ \A i \in B : i < m + 1
          BY <1>8
        <5>2. Min(B \cup {m + 1}) = Min(B)
          BY <3>3, <5>1, ExtremesAdded
        <5> QED
          BY <1>8, <3>3, <5>2
      <4>2. now[Min(C)].ts = w.first /\ FirstTime(f) = w.first
        BY <1>8, <2>3, <3>3, <4>1 DEF FirstTime
      <4> HIDE DEF C
      <4> QED
        BY <1>8, <4>1, <4>2 DEF Counts, SinceIn, C
    <3> QED
      BY <3>1, <3>2, <3>3
  <2>5. disk' \in Seq(Pieces) /\ Timely(disk', now, FALSE)
    <3>1. CASE f.type # 3 /\ ~f.cut
      <4>1. disk' = disk
        BY <1>6, <1>10, <1>11, <2>1, <3>1
      <4>2. DueIn(now) = DueIn(offered)
        BY <1>8, <3>1
      <4>3. \A j \in DueIn(offered) : now[j] = offered[j] /\ SinceIn(now, j) = SinceIn(offered, j)
        BY <1>8
      <4> HIDE DEF now
      <4> QED
        BY <1>1, <2>2, <4>1, <4>2, <4>3 DEF Timely, Carries
    <3>2. CASE (f.type = 3 \/ f.cut) /\ f.type # 1
      <4>1. disk' = disk \o <<body>>
        BY <1>6, <1>10, <2>1, <3>2
      <4>2. body.dts = SinceIn(now, m + 1) /\ B # {}
        BY <1>5, <2>3, <2>4, <3>2
      <4>3. f.type = 3 \/ f.cut
        BY <3>2
      <4>4. Timely(disk \o <<body>>, now, FALSE)
        BY <1>1, <1>5, <2>2, <3>2, <4>2, <4>3, PacketSent
      <4> QED
        BY <1>1, <1>5, <4>1, <4>4, PieceMore
    <3>3. CASE f.type = 1 /\ f.cut
      <4> DEFINE file == disk \o <<c>>
      <4>1. Timely(file, offered, TRUE)
        BY <1>1, <1>5, <2>2, ConfigSent
      <4>5. file \in Seq(Pieces) /\ Len(file) > 0 /\ file[Len(file)].box = "config"
        BY <1>1, <1>5, PieceMore
      <4>2. disk' = file \o <<body>>
        <5>1. disk' = disk \o (<<c>> \o <<body>>)
          <6>1. <<c, body>> = <<c>> \o <<body>>
            BY <1>5, PairOfPieces
          <6> QED
            BY <1>6, <1>10, <2>1, <3>3, <6>1
        <5>2. <<c>> \in Seq(Pieces) /\ <<body>> \in Seq(Pieces)
          BY <1>5
        <5> QED
          BY <1>1, <5>1, <5>2, ConcatAssociative
      <4>3. body.dts = SinceIn(now, m + 1)
        BY <1>5, <2>4
      <4> HIDE DEF file
      <4>4. Timely(file \o <<body>>, now, FALSE)
        BY <1>1, <1>5, <3>3, <4>1, <4>3, <4>5, PacketSent
      <4>6. file \o <<body>> \in Seq(Pieces)
        BY <1>5, <4>5, PieceMore
      <4> HIDE DEF now
      <4> QED
        BY <4>2, <4>4, <4>6
    <3>4. f.type = 3 => f.type # 1
      OBVIOUS
    <3> HIDE DEF now
    <3> QED
      BY <3>1, <3>2, <3>3, <3>4
  <2>6. RtmpGood'
    BY <1>7, <1>13, <2>1, <2>4, <2>5 DEF RtmpGood
  <2> QED
    BY <1>7, <2>1, <2>5, <2>6
<1> QED
  BY <1>1, <1>7, <1>12, <1>13

(* A frame, from the first key frame on a packet.                           *)
LEMMA RtmpFrameStep ==
  ASSUME FilesTypeOK, w.kind = "rtmp", RtmpGood, NEW f \in FramesOffered,
         NEW config \in Configs, RtmpFrame(f, config)
  PROVE  /\ disk' \in Seq(Pieces) /\ w' \in Writing /\ w'.kind = w.kind /\ w'.seq = w.seq
         /\ offered' \in {offered, Append(offered, f)} /\ RtmpGood'
<1>1. /\ w \in Writing /\ w.lost \in BOOLEAN /\ disk \in Seq(Pieces) /\ offered \in Seq(FramesOffered)
  BY DEF FilesTypeOK, Writing
<1>2. Timely(disk, offered, w.lost) /\ (~w.lost => Counts(w.first, offered))
  BY DEF RtmpGood
<1>3. CASE w.first = 0 /\ f.type # 1
  <2>1. w' = w /\ disk' = disk /\ offered' = IF w.lost THEN offered ELSE Append(offered, f)
    BY <1>3 DEF RtmpFrame
  <2>2. CASE w.lost
    BY <1>1, <1>2, <2>1, <2>2 DEF RtmpGood
  <2>3. CASE ~w.lost
    <3> DEFINE now == Append(offered, f)
               m == Len(offered)
               B == Begun(offered, m)
    <3>1. /\ m \in Nat /\ B \subseteq 1..m /\ Len(now) = m + 1 /\ \A i \in 1..m : now[i] = offered[i]
          /\ Begun(now, m + 1) = B /\ DueIn(offered) \subseteq 1..m
          /\ (B = {} => DueIn(now) = DueIn(offered))
          /\ \A i \in 1..m : SinceIn(now, i) = SinceIn(offered, i)
      BY <1>1, <1>3, FrameGiven
    <3>2. B = {}
      <4>1. SUFFICES ASSUME B # {} PROVE FALSE
        OBVIOUS
      <4>2. Min(B) \in B
        <5>1. B \subseteq Nat
          BY <3>1
        <5> QED
          BY <4>1, <5>1, MinLeast
      <4> QED
        BY <1>2, <1>3, <2>3, <4>1, <4>2 DEF Counts, Begun
    <3>3. \A j \in DueIn(offered) : now[j] = offered[j] /\ SinceIn(now, j) = SinceIn(offered, j)
      BY <3>1
    <3>4. DueIn(now) = DueIn(offered) /\ offered' = now /\ Begun(now, Len(now)) = {}
      BY <2>1, <2>3, <3>1, <3>2
    <3> HIDE DEF now
    <3>5. Timely(disk, now, w.lost)
      BY <1>2, <3>3, <3>4 DEF Timely, Carries
    <3>6. Counts(w.first, now)
      BY <1>3, <3>4 DEF Counts
    <3>7. RtmpGood'
      BY <2>1, <3>4, <3>5, <3>6 DEF RtmpGood
    <3> QED
      BY <1>1, <2>1, <2>3, <3>7
  <2> QED
    BY <2>2, <2>3
<1>4. CASE w' = [w EXCEPT !.file = "undefined"] /\ UNCHANGED <<disk, offered>>
  <2>1. /\ w' \in Writing /\ w'.kind = w.kind /\ w'.seq = w.seq /\ w'.first = w.first /\ w'.lost = w.lost
    BY <1>1, <1>4 DEF Writing
  <2>2. RtmpGood'
    BY <1>2, <1>4, <2>1 DEF RtmpGood
  <2> QED
    BY <1>1, <1>4, <2>1, <2>2
<1>5. ASSUME NEW spare \in Lengths \cup {0}, Publish(f, ConfigBody(config, spare)), ~(w.first = 0 /\ f.type # 1)
      PROVE  /\ disk' \in Seq(Pieces) /\ w' \in Writing /\ w'.kind = w.kind /\ w'.seq = w.seq
             /\ offered' \in {offered, Append(offered, f)} /\ RtmpGood'
  <2>1. config \in Nat \X Nat \X Nat /\ spare \in Nat
    BY Mp4Assumption
  <2>2. ConfigBody(config, spare) \in Nat
    BY <2>1 DEF ConfigBody
  <2> QED
    BY <1>5, <2>2, PublishStep
<1>6. \/ w.first = 0 /\ f.type # 1
      \/ w' = [w EXCEPT !.file = "undefined"] /\ UNCHANGED <<disk, offered>>
      \/ \E spare \in Lengths \cup {0} :
           Publish(f, ConfigBody(config, spare)) /\ ~(w.first = 0 /\ f.type # 1)
  BY DEF RtmpFrame
<1> QED
  BY <1>3, <1>4, <1>5, <1>6

-----------------------------------------------------------------------------
(* FMp4: the fragments chain                                                *)

Fragments(file) == {i \in DOMAIN file : file[i].box = "moof"}

(* As FragmentsChain has it, with the box that holds the number.            *)
Chain(file) ==
  /\ {i \in DOMAIN file : file[i].box = "sample"} = {i + 7 : i \in Fragments(file)}
  /\ \A i \in Fragments(file) :
       /\ file[i + 1].box = "mfhd" /\ file[i + 1].seq = Nth(Fragments(file), i) - 1
       /\ file[i + 5].length = file[i + 7].own
       /\ Positions(file)[i + 7] = Positions(file)[i] + file[i + 5].offset
  /\ \A i \in Fragments(file) : Nth(Fragments(file), i) = 1 => file[i + 4].time = file[i + 5].duration
  /\ \A i, j \in Fragments(file) : Nth(Fragments(file), j) = Nth(Fragments(file), i) + 1 =>
       file[j + 4].time = file[i + 4].time + file[j + 5].duration

(* The decode time of the last fragment.                                    *)
Latest(file, time) ==
  \A i \in Fragments(file) : Nth(Fragments(file), i) = Cardinality(Fragments(file)) => file[i + 4].time = time

(* The numbers of fragments go on, and the last has the time of the last    *)
(* frame, from the first.                                                   *)
FMp4Good ==
  /\ Chain(disk) /\ w.seq = Cardinality(Fragments(disk))
  /\ w.first = 0 => Fragments(disk) = {}
  /\ w.first # 0 => Fragments(disk) # {} /\ Latest(disk, w.last - w.first)

LEMMA FragmentsType ==
  ASSUME NEW file \in Seq(Pieces)
  PROVE  /\ Fragments(file) \subseteq 1..Len(file) /\ Fragments(file) \subseteq Nat
         /\ IsFiniteSet(Fragments(file)) /\ Cardinality(Fragments(file)) \in Nat
         /\ Chain(file) => \A i \in Fragments(file) : i + 7 \in 1..Len(file)
<1>1. Len(file) \in Nat /\ DOMAIN file = 1..Len(file)
  OBVIOUS
<1>2. Fragments(file) \subseteq 1..Len(file) /\ IsFiniteSet(1..Len(file))
  <2>1. Fragments(file) \subseteq DOMAIN file
    BY DEF Fragments
  <2> QED
    BY <1>1, <2>1, FS_Interval
<1>3. Fragments(file) \subseteq Nat
  BY <1>2
<1>4. IsFiniteSet(Fragments(file)) /\ Cardinality(Fragments(file)) \in Nat
  BY <1>2, FS_Subset, FS_CardinalityType
<1>5. ASSUME Chain(file), NEW i \in Fragments(file) PROVE i + 7 \in 1..Len(file)
  <2>1. i + 7 \in {j \in DOMAIN file : file[j].box = "sample"}
    BY <1>5 DEF Chain
  <2> QED
    BY <1>1, <2>1
<1> QED
  BY <1>2, <1>3, <1>4, <1>5

(* What the boxes of a fragment are for.                                    *)
MoofHolds(moof, seq, track, time, duration, size) ==
  /\ moof \in Seq(Pieces) /\ Len(moof) = 7
  /\ moof[1].box = "moof" /\ moof[1].own = 8
  /\ moof[2].box = "mfhd" /\ moof[2].own = 16 /\ moof[2].seq = seq
  /\ moof[3].box = "traf" /\ moof[3].own = 8
  /\ moof[4].box = "tfhd" /\ moof[4].own = 16
  /\ moof[5].box = "tfdt" /\ moof[5].own = 16 /\ moof[5].time = time
  /\ moof[6].box = "trun" /\ moof[6].own = 36 /\ moof[6].duration = duration
  /\ moof[6].length = size /\ moof[6].offset = 108
  /\ moof[7].box = "mdat" /\ moof[7].own = 8

LEMMA MoofType ==
  ASSUME NEW seq \in Nat, NEW track \in 1..2, NEW time \in Int, NEW duration \in Int, NEW size \in Nat
  PROVE  MoofHolds(Moof(seq, track, time, duration, size), seq, track, time, duration, size)
<1> DEFINE a == Box("moof", MoofSize - MdatSize, 8)
           b == Mfhd(seq)
           c == Box("traf", 76, 8)
           d == Tfhd(track)
           e == Tfdt(time)
           g == Trun(duration, size, MoofSize)
           h == Box("mdat", MdatSize + size, MdatSize)
<1>1. /\ a \in Pieces /\ a.box = "moof" /\ a.own = 8
      /\ c \in Pieces /\ c.box = "traf" /\ c.own = 8
      /\ h \in Pieces /\ h.box = "mdat" /\ h.own = 8
  BY DEF Box, Pieces, Plain, MoofSize, MdatSize
<1>2. b \in Pieces /\ b.box = "mfhd" /\ b.own = 16 /\ b.seq = seq
  BY DEF Mfhd, Pieces
<1>3. d \in Pieces /\ d.box = "tfhd" /\ d.own = 16
  BY DEF Tfhd, Pieces
<1>4. e \in Pieces /\ e.box = "tfdt" /\ e.own = 16 /\ e.time = time
  BY DEF Tfdt, Pieces
<1>5. /\ g \in Pieces /\ g.box = "trun" /\ g.own = 36
      /\ g.duration = duration /\ g.length = size /\ g.offset = 108
  BY DEF Trun, Pieces, MoofSize
<1>6. Moof(seq, track, time, duration, size) = <<a, b, c, d, e, g, h>>
  BY DEF Moof
<1> HIDE DEF a, b, c, d, e, g, h
<1> DEFINE moof == <<a, b, c, d, e, g, h>>
<1>7. /\ moof = [n \in 1..7 |-> moof[n]] /\ moof[1] = a /\ moof[2] = b /\ moof[3] = c /\ moof[4] = d
      /\ moof[5] = e /\ moof[6] = g /\ moof[7] = h /\ Len(moof) = 7
  OBVIOUS
<1> HIDE DEF moof
<1>8. moof \in Seq(Pieces)
  BY <1>1, <1>2, <1>3, <1>4, <1>5 DEF moof
<1>9. MoofHolds(moof, seq, track, time, duration, size)
  BY <1>1, <1>2, <1>3, <1>4, <1>5, <1>7, <1>8 DEF MoofHolds
<1> QED
  BY <1>6, <1>9 DEF moof

(* What a file is given: a frame, at the time after the last.               *)
Adds(file, f, seq, before, time, duration, more) ==
  /\ file \in Seq(Pieces) /\ Chain(file) /\ f \in FramesOffered
  /\ seq = Cardinality(Fragments(file))
  /\ before \in Int /\ time \in Int /\ duration \in Int
  /\ Fragments(file) = {} => time = duration
  /\ Fragments(file) # {} => Latest(file, before) /\ time = before + duration
  /\ more = file \o Moof(seq, Track(f), time, duration, Stored(f)) \o <<Sample(f)>>

(* Seven boxes and a sample, a fragment more.                               *)
LEMMA FragmentAdded ==
  ASSUME NEW file, NEW f, NEW seq, NEW before, NEW time, NEW duration, NEW more,
         Adds(file, f, seq, before, time, duration, more)
  PROVE  /\ more \in Seq(Pieces) /\ Chain(more) /\ Latest(more, time)
         /\ Cardinality(Fragments(more)) = seq + 1 /\ Fragments(more) # {}
<1>0. /\ file \in Seq(Pieces) /\ Chain(file) /\ f \in FramesOffered
      /\ seq = Cardinality(Fragments(file))
      /\ before \in Int /\ time \in Int /\ duration \in Int
      /\ Fragments(file) = {} => time = duration
      /\ Fragments(file) # {} => Latest(file, before) /\ time = before + duration
      /\ more = file \o Moof(seq, Track(f), time, duration, Stored(f)) \o <<Sample(f)>>
  BY DEF Adds
<1> USE <1>0
<1> DEFINE moof == Moof(seq, Track(f), time, duration, Stored(f))
           F == Fragments(file)
           n == Len(file)
           L == n + 1
           p == Positions(more)
<1>1. /\ Sample(f) \in Pieces /\ Sample(f).box = "sample" /\ Sample(f).own = Stored(f)
      /\ Stored(f) \in Nat /\ Track(f) \in 1..2
  BY SampleType
<1>2. /\ F \subseteq 1..n /\ F \subseteq Nat /\ IsFiniteSet(F) /\ Cardinality(F) \in Nat
      /\ \A i \in F : i + 7 \in 1..n
  BY FragmentsType
<1>3. seq \in Nat /\ n \in Nat /\ L \in Nat
  BY <1>2
<1>4. MoofHolds(moof, seq, Track(f), time, duration, Stored(f)) /\ moof \in Seq(Pieces) /\ Len(moof) = 7
  <2>1. MoofHolds(moof, seq, Track(f), time, duration, Stored(f))
    BY <1>1, <1>3, MoofType
  <2> QED
    BY <2>1 DEF MoofHolds
<1>5. <<Sample(f)>> \in Seq(Pieces) /\ Len(<<Sample(f)>>) = 1 /\ <<Sample(f)>>[1] = Sample(f)
  BY <1>1
<1>6. more = (file \o moof) \o <<Sample(f)>>
  OBVIOUS
<1> HIDE DEF moof
<1>7. /\ file \o moof \in Seq(Pieces) /\ Len(file \o moof) = n + 7
      /\ \A i \in 1..n : (file \o moof)[i] = file[i]
      /\ \A i \in 1..7 : (file \o moof)[n + i] = moof[i]
      /\ \A i \in 1..(n + 1) : Positions(file \o moof)[i] = Positions(file)[i]
  <2>1. /\ file \o moof \in Seq(Pieces) /\ Len(file \o moof) = Len(file) + Len(moof)
        /\ \A i \in 1..Len(file) : (file \o moof)[i] = file[i]
        /\ \A i \in 1..Len(moof) : (file \o moof)[Len(file) + i] = moof[i]
        /\ \A i \in 1..(Len(file) + 1) : Positions(file \o moof)[i] = Positions(file)[i]
    BY <1>4, FileExtended
  <2> QED
    BY <1>4, <2>1
<1> HIDE DEF n
<1>8. /\ more \in Seq(Pieces) /\ Len(more) = (n + 7) + 1
      /\ \A i \in 1..(n + 7) : more[i] = (file \o moof)[i]
      /\ more[(n + 7) + 1] = Sample(f)
      /\ \A i \in 1..((n + 7) + 1) : p[i] = Positions(file \o moof)[i]
  <2>1. /\ (file \o moof) \o <<Sample(f)>> \in Seq(Pieces)
        /\ Len((file \o moof) \o <<Sample(f)>>) = Len(file \o moof) + Len(<<Sample(f)>>)
        /\ \A i \in 1..Len(file \o moof) : ((file \o moof) \o <<Sample(f)>>)[i] = (file \o moof)[i]
        /\ \A i \in 1..Len(<<Sample(f)>>) : ((file \o moof) \o <<Sample(f)>>)[Len(file \o moof) + i] = <<Sample(f)>>[i]
        /\ \A i \in 1..(Len(file \o moof) + 1) :
             Positions((file \o moof) \o <<Sample(f)>>)[i] = Positions(file \o moof)[i]
    BY <1>5, <1>7, FileExtended
  <2>2. 1 \in 1..Len(<<Sample(f)>>)
    BY <1>5
  <2>3. more[Len(file \o moof) + 1] = Sample(f)
    BY <1>5, <1>6, <2>1, <2>2
  <2> QED
    BY <1>5, <1>6, <1>7, <2>1, <2>3
<1>9. \A i \in 1..n : more[i] = file[i] /\ p[i] = Positions(file)[i]
  <2>1. ASSUME NEW i \in 1..n PROVE more[i] = file[i] /\ p[i] = Positions(file)[i]
    <3>1. i \in 1..(n + 7) /\ i \in 1..((n + 7) + 1) /\ i \in 1..(n + 1)
      BY <1>3
    <3> QED
      BY <1>7, <1>8, <3>1
  <2> QED
    BY <2>1
<1>10. \A i \in 1..7 : more[n + i] = moof[i]
  <2>1. ASSUME NEW i \in 1..7 PROVE more[n + i] = moof[i]
    <3>1. n + i \in 1..(n + 7)
      BY <1>3
    <3> QED
      BY <1>7, <1>8, <3>1
  <2> QED
    BY <2>1
<1>11. /\ more[L] = moof[1] /\ more[L + 1] = moof[2] /\ more[L + 2] = moof[3] /\ more[L + 3] = moof[4]
       /\ more[L + 4] = moof[5] /\ more[L + 5] = moof[6] /\ more[L + 6] = moof[7]
       /\ more[L + 7] = Sample(f)
  <2> DEFINE same(i) == more[n + i] = moof[i]
  <2>0. \A i \in 1..7 : same(i)
    BY <1>10
  <2> HIDE DEF same
  <2>00. same(1) /\ same(2) /\ same(3) /\ same(4) /\ same(5) /\ same(6) /\ same(7)
    BY <2>0
  <2>1. /\ more[n + 1] = moof[1] /\ more[n + 2] = moof[2] /\ more[n + 3] = moof[3] /\ more[n + 4] = moof[4]
    BY <2>00 DEF same
  <2>2. more[n + 5] = moof[5] /\ more[n + 6] = moof[6] /\ more[n + 7] = moof[7]
    BY <2>00 DEF same
  <2>3. more[(n + 7) + 1] = Sample(f)
    BY <1>8
  <2>4. /\ n + 2 = L + 1 /\ n + 3 = L + 2 /\ n + 4 = L + 3 /\ n + 5 = L + 4 /\ n + 6 = L + 5
        /\ n + 7 = L + 6 /\ (n + 7) + 1 = L + 7 /\ n + 1 = L
    BY <1>3
  <2> HIDE DEF L
  <2> QED
    BY <2>1, <2>2, <2>3, <2>4
<1>12. Len(more) = L + 7 /\ DOMAIN more = 1..(L + 7) /\ DOMAIN file = 1..n
  <2>1. Len(more) = L + 7
    BY <1>3, <1>8
  <2>2. DOMAIN more = 1..Len(more)
    BY <1>8
  <2> QED
    BY <2>1, <2>2 DEF n
<1>13. L = n + 1
  OBVIOUS
<1> HIDE DEF L
<1>14. p[L + 7] = p[L] + 108
  <2>1. \A i \in 1..Len(more) : p[i + 1] = p[i] + more[i].own
    BY <1>8, FilePlaces
  <2>2. \A i \in 1..(Len(more) + 1) : p[i] \in Nat
    BY <1>8, FilePlaces
  <2>3. /\ more[L].own = 8 /\ more[L + 1].own = 16 /\ more[L + 2].own = 8 /\ more[L + 3].own = 16
        /\ more[L + 4].own = 16 /\ more[L + 5].own = 36 /\ more[L + 6].own = 8
    BY <1>4, <1>11 DEF MoofHolds
  <2>4. /\ L \in 1..(L + 7) /\ L + 1 \in 1..(L + 7) /\ L + 2 \in 1..(L + 7) /\ L + 3 \in 1..(L + 7)
        /\ L + 4 \in 1..(L + 7) /\ L + 5 \in 1..(L + 7) /\ L + 6 \in 1..(L + 7)
    BY <1>3, <1>13
  <2>5. /\ (L + 1) + 1 = L + 2 /\ (L + 2) + 1 = L + 3 /\ (L + 3) + 1 = L + 4 /\ (L + 4) + 1 = L + 5
        /\ (L + 5) + 1 = L + 6 /\ (L + 6) + 1 = L + 7
    BY <1>3
  <2> HIDE DEF p
  <2>10. p[L + 1] = p[L] + more[L].own
    BY <1>12, <2>1, <2>4
  <2>11. p[(L + 1) + 1] = p[L + 1] + more[L + 1].own
    BY <1>12, <2>1, <2>4
  <2>12. p[(L + 2) + 1] = p[L + 2] + more[L + 2].own
    BY <1>12, <2>1, <2>4
  <2>13. p[(L + 3) + 1] = p[L + 3] + more[L + 3].own
    BY <1>12, <2>1, <2>4
  <2>14. p[(L + 4) + 1] = p[L + 4] + more[L + 4].own
    BY <1>12, <2>1, <2>4
  <2>15. p[(L + 5) + 1] = p[L + 5] + more[L + 5].own
    BY <1>12, <2>1, <2>4
  <2>16. p[(L + 6) + 1] = p[L + 6] + more[L + 6].own
    BY <1>12, <2>1, <2>4
  <2>6. /\ p[L + 1] = p[L] + 8 /\ p[L + 2] = p[L + 1] + 16 /\ p[L + 3] = p[L + 2] + 8
        /\ p[L + 4] = p[L + 3] + 16
    BY <2>3, <2>5, <2>10, <2>11, <2>12, <2>13
  <2>7. p[L + 5] = p[L + 4] + 16 /\ p[L + 6] = p[L + 5] + 36 /\ p[L + 7] = p[L + 6] + 8
    BY <2>3, <2>5, <2>14, <2>15, <2>16
  <2>8. p[L] \in Nat
    <3>1. L \in 1..(Len(more) + 1)
      BY <1>3, <1>12, <1>13
    <3> QED
      BY <2>2, <3>1
  <2>21. p[L + 1] = p[L] + 8 /\ p[L + 1] \in Nat
    BY <2>6, <2>8
  <2>22. p[L + 2] = p[L] + 24 /\ p[L + 2] \in Nat
    BY ONLY <2>6, <2>8, <2>21
  <2>23. p[L + 3] = p[L] + 32 /\ p[L + 3] \in Nat
    BY ONLY <2>6, <2>8, <2>22
  <2>24. p[L + 4] = p[L] + 48 /\ p[L + 4] \in Nat
    BY ONLY <2>6, <2>8, <2>23
  <2>25. p[L + 5] = p[L] + 64 /\ p[L + 5] \in Nat
    BY ONLY <2>7, <2>8, <2>24
  <2>26. p[L + 6] = p[L] + 100 /\ p[L + 6] \in Nat
    BY ONLY <2>7, <2>8, <2>25
  <2>27. p[L + 7] = p[L + 6] + 8
    BY ONLY <2>7
  <2> QED
    BY ONLY <2>8, <2>26, <2>27
<1>15. \A i \in F : i < L
  BY <1>2, <1>3, <1>13
<1>16. ASSUME NEW i \in (L + 1)..(L + 6) PROVE more[i].box # "moof" /\ more[i].box # "sample"
  <2>1. i = L + 1 \/ i = L + 2 \/ i = L + 3 \/ i = L + 4 \/ i = L + 5 \/ i = L + 6
    BY <1>3
  <2>2. /\ more[L + 1].box = "mfhd" /\ more[L + 2].box = "traf" /\ more[L + 3].box = "tfhd"
        /\ more[L + 4].box = "tfdt" /\ more[L + 5].box = "trun" /\ more[L + 6].box = "mdat"
    BY <1>4, <1>11 DEF MoofHolds
  <2>3. ASSUME NEW box, box \in {"mfhd", "traf", "tfhd", "tfdt", "trun", "mdat"}
        PROVE  box # "moof" /\ box # "sample"
    BY <2>3
  <2>4. more[i].box \in {"mfhd", "traf", "tfhd", "tfdt", "trun", "mdat"}
    BY <2>1, <2>2
  <2> QED
    BY <2>3, <2>4
<1>17. \A i \in 1..(L + 7) : i \in 1..n \/ i = L \/ i \in (L + 1)..(L + 6) \/ i = L + 7
  BY <1>3, <1>13
<1>18. Fragments(more) = F \cup {L}
  <2>1. ASSUME NEW i PROVE i \in Fragments(more) <=> i \in F \cup {L}
    <3>1. CASE i \in 1..n
      <4>1. i # L /\ i \in DOMAIN more /\ i \in DOMAIN file /\ more[i] = file[i]
        BY <1>3, <1>9, <1>12, <1>13, <3>1
      <4> QED
        BY <4>1 DEF Fragments
    <3>2. CASE i = L
      <4>1. i \in DOMAIN more
        BY <1>3, <1>12, <1>13, <3>2
      <4> QED
        BY <1>4, <1>11, <3>2, <4>1 DEF Fragments, MoofHolds
    <3>3. CASE i \in (L + 1)..(L + 6)
      <4>1. i # L /\ ~(i \in F)
        BY <1>2, <1>3, <1>13, <3>3
      <4> QED
        BY <1>16, <3>3, <4>1 DEF Fragments
    <3>4. CASE i = L + 7
      <4>1. i # L /\ ~(i \in F)
        BY <1>2, <1>3, <1>13, <3>4
      <4> QED
        BY <1>1, <1>11, <3>4, <4>1 DEF Fragments
    <3>5. CASE ~(i \in 1..(L + 7))
      <4>1. i # L /\ ~(i \in F) /\ ~(i \in DOMAIN more)
        BY <1>2, <1>3, <1>12, <1>13, <3>5
      <4> QED
        BY <4>1 DEF Fragments
    <3> QED
      BY <1>17, <3>1, <3>2, <3>3, <3>4, <3>5
  <2> QED
    BY <2>1
<1>19. {i \in DOMAIN more : more[i].box = "sample"} = {i + 7 : i \in F \cup {L}}
  <2> DEFINE S == {i \in DOMAIN file : file[i].box = "sample"}
             T == {i \in DOMAIN more : more[i].box = "sample"}
  <2>1. S = {i + 7 : i \in F}
    BY DEF Chain
  <2>2. ASSUME NEW i PROVE i \in T <=> (i \in S \/ i = L + 7)
    <3>1. CASE i \in 1..n
      <4>1. i # L + 7 /\ i \in DOMAIN more /\ i \in DOMAIN file /\ more[i] = file[i]
        BY <1>3, <1>9, <1>12, <1>13, <3>1
      <4> QED
        BY <4>1
    <3>2. CASE i = L
      <4>1. i # L + 7 /\ ~(i \in DOMAIN file)
        BY <1>3, <1>12, <1>13, <3>2
      <4> QED
        BY <1>4, <1>11, <3>2, <4>1 DEF MoofHolds
    <3>3. CASE i \in (L + 1)..(L + 6)
      <4>1. i # L + 7 /\ ~(i \in DOMAIN file)
        BY <1>3, <1>12, <1>13, <3>3
      <4> QED
        BY <1>16, <3>3, <4>1
    <3>4. CASE i = L + 7
      <4>1. i \in DOMAIN more
        BY <1>3, <1>12, <1>13, <3>4
      <4> QED
        BY <1>1, <1>11, <3>4, <4>1
    <3>5. CASE ~(i \in 1..(L + 7))
      <4>1. i # L + 7 /\ ~(i \in DOMAIN file) /\ ~(i \in DOMAIN more)
        BY <1>3, <1>12, <1>13, <3>5
      <4> QED
        BY <4>1
    <3> QED
      BY <1>17, <3>1, <3>2, <3>3, <3>4, <3>5
  <2> HIDE DEF S, T
  <2>3. \A i : i \in T <=> i \in {j + 7 : j \in F \cup {L}}
    BY <2>1, <2>2
  <2>4. T = {j + 7 : j \in F \cup {L}}
    BY <2>3 DEF T
  <2> QED
    BY <2>4 DEF T
<1> HIDE DEF F, p
<1> DEFINE G == F \cup {L}
<1>20. /\ Cardinality(G) = Cardinality(F) + 1 /\ Nth(G, L) = Cardinality(F) + 1
       /\ \A i \in F : Nth(G, i) = Nth(F, i)
  BY <1>2, <1>3, <1>15, NthAdded
<1>21. \A i \in F : Nth(F, i) \in 1..Cardinality(F)
  BY <1>2, NthRange
<1>22. \A i \in G : i \in F \/ i = L
  OBVIOUS
<1> HIDE DEF G
<1>23. seq = Cardinality(F)
  BY DEF F
<1>24. /\ more[L + 1].box = "mfhd" /\ more[L + 1].seq = seq /\ more[L + 4].time = time
       /\ more[L + 5].duration = duration /\ more[L + 5].length = Stored(f) /\ more[L + 5].offset = 108
  BY <1>4, <1>11 DEF MoofHolds
<1>25. ASSUME NEW i \in F
       PROVE  /\ more[i + 1] = file[i + 1] /\ more[i + 4] = file[i + 4] /\ more[i + 5] = file[i + 5]
              /\ more[i + 7] = file[i + 7] /\ p[i] = Positions(file)[i] /\ p[i + 7] = Positions(file)[i + 7]
  <2>1. i \in 1..n /\ i + 1 \in 1..n /\ i + 4 \in 1..n /\ i + 5 \in 1..n /\ i + 7 \in 1..n
    BY <1>2, <1>3
  <2> QED
    BY <1>9, <2>1 DEF p
<1>26. /\ \A i \in F : /\ file[i + 1].box = "mfhd" /\ file[i + 1].seq = Nth(F, i) - 1
                       /\ file[i + 5].length = file[i + 7].own
                       /\ Positions(file)[i + 7] = Positions(file)[i] + file[i + 5].offset
       /\ \A i \in F : Nth(F, i) = 1 => file[i + 4].time = file[i + 5].duration
       /\ \A i, j \in F : Nth(F, j) = Nth(F, i) + 1 =>
            file[j + 4].time = file[i + 4].time + file[j + 5].duration
  BY DEF Chain, F
<1>27. ASSUME NEW i \in G
       PROVE  /\ more[i + 1].box = "mfhd" /\ more[i + 1].seq = Nth(G, i) - 1
              /\ more[i + 5].length = more[i + 7].own
              /\ p[i + 7] = p[i] + more[i + 5].offset
  <2>1. CASE i \in F
    <3>1. Nth(G, i) = Nth(F, i)
      BY <1>20, <2>1
    <3>2. /\ more[i + 1] = file[i + 1] /\ more[i + 5] = file[i + 5] /\ more[i + 7] = file[i + 7]
          /\ p[i] = Positions(file)[i] /\ p[i + 7] = Positions(file)[i + 7]
      BY <1>25, <2>1
    <3>3. /\ file[i + 1].box = "mfhd" /\ file[i + 1].seq = Nth(F, i) - 1
          /\ file[i + 5].length = file[i + 7].own
          /\ Positions(file)[i + 7] = Positions(file)[i] + file[i + 5].offset
      BY <1>26, <2>1
    <3> QED
      BY <3>1, <3>2, <3>3
  <2>2. CASE i = L
    <3>1. Nth(G, L) - 1 = seq
      BY <1>3, <1>20, <1>23
    <3>2. more[L + 7].own = Stored(f)
      BY <1>1, <1>11
    <3> QED
      BY <1>14, <1>24, <2>2, <3>1, <3>2
  <2> QED
    BY <1>22, <2>1, <2>2
<1>28. ASSUME NEW i \in G, Nth(G, i) = 1 PROVE more[i + 4].time = more[i + 5].duration
  <2>1. CASE i \in F
    BY <1>20, <1>25, <1>26, <1>28, <2>1
  <2>2. CASE i = L
    <3>1. Cardinality(F) = 0
      BY <1>2, <1>20, <1>28, <2>2
    <3>2. F = {}
      BY <1>2, <3>1, FS_EmptySet
    <3>3. time = duration
      BY <3>2 DEF F
    <3> QED
      BY <1>24, <2>2, <3>3
  <2> QED
    BY <1>22, <2>1, <2>2
<1>29. ASSUME NEW i \in G, NEW j \in G, Nth(G, j) = Nth(G, i) + 1
       PROVE  more[j + 4].time = more[i + 4].time + more[j + 5].duration
  <2>1. CASE i \in F /\ j \in F
    <3>1. Nth(F, j) = Nth(F, i) + 1
      BY <1>20, <1>29, <2>1
    <3>2. file[j + 4].time = file[i + 4].time + file[j + 5].duration
      BY <1>26, <2>1, <3>1
    <3> QED
      BY <1>25, <2>1, <3>2
  <2>2. CASE i \in F /\ j = L
    <3>1. Nth(F, i) = Cardinality(F)
      <4>1. Nth(F, i) + 1 = Cardinality(F) + 1 /\ Nth(F, i) \in Nat
        BY <1>20, <1>21, <1>29, <2>2
      <4> QED
        BY <1>2, <4>1
    <3>2. file[i + 4].time = before /\ time = before + duration
      BY <2>2, <3>1 DEF Latest, F
    <3> QED
      BY <1>24, <1>25, <2>2, <3>2
  <2>3. CASE i = L /\ j \in F
    <3>1. Nth(G, j) = Cardinality(F) + 2 /\ Nth(G, j) \in 1..Cardinality(F)
      BY <1>2, <1>20, <1>21, <1>29, <2>3
    <3> QED
      BY <1>2, <3>1
  <2>4. CASE i = L /\ j = L
    BY <1>2, <1>20, <1>29, <2>4
  <2> QED
    BY <1>22, <2>1, <2>2, <2>3, <2>4
<1>30. ASSUME NEW i \in G, Nth(G, i) = Cardinality(G) PROVE more[i + 4].time = time
  <2>1. CASE i \in F
    <3>1. Nth(F, i) = Cardinality(F) + 1 /\ Nth(F, i) \in 1..Cardinality(F)
      BY <1>20, <1>21, <1>30, <2>1
    <3> QED
      BY <1>2, <3>1
  <2>2. CASE i = L
    BY <1>24, <2>2
  <2> QED
    BY <1>22, <2>1, <2>2
<1>31. Fragments(more) = G /\ {i \in DOMAIN more : more[i].box = "sample"} = {i + 7 : i \in G}
  BY <1>18, <1>19 DEF G, F
<1>32. Chain(more)
  <2>1. \A i \in Fragments(more) :
          /\ more[i + 1].box = "mfhd" /\ more[i + 1].seq = Nth(Fragments(more), i) - 1
          /\ more[i + 5].length = more[i + 7].own
          /\ Positions(more)[i + 7] = Positions(more)[i] + more[i + 5].offset
    BY <1>27, <1>31 DEF p
  <2>2. \A i \in Fragments(more) : Nth(Fragments(more), i) = 1 => more[i + 4].time = more[i + 5].duration
    BY <1>28, <1>31
  <2>3. \A i, j \in Fragments(more) : Nth(Fragments(more), j) = Nth(Fragments(more), i) + 1 =>
          more[j + 4].time = more[i + 4].time + more[j + 5].duration
    <3>1. ASSUME NEW i \in Fragments(more), NEW j \in Fragments(more),
                 Nth(Fragments(more), j) = Nth(Fragments(more), i) + 1
          PROVE  more[j + 4].time = more[i + 4].time + more[j + 5].duration
      <4>1. i \in G /\ j \in G /\ Nth(G, j) = Nth(G, i) + 1
        BY <1>31, <3>1
      <4> QED
        BY <1>29, <4>1
    <3> QED
      BY <3>1
  <2>4. {i \in DOMAIN more : more[i].box = "sample"} = {i + 7 : i \in Fragments(more)}
    BY <1>31
  <2> QED
    BY <2>1, <2>2, <2>3, <2>4 DEF Chain
<1>33. Latest(more, time)
  BY <1>30, <1>31 DEF Latest
<1>34. Fragments(more) # {}
  BY <1>31 DEF G
<1> QED
  BY <1>8, <1>20, <1>23, <1>31, <1>32, <1>33, <1>34

(* It makes FragmentsChain.                                                 *)
LEMMA ChainIsChain ==
  (w.kind = "fmp4" => FMp4Good) => FragmentsChain
<1>1. SUFFICES ASSUME w.kind = "fmp4", Chain(disk) PROVE FragmentsChain
  BY DEF FMp4Good, FragmentsChain
<1>2. Of("moof") = Fragments(disk) /\ Of("sample") = {i \in DOMAIN disk : disk[i].box = "sample"}
  BY DEF Of, Fragments
<1> QED
  BY <1>1, <1>2 DEF Chain, FragmentsChain

(* No fragments, no samples: a chain.                                       *)
LEMMA EmptyChain ==
  ASSUME NEW file, \A i \in DOMAIN file : file[i].box # "moof" /\ file[i].box # "sample"
  PROVE  Fragments(file) = {} /\ Chain(file) /\ Cardinality(Fragments(file)) = 0
<1>1. Fragments(file) = {} /\ {i \in DOMAIN file : file[i].box = "sample"} = {}
  BY DEF Fragments
<1>2. {i + 7 : i \in Fragments(file)} = {}
  BY <1>1
<1>3. Cardinality(Fragments(file)) = 0
  BY <1>1, FS_EmptySet
<1> QED
  BY <1>1, <1>2, <1>3 DEF Chain

LEMMA NoTrakType == NoTrak \in Traks
<1>1. <<>> \in Seq(Nat) /\ <<0, 0, 0>> \in Nat \X Nat \X Nat
  OBVIOUS
<1> QED
  BY <1>1 DEF NoTrak, Traks

(* The head of the file holds no samples and no fragments.                  *)
LEMMA HeadType ==
  ASSUME NEW config \in Configs
  PROVE  <<Leaf("ftyp", FtypSize)>> \o Moov(1, [NoTrak EXCEPT !.config = config], NoTrak, Mvex, 0)
           \in Seq(MoovPieces)
<1> DEFINE v == [NoTrak EXCEPT !.config = config]
           moov == Moov(1, v, NoTrak, Mvex, 0)
<1>1. config \in Nat \X Nat \X Nat
  BY Mp4Assumption
<1>2. NoTrak \in Traks
  BY NoTrakType
<1>3. v \in Traks
  BY <1>1, <1>2 DEF Traks
<1>4. Mvex \in Seq(Heads)
  <2>1. Box("mvex", MvexSize, 8) \in Heads /\ Leaf("trex", 32) \in Heads
    BY BoxType DEF Plain, MvexSize
  <2> QED
    BY <2>1 DEF Mvex
<1> HIDE DEF v
<1>5. moov \in Seq(MoovPieces)
  BY <1>2, <1>3, <1>4, MoovType
<1>6. Leaf("ftyp", FtypSize) \in MoovPieces
  BY BoxType DEF Plain, FtypSize, MoovPieces
<1>7. <<Leaf("ftyp", FtypSize)>> \in Seq(MoovPieces)
  BY <1>6
<1>8. <<Leaf("ftyp", FtypSize)>> \o moov \in Seq(MoovPieces)
  BY <1>5, <1>7, ConcatProperties
<1> QED
  BY <1>8 DEF v

(* A frame, with the head of the file if it is the first key frame.         *)
LEMMA FMp4FrameStep ==
  ASSUME FilesTypeOK, w.kind = "fmp4", w.file = "open", FMp4Good, NEW f \in FramesOffered,
         NEW config \in Configs, FMp4Frame(f, config), w.seq < MaxOffered
  PROVE  /\ disk' \in Seq(Pieces) /\ w' \in Writing /\ w'.kind = w.kind
         /\ w'.seq <= w.seq + 1 /\ FMp4Good'
<1>1. /\ w \in Writing /\ w.first \in Nat /\ w.last \in Nat /\ w.begun \in BOOLEAN
      /\ w.seq \in Nat /\ w.seq + 1 \in 0..MaxOffered
      /\ disk \in Seq(Pieces)
  BY Mp4Assumption DEF FilesTypeOK, Writing
<1>2. /\ Chain(disk) /\ w.seq = Cardinality(Fragments(disk)) /\ (w.first = 0 => Fragments(disk) = {})
      /\ w.first # 0 => Fragments(disk) # {} /\ Latest(disk, w.last - w.first)
  BY DEF FMp4Good
<1>3. f.ts \in Nat
  BY Mp4Assumption DEF FramesOffered
<1> DEFINE starts == w.first = 0 /\ f.type = 1
           v == [NoTrak EXCEPT !.config = config]
           head == IF starts THEN <<Leaf("ftyp", FtypSize)>> \o Moov(1, v, NoTrak, Mvex, 0) ELSE <<>>
           first == IF starts THEN f.ts ELSE w.first
           last == IF starts THEN f.ts ELSE w.last
           file == disk \o head
           time == f.ts - first
           duration == f.ts - last
           more == file \o Moof(w.seq, Track(f), time, duration, Stored(f)) \o <<Sample(f)>>
<1>4. head \in Seq(MoovPieces)
  <2>1. <<Leaf("ftyp", FtypSize)>> \o Moov(1, v, NoTrak, Mvex, 0) \in Seq(MoovPieces)
    BY HeadType
  <2> QED
    BY <2>1
<1>5. head \in Seq(Pieces) /\ \A i \in 1..Len(head) : head[i].box # "moof" /\ head[i].box # "sample"
  <2> HIDE DEF head
  <2>1. head \in Seq(Pieces)
    BY <1>4, HeadsArePieces, SeqMonotonic
  <2>2. \A i \in 1..Len(head) : head[i] \in MoovPieces
    BY <1>4, ElementOfSeq
  <2> QED
    BY <2>1, <2>2, HeadsArePieces
<1>6. ~starts => head = <<>>
  OBVIOUS
<1>7. first \in Nat /\ last \in Nat /\ time \in Int /\ duration \in Int
  BY <1>1, <1>3
<1>8. file \in Seq(Pieces)
  BY <1>1, <1>5, ConcatProperties
<1>9. ~starts => file = disk
  <2>1. disk \o <<>> = disk
    BY <1>1, ConcatEmptySeq
  <2> QED
    BY <1>6, <2>1
<1>12. ASSUME w.first = 0
       PROVE  Fragments(file) = {} /\ Chain(file) /\ Cardinality(Fragments(file)) = 0 /\ w.seq = 0
  <2> HIDE DEF head
  <2>1. \A i \in DOMAIN disk : disk[i].box # "moof" /\ disk[i].box # "sample"
    <3>1. Fragments(disk) = {} /\ {i \in DOMAIN disk : disk[i].box = "sample"} = {i + 7 : i \in Fragments(disk)}
      BY <1>2, <1>12 DEF Chain
    <3>2. {i \in DOMAIN disk : disk[i].box = "sample"} = {}
      BY <3>1
    <3> QED
      BY <3>1, <3>2 DEF Fragments
  <2>2. ASSUME NEW i \in DOMAIN file PROVE file[i].box # "moof" /\ file[i].box # "sample"
    <3>1. /\ Len(disk) \in Nat /\ Len(head) \in Nat /\ DOMAIN disk = 1..Len(disk)
          /\ DOMAIN file = 1..(Len(disk) + Len(head))
      BY <1>1, <1>5, ConcatProperties
    <3>2. CASE i \in 1..Len(disk)
      <4>1. file[i] = disk[i]
        BY <1>1, <1>5, <3>2, ConcatProperties
      <4> QED
        BY <2>1, <3>1, <3>2, <4>1
    <3>3. CASE i \notin 1..Len(disk)
      <4>1. i - Len(disk) \in 1..Len(head)
        BY <3>1, <3>3
      <4>2. i \in Len(disk) + 1..Len(disk) + Len(head)
        BY <3>1, <3>3
      <4>3. file[i] = head[i - Len(disk)]
        BY <1>1, <1>5, <3>1, <4>1, <4>2, ConcatProperties
      <4> QED
        BY <1>5, <4>1, <4>3
    <3> QED
      BY <3>2, <3>3
  <2>3. Fragments(file) = {} /\ Chain(file) /\ Cardinality(Fragments(file)) = 0
    <3> HIDE DEF file
    <3> QED
      BY <2>2, EmptyChain
  <2>4. w.seq = 0
    BY <1>2, <1>12, FS_EmptySet
  <2> QED
    BY <2>3, <2>4
<1>10. CASE first = 0
  <2>1. disk' = file /\ w' = [w EXCEPT !.begun = w.begun \/ starts]
    BY <1>10 DEF FMp4Frame
  <2>3. w.first = 0
    BY <1>10
  <2> HIDE DEF file, head
  <2>2. /\ w' \in Writing /\ w'.kind = w.kind /\ w'.seq = w.seq /\ w'.first = w.first /\ w'.last = w.last
    BY <1>1, <2>1 DEF Writing
  <2>4. FMp4Good'
    BY <1>12, <2>1, <2>2, <2>3 DEF FMp4Good
  <2> QED
    BY <1>1, <1>8, <2>1, <2>2, <2>4
<1>11. CASE first # 0
  <2>1. /\ disk' = more
        /\ w' = [w EXCEPT !.begun = TRUE, !.seq = w.seq + 1, !.first = first, !.last = f.ts]
    BY <1>11 DEF FMp4Frame, Number, Elapsed
  <2> HIDE DEF file, head, first, last, time, duration
  <2>2. /\ w' \in Writing /\ w'.kind = w.kind /\ w'.seq = w.seq + 1 /\ w'.first = first /\ w'.last = f.ts
    BY <1>1, <1>3, <1>7, <2>1 DEF Writing
  <2>3. more \in Seq(Pieces)
    <3> DEFINE moof == Moof(w.seq, Track(f), time, duration, Stored(f))
    <3>1. moof \in Seq(Pieces) /\ <<Sample(f)>> \in Seq(Pieces)
      <4>1. MoofHolds(moof, w.seq, Track(f), time, duration, Stored(f))
        BY <1>1, <1>7, SampleType, MoofType
      <4> QED
        BY <4>1, SampleType DEF MoofHolds
    <3> HIDE DEF moof
    <3>2. file \o moof \in Seq(Pieces)
      BY <1>8, <3>1, ConcatProperties
    <3>3. (file \o moof) \o <<Sample(f)>> \in Seq(Pieces)
      BY <3>1, <3>2, ConcatProperties
    <3> QED
      BY <3>3 DEF moof
  <2>4. Chain(more) /\ Cardinality(Fragments(more)) = w.seq + 1 /\ Fragments(more) # {} /\ Latest(more, time)
    <3>2. CASE starts
      <4>4. Fragments(file) = {} /\ Chain(file) /\ w.seq = Cardinality(Fragments(file))
        BY <1>12, <3>2
      <4>8. time = duration
        BY <3>2 DEF time, duration, first, last
      <4>9. /\ more \in Seq(Pieces) /\ Chain(more) /\ Latest(more, time)
            /\ Cardinality(Fragments(more)) = w.seq + 1 /\ Fragments(more) # {}
        <5>1. 0 \in Int /\ (Fragments(file) # {} => Latest(file, 0) /\ time = 0 + duration)
          BY <4>4
        <5>2. more = file \o Moof(w.seq, Track(f), time, duration, Stored(f)) \o <<Sample(f)>>
          OBVIOUS
        <5> HIDE DEF more
        <5>3. Fragments(file) = {} => time = duration
          BY <4>8
        <5> QED
          <6>1. Adds(file, f, w.seq, 0, time, duration, more)
            BY <1>7, <1>8, <4>4, <5>1, <5>2, <5>3 DEF Adds
          <6> QED
            BY <6>1, FragmentAdded
      <4> QED
        BY <4>9
    <3>3. CASE ~starts
      <4>1. first = w.first /\ last = w.last /\ file = disk
        BY <1>9, <3>3 DEF first, last
      <4>2. Fragments(file) # {} /\ Latest(file, w.last - w.first)
        BY <1>2, <1>11, <4>1
      <4>3. w.last - w.first \in Int /\ time = (w.last - w.first) + duration
        BY <1>1, <1>3, <4>1 DEF time, duration
      <4>4. Chain(file) /\ w.seq = Cardinality(Fragments(file))
        BY <1>2, <4>1
      <4>5. /\ more \in Seq(Pieces) /\ Chain(more) /\ Latest(more, time)
            /\ Cardinality(Fragments(more)) = w.seq + 1 /\ Fragments(more) # {}
        <5>1. w.last - w.first \in Int /\ (Fragments(file) = {} => time = duration)
          BY <4>2, <4>3
        <5>2. Fragments(file) # {} => Latest(file, w.last - w.first) /\ time = (w.last - w.first) + duration
          BY <4>2, <4>3
        <5>3. more = file \o Moof(w.seq, Track(f), time, duration, Stored(f)) \o <<Sample(f)>>
          OBVIOUS
        <5> HIDE DEF more
        <5> QED
          <6>1. Adds(file, f, w.seq, w.last - w.first, time, duration, more)
            BY <1>7, <1>8, <4>4, <5>1, <5>2, <5>3 DEF Adds
          <6> QED
            BY <6>1, FragmentAdded
      <4> QED
        BY <4>5
    <3> QED
      BY <3>2, <3>3
  <2> HIDE DEF more
  <2>5. FMp4Good'
    BY <1>1, <1>11, <2>1, <2>2, <2>4 DEF FMp4Good, time
  <2> QED
    BY <1>1, <2>1, <2>2, <2>3, <2>5
<1> QED
  BY <1>10, <1>11

(* The duration goes into a box of the head, and nothing else changes.      *)
LEMMA DurationWritten ==
  ASSUME FilesTypeOK, FMp4Close
  PROVE  /\ disk' \in Seq(Pieces) /\ Len(disk') = Len(disk)
         /\ \A i \in 1..Len(disk) :
              /\ disk'[i].own = disk[i].own /\ disk'[i].box = disk[i].box /\ disk'[i].size = disk[i].size
              /\ disk[i].box # "mvhd" => disk'[i] = disk[i]
              /\ i # 3 => disk'[i] = disk[i]
<1>1. w.first \in Nat /\ w.last \in Nat /\ disk \in Seq(Pieces)
  BY DEF FilesTypeOK
<1> DEFINE now(i) == IF i = 3 /\ disk[i].box = "mvhd"
                     THEN [disk[i] EXCEPT !.duration = w.last - w.first] ELSE disk[i]
           n == Len(disk)
<1>2. disk' = [i \in 1..n |-> now(i)] /\ n \in Nat
  BY <1>1 DEF FMp4Close
<1>3. ASSUME NEW i \in 1..n
      PROVE  /\ now(i) \in Pieces /\ now(i).own = disk[i].own /\ now(i).box = disk[i].box
             /\ now(i).size = disk[i].size /\ ((i = 3 /\ disk[i].box = "mvhd") \/ now(i) = disk[i])
  <2>1. disk[i] \in Pieces
    BY <1>1, ElementOfSeq
  <2>2. CASE disk[i].box = "mvhd"
    <3> DEFINE q == [disk[i] EXCEPT !.duration = w.last - w.first]
    <3>1. disk[i] \in [box : {"mvhd"}, size : Nat, own : Nat, duration : Int]
      BY <2>1, <2>2 DEF Pieces, Plain
    <3>2. w.last - w.first \in Int
      BY <1>1
    <3>3. q \in [box : {"mvhd"}, size : Nat, own : Nat, duration : Int]
      BY <3>1, <3>2
    <3>4. q \in Pieces /\ q.own = disk[i].own /\ q.box = disk[i].box /\ q.size = disk[i].size
      BY <3>1, <3>3 DEF Pieces
    <3> QED
      BY <2>1, <2>2, <3>4
  <2>3. CASE disk[i].box # "mvhd"
    BY <2>1, <2>3
  <2> QED
    BY <2>2, <2>3
<1> HIDE DEF now, n
<1>4. disk' \in [1..n -> Pieces]
  BY <1>2, <1>3
<1>5. disk' \in Seq(Pieces)
  BY <1>2, <1>4, SeqDef
<1>6. Len(disk') = n /\ \A i \in 1..n : disk'[i] = now(i)
  BY <1>2, <1>5
<1> QED
  BY <1>3, <1>5, <1>6 DEF n

LEMMA FMp4CloseStep ==
  ASSUME FilesTypeOK, w.kind = "fmp4", w.file = "open", FMp4Good, FMp4Close
  PROVE  /\ disk' \in Seq(Pieces) /\ w' \in Writing /\ w'.kind = w.kind /\ w'.seq = w.seq
         /\ patch' \in Int /\ FMp4Good'
<1>1. /\ w \in Writing /\ w.first \in Nat /\ w.last \in Nat /\ disk \in Seq(Pieces)
  BY DEF FilesTypeOK, Writing
<1> DEFINE n == Len(disk)
<1>2. patch' = DurationAt /\ w' = [w EXCEPT !.file = "closed"]
  BY DEF FMp4Close
<1>3. n \in Nat /\ DOMAIN disk = 1..n
  BY <1>1
<1>5. /\ disk' \in Seq(Pieces) /\ DOMAIN disk' = 1..n /\ Len(disk') = n
      /\ \A i \in 1..n : /\ disk'[i].own = disk[i].own /\ disk'[i].box = disk[i].box
                         /\ disk[i].box # "mvhd" => disk'[i] = disk[i]
                         /\ i # 3 => disk'[i] = disk[i]
  BY <1>3, DurationWritten
<1> HIDE DEF n
<1>6. w' \in Writing /\ w'.kind = w.kind /\ w'.seq = w.seq /\ w'.first = w.first /\ w'.last = w.last
  BY <1>1, <1>2 DEF Writing
<1>8. \A i \in 1..(n + 1) : Positions(disk')[i] = Positions(disk)[i]
  <2>1. Measured(disk) /\ Measured(disk')
    BY <1>1, <1>5, FilesMeasured
  <2>2. \A i \in 1..n : disk'[i].own = disk[i].own
    BY <1>5
  <2>3. n <= Len(disk) /\ n <= Len(disk')
    BY <1>3, <1>5 DEF n
  <2> QED
    BY <1>3, <2>1, <2>2, <2>3, SamePlaces
<1>9. /\ Fragments(disk') = Fragments(disk)
      /\ {i \in DOMAIN disk' : disk'[i].box = "sample"} = {i \in DOMAIN disk : disk[i].box = "sample"}
  <2>1. \A i \in 1..n : disk'[i].box = disk[i].box
    BY <1>5
  <2> QED
    BY <1>3, <1>5, <2>1 DEF Fragments
<1> DEFINE F == Fragments(disk)
<1>10. ASSUME Chain(disk), NEW i \in F
       PROVE  /\ disk'[i + 1] = disk[i + 1] /\ disk'[i + 4] = disk[i + 4] /\ disk'[i + 5] = disk[i + 5]
              /\ disk'[i + 7].own = disk[i + 7].own
              /\ Positions(disk')[i + 7] = Positions(disk)[i + 7] /\ Positions(disk')[i] = Positions(disk)[i]
  <2>1. i \in 1..n /\ i + 7 \in 1..n
    BY <1>1, <1>10, FragmentsType DEF n
  <2>2. i + 1 \in 1..n /\ i + 4 \in 1..n /\ i + 5 \in 1..n /\ i + 4 # 3 /\ i + 5 # 3
    BY <1>3, <2>1
  <2>3. disk[i + 1].box = "mfhd"
    BY <1>10 DEF Chain
  <2>4. disk'[i + 1] = disk[i + 1] /\ disk'[i + 4] = disk[i + 4] /\ disk'[i + 5] = disk[i + 5]
    BY <1>5, <2>2, <2>3
  <2>5. disk'[i + 7].own = disk[i + 7].own
    BY <1>5, <2>1
  <2>6. i \in 1..(n + 1) /\ i + 7 \in 1..(n + 1)
    BY <1>3, <2>1
  <2> QED
    BY <1>8, <2>4, <2>5, <2>6
<1> HIDE DEF F
<1>11. Chain(disk) => Chain(disk')
  <2>1. SUFFICES ASSUME Chain(disk) PROVE Chain(disk')
    OBVIOUS
  <2>2. /\ {i \in DOMAIN disk : disk[i].box = "sample"} = {i + 7 : i \in F}
        /\ \A i \in F :
             /\ disk[i + 1].box = "mfhd" /\ disk[i + 1].seq = Nth(F, i) - 1
             /\ disk[i + 5].length = disk[i + 7].own
             /\ Positions(disk)[i + 7] = Positions(disk)[i] + disk[i + 5].offset
        /\ \A i \in F : Nth(F, i) = 1 => disk[i + 4].time = disk[i + 5].duration
        /\ \A i, j \in F : Nth(F, j) = Nth(F, i) + 1 =>
             disk[j + 4].time = disk[i + 4].time + disk[j + 5].duration
    BY <2>1 DEF Chain, F
  <2>3. \A i \in F :
          /\ disk'[i + 1] = disk[i + 1] /\ disk'[i + 4] = disk[i + 4] /\ disk'[i + 5] = disk[i + 5]
          /\ disk'[i + 7].own = disk[i + 7].own
          /\ Positions(disk')[i + 7] = Positions(disk)[i + 7] /\ Positions(disk')[i] = Positions(disk)[i]
    BY <1>10, <2>1
  <2>4. Fragments(disk') = F
    BY <1>9 DEF F
  <2>5. \A i \in F :
          /\ disk'[i + 1].box = "mfhd" /\ disk'[i + 1].seq = Nth(F, i) - 1
          /\ disk'[i + 5].length = disk'[i + 7].own
          /\ Positions(disk')[i + 7] = Positions(disk')[i] + disk'[i + 5].offset
    BY <2>2, <2>3
  <2>6. \A i \in F : Nth(F, i) = 1 => disk'[i + 4].time = disk'[i + 5].duration
    BY <2>2, <2>3
  <2>7. \A i, j \in F : Nth(F, j) = Nth(F, i) + 1 => disk'[j + 4].time = disk'[i + 4].time + disk'[j + 5].duration
    BY <2>2, <2>3
  <2>8. {i \in DOMAIN disk' : disk'[i].box = "sample"} = {i + 7 : i \in F}
    BY <1>9, <2>2
  <2> QED
    BY <2>4, <2>5, <2>6, <2>7, <2>8 DEF Chain
<1>12. ASSUME Chain(disk), Latest(disk, w.last - w.first) PROVE Latest(disk', w.last - w.first)
  <2>1. ASSUME NEW i \in F, Nth(F, i) = Cardinality(F) PROVE disk'[i + 4].time = w.last - w.first
    <3>1. disk[i + 4].time = w.last - w.first
      BY <1>12, <2>1 DEF Latest, F
    <3> QED
      BY <1>10, <1>12, <3>1
  <2>2. Fragments(disk') = F
    BY <1>9 DEF F
  <2> QED
    BY <2>1, <2>2 DEF Latest
<1>14. FMp4Good'
  <2>1. /\ Chain(disk) /\ w.seq = Cardinality(Fragments(disk))
        /\ w.first = 0 => Fragments(disk) = {}
        /\ w.first # 0 => Fragments(disk) # {} /\ Latest(disk, w.last - w.first)
    BY DEF FMp4Good
  <2> QED
    BY <1>6, <1>9, <1>11, <1>12, <2>1 DEF FMp4Good
<1> QED
  BY <1>2, <1>5, <1>6, <1>14 DEF DurationAt, FtypSize

-----------------------------------------------------------------------------
(* The inductive invariant, and what follows from it                        *)

(* A table that describes a file is what TablesTrue asks for.               *)
LEMMA TableIsTrue ==
  (w.kind = "mp4" => Mp4Good) => TablesTrue
<1>1. SUFFICES ASSUME w.kind = "mp4", Mp4Good, NEW k \in {1, 2}
               PROVE  LET at == Positions(disk)  samples == Samples(k)  t == w.trak[k] IN
                      /\ Len(t.lengths) = Cardinality(samples)
                      /\ \A i \in samples :
                           LET n == Nth(samples, i) IN
                           /\ t.offsets[n] = at[i] % Wide /\ t.lengths[n] = disk[i].own
                           /\ n \in ToSet(t.keys) <=> disk[i].frame.type = 1
                      /\ samples # {} /\ disk[Min(samples)].frame.ts # 0 =>
                           Duration(t) = disk[Max(samples)].frame.ts - disk[Min(samples)].frame.ts
  BY DEF TablesTrue
<1>2. Samples(k) = Held(disk, k) /\ k \in 1..2
  BY DEF Samples, Held
<1>3. Table(disk, k, w.trak[k]) /\ Timed(disk, k, w.trak[k])
  BY <1>1, <1>2 DEF Mp4Good
<1> QED
  BY <1>2, <1>3 DEF Table, Timed, Duration

(* What has been numbered has been offered, and each writer has kept its    *)
(* own account of what it has written.                                      *)
FilesIInv ==
  /\ FilesTypeOK
  /\ Len(offered) <= MaxOffered /\ w.seq <= Len(offered)
  /\ w.kind = "mp4" => Mp4Good
  /\ w.kind = "rtmp" => RtmpGood
  /\ w.kind = "fmp4" => FMp4Good

(* Nothing is written, nothing offered.                                     *)
LEMMA FilesBegin == FilesInit => FilesIInv
<1>1. SUFFICES ASSUME FilesInit PROVE FilesIInv
  OBVIOUS
<1>2. /\ w.kind \in Writers /\ w.file = "none" /\ w.begun = FALSE /\ w.next = 0 /\ w.seq = 0
      /\ w.first = 0 /\ w.last = 0 /\ w.trak = [k \in 1..2 |-> NoTrak] /\ w.lost = FALSE
      /\ disk = <<>> /\ patch = -1 /\ clock \in Times /\ offered = <<>>
  BY <1>1 DEF FilesInit
<1>3. NoTrak \in Traks /\ NoTrak.lengths = <<>> /\ NoTrak.keys = <<>> /\ NoTrak.offsets = <<>>
      /\ NoTrak.first = 0 /\ NoTrak.last = 0
  BY NoTrakType DEF NoTrak
<1>4. MaxOffered \in Nat /\ 0 \in 0..MaxOffered
  BY Mp4Assumption
<1>5. FilesTypeOK
  <2>1. w.trak \in [1..2 -> Traks]
    BY <1>2, <1>3
  <2>2. w \in [kind : Writers, file : {"none", "open", "closed", "undefined"}, begun : BOOLEAN,
               next : Nat, trak : [1..2 -> Traks], seq : 0..MaxOffered, first : Nat, last : Nat,
               lost : BOOLEAN]
    <3>1. w \in [kind : Writers, file : {"none"}, begun : {FALSE}, next : {0},
                 trak : {[k \in 1..2 |-> NoTrak]}, seq : {0}, first : {0}, last : {0}, lost : {FALSE}]
      BY <1>1 DEF FilesInit
    <3>2. [k \in 1..2 |-> NoTrak] \in [1..2 -> Traks]
      BY <1>3
    <3> QED
      <4> DEFINE trak == [k \in 1..2 |-> NoTrak]
      <4>1. w \in [kind : Writers, file : {"none"}, begun : {FALSE}, next : {0},
                   trak : {trak}, seq : {0}, first : {0}, last : {0}, lost : {FALSE}]
        BY <3>1
      <4>2. trak \in [1..2 -> Traks]
        BY <3>2
      <4> HIDE DEF trak
      <4>3. w = [kind |-> w.kind, file |-> w.file, begun |-> w.begun, next |-> w.next, trak |-> w.trak,
                 seq |-> w.seq, first |-> w.first, last |-> w.last, lost |-> w.lost]
        BY <4>1
      <4>4. /\ w.kind \in Writers /\ w.file = "none" /\ w.begun = FALSE /\ w.next = 0 /\ w.trak = trak
            /\ w.seq = 0 /\ w.first = 0 /\ w.last = 0 /\ w.lost = FALSE
        BY <4>1
      <4>5. w.trak \in [1..2 -> Traks] /\ w.seq \in 0..MaxOffered /\ w.begun \in BOOLEAN /\ w.lost \in BOOLEAN
        BY <1>4, <4>2, <4>4
      <4> QED
        BY <4>3, <4>4, <4>5
  <2>3. disk \in Seq(Pieces) /\ offered \in Seq(FramesOffered) /\ patch \in Int
    BY <1>2
  <2> QED
    BY <1>2, <2>2, <2>3 DEF FilesTypeOK
<1>6. \A i \in DOMAIN disk : FALSE
  BY <1>2
<1>7. Len(offered) = 0
  BY <1>2
<1>8. Mp4Good
  <2>1. ASSUME NEW k \in 1..2
        PROVE  Held(disk, k) = {} /\ w.trak[k] = NoTrak /\ Cardinality(Held(disk, k)) = 0
    <3>1. Held(disk, k) = {}
      BY <1>6 DEF Held
    <3> QED
      BY <1>2, <3>1, FS_EmptySet
  <2>2. ASSUME NEW k \in 1..2 PROVE Table(disk, k, w.trak[k]) /\ Timed(disk, k, w.trak[k])
    <3>1. /\ Len(w.trak[k].lengths) = 0 /\ Len(w.trak[k].offsets) = 0
          /\ ToSet(w.trak[k].keys) = {}
      BY <1>3, <2>1 DEF ToSet
    <3> QED
      BY <1>3, <2>1, <3>1 DEF Table, Timed
  <2> QED
    BY <1>2, <2>1, <2>2 DEF Mp4Good
<1>9. RtmpGood
  <2>1. FramePackets(disk) = {} /\ DueIn(offered) = {} /\ Begun(offered, Len(offered)) = {}
    BY <1>2, <1>7 DEF FramePackets, DueIn, Begun
  <2>2. Carries(disk, {}, offered, {})
    BY DEF Carries
  <2>3. Configured(disk, w.lost)
    BY <1>2 DEF Configured
  <2> QED
    BY <1>2, <2>1, <2>2, <2>3 DEF RtmpGood, Timely, Counts
<1>10. FMp4Good
  <2>1. Fragments(disk) = {} /\ Chain(disk) /\ Cardinality(Fragments(disk)) = 0
    BY <1>6, EmptyChain
  <2> QED
    BY <1>2, <2>1 DEF FMp4Good
<1> QED
  BY <1>2, <1>4, <1>5, <1>7, <1>8, <1>9, <1>10 DEF FilesIInv

(* A step of a writer is one of its own.                                    *)
LEMMA FilesStep == FilesIInv /\ [FilesNext]_filesVars => FilesIInv'
<1>1. SUFFICES ASSUME FilesIInv, [FilesNext]_filesVars PROVE FilesIInv'
  OBVIOUS
<1>2. /\ FilesTypeOK /\ Len(offered) <= MaxOffered /\ w.seq <= Len(offered)
      /\ w.kind = "mp4" => Mp4Good
      /\ w.kind = "rtmp" => RtmpGood
      /\ w.kind = "fmp4" => FMp4Good
  BY <1>1 DEF FilesIInv
<1>3. /\ w \in Writing /\ w.kind \in Writers /\ w.seq \in 0..MaxOffered /\ w.seq \in Nat
      /\ disk \in Seq(Pieces) /\ patch \in Int /\ clock \in Times /\ offered \in Seq(FramesOffered)
      /\ Len(offered) \in Nat /\ MaxOffered \in Nat
  BY <1>2, Mp4Assumption DEF FilesTypeOK, Writing
<1>4. ASSUME Open PROVE FilesIInv'
  <2>1. /\ w.file = "none" /\ w' = [w EXCEPT !.file = "open"]
        /\ disk' = disk /\ patch' = patch /\ clock' = clock /\ offered' = offered
    BY <1>4 DEF Open
  <2>2. /\ w' \in Writing /\ w'.kind = w.kind /\ w'.file = "open" /\ w'.begun = w.begun
        /\ w'.next = w.next /\ w'.trak = w.trak /\ w'.seq = w.seq /\ w'.first = w.first /\ w'.last = w.last
        /\ w'.lost = w.lost
    BY <1>3, <2>1 DEF Writing
  <2>3. FilesTypeOK'
    BY <1>3, <2>1, <2>2 DEF FilesTypeOK, Writing
  <2>5. Mp4Good => Mp4Good'
    BY <2>1, <2>2 DEF Mp4Good
  <2>6. RtmpGood => RtmpGood'
    BY <2>1, <2>2 DEF RtmpGood
  <2>7. FMp4Good => FMp4Good'
    BY <2>1, <2>2 DEF FMp4Good
  <2> QED
    BY <1>2, <2>1, <2>2, <2>3, <2>5, <2>6, <2>7 DEF FilesIInv
<1>5. ASSUME WriteFrame PROVE FilesIInv'
  <2>1. PICK f \in FramesOffered, config \in Configs :
          /\ \/ w.kind = "mp4" /\ Mp4Frame(f, config) /\ offered' = Append(offered, f)
             \/ w.kind = "fmp4" /\ FMp4Frame(f, config) /\ offered' = Append(offered, f)
             \/ w.kind = "rtmp" /\ RtmpFrame(f, config)
          /\ clock' = f.ts
    BY <1>5 DEF WriteFrame
  <2>2. w.file = "open" /\ Len(offered) < MaxOffered /\ patch' = patch /\ clock' \in Times
    BY <1>5, <2>1 DEF WriteFrame, FramesOffered
  <2>3. /\ Append(offered, f) \in Seq(FramesOffered) /\ Len(Append(offered, f)) = Len(offered) + 1
    BY <1>3
  <2>4. /\ disk' \in Seq(Pieces) /\ w' \in Writing /\ w'.kind = w.kind /\ w'.seq <= w.seq + 1
        /\ w'.kind = "mp4" => Mp4Good'
        /\ w'.kind = "rtmp" => RtmpGood'
        /\ w'.kind = "fmp4" => FMp4Good'
        /\ \/ offered' = Append(offered, f)
           \/ offered' = offered /\ w'.seq = w.seq
    <3>1. CASE w.kind = "mp4"
      <4>0. Mp4Frame(f, config) /\ offered' = Append(offered, f)
        BY <2>1, <3>1
      <4>1. disk' \in Seq(Pieces) /\ w' \in Writing /\ w'.kind = w.kind /\ w'.seq = w.seq /\ Mp4Good'
        BY <1>2, <2>2, <3>1, <4>0, Mp4FrameStep
      <4> QED
        BY <1>3, <3>1, <4>0, <4>1
    <3>2. CASE w.kind = "rtmp"
      <4>0. RtmpFrame(f, config)
        BY <2>1, <3>2
      <4>1. /\ disk' \in Seq(Pieces) /\ w' \in Writing /\ w'.kind = w.kind /\ w'.seq = w.seq
            /\ offered' \in {offered, Append(offered, f)} /\ RtmpGood'
        BY <1>2, <3>2, <4>0, RtmpFrameStep
      <4> QED
        BY <1>3, <3>2, <4>1
    <3>3. CASE w.kind = "fmp4"
      <4>1. w.seq < MaxOffered
        BY <1>2, <1>3, <2>2
      <4>0. FMp4Frame(f, config) /\ offered' = Append(offered, f)
        BY <2>1, <3>3
      <4>2. disk' \in Seq(Pieces) /\ w' \in Writing /\ w'.kind = w.kind /\ w'.seq <= w.seq + 1 /\ FMp4Good'
        BY <1>2, <2>2, <3>3, <4>0, <4>1, FMp4FrameStep
      <4> QED
        BY <3>3, <4>0, <4>2
    <3> QED
      BY <1>3, <3>1, <3>2, <3>3 DEF Writers
  <2>5. FilesTypeOK'
    <3>1. offered' \in Seq(FramesOffered)
      BY <1>3, <2>3, <2>4
    <3> QED
      BY <1>3, <2>2, <2>4, <3>1 DEF FilesTypeOK, Writing
  <2>6. w'.seq \in Nat
    BY <1>3, <2>4 DEF Writing
  <2>7. Len(offered') <= MaxOffered /\ w'.seq <= Len(offered')
    BY <1>2, <1>3, <2>2, <2>3, <2>4, <2>6
  <2> QED
    BY <2>4, <2>5, <2>7 DEF FilesIInv
<1>6. ASSUME Close PROVE FilesIInv'
  <2>1. /\ w.file = "open" /\ clock' = clock /\ offered' = offered
        /\ w.kind = "mp4" => Mp4Close
        /\ w.kind = "fmp4" => FMp4Close
        /\ w.kind = "rtmp" => RtmpClose
    BY <1>6 DEF Close
  <2>2. /\ disk' \in Seq(Pieces) /\ w' \in Writing /\ w'.kind = w.kind /\ w'.seq = w.seq /\ patch' \in Int
        /\ w'.kind = "mp4" => Mp4Good'
        /\ w'.kind = "rtmp" => RtmpGood'
        /\ w'.kind = "fmp4" => FMp4Good'
    <3>1. CASE w.kind = "mp4"
      <4>1. /\ disk' \in Seq(Pieces) /\ w' \in Writing /\ w'.kind = w.kind /\ w'.seq = w.seq
            /\ patch' \in Int /\ Mp4Good'
        BY <1>2, <2>1, <3>1, Mp4CloseStep
      <4> QED
        BY <3>1, <4>1
    <3>2. CASE w.kind = "rtmp"
      <4>1. w' = [w EXCEPT !.file = "closed"] /\ disk' = disk /\ patch' = patch
        BY <2>1, <3>2 DEF RtmpClose
      <4>2. /\ w' \in Writing /\ w'.kind = w.kind /\ w'.seq = w.seq /\ w'.first = w.first
            /\ w'.file = "closed" /\ w'.lost = w.lost
        BY <1>3, <4>1 DEF Writing
      <4>4. RtmpGood'
        BY <1>2, <2>1, <3>2, <4>1, <4>2 DEF RtmpGood
      <4> QED
        BY <1>3, <3>2, <4>1, <4>2, <4>4
    <3>3. CASE w.kind = "fmp4"
      <4>1. /\ disk' \in Seq(Pieces) /\ w' \in Writing /\ w'.kind = w.kind /\ w'.seq = w.seq
            /\ patch' \in Int /\ FMp4Good'
        BY <1>2, <2>1, <3>3, FMp4CloseStep
      <4> QED
        BY <3>3, <4>1
    <3> QED
      BY <1>3, <3>1, <3>2, <3>3 DEF Writers
  <2>3. FilesTypeOK'
    BY <1>3, <2>1, <2>2 DEF FilesTypeOK, Writing
  <2> QED
    BY <1>2, <2>1, <2>2, <2>3 DEF FilesIInv
<1>7. ASSUME UNCHANGED filesVars PROVE FilesIInv'
  <2>1. w' = w /\ disk' = disk /\ patch' = patch /\ clock' = clock /\ offered' = offered
    BY <1>7 DEF filesVars
  <2>2. FilesTypeOK'
    BY <1>2, <2>1 DEF FilesTypeOK
  <2>4. (Mp4Good => Mp4Good') /\ (RtmpGood => RtmpGood') /\ (FMp4Good => FMp4Good')
    BY <2>1 DEF Mp4Good, RtmpGood, FMp4Good
  <2> QED
    BY <1>2, <2>1, <2>2, <2>4 DEF FilesIInv
<1> QED
  BY <1>1, <1>4, <1>5, <1>6, <1>7 DEF FilesNext

(* The invariant of the writers holds.                                      *)
LEMMA FilesInvariant == FilesSpec => []FilesIInv
  BY FilesBegin, FilesStep, PTL DEF FilesSpec

(* The types of a writer and of what it has written (stream/mp4.hpp,        *)
(* stream/fmp4.hpp, stream/rtmp.hpp).                                       *)
THEOREM FilesTypeCorrect == FilesSpec => []FilesTypeOK
<1>1. FilesIInv => FilesTypeOK
  BY DEF FilesIInv
<1> QED
  BY <1>1, FilesInvariant, PTL

(* The tables of an MP4 file describe it at every moment, whatever frames   *)
(* come in whatever order: each sample is where its track says, or 2^32     *)
(* bytes, or a multiple, behind it; as long as it says; and named as a key  *)
(* frame iff it is one.  The duration is right of a track that does not     *)
(* begin at the time 0 (Trak::AppendSample, Mp4::WriteFrame).               *)
THEOREM TablesDescribe == FilesSpec => []TablesTrue
<1>1. FilesIInv => TablesTrue
  BY TableIsTrue DEF FilesIInv
<1> QED
  BY <1>1, FilesInvariant, PTL

(* The fragments of an FMP4 file are numbered and timed without gaps, from  *)
(* the first key frame with a time on; and, until the connection breaks,    *)
(* the packets of an RTMP publisher are the frames from there on, at their  *)
(* times, but for video frames without a start code, each key frame behind  *)
(* a configuration; of H.265 as long as the process lives                   *)
(* (FMp4::WriteFrame, librtmp::Client::WriteFrame).                         *)
THEOREM FramesInTime == FilesSpec => []FramesFollow
<1>1. FilesIInv => FramesFollow
  BY ChainIsChain, SentIsTimed DEF FilesIInv, FilesTypeOK, FramesFollow
<1> QED
  BY <1>1, FilesInvariant, PTL

-----------------------------------------------------------------------------
(* Boxes within boxes                                                       *)

(* Pieces that take up room.                                                *)
Solid(file) == file \in Seq(Pieces) /\ \A i \in 1..Len(file) : file[i].own > 0

(* Where the box at i ends, by its header.                                  *)
Ends(file, i) == Positions(file)[i] + file[i].size

(* The pieces from a to before b are whole boxes: each ends where a piece   *)
(* begins, no later than b, and so does what begins inside it; and each is  *)
(* in a box of the right kind, or, next to a, in one of the kind top.       *)
Nested(file, a, b, top) ==
  \A i \in a..(b - 1) :
    /\ \E j \in (i + 1)..b : Positions(file)[j] = Ends(file, i)
    /\ \A k \in (i + 1)..(b - 1) : Positions(file)[k] < Ends(file, i) => Ends(file, k) <= Ends(file, i)
    /\ \A pair \in Parents : file[i].box = pair[1] =>
         \/ top = pair[2] /\ \A h \in a..(i - 1) : Ends(file, h) <= Positions(file)[i]
         \/ \E g \in a..(i - 1) :
              /\ file[g].box = pair[2] /\ Positions(file)[i] < Ends(file, g)
              /\ \A h \in (g + 1)..(i - 1) : Ends(file, h) <= Positions(file)[i]

LEMMA PieceSize ==
  ASSUME NEW p \in Pieces
  PROVE  p.size \in Int /\ p.own \in Nat
BY DEF Pieces

(* In a file of solid pieces the later begins behind the earlier.           *)
LEMMA PositionsGrow ==
  ASSUME NEW file, Solid(file)
  PROVE  /\ Len(file) \in Nat
         /\ \A i \in 1..(Len(file) + 1) : Positions(file)[i] \in Nat
         /\ \A i \in 1..Len(file) : Positions(file)[i + 1] = Positions(file)[i] + file[i].own
         /\ \A i \in 1..Len(file) : file[i].size \in Int /\ Ends(file, i) \in Int
         /\ \A i, j \in 1..(Len(file) + 1) : i < j => Positions(file)[i] < Positions(file)[j]
<1> DEFINE n == Len(file)
           p == Positions(file)
<1>1. n \in Nat /\ file \in Seq(Pieces)
  BY DEF Solid
<1>2. /\ \A i \in 1..(n + 1) : p[i] \in Nat
      /\ \A i \in 1..n : p[i + 1] = p[i] + file[i].own
  BY <1>1, FilePlaces
<1>3. \A i \in 1..n : file[i].size \in Int /\ file[i].own \in Nat /\ file[i].own > 0
  BY <1>1, ElementOfSeq, PieceSize DEF Solid
<1> HIDE DEF n, p
<1>4. \A i \in 1..n : i \in 1..(n + 1) /\ i + 1 \in 1..(n + 1)
  BY <1>1
<1>5. ASSUME NEW i \in 1..(n + 1), NEW j \in 1..(n + 1), i < j PROVE p[i] < p[j]
  <2> DEFINE T == {k \in Nat : i + 1 + k <= n + 1 => p[i] < p[i + 1 + k]}
  <2>1. 0 \in T
    <3>1. i \in 1..n /\ i + 1 + 0 = i + 1
      BY <1>1, <1>5
    <3>2. p[i] < p[i + 1]
      BY <1>2, <1>3, <1>4, <3>1
    <3> QED
      BY <3>1, <3>2
  <2>2. ASSUME NEW k \in 0..n, k < n, k \in T PROVE k + 1 \in T
    <3>1. SUFFICES ASSUME i + 1 + (k + 1) <= n + 1 PROVE p[i] < p[i + 1 + (k + 1)]
      BY <2>2
    <3>2. i + 1 + k \in 1..n /\ (i + 1 + k) + 1 = i + 1 + (k + 1) /\ i + 1 + k <= n + 1
      BY <1>1, <2>2, <3>1
    <3>3. p[i] < p[i + 1 + k]
      BY <2>2, <3>2
    <3>4. p[i + 1 + k] < p[(i + 1 + k) + 1]
      BY <1>2, <1>3, <1>4, <3>2
    <3>5. p[i] \in Nat /\ p[i + 1 + k] \in Nat /\ p[(i + 1 + k) + 1] \in Nat
      BY <1>2, <1>4, <3>2
    <3> QED
      BY <3>2, <3>3, <3>4, <3>5
  <2> HIDE DEF T
  <2>3. \A k \in 0..n : k \in T
    BY <1>1, <2>1, <2>2, UpTo
  <2>4. j - (i + 1) \in 0..n /\ i + 1 + (j - (i + 1)) = j /\ j <= n + 1
    BY <1>1, <1>5
  <2>5. j - (i + 1) \in T
    BY <2>3, <2>4
  <2> QED
    BY <2>4, <2>5 DEF T
<1>6. \A i \in 1..n : p[i] + file[i].size \in Int
  BY <1>2, <1>3, <1>4
<1> QED
  BY <1>1, <1>2, <1>3, <1>5, <1>6 DEF n, p, Ends

(* What one file adds to another begins where it would, after the first.    *)
LEMMA PositionsShift ==
  ASSUME NEW file \in Seq(Pieces), NEW more \in Seq(Pieces)
  PROVE  \A i \in 1..(Len(more) + 1) :
           Positions(file \o more)[Len(file) + i] = Positions(file)[Len(file) + 1] + Positions(more)[i]
<1> DEFINE n == Len(file)
           m == Len(more)
           both == file \o more
           p == Positions(file)
           q == Positions(more)
           r == Positions(both)
<1>1. /\ both \in Seq(Pieces) /\ Len(both) = n + m /\ n \in Nat /\ m \in Nat
      /\ \A i \in 1..m : both[n + i] = more[i]
      /\ \A i \in 1..(n + 1) : r[i] = p[i]
  BY FileExtended
<1>2. \A i \in 1..(n + 1) : p[i] \in Nat
  BY FilePlaces
<1>3. q[1] = 0 /\ (\A i \in 1..(m + 1) : q[i] \in Nat) /\ \A i \in 1..m : q[i + 1] = q[i] + more[i].own
  BY FilePlaces
<1> HIDE DEF both
<1>4. \A i \in 1..(n + m) : r[i + 1] = r[i] + both[i].own
  BY <1>1, FilePlaces
<1>5. \A i \in 1..m : more[i].own \in Nat
  BY ElementOfSeq, PieceSize
<1> HIDE DEF n, m, p, q, r
<1> DEFINE T == {k \in Nat : k <= m => r[n + (k + 1)] = p[n + 1] + q[k + 1]}
<1>6. 0 \in T
  <2>1. n + 1 \in 1..(n + 1) /\ n + (0 + 1) = n + 1 /\ 0 + 1 = 1
    BY <1>1
  <2>2. r[n + (0 + 1)] = p[n + 1]
    BY <1>1, <2>1
  <2>3. p[n + 1] + q[0 + 1] = p[n + 1]
    BY <1>2, <1>3, <2>1
  <2> QED
    BY <2>2, <2>3
<1>7. ASSUME NEW k \in 0..m, k < m, k \in T PROVE k + 1 \in T
  <2>1. /\ k + 1 \in 1..m /\ k + 1 \in 1..(m + 1) /\ n + (k + 1) \in 1..(n + m) /\ k + 1 \in Nat
        /\ (n + (k + 1)) + 1 = n + ((k + 1) + 1) /\ n + 1 \in 1..(n + 1)
    <3>1. k < m
      BY <1>7
    <3>2. n \in Nat /\ m \in Nat
      BY <1>1
    <3> QED
      BY <3>1, <3>2
  <2>2. r[n + (k + 1)] = p[n + 1] + q[k + 1]
    BY <1>1, <1>7
  <2>3. r[n + ((k + 1) + 1)] = r[n + (k + 1)] + more[k + 1].own
    <3>1. r[(n + (k + 1)) + 1] = r[n + (k + 1)] + both[n + (k + 1)].own
      BY <1>4, <2>1
    <3> QED
      BY <1>1, <2>1, <3>1
  <2>4. q[(k + 1) + 1] = q[k + 1] + more[k + 1].own
    BY <1>3, <2>1
  <2>5. p[n + 1] \in Nat /\ q[k + 1] \in Nat /\ more[k + 1].own \in Nat
    BY <1>2, <1>3, <1>5, <2>1
  <2> QED
    BY <2>1, <2>2, <2>3, <2>4, <2>5
<1> HIDE DEF T
<1>8. \A k \in 0..m : k \in T
  BY <1>1, <1>6, <1>7, UpTo
<1>9. ASSUME NEW i \in 1..(m + 1) PROVE r[n + i] = p[n + 1] + q[i]
  <2>1. i - 1 \in 0..m /\ (i - 1) + 1 = i /\ i - 1 <= m
    BY <1>1
  <2>2. i - 1 \in T
    BY <1>8, <2>1
  <2> QED
    BY <2>1, <2>2 DEF T
<1> QED
  BY <1>9 DEF n, m, p, q, r, both

(* A piece that ends where the next begins.                                 *)
LEMMA NestedLeaf ==
  ASSUME NEW file, Solid(file), NEW a \in 1..Len(file), file[a].size = file[a].own, NEW top,
         \A pair \in Parents : file[a].box = pair[1] => top = pair[2]
  PROVE  Nested(file, a, a + 1, top)
<1> DEFINE p == Positions(file)
           e(i) == Ends(file, i)
<1>1. Len(file) \in Nat /\ a \in Nat /\ p[a + 1] = p[a] + file[a].own
  BY PositionsGrow
<1>2. p[a + 1] = e(a)
  BY <1>1 DEF Ends
<1>3. \A i \in a..((a + 1) - 1) : i = a
  BY <1>1
<1>4. /\ \A k \in (a + 1)..((a + 1) - 1) : FALSE
      /\ \A h \in a..(a - 1) : FALSE
      /\ a + 1 \in (a + 1)..(a + 1)
  BY <1>1
<1>5. /\ \E j \in (a + 1)..(a + 1) : p[j] = e(a)
      /\ \A k \in (a + 1)..((a + 1) - 1) : p[k] < e(a) => e(k) <= e(a)
      /\ \A pair \in Parents : file[a].box = pair[1] =>
           top = pair[2] /\ \A h \in a..(a - 1) : e(h) <= p[a]
  BY <1>2, <1>4
<1> QED
  BY <1>3, <1>5 DEF Nested

(* Boxes, and boxes behind them.                                            *)
LEMMA NestedJoin ==
  ASSUME NEW file, Solid(file), NEW a \in Nat, NEW b \in Nat, NEW c \in Nat,
         1 <= a, a <= b, b <= c, c <= Len(file) + 1, NEW top,
         Nested(file, a, b, top), Nested(file, b, c, top)
  PROVE  Nested(file, a, c, top)
<1> DEFINE p == Positions(file)
           e(i) == Ends(file, i)
           n == Len(file)
<1>1. /\ n \in Nat /\ \A i \in 1..(n + 1) : p[i] \in Nat
      /\ \A i \in 1..n : e(i) \in Int
      /\ \A i, j \in 1..(n + 1) : i < j => p[i] < p[j]
  BY PositionsGrow
<1>2. \A i \in a..(b - 1) :
        /\ \E j \in (i + 1)..b : p[j] = e(i)
        /\ \A k \in (i + 1)..(b - 1) : p[k] < e(i) => e(k) <= e(i)
        /\ \A pair \in Parents : file[i].box = pair[1] =>
             \/ top = pair[2] /\ \A h \in a..(i - 1) : e(h) <= p[i]
             \/ \E g \in a..(i - 1) : file[g].box = pair[2] /\ p[i] < e(g) /\ \A h \in (g + 1)..(i - 1) : e(h) <= p[i]
  BY DEF Nested
<1>3. \A i \in b..(c - 1) :
        /\ \E j \in (i + 1)..c : p[j] = e(i)
        /\ \A k \in (i + 1)..(c - 1) : p[k] < e(i) => e(k) <= e(i)
        /\ \A pair \in Parents : file[i].box = pair[1] =>
             \/ top = pair[2] /\ \A h \in b..(i - 1) : e(h) <= p[i]
             \/ \E g \in b..(i - 1) : file[g].box = pair[2] /\ p[i] < e(g) /\ \A h \in (g + 1)..(i - 1) : e(h) <= p[i]
  BY DEF Nested
<1> HIDE DEF p, e, n
<1>4. c <= n + 1
  BY DEF n
<1>5. ASSUME NEW i \in a..(b - 1) PROVE e(i) <= p[b] /\ e(i) \in Int
  <2>1. PICK j \in (i + 1)..b : p[j] = e(i)
    BY <1>2
  <2>2. j \in 1..(n + 1) /\ b \in 1..(n + 1) /\ (j = b \/ j < b) /\ i \in 1..n
    BY <1>1, <1>4
  <2> QED
    BY <1>1, <2>1, <2>2
<1>6. ASSUME NEW k \in b..(c - 1) PROVE p[b] <= p[k] /\ p[k] \in Nat
  <2>1. k \in 1..(n + 1) /\ b \in 1..(n + 1) /\ (k = b \/ b < k)
    BY <1>1, <1>4
  <2> QED
    BY <1>1, <2>1
<1>7. b < c => p[b] \in Nat
  BY <1>1, <1>4
<1>8. ASSUME NEW i \in a..(b - 1)
      PROVE  /\ \E j \in (i + 1)..c : p[j] = e(i)
             /\ \A k \in (i + 1)..(c - 1) : p[k] < e(i) => e(k) <= e(i)
             /\ \A pair \in Parents : file[i].box = pair[1] =>
                  \/ top = pair[2] /\ \A h \in a..(i - 1) : e(h) <= p[i]
                  \/ \E g \in a..(i - 1) : file[g].box = pair[2] /\ p[i] < e(g) /\ \A h \in (g + 1)..(i - 1) : e(h) <= p[i]
  <2>1. \E j \in (i + 1)..c : p[j] = e(i)
    <3>1. PICK j \in (i + 1)..b : p[j] = e(i)
      BY <1>2
    <3>2. j \in (i + 1)..c
      OBVIOUS
    <3> QED
      BY <3>1, <3>2
  <2>2. ASSUME NEW k \in (i + 1)..(c - 1), p[k] < e(i) PROVE e(k) <= e(i)
    <3>1. CASE k < b
      <4>1. k \in (i + 1)..(b - 1)
        BY <3>1
      <4> QED
        BY <1>2, <2>2, <4>1
    <3>2. CASE ~(k < b)
      <4>1. k \in b..(c - 1) /\ b < c
        BY <3>2
      <4>2. p[b] <= p[k] /\ p[k] \in Nat /\ e(i) <= p[b] /\ e(i) \in Int /\ p[b] \in Nat
        BY <1>5, <1>6, <1>7, <4>1
      <4> QED
        BY <2>2, <4>2
    <3> QED
      BY <3>1, <3>2
  <2> QED
    BY <1>2, <2>1, <2>2
<1>9. ASSUME NEW i \in b..(c - 1)
      PROVE  /\ \E j \in (i + 1)..c : p[j] = e(i)
             /\ \A k \in (i + 1)..(c - 1) : p[k] < e(i) => e(k) <= e(i)
             /\ \A pair \in Parents : file[i].box = pair[1] =>
                  \/ top = pair[2] /\ \A h \in a..(i - 1) : e(h) <= p[i]
                  \/ \E g \in a..(i - 1) : file[g].box = pair[2] /\ p[i] < e(g) /\ \A h \in (g + 1)..(i - 1) : e(h) <= p[i]
  <2>1. ASSUME NEW pair \in Parents, file[i].box = pair[1]
        PROVE  \/ top = pair[2] /\ \A h \in a..(i - 1) : e(h) <= p[i]
               \/ \E g \in a..(i - 1) : file[g].box = pair[2] /\ p[i] < e(g) /\ \A h \in (g + 1)..(i - 1) : e(h) <= p[i]
    <3>1. CASE top = pair[2] /\ \A h \in b..(i - 1) : e(h) <= p[i]
      <4>1. ASSUME NEW h \in a..(i - 1) PROVE e(h) <= p[i]
        <5>1. CASE h < b
          <6>1. h \in a..(b - 1) /\ b < c
            BY <5>1
          <6>2. e(h) <= p[b] /\ e(h) \in Int /\ p[b] <= p[i] /\ p[i] \in Nat /\ p[b] \in Nat
            BY <1>5, <1>6, <1>7, <6>1
          <6> QED
            BY <6>2
        <5>2. CASE ~(h < b)
          <6>1. h \in b..(i - 1)
            BY <5>2
          <6> QED
            BY <3>1, <6>1
        <5> QED
          BY <5>1, <5>2
      <4> QED
        BY <3>1, <4>1
    <3>2. CASE \E g \in b..(i - 1) : file[g].box = pair[2] /\ p[i] < e(g) /\ \A h \in (g + 1)..(i - 1) : e(h) <= p[i]
      <4>1. PICK g \in b..(i - 1) : file[g].box = pair[2] /\ p[i] < e(g) /\ \A h \in (g + 1)..(i - 1) : e(h) <= p[i]
        BY <3>2
      <4>2. g \in a..(i - 1)
        OBVIOUS
      <4> QED
        BY <4>1, <4>2
    <3> QED
      BY <1>3, <2>1, <3>1, <3>2
  <2> QED
    BY <1>3, <2>1
<1>10. \A i \in a..(c - 1) : i \in a..(b - 1) \/ i \in b..(c - 1)
  OBVIOUS
<1> QED
  BY <1>8, <1>9, <1>10 DEF Nested, p, e

(* A box around boxes.                                                      *)
LEMMA NestedWrap ==
  ASSUME NEW file, Solid(file), NEW a \in Nat, NEW b \in Nat, 1 <= a, a < b, b <= Len(file) + 1,
         Nested(file, a + 1, b, file[a].box), Positions(file)[b] = Positions(file)[a] + file[a].size,
         NEW top, \A pair \in Parents : file[a].box = pair[1] => top = pair[2]
  PROVE  Nested(file, a, b, top)
<1> DEFINE p == Positions(file)
           e(i) == Ends(file, i)
           n == Len(file)
           d == a + 1
<1>1. /\ n \in Nat /\ \A i \in 1..(n + 1) : p[i] \in Nat
      /\ \A i \in 1..n : e(i) \in Int
      /\ \A i, j \in 1..(n + 1) : i < j => p[i] < p[j]
  BY PositionsGrow
<1>2. \A i \in d..(b - 1) :
        /\ \E j \in (i + 1)..b : p[j] = e(i)
        /\ \A k \in (i + 1)..(b - 1) : p[k] < e(i) => e(k) <= e(i)
        /\ \A pair \in Parents : file[i].box = pair[1] =>
             \/ file[a].box = pair[2] /\ \A h \in d..(i - 1) : e(h) <= p[i]
             \/ \E g \in d..(i - 1) : file[g].box = pair[2] /\ p[i] < e(g) /\ \A h \in (g + 1)..(i - 1) : e(h) <= p[i]
  BY DEF Nested
<1>3. e(a) = p[b] /\ b <= n + 1
  BY DEF Ends
<1> HIDE DEF p, e, n
<1>4. ASSUME NEW i \in d..(b - 1) PROVE e(i) <= p[b] /\ p[i] < p[b] /\ i \in 1..(n + 1)
  <2>1. PICK j \in (i + 1)..b : p[j] = e(i)
    BY <1>2
  <2>2. j \in 1..(n + 1) /\ b \in 1..(n + 1) /\ (j = b \/ j < b) /\ i \in 1..(n + 1) /\ i < b
    BY <1>1, <1>3
  <2>3. p[i] < p[b] /\ p[b] \in Nat /\ (j < b => p[j] < p[b])
    BY <1>1, <2>2
  <2>4. p[j] <= p[b]
    <3>1. CASE j = b
      BY <2>3, <3>1
    <3>2. CASE j < b
      <4>1. p[j] \in Nat
        BY <1>1, <2>2
      <4> QED
        BY <2>3, <3>2, <4>1
    <3> QED
      BY <2>2, <3>1, <3>2
  <2> QED
    BY <2>1, <2>2, <2>3, <2>4
<1>5. /\ \E j \in (a + 1)..b : p[j] = e(a)
      /\ \A k \in (a + 1)..(b - 1) : p[k] < e(a) => e(k) <= e(a)
      /\ \A pair \in Parents : file[a].box = pair[1] => top = pair[2] /\ \A h \in a..(a - 1) : e(h) <= p[a]
  <2>1. b \in (a + 1)..b
    OBVIOUS
  <2>2. \A k \in (a + 1)..(b - 1) : e(k) <= e(a)
    BY <1>3, <1>4
  <2>3. \A h \in a..(a - 1) : FALSE
    OBVIOUS
  <2> QED
    BY <1>3, <2>1, <2>2, <2>3
<1>6. ASSUME NEW i \in d..(b - 1), NEW pair \in Parents, file[i].box = pair[1]
      PROVE  \E g \in a..(i - 1) : file[g].box = pair[2] /\ p[i] < e(g) /\ \A h \in (g + 1)..(i - 1) : e(h) <= p[i]
  <2>1. CASE file[a].box = pair[2] /\ \A h \in d..(i - 1) : e(h) <= p[i]
    <3>1. a \in a..(i - 1) /\ p[i] < e(a)
      BY <1>3, <1>4
    <3> QED
      BY <2>1, <3>1
  <2>2. CASE \E g \in d..(i - 1) : file[g].box = pair[2] /\ p[i] < e(g) /\ \A h \in (g + 1)..(i - 1) : e(h) <= p[i]
    <3>1. \A g \in d..(i - 1) : g \in a..(i - 1)
      OBVIOUS
    <3> QED
      BY <2>2, <3>1
  <2> QED
    BY <1>2, <1>6, <2>1, <2>2
<1>7. \A i \in a..(b - 1) : i = a \/ i \in d..(b - 1)
  OBVIOUS
<1>8. ASSUME NEW i \in d..(b - 1)
      PROVE  /\ \E j \in (i + 1)..b : p[j] = e(i)
             /\ \A k \in (i + 1)..(b - 1) : p[k] < e(i) => e(k) <= e(i)
             /\ \A pair \in Parents : file[i].box = pair[1] =>
                  \E g \in a..(i - 1) : file[g].box = pair[2] /\ p[i] < e(g) /\ \A h \in (g + 1)..(i - 1) : e(h) <= p[i]
  BY <1>2, <1>6
<1> HIDE DEF d
<1>9. ASSUME NEW i \in a..(b - 1)
      PROVE  /\ \E j \in (i + 1)..b : p[j] = e(i)
             /\ \A k \in (i + 1)..(b - 1) : p[k] < e(i) => e(k) <= e(i)
             /\ \A pair \in Parents : file[i].box = pair[1] =>
                  \/ top = pair[2] /\ \A h \in a..(i - 1) : e(h) <= p[i]
                  \/ \E g \in a..(i - 1) : file[g].box = pair[2] /\ p[i] < e(g) /\ \A h \in (g + 1)..(i - 1) : e(h) <= p[i]
  <2>1. CASE i = a
    BY <1>5, <2>1
  <2>2. CASE i \in d..(b - 1)
    BY <1>8, <2>2
  <2> QED
    BY <1>7, <2>1, <2>2
<1> QED
  BY <1>9 DEF Nested, p, e

(* Boxes that lie the same way elsewhere, from the s-th piece on and behind *)
(* o bytes.                                                                 *)
Alike(file, a, b, other, s, o) ==
  /\ Solid(file) /\ Solid(other) /\ a \in Nat /\ b \in Nat /\ s \in Nat /\ o \in Nat
  /\ 1 <= a /\ a <= b /\ b <= Len(file) + 1 /\ s + b <= Len(other) + 1
  /\ \A i \in a..(b - 1) : other[s + i].box = file[i].box /\ other[s + i].size = file[i].size
  /\ \A i \in a..b : Positions(other)[s + i] = o + Positions(file)[i]

LEMMA NestedAlike ==
  ASSUME NEW file, NEW a, NEW b, NEW other, NEW s, NEW o, Alike(file, a, b, other, s, o),
         NEW top, Nested(file, a, b, top)
  PROVE  Nested(other, s + a, s + b, top)
<1> DEFINE p == Positions(file)
           q == Positions(other)
           e(i) == Ends(file, i)
           u(i) == Ends(other, i)
<1>1. /\ a \in Nat /\ b \in Nat /\ s \in Nat /\ o \in Nat
      /\ 1 <= a /\ a <= b /\ b <= Len(file) + 1 /\ s + b <= Len(other) + 1
      /\ \A i \in a..(b - 1) : other[s + i].box = file[i].box /\ other[s + i].size = file[i].size
      /\ \A i \in a..b : q[s + i] = o + p[i]
      /\ Solid(file) /\ Solid(other)
  BY DEF Alike
<1>2. /\ Len(file) \in Nat /\ \A i \in 1..(Len(file) + 1) : p[i] \in Nat
      /\ \A i \in 1..Len(file) : e(i) \in Int /\ file[i].size \in Int
  BY <1>1, PositionsGrow
<1>3. ASSUME NEW i \in a..b PROVE q[s + i] = o + p[i] /\ p[i] \in Nat
  <2>1. i \in 1..(Len(file) + 1)
    BY <1>1, <1>2
  <2> QED
    BY <1>1, <1>2, <2>1
<1>4. ASSUME NEW i \in a..(b - 1) PROVE u(s + i) = o + e(i) /\ e(i) \in Int
  <2>1. i \in a..b /\ i \in 1..Len(file)
    BY <1>1, <1>2
  <2>2. q[s + i] = o + p[i] /\ p[i] \in Nat /\ file[i].size \in Int /\ other[s + i].size = file[i].size
    BY <1>1, <1>2, <1>3, <2>1
  <2>3. u(s + i) = q[s + i] + other[s + i].size /\ e(i) = p[i] + file[i].size
    BY DEF Ends
  <2>4. e(i) \in Int
    BY <1>2, <2>1
  <2> HIDE DEF u, e, p, q
  <2>5. o \in Nat
    BY <1>1
  <2> QED
    BY <2>2, <2>3, <2>4, <2>5
<1>5. \A i \in a..(b - 1) :
        /\ \E j \in (i + 1)..b : p[j] = e(i)
        /\ \A k \in (i + 1)..(b - 1) : p[k] < e(i) => e(k) <= e(i)
        /\ \A pair \in Parents : file[i].box = pair[1] =>
             \/ top = pair[2] /\ \A h \in a..(i - 1) : e(h) <= p[i]
             \/ \E g \in a..(i - 1) : file[g].box = pair[2] /\ p[i] < e(g) /\ \A h \in (g + 1)..(i - 1) : e(h) <= p[i]
  BY DEF Nested
<1> HIDE DEF p, q, e, u
<1>6. ASSUME NEW x \in (s + a)..((s + b) - 1)
      PROVE  /\ \E y \in (x + 1)..(s + b) : q[y] = u(x)
             /\ \A y \in (x + 1)..((s + b) - 1) : q[y] < u(x) => u(y) <= u(x)
             /\ \A pair \in Parents : other[x].box = pair[1] =>
                  \/ top = pair[2] /\ \A h \in (s + a)..(x - 1) : u(h) <= q[x]
                  \/ \E g \in (s + a)..(x - 1) : /\ other[g].box = pair[2] /\ q[x] < u(g)
                                                 /\ \A h \in (g + 1)..(x - 1) : u(h) <= q[x]
  <2> DEFINE i == x - s
  <2>1. i \in a..(b - 1) /\ i \in a..b /\ s + i = x
    BY <1>1
  <2> HIDE DEF i
  <2>2. /\ u(x) = o + e(i) /\ e(i) \in Int /\ q[x] = o + p[i] /\ p[i] \in Nat
        /\ other[x].box = file[i].box
    BY <1>1, <1>3, <1>4, <2>1
  <2>3. \E y \in (x + 1)..(s + b) : q[y] = u(x)
    <3>1. PICK j \in (i + 1)..b : p[j] = e(i)
      BY <1>5, <2>1
    <3>2. s + j \in (x + 1)..(s + b) /\ j \in a..b
      BY <1>1, <2>1
    <3>3. q[s + j] = u(x)
      BY <1>3, <2>2, <3>1, <3>2
    <3> QED
      BY <3>2, <3>3
  <2>4. ASSUME NEW y \in (x + 1)..((s + b) - 1), q[y] < u(x) PROVE u(y) <= u(x)
    <3> DEFINE k == y - s
    <3>1. k \in (i + 1)..(b - 1) /\ k \in a..(b - 1) /\ k \in a..b /\ s + k = y
      BY <1>1, <2>1
    <3> HIDE DEF k
    <3>2. q[y] = o + p[k] /\ p[k] \in Nat /\ u(y) = o + e(k) /\ e(k) \in Int
      BY <1>3, <1>4, <3>1
    <3>3. p[k] < e(i)
      BY <1>1, <2>2, <2>4, <3>2
    <3>4. e(k) <= e(i)
      BY <1>5, <2>1, <3>1, <3>3
    <3> QED
      BY <1>1, <2>2, <3>2, <3>4
  <2>5. ASSUME NEW g \in a..i, \A h \in g..(i - 1) : e(h) <= p[i]
        PROVE  \A h \in (s + g)..(x - 1) : u(h) <= q[x]
    <3>1. SUFFICES ASSUME NEW h \in (s + g)..(x - 1) PROVE u(h) <= q[x]
      OBVIOUS
    <3>2. h - s \in g..(i - 1) /\ h - s \in a..(b - 1) /\ s + (h - s) = h
      BY <1>1, <2>1
    <3>3. e(h - s) <= p[i] /\ u(h) = o + e(h - s) /\ e(h - s) \in Int
      BY <1>4, <2>5, <3>2
    <3> QED
      BY <1>1, <2>2, <3>3, SMTT(30)
  <2>6. ASSUME NEW pair \in Parents, other[x].box = pair[1]
        PROVE  \/ top = pair[2] /\ \A h \in (s + a)..(x - 1) : u(h) <= q[x]
               \/ \E g \in (s + a)..(x - 1) : /\ other[g].box = pair[2] /\ q[x] < u(g)
                                              /\ \A h \in (g + 1)..(x - 1) : u(h) <= q[x]
    <3>1. \/ top = pair[2] /\ \A h \in a..(i - 1) : e(h) <= p[i]
          \/ \E g \in a..(i - 1) : file[g].box = pair[2] /\ p[i] < e(g) /\ \A h \in (g + 1)..(i - 1) : e(h) <= p[i]
      BY <1>5, <2>1, <2>2, <2>6
    <3>2. CASE top = pair[2] /\ \A h \in a..(i - 1) : e(h) <= p[i]
      <4>1. a \in a..i
        BY <1>1, <2>1
      <4> QED
        BY <2>5, <3>2, <4>1
    <3>3. CASE \E g \in a..(i - 1) : file[g].box = pair[2] /\ p[i] < e(g) /\ \A h \in (g + 1)..(i - 1) : e(h) <= p[i]
      <4>1. PICK g \in a..(i - 1) : file[g].box = pair[2] /\ p[i] < e(g) /\ \A h \in (g + 1)..(i - 1) : e(h) <= p[i]
        BY <3>3
      <4>2. s + g \in (s + a)..(x - 1) /\ g \in a..(b - 1) /\ g + 1 \in a..i /\ s + (g + 1) = (s + g) + 1
        BY <1>1, <2>1
      <4>3. other[s + g].box = pair[2] /\ u(s + g) = o + e(g) /\ e(g) \in Int
        BY <1>1, <1>4, <4>1, <4>2
      <4>4. q[x] < u(s + g)
        BY <1>1, <2>2, <4>1, <4>3, SMTT(30)
      <4>5. \A h \in ((s + g) + 1)..(x - 1) : u(h) <= q[x]
        BY <2>5, <4>1, <4>2
      <4> QED
        BY <4>2, <4>3, <4>4, <4>5
    <3> QED
      BY <3>1, <3>2, <3>3
  <2> QED
    BY <2>3, <2>4, <2>6
<1> QED
  BY <1>6 DEF Nested, q, u

LEMMA SolidBoth ==
  ASSUME NEW file, Solid(file), NEW more, Solid(more)
  PROVE  /\ Solid(file \o more) /\ Len(file \o more) = Len(file) + Len(more)
         /\ Len(file) \in Nat /\ Len(more) \in Nat
<1> DEFINE both == file \o more
           n == Len(file)
           m == Len(more)
<1>1. file \in Seq(Pieces) /\ more \in Seq(Pieces) /\ n \in Nat /\ m \in Nat
  BY DEF Solid
<1>2. /\ both \in Seq(Pieces) /\ Len(both) = n + m
      /\ \A i \in 1..n : both[i] = file[i]
      /\ \A i \in 1..m : both[n + i] = more[i]
  BY <1>1, FileExtended
<1> HIDE DEF both
<1>3. ASSUME NEW i \in 1..Len(both) PROVE both[i].own > 0
  <2>1. CASE i \in 1..n
    BY <1>2, <2>1 DEF Solid
  <2>2. CASE ~(i \in 1..n)
    <3>1. i - n \in 1..m /\ n + (i - n) = i
      BY <1>1, <1>2, <2>2
    <3>2. both[i] = more[i - n]
      BY <1>2, <3>1
    <3> QED
      BY <3>1, <3>2 DEF Solid
  <2> QED
    BY <2>1, <2>2
<1> QED
  BY <1>1, <1>2, <1>3 DEF Solid, both

(* What is added to a file does not change the boxes in front of it.        *)
LEMMA NestedKept ==
  ASSUME NEW file, Solid(file), NEW more, Solid(more), NEW a \in Nat, NEW b \in Nat,
         1 <= a, a <= b, b <= Len(file) + 1, NEW top, Nested(file, a, b, top)
  PROVE  Nested(file \o more, a, b, top)
<1> DEFINE both == file \o more
           n == Len(file)
<1>1. /\ Solid(both) /\ Len(both) = n + Len(more) /\ n \in Nat /\ Len(more) \in Nat
      /\ file \in Seq(Pieces) /\ more \in Seq(Pieces)
  BY SolidBoth DEF Solid
<1>2. /\ \A i \in 1..n : both[i] = file[i]
      /\ \A i \in 1..(n + 1) : Positions(both)[i] = Positions(file)[i]
  BY <1>1, FileExtended
<1>3. \A i \in 1..(n + 1) : Positions(file)[i] \in Nat
  BY PositionsGrow
<1> HIDE DEF both
<1>4. ASSUME NEW i \in a..(b - 1) PROVE both[0 + i].box = file[i].box /\ both[0 + i].size = file[i].size
  <2>1. i \in 1..n /\ 0 + i = i
    BY <1>1
  <2> QED
    BY <1>2, <2>1
<1>5. ASSUME NEW i \in a..b PROVE Positions(both)[0 + i] = 0 + Positions(file)[i]
  <2>1. i \in 1..(n + 1) /\ 0 + i = i
    BY <1>1
  <2> QED
    BY <1>2, <1>3, <2>1
<1>6. Alike(file, a, b, both, 0, 0)
  BY <1>1, <1>4, <1>5 DEF Alike
<1>7. Nested(both, 0 + a, 0 + b, top)
  BY <1>6, NestedAlike
<1>8. 0 + a = a /\ 0 + b = b
  OBVIOUS
<1> QED
  BY <1>7, <1>8 DEF both

(* Boxes are boxes also behind a file.                                      *)
LEMMA NestedBehind ==
  ASSUME NEW file, Solid(file), NEW more, Solid(more), NEW a \in Nat, NEW b \in Nat,
         1 <= a, a <= b, b <= Len(more) + 1, NEW top, Nested(more, a, b, top)
  PROVE  Nested(file \o more, Len(file) + a, Len(file) + b, top)
<1> DEFINE both == file \o more
           n == Len(file)
           m == Len(more)
           o == Positions(file)[n + 1]
<1>1. /\ Solid(both) /\ Len(both) = n + m /\ n \in Nat /\ m \in Nat
      /\ file \in Seq(Pieces) /\ more \in Seq(Pieces)
  BY SolidBoth DEF Solid
<1>2. \A i \in 1..m : both[n + i] = more[i]
  BY <1>1, FileExtended
<1>3. \A i \in 1..(m + 1) : Positions(both)[n + i] = o + Positions(more)[i]
  BY <1>1, PositionsShift
<1>4. o \in Nat
  <2>1. n + 1 \in 1..(n + 1) /\ \A i \in 1..(n + 1) : Positions(file)[i] \in Nat
    BY <1>1, PositionsGrow
  <2> QED
    BY <2>1
<1> HIDE DEF both, o, m, n
<1>5. ASSUME NEW i \in a..(b - 1) PROVE both[n + i].box = more[i].box /\ both[n + i].size = more[i].size
  <2>1. i \in 1..m
    BY <1>1 DEF m
  <2> QED
    BY <1>2, <2>1
<1>6. ASSUME NEW i \in a..b PROVE Positions(both)[n + i] = o + Positions(more)[i]
  <2>1. i \in 1..(m + 1)
    BY <1>1 DEF m
  <2> QED
    BY <1>3, <2>1
<1>7. n + b <= Len(both) + 1
  BY <1>1 DEF m
<1>8. Alike(more, a, b, both, n, o)
  BY <1>1, <1>4, <1>5, <1>6, <1>7 DEF Alike
<1>9. Nested(both, n + a, n + b, top)
  BY <1>8, NestedAlike
<1> QED
  BY <1>9 DEF both, n

(* A file of boxes behind a file of boxes.                                  *)
Whole(file, top) == Solid(file) /\ Nested(file, 1, Len(file) + 1, top)

LEMMA WholeBoth ==
  ASSUME NEW file, NEW more, NEW top, Whole(file, top), Whole(more, top)
  PROVE  Whole(file \o more, top)
<1> DEFINE both == file \o more
           n == Len(file)
           m == Len(more)
<1>1. /\ Solid(file) /\ Solid(more) /\ Solid(both) /\ Len(both) = n + m /\ n \in Nat /\ m \in Nat
      /\ Nested(file, 1, n + 1, top) /\ Nested(more, 1, m + 1, top)
  BY SolidBoth DEF Whole
<1>2. 1 \in Nat /\ n + 1 \in Nat /\ m + 1 \in Nat /\ 1 <= 1 /\ 1 <= n + 1 /\ 1 <= m + 1
  BY <1>1
<1>3. Nested(both, 1, n + 1, top)
  BY <1>1, <1>2, NestedKept, SMTT(30)
<1>4. Nested(both, n + 1, n + (m + 1), top)
  BY <1>1, <1>2, NestedBehind, SMTT(30)
<1> HIDE DEF both, n, m
<1>5. n + (m + 1) \in Nat /\ n + 1 <= n + (m + 1) /\ n + (m + 1) = Len(both) + 1
  BY <1>1
<1>6. Nested(both, 1, n + (m + 1), top)
  BY <1>1, <1>2, <1>3, <1>4, <1>5, NestedJoin
<1> QED
  BY <1>1, <1>5, <1>6 DEF Whole, both

(* The samples of an MP4 file.                                              *)
LEMMA NestedSamples ==
  ASSUME NEW file, Solid(file), NEW a \in Nat, NEW b \in Nat, 1 <= a, a <= b, b <= Len(file) + 1,
         \A i \in a..(b - 1) : file[i].box = "sample" /\ file[i].size = file[i].own
  PROVE  Nested(file, a, b, "mdat")
<1> DEFINE p == Positions(file)
           e(i) == Ends(file, i)
           n == Len(file)
<1>1. /\ n \in Nat /\ \A i \in 1..(n + 1) : p[i] \in Nat
      /\ \A i \in 1..n : p[i + 1] = p[i] + file[i].own
      /\ \A i, j \in 1..(n + 1) : i < j => p[i] < p[j]
  BY PositionsGrow
<1>2. ASSUME NEW i \in a..(b - 1) PROVE e(i) = p[i + 1]
  <2>1. i \in 1..n
    BY <1>1
  <2> QED
    BY <1>1, <1>2, <2>1 DEF Ends
<1> HIDE DEF p, e, n
<1>3. ASSUME NEW i \in a..(b - 1), NEW k \in (i + 1)..b PROVE e(i) <= p[k]
  <2>1. i + 1 \in 1..(n + 1) /\ k \in 1..(n + 1) /\ (i + 1 = k \/ i + 1 < k)
    BY <1>1 DEF n
  <2>2. p[i + 1] \in Nat /\ p[k] \in Nat /\ (i + 1 < k => p[i + 1] < p[k])
    BY <1>1, <2>1
  <2>3. e(i) = p[i + 1]
    BY <1>2
  <2>4. CASE i + 1 = k
    BY <2>2, <2>3, <2>4
  <2>5. CASE i + 1 < k
    BY <2>2, <2>3, <2>5
  <2> QED
    BY <2>1, <2>4, <2>5
<1>4. \A pair \in Parents : pair[1] = "sample" => pair[2] = "mdat"
  BY DEF Parents
<1>5. ASSUME NEW i \in a..(b - 1)
      PROVE  /\ \E j \in (i + 1)..b : p[j] = e(i)
             /\ \A k \in (i + 1)..(b - 1) : p[k] < e(i) => e(k) <= e(i)
             /\ \A pair \in Parents : file[i].box = pair[1] => "mdat" = pair[2] /\ \A h \in a..(i - 1) : e(h) <= p[i]
  <2>1. i + 1 \in (i + 1)..b /\ p[i + 1] = e(i)
    BY <1>2
  <2>2. ASSUME NEW k \in (i + 1)..(b - 1) PROVE ~(p[k] < e(i))
    <3>1. k \in (i + 1)..b /\ k \in 1..(n + 1) /\ i + 1 \in 1..(n + 1)
      BY <1>1 DEF n
    <3>2. e(i) <= p[k] /\ p[k] \in Nat /\ e(i) \in Nat
      BY <1>1, <1>2, <1>3, <3>1
    <3> QED
      BY <3>2
  <2>3. ASSUME NEW h \in a..(i - 1) PROVE e(h) <= p[i]
    <3>1. h \in a..(b - 1) /\ i \in (h + 1)..b
      OBVIOUS
    <3> QED
      BY <1>3, <3>1
  <2>4. file[i].box = "sample"
    OBVIOUS
  <2> QED
    BY <1>4, <2>1, <2>2, <2>3, <2>4
<1> QED
  BY <1>5 DEF Nested, p, e

-----------------------------------------------------------------------------
(* Boxes put together                                                       *)

(* Whole boxes, their length together, and no head of a file among them.    *)
Fills(file, top, size) ==
  /\ Whole(file, top) /\ SizeOf(file) = size
  /\ \A i \in 1..Len(file) : file[i].box \notin {"ftyp", "moov"}

(* In a box of the kind top there may be one of this kind.                  *)
Fits(box, top) == \A pair \in Parents : box = pair[1] => top = pair[2]

(* The length of a file is the sum of what it was put together from.        *)
LEMMA SizeBoth ==
  ASSUME NEW file \in Seq(Pieces), NEW more \in Seq(Pieces)
  PROVE  /\ SizeOf(file) \in Nat /\ SizeOf(file \o more) = SizeOf(file) + SizeOf(more)
         /\ SizeOf(file) = Positions(file)[Len(file) + 1]
<1> DEFINE both == file \o more
           m == Len(more)
<1>1. both \in Seq(Pieces) /\ Len(both) = Len(file) + Len(more) /\ Len(file) \in Nat /\ m \in Nat
  BY FileExtended
<1>2. /\ SizeOf(file) = Positions(file)[Len(file) + 1] /\ SizeOf(file) \in Nat
      /\ SizeOf(more) = Positions(more)[Len(more) + 1]
  BY FilesMeasured, SizeOfIs
<1>3. \A i \in 1..(m + 1) : Positions(both)[Len(file) + i] = Positions(file)[Len(file) + 1] + Positions(more)[i]
  BY PositionsShift
<1> HIDE DEF both
<1>4. SizeOf(both) = Positions(both)[Len(both) + 1]
  BY <1>1, FilesMeasured, SizeOfIs
<1>5. Len(both) + 1 = Len(file) + (m + 1) /\ m + 1 \in 1..(m + 1)
  BY <1>1
<1> QED
  BY <1>2, <1>3, <1>4, <1>5 DEF both

LEMMA OnePiece ==
  ASSUME NEW p \in Pieces, p.own > 0
  PROVE  /\ Solid(<<p>>) /\ SizeOf(<<p>>) = p.own /\ Len(<<p>>) = 1 /\ <<p>>[1] = p
         /\ Positions(<<p>>)[1] = 0 /\ Positions(<<p>>)[2] = p.own
<1> DEFINE file == <<p>>
<1>1. file \in Seq(Pieces) /\ Len(file) = 1 /\ file[1] = p
  OBVIOUS
<1> HIDE DEF file
<1>2. Positions(file)[1] = 0 /\ Positions(file)[1 + 1] = Positions(file)[1] + file[1].own
  <2>1. Positions(file)[1] = 0 /\ \A i \in 1..1 : Positions(file)[i + 1] = Positions(file)[i] + file[i].own
    BY <1>1, FilePlaces
  <2> QED
    BY <2>1
<1>3. p.own \in Nat
  BY PieceSize
<1>4. Positions(file)[2] = p.own
  BY <1>1, <1>2, <1>3
<1>5. SizeOf(file) = Positions(file)[Len(file) + 1]
  BY <1>1, FilesMeasured, SizeOfIs
<1>6. Solid(file)
  <2>1. \A i \in 1..Len(file) : i = 1
    BY <1>1
  <2> QED
    BY <1>1, <2>1 DEF Solid
<1> QED
  BY <1>1, <1>2, <1>4, <1>5, <1>6 DEF file

LEMMA FillsBoth ==
  ASSUME NEW file, NEW more, NEW top, NEW s, NEW t, Fills(file, top, s), Fills(more, top, t)
  PROVE  Fills(file \o more, top, s + t)
<1>1. Whole(file, top) /\ Whole(more, top) /\ file \in Seq(Pieces) /\ more \in Seq(Pieces)
  BY DEF Fills, Whole, Solid
<1>2. Whole(file \o more, top) /\ SizeOf(file \o more) = s + t
  BY <1>1, WholeBoth, SizeBoth DEF Fills
<1> DEFINE both == file \o more
           n == Len(file)
           m == Len(more)
<1>3. /\ Len(both) = n + m /\ n \in Nat /\ m \in Nat
      /\ \A i \in 1..n : both[i] = file[i]
      /\ \A i \in 1..m : both[n + i] = more[i]
  BY <1>1, FileExtended
<1> HIDE DEF both
<1>4. ASSUME NEW i \in 1..Len(both) PROVE both[i].box \notin {"ftyp", "moov"}
  <2>1. CASE i \in 1..n
    BY <1>3, <2>1 DEF Fills
  <2>2. CASE ~(i \in 1..n)
    <3>1. i - n \in 1..m /\ n + (i - n) = i
      BY <1>3, <2>2
    <3>2. both[i] = more[i - n]
      BY <1>3, <3>1
    <3> QED
      BY <3>1, <3>2 DEF Fills
  <2> QED
    BY <2>1, <2>2
<1> QED
  BY <1>2, <1>4 DEF Fills, both

(* A box without children.                                                  *)
LEMMA WholeLeaf ==
  ASSUME NEW p \in Pieces, p.own > 0, p.size = p.own, NEW top, Fits(p.box, top)
  PROVE  Whole(<<p>>, top)
<1> DEFINE file == <<p>>
<1>1. Solid(file) /\ Len(file) = 1 /\ file[1] = p
  BY OnePiece
<1> HIDE DEF file
<1>2. /\ 1 \in 1..Len(file) /\ file[1].size = file[1].own
      /\ \A pair \in Parents : file[1].box = pair[1] => top = pair[2]
  BY <1>1 DEF Fits
<1>3. Nested(file, 1, 1 + 1, top)
  BY <1>1, <1>2, NestedLeaf
<1> QED
  BY <1>1, <1>3 DEF Whole, file

LEMMA FillsLeaf ==
  ASSUME NEW p \in Pieces, p.own > 0, p.size = p.own, p.box \notin {"ftyp", "moov"},
         NEW top, Fits(p.box, top)
  PROVE  Fills(<<p>>, top, p.own)
<1>1. Whole(<<p>>, top) /\ SizeOf(<<p>>) = p.own
  BY WholeLeaf, OnePiece
<1>2. \A i \in 1..Len(<<p>>) : <<p>>[i].box \notin {"ftyp", "moov"}
  <2>1. Len(<<p>>) = 1 /\ <<p>>[1] = p
    OBVIOUS
  <2>2. \A i \in 1..Len(<<p>>) : i = 1
    BY <2>1
  <2> QED
    BY <2>1, <2>2
<1> QED
  BY <1>1, <1>2 DEF Fills

(* A box, and in it what the size says.                                     *)
LEMMA WholeWrap ==
  ASSUME NEW p \in Pieces, p.own > 0, NEW file, Whole(file, p.box), p.size = p.own + SizeOf(file),
         NEW top, Fits(p.box, top)
  PROVE  Whole(<<p>> \o file, top) /\ SizeOf(<<p>> \o file) = p.size
<1> DEFINE one == <<p>>
           both == <<p>> \o file
           n == Len(file)
<1>1. /\ Solid(one) /\ Len(one) = 1 /\ one[1] = p /\ SizeOf(one) = p.own
      /\ Positions(one)[1] = 0
  BY OnePiece
<1>2. Solid(file) /\ file \in Seq(Pieces) /\ one \in Seq(Pieces) /\ n \in Nat /\ Nested(file, 1, n + 1, p.box)
  BY <1>1 DEF Whole, Solid
<1> HIDE DEF one, n
<1>3. both = one \o file
  BY DEF one
<1> HIDE DEF both
<1>4. /\ Solid(both) /\ Len(both) = 1 + n /\ both[1] = p
      /\ SizeOf(both) = p.size /\ Positions(both)[1] = 0
  <2>1. Solid(both) /\ Len(both) = 1 + n /\ both \in Seq(Pieces)
    BY <1>1, <1>2, <1>3, SolidBoth DEF n, Solid
  <2>2. both[1] = one[1]
    <3>1. \A i \in 1..Len(one) : both[i] = one[i]
      BY <1>2, <1>3, FileExtended
    <3> QED
      BY <1>1, <3>1
  <2>3. SizeOf(both) = SizeOf(one) + SizeOf(file)
    BY <1>2, <1>3, SizeBoth
  <2>4. Positions(both)[1] = 0
    BY <2>1, FilePlaces
  <2> QED
    BY <1>1, <2>1, <2>2, <2>3, <2>4
<1>5. Nested(both, 1 + 1, 1 + (n + 1), p.box)
  <2>1. 1 \in Nat /\ n + 1 \in Nat /\ 1 <= 1 /\ 1 <= n + 1 /\ n + 1 <= Len(file) + 1
    BY <1>2 DEF n
  <2>2. Nested(one \o file, Len(one) + 1, Len(one) + (n + 1), p.box)
    BY <1>1, <1>2, <2>1, NestedBehind
  <2> QED
    BY <1>1, <1>3, <2>2
<1>6. /\ 1 + (n + 1) \in Nat /\ 1 < 1 + (n + 1) /\ 1 + (n + 1) = Len(both) + 1 /\ 1 + (n + 1) <= Len(both) + 1
      /\ 1 \in Nat /\ 1 <= 1
  BY <1>2, <1>4
<1>7. Positions(both)[1 + (n + 1)] = Positions(both)[1] + both[1].size
  <2>1. both \in Seq(Pieces)
    BY <1>4 DEF Solid
  <2>2. SizeOf(both) = Positions(both)[Len(both) + 1]
    BY <2>1, SizeBoth
  <2>3. p.size \in Int
    BY PieceSize
  <2> QED
    BY <1>4, <1>6, <2>2, <2>3
<1>8. \A pair \in Parents : both[1].box = pair[1] => top = pair[2]
  BY <1>4 DEF Fits
<1>9. Nested(both, 1 + 1, 1 + (n + 1), both[1].box)
  BY <1>4, <1>5
<1> DEFINE b == 1 + (n + 1)
<1>10. Nested(both, 1, b, top)
  <2>1. b \in Nat /\ 1 < b /\ b <= Len(both) + 1 /\ Nested(both, 1 + 1, b, both[1].box)
        /\ Positions(both)[b] = Positions(both)[1] + both[1].size
    BY <1>6, <1>7, <1>9
  <2> HIDE DEF b
  <2> QED
    BY <1>4, <1>6, <1>8, <2>1, NestedWrap
<1> QED
  BY <1>4, <1>6, <1>10 DEF Whole, both

LEMMA FillsWrap ==
  ASSUME NEW p \in Pieces, p.own > 0, p.box \notin {"ftyp", "moov"}, NEW file, NEW s,
         Fills(file, p.box, s), p.size = p.own + s, NEW top, Fits(p.box, top)
  PROVE  Fills(<<p>> \o file, top, p.size)
<1>1. Whole(file, p.box) /\ SizeOf(file) = s /\ file \in Seq(Pieces)
  BY DEF Fills, Whole, Solid
<1>2. Whole(<<p>> \o file, top) /\ SizeOf(<<p>> \o file) = p.size
  BY <1>1, WholeWrap
<1> DEFINE one == <<p>>
           both == one \o file
           n == Len(file)
<1>3. one \in Seq(Pieces) /\ Len(one) = 1 /\ one[1] = p /\ n \in Nat
  BY <1>1
<1> HIDE DEF one, both, n
<1>4. /\ Len(both) = 1 + n /\ n = Len(file)
      /\ \A i \in 1..1 : both[i] = one[i]
      /\ \A i \in 1..n : both[1 + i] = file[i]
  <2>1. /\ Len(one \o file) = Len(one) + Len(file)
        /\ \A i \in 1..Len(one) : (one \o file)[i] = one[i]
        /\ \A i \in 1..Len(file) : (one \o file)[Len(one) + i] = file[i]
    BY <1>1, <1>3, FileExtended
  <2>2. both = one \o file /\ n = Len(file)
    BY DEF both, n
  <2> QED
    BY <1>3, <2>1, <2>2
<1>5. ASSUME NEW i \in 1..Len(both) PROVE both[i].box \notin {"ftyp", "moov"}
  <2>1. CASE i = 1
    BY <1>3, <1>4, <2>1
  <2>2. CASE i # 1
    <3>1. i - 1 \in 1..n /\ 1 + (i - 1) = i
      BY <1>3, <1>4, <2>2
    <3>2. both[i] = file[i - 1]
      BY <1>4, <3>1
    <3> QED
      BY <1>4, <3>1, <3>2 DEF Fills
  <2> QED
    BY <2>1, <2>2
<1> QED
  BY <1>2, <1>5 DEF Fills, both, one

-----------------------------------------------------------------------------
(* The boxes of the tables                                                  *)

LEMMA Two ==
  ASSUME NEW S, NEW a \in S, NEW b \in S
  PROVE  <<a, b>> = <<a>> \o <<b>>
<1> DEFINE s == <<a>> \o <<b>>
<1>1. <<a>> \in Seq(S) /\ <<b>> \in Seq(S)
  OBVIOUS
<1>2. s \in Seq(S) /\ Len(s) = 2 /\ s[1] = a /\ s[2] = b
  OBVIOUS
<1> HIDE DEF s
<1>3. s = <<a, b>>
  BY <1>2
<1> QED
  BY <1>3 DEF s

LEMMA NoneFill ==
  ASSUME NEW top
  PROVE  Fills(<<>>, top, 0)
<1> DEFINE none == <<>>
<1>1. none \in Seq(Pieces) /\ Len(none) = 0
  OBVIOUS
<1> HIDE DEF none
<1>2. Positions(none)[1] = 0 /\ SizeOf(none) = Positions(none)[Len(none) + 1]
  BY <1>1, FilePlaces, FilesMeasured, SizeOfIs
<1>3. \A i \in 1..(1 - 1) : FALSE
  OBVIOUS
<1>4. Nested(none, 1, 1, top)
  BY <1>3 DEF Nested
<1>5. Whole(none, top)
  BY <1>1, <1>4 DEF Whole, Solid
<1> QED
  BY <1>1, <1>2, <1>5 DEF Fills, none

(* The kinds of boxes that go into each other.                              *)
LEMMA FitsMoov ==
  /\ Fits("moov", "file") /\ Fits("ftyp", "file") /\ Fits("mdat", "file") /\ Fits("moof", "file")
  /\ Fits("mvhd", "moov") /\ Fits("mvex", "moov") /\ Fits("trex", "mvex") /\ Fits("trak", "moov")
  /\ Fits("tkhd", "trak") /\ Fits("mdia", "trak") /\ Fits("mdhd", "mdia") /\ Fits("hdlr", "mdia")
  /\ Fits("minf", "mdia") /\ Fits("vmhd", "minf") /\ Fits("dinf", "minf") /\ Fits("stbl", "minf")
  /\ Fits("dref", "dinf") /\ Fits("url ", "dref")
BY DEF Fits, Parents

LEMMA FitsStbl ==
  /\ Fits("stsd", "stbl") /\ Fits("avc1", "stsd") /\ Fits("avcC", "avc1") /\ Fits("mp4a", "stsd")
  /\ Fits("esds", "mp4a") /\ Fits("stts", "stbl") /\ Fits("stsc", "stbl") /\ Fits("stsz", "stbl")
  /\ Fits("stco", "stbl") /\ Fits("stss", "stbl")
  /\ Fits("mfhd", "moof") /\ Fits("traf", "moof") /\ Fits("tfhd", "traf") /\ Fits("tfdt", "traf")
  /\ Fits("trun", "traf") /\ Fits("sample", "mdat")
BY DEF Fits, Parents

LEMMA LeafFills ==
  ASSUME NEW type \in Plain \ {"ftyp", "moov"}, NEW size \in Nat, size > 0, NEW top, Fits(type, top)
  PROVE  Fills(<<Leaf(type, size)>>, top, size)
<1> DEFINE p == Leaf(type, size)
<1>1. p \in Pieces /\ p.own = size /\ p.size = size /\ p.box = type
  BY DEF Leaf, Box, Pieces
<1> HIDE DEF p
<1>2. p.box \notin {"ftyp", "moov"} /\ Fits(p.box, top)
  BY <1>1
<1>3. Fills(<<p>>, top, p.own)
  BY <1>1, <1>2, FillsLeaf
<1> QED
  BY <1>1, <1>3 DEF p

LEMMA BoxFills ==
  ASSUME NEW type \in Plain \ {"ftyp", "moov"}, NEW size \in Nat, NEW own \in Nat, own > 0, NEW file,
         NEW s, Fills(file, type, s), size = own + s, NEW top, Fits(type, top)
  PROVE  Fills(<<Box(type, size, own)>> \o file, top, size)
<1> DEFINE p == Box(type, size, own)
<1>1. p \in Pieces /\ p.own = own /\ p.size = size /\ p.box = type
  BY DEF Box, Pieces
<1> HIDE DEF p
<1>2. p.box \notin {"ftyp", "moov"} /\ Fits(p.box, top) /\ Fills(file, p.box, s) /\ p.size = p.own + s
  BY <1>1
<1>3. Fills(<<p>> \o file, top, p.size)
  BY <1>1, <1>2, FillsWrap
<1> QED
  BY <1>1, <1>3 DEF p

(* The sample description.                                                  *)
LEMMA StsdFills ==
  ASSUME NEW id \in {1, 2}, NEW c \in Nat \X Nat \X Nat
  PROVE  \E s \in Nat : Fills(Stsd(id, c), "stbl", s)
<1>1. CASE id = 1
  <2> DEFINE n == ConfigSize(c)
             m == 86 + n
             l == 102 + n
             inner == <<Leaf("avcC", n)>>
             middle == <<Box("avc1", m, 86)>> \o inner
             outer == <<Box("stsd", l, 16)>> \o middle
  <2>1. n \in Nat /\ n > 0
    BY DEF ConfigSize
  <2>2. Stsd(id, c) = <<Box("stsd", l, 16), Box("avc1", m, 86), Leaf("avcC", n)>>
    BY <1>1 DEF Stsd
  <2> HIDE DEF n
  <2>3. m \in Nat /\ l \in Nat /\ m = 86 + n /\ l = 16 + m /\ 86 \in Nat /\ 16 \in Nat /\ 86 > 0 /\ 16 > 0
    BY <2>1
  <2> HIDE DEF m, l
  <2>4. "avcC" \in Plain \ {"ftyp", "moov"} /\ "avc1" \in Plain \ {"ftyp", "moov"}
        /\ "stsd" \in Plain \ {"ftyp", "moov"}
    BY DEF Plain
  <2>5. Fills(inner, "avc1", n)
    BY <2>1, <2>4, FitsStbl, LeafFills
  <2>6. Fills(middle, "stsd", m)
    <3> HIDE DEF inner
    <3> QED
      BY <2>3, <2>4, <2>5, FitsStbl, BoxFills
  <2>7. Fills(outer, "stbl", l)
    <3> HIDE DEF middle
    <3> QED
      BY <2>3, <2>4, <2>6, FitsStbl, BoxFills
  <2>8. Stsd(id, c) = outer
    <3> DEFINE x == Box("stsd", l, 16)
               y == Box("avc1", m, 86)
               z == Leaf("avcC", n)
    <3>1. Stsd(id, c) = <<x, y, z>> /\ outer = <<x>> \o (<<y>> \o <<z>>)
      BY <2>2
    <3>2. x \in {x, y, z} /\ y \in {x, y, z} /\ z \in {x, y, z}
      OBVIOUS
    <3> HIDE DEF x, y, z, outer
    <3> DEFINE S == {x, y, z}
    <3>3. x \in S /\ y \in S /\ z \in S
      BY <3>2
    <3> HIDE DEF S
    <3>4. <<y, z>> = <<y>> \o <<z>>
      BY <3>3, Two
    <3>5. <<x, y, z>> = <<x>> \o <<y, z>>
      BY <3>3
    <3> QED
      BY <3>1, <3>4, <3>5
  <2> QED
    BY <2>3, <2>7, <2>8
<1>2. CASE id = 2
  <2> DEFINE inner == <<Leaf("esds", 39)>>
             middle == <<Box("mp4a", 75, 36)>> \o inner
             outer == <<Box("stsd", 91, 16)>> \o middle
  <2>1. Stsd(id, c) = <<Box("stsd", 91, 16), Box("mp4a", 75, 36), Leaf("esds", 39)>>
    BY <1>2 DEF Stsd
  <2>2. /\ 39 \in Nat /\ 39 > 0 /\ 75 \in Nat /\ 36 \in Nat /\ 36 > 0 /\ 75 = 36 + 39
        /\ 91 \in Nat /\ 16 \in Nat /\ 16 > 0 /\ 91 = 16 + 75
    OBVIOUS
  <2>3. "esds" \in Plain \ {"ftyp", "moov"} /\ "mp4a" \in Plain \ {"ftyp", "moov"}
        /\ "stsd" \in Plain \ {"ftyp", "moov"}
    BY DEF Plain
  <2>4. Fills(inner, "mp4a", 39)
    BY <2>2, <2>3, FitsStbl, LeafFills
  <2>5. Fills(middle, "stsd", 75)
    <3> HIDE DEF inner
    <3> QED
      BY <2>2, <2>3, <2>4, FitsStbl, BoxFills
  <2>6. Fills(outer, "stbl", 91)
    <3> HIDE DEF middle
    <3> QED
      BY <2>2, <2>3, <2>5, FitsStbl, BoxFills
  <2>7. Stsd(id, c) = outer
    <3> DEFINE x == Box("stsd", 91, 16)
               y == Box("mp4a", 75, 36)
               z == Leaf("esds", 39)
               S == {x, y, z}
    <3>1. Stsd(id, c) = <<x, y, z>> /\ outer = <<x>> \o (<<y>> \o <<z>>)
      BY <2>1
    <3>2. x \in S /\ y \in S /\ z \in S
      OBVIOUS
    <3> HIDE DEF x, y, z, outer, S
    <3>3. <<y, z>> = <<y>> \o <<z>>
      BY <3>2, Two
    <3>4. <<x, y, z>> = <<x>> \o <<y, z>>
      BY <3>2
    <3> QED
      BY <3>1, <3>3, <3>4
  <2> QED
    BY <2>2, <2>6, <2>7
<1> QED
  BY <1>1, <1>2

(* The tables of a track.                                                   *)
LEMMA TablesFill ==
  ASSUME NEW id, NEW t \in Traks
  PROVE  \E s \in Nat : Fills(Tables(id, t), "stbl", s)
<1> DEFINE l == 20 + 4 * Len(t.lengths)
           o == 16 + 4 * Len(t.lengths)
           k == 16 + 4 * Len(t.keys)
           a == <<Leaf("stts", 24)>>
           b == <<Leaf("stsc", 28)>>
           c == <<Leaf("stsz", l)>>
           d == <<Leaf("stco", o)>>
           e == IF id = 1 THEN <<Leaf("stss", k)>> ELSE <<>>
<1>1. l \in Nat /\ o \in Nat /\ k \in Nat /\ l > 0 /\ o > 0 /\ k > 0 /\ 24 \in Nat /\ 28 \in Nat /\ 24 > 0 /\ 28 > 0
  <2>1. Len(t.lengths) \in Nat /\ Len(t.keys) \in Nat
    BY DEF Traks
  <2> QED
    BY <2>1
<1>2. Tables(id, t) = <<Leaf("stts", 24), Leaf("stsc", 28), Leaf("stsz", l), Leaf("stco", o)>> \o e
  BY DEF Tables
<1> HIDE DEF l, o, k
<1>3. /\ "stts" \in Plain \ {"ftyp", "moov"} /\ "stsc" \in Plain \ {"ftyp", "moov"}
      /\ "stsz" \in Plain \ {"ftyp", "moov"} /\ "stco" \in Plain \ {"ftyp", "moov"}
      /\ "stss" \in Plain \ {"ftyp", "moov"}
  BY DEF Plain
<1>4. Fills(a, "stbl", 24) /\ Fills(b, "stbl", 28) /\ Fills(c, "stbl", l) /\ Fills(d, "stbl", o)
  BY <1>1, <1>3, FitsStbl, LeafFills
<1>5. PICK s \in Nat : Fills(e, "stbl", s)
  <2>1. Fills(<<Leaf("stss", k)>>, "stbl", k)
    BY <1>1, <1>3, FitsStbl, LeafFills
  <2>2. Fills(<<>>, "stbl", 0)
    BY NoneFill
  <2> QED
    BY <1>1, <2>1, <2>2
<1> DEFINE whole == a \o (b \o (c \o d))
<1>6. Tables(id, t) = whole \o e
  <2> DEFINE x == Leaf("stts", 24)
             y == Leaf("stsc", 28)
             z == Leaf("stsz", l)
             v == Leaf("stco", o)
             S == {x, y, z, v}
  <2>1. Tables(id, t) = <<x, y, z, v>> \o e /\ whole = <<x>> \o (<<y>> \o (<<z>> \o <<v>>))
    BY <1>2
  <2>2. x \in S /\ y \in S /\ z \in S /\ v \in S
    OBVIOUS
  <2> HIDE DEF x, y, z, v, whole, S, e
  <2>3. <<z, v>> = <<z>> \o <<v>>
    BY <2>2, Two
  <2>4. <<y, z, v>> = <<y>> \o <<z, v>>
    BY <2>2
  <2>5. <<x, y, z, v>> = <<x>> \o <<y, z, v>>
    BY <2>2
  <2> QED
    BY <2>1, <2>3, <2>4, <2>5
<1> HIDE DEF a, b, c, d, e
<1>7. Fills(c \o d, "stbl", l + o)
  BY <1>4, FillsBoth
<1>8. Fills(b \o (c \o d), "stbl", 28 + (l + o))
  BY <1>4, <1>7, FillsBoth
<1>9. Fills(whole, "stbl", 24 + (28 + (l + o)))
  BY <1>4, <1>8, FillsBoth
<1> HIDE DEF whole
<1>10. Fills(whole \o e, "stbl", (24 + (28 + (l + o))) + s)
  BY <1>5, <1>9, FillsBoth
<1>11. (24 + (28 + (l + o))) + s \in Nat
  BY <1>1, <1>5
<1> QED
  BY <1>6, <1>10, <1>11

(* A piece in front.                                                        *)
Puts(S, a, t, u) == a \in S /\ t \in Seq(S) /\ u = <<a>> \o t

LEMMA Put ==
  ASSUME NEW S, NEW a, NEW t, NEW u, Puts(S, a, t, u), NEW s \in Seq(S)
  PROVE  u \in Seq(S) /\ u \o s = <<a>> \o (t \o s)
<1>0. a \in S /\ t \in Seq(S) /\ u = <<a>> \o t
  BY DEF Puts
<1>1. <<a>> \in Seq(S)
  BY <1>0
<1>2. <<a>> \o t \in Seq(S)
  BY <1>0, <1>1, ConcatProperties
<1> QED
  BY <1>0, <1>1, <1>2, ConcatAssociative

Heading(S, a, b, c, d, e, f, g, h, i, j, k, s, u) ==
  /\ a \in S /\ b \in S /\ c \in S /\ d \in S /\ e \in S /\ f \in S
  /\ g \in S /\ h \in S /\ i \in S /\ j \in S /\ k \in S
  /\ s \in Seq(S) /\ u = <<a, b, c, d, e, f, g, h, i, j, k>>

InFront(a, b, c, d, e, f, g, h, i, j, k, s, v) ==
  v = <<a>> \o (<<b>> \o (<<c>> \o (<<d>> \o (<<e>> \o (<<f>> \o (<<g>> \o (<<h>> \o
        (<<i>> \o (<<j>> \o (<<k>> \o s))))))))))

LEMMA ElevenInFront ==
  ASSUME NEW S, NEW a, NEW b, NEW c, NEW d, NEW e, NEW f, NEW g, NEW h, NEW i, NEW j, NEW k,
         NEW s, NEW u, Heading(S, a, b, c, d, e, f, g, h, i, j, k, s, u)
  PROVE  InFront(a, b, c, d, e, f, g, h, i, j, k, s, u \o s)
<1> DEFINE t1 == <<k>>
           t2 == <<j, k>>
           t3 == <<i, j, k>>
           t4 == <<h, i, j, k>>
           t5 == <<g, h, i, j, k>>
           t6 == <<f, g, h, i, j, k>>
           t7 == <<e, f, g, h, i, j, k>>
           t8 == <<d, e, f, g, h, i, j, k>>
           t9 == <<c, d, e, f, g, h, i, j, k>>
           t10 == <<b, c, d, e, f, g, h, i, j, k>>
           t11 == <<a, b, c, d, e, f, g, h, i, j, k>>
<1>0. /\ a \in S /\ b \in S /\ c \in S /\ d \in S /\ e \in S /\ f \in S
      /\ g \in S /\ h \in S /\ i \in S /\ j \in S /\ k \in S
      /\ s \in Seq(S) /\ u = t11
  BY DEF Heading
<1>1. t1 \in Seq(S)
  BY <1>0
<1>2. t2 = <<j>> \o t1
  BY Two DEF Heading
<1>3. t3 = <<i>> \o t2 /\ t4 = <<h>> \o t3 /\ t5 = <<g>> \o t4
  OBVIOUS
<1>4. t6 = <<f>> \o t5 /\ t7 = <<e>> \o t6 /\ t8 = <<d>> \o t7
  OBVIOUS
<1>5. t9 = <<c>> \o t8 /\ t10 = <<b>> \o t9
  OBVIOUS
<1>6. t11 = <<a>> \o t10
  OBVIOUS
<1> HIDE DEF t1, t2, t3, t4, t5, t6, t7, t8, t9, t10, t11
<1>7. t2 \in Seq(S) /\ t2 \o s = <<j>> \o (t1 \o s)
  <2>1. t2 = <<j>> \o t1
    BY <1>2
  <2>2. Puts(S, j, t1, t2)
    BY <1>0, <1>1, <2>1 DEF Puts
  <2> QED
    BY <1>0, <2>2, Put
<1>8. t3 \in Seq(S) /\ t3 \o s = <<i>> \o (t2 \o s)
  <2>1. t3 = <<i>> \o t2
    BY <1>3
  <2>2. Puts(S, i, t2, t3)
    BY <1>0, <1>7, <2>1 DEF Puts
  <2> QED
    BY <1>0, <2>2, Put
<1>9. t4 \in Seq(S) /\ t4 \o s = <<h>> \o (t3 \o s)
  <2>1. t4 = <<h>> \o t3
    BY <1>3
  <2>2. Puts(S, h, t3, t4)
    BY <1>0, <1>8, <2>1 DEF Puts
  <2> QED
    BY <1>0, <2>2, Put
<1>10. t5 \in Seq(S) /\ t5 \o s = <<g>> \o (t4 \o s)
  <2>1. t5 = <<g>> \o t4
    BY <1>3
  <2>2. Puts(S, g, t4, t5)
    BY <1>0, <1>9, <2>1 DEF Puts
  <2> QED
    BY <1>0, <2>2, Put
<1>11. t6 \in Seq(S) /\ t6 \o s = <<f>> \o (t5 \o s)
  <2>1. t6 = <<f>> \o t5
    BY <1>4
  <2>2. Puts(S, f, t5, t6)
    BY <1>0, <1>10, <2>1 DEF Puts
  <2> QED
    BY <1>0, <2>2, Put
<1>12. t7 \in Seq(S) /\ t7 \o s = <<e>> \o (t6 \o s)
  <2>1. t7 = <<e>> \o t6
    BY <1>4
  <2>2. Puts(S, e, t6, t7)
    BY <1>0, <1>11, <2>1 DEF Puts
  <2> QED
    BY <1>0, <2>2, Put
<1>13. t8 \in Seq(S) /\ t8 \o s = <<d>> \o (t7 \o s)
  <2>1. t8 = <<d>> \o t7
    BY <1>4
  <2>2. Puts(S, d, t7, t8)
    BY <1>0, <1>12, <2>1 DEF Puts
  <2> QED
    BY <1>0, <2>2, Put
<1>14. t9 \in Seq(S) /\ t9 \o s = <<c>> \o (t8 \o s)
  <2>1. t9 = <<c>> \o t8
    BY <1>5
  <2>2. Puts(S, c, t8, t9)
    BY <1>0, <1>13, <2>1 DEF Puts
  <2> QED
    BY <1>0, <2>2, Put
<1>15. t10 \in Seq(S) /\ t10 \o s = <<b>> \o (t9 \o s)
  <2>1. t10 = <<b>> \o t9
    BY <1>5
  <2>2. Puts(S, b, t9, t10)
    BY <1>0, <1>14, <2>1 DEF Puts
  <2> QED
    BY <1>0, <2>2, Put
<1>16. t11 \in Seq(S) /\ t11 \o s = <<a>> \o (t10 \o s)
  <2>1. t11 = <<a>> \o t10
    BY <1>6
  <2>2. Puts(S, a, t10, t11)
    BY <1>0, <1>15, <2>1 DEF Puts
  <2> QED
    BY <1>0, <2>2, Put
<1>17. t11 \o s = <<a>> \o (<<b>> \o (<<c>> \o (<<d>> \o (<<e>> \o (<<f>> \o (<<g>> \o (<<h>> \o
               (<<i>> \o (<<j>> \o (<<k>> \o s))))))))))
  BY <1>7, <1>8, <1>9, <1>10, <1>11, <1>12, <1>13, <1>14, <1>15, <1>16, Zenon DEF t1
<1> QED
  BY <1>0, <1>17 DEF InFront

(* A track.                                                                 *)
LEMMA TrakFills ==
  ASSUME NEW id \in {1, 2}, NEW t \in Traks
  PROVE  \E s \in Nat : Fills(TrakBoxes(id, t), "moov", s)
<1> DEFINE rest == Stsd(id, t.config) \o Tables(id, t)
           length == SizeOf(rest)
           S == Pieces
<1>1. t.config \in Nat \X Nat \X Nat
  BY DEF Traks
<1>2. PICK s \in Nat : Fills(Stsd(id, t.config), "stbl", s)
  BY <1>1, StsdFills
<1>3. PICK u \in Nat : Fills(Tables(id, t), "stbl", u)
  BY TablesFill
<1>4. Fills(rest, "stbl", s + u)
  BY <1>2, <1>3, FillsBoth
<1>5. length = s + u /\ length \in Nat /\ rest \in Seq(S)
  BY <1>2, <1>3, <1>4 DEF Fills, Whole, Solid
<1> DEFINE l260 == 260 + length
           l160 == 160 + length
           l72 == 72 + length
           l8 == 8 + length
           a == Box("trak", l260, 8)
           b == Leaf("tkhd", 92)
           c == Box("mdia", l160, 8)
           d == Leaf("mdhd", 32)
           e == Leaf("hdlr", 48)
           f == Box("minf", l72, 8)
           g == Leaf("vmhd", 20)
           h == Box("dinf", 36, 8)
           i == Box("dref", 28, 16)
           j == Leaf("url ", 12)
           k == Box("stbl", l8, 8)
<1>6. TrakBoxes(id, t) = <<a, b, c, d, e, f, g, h, i, j, k>> \o Stsd(id, t.config) \o Tables(id, t)
  BY DEF TrakBoxes
<1>7. /\ Stsd(id, t.config) \in Seq(S) /\ Tables(id, t) \in Seq(S)
  BY <1>2, <1>3 DEF Fills, Whole, Solid
<1> HIDE DEF length
<1>8. /\ l260 \in Nat /\ l160 \in Nat /\ l72 \in Nat /\ l8 \in Nat /\ l8 = 8 + length
      /\ l72 = 8 + (20 + (36 + l8)) /\ l160 = 8 + (32 + (48 + l72)) /\ l260 = 8 + (92 + l160)
      /\ 92 \in Nat /\ 32 \in Nat /\ 48 \in Nat /\ 20 \in Nat /\ 36 \in Nat /\ 28 \in Nat /\ 16 \in Nat
      /\ 12 \in Nat /\ 8 \in Nat /\ 8 > 0 /\ 92 > 0 /\ 32 > 0 /\ 48 > 0 /\ 20 > 0 /\ 12 > 0 /\ 16 > 0
      /\ 36 = 8 + 28 /\ 28 = 16 + 12
  BY <1>5
<1> HIDE DEF l260, l160, l72, l8
<1>9. /\ "trak" \in Plain \ {"ftyp", "moov"} /\ "tkhd" \in Plain \ {"ftyp", "moov"}
      /\ "mdia" \in Plain \ {"ftyp", "moov"} /\ "mdhd" \in Plain \ {"ftyp", "moov"}
      /\ "hdlr" \in Plain \ {"ftyp", "moov"} /\ "minf" \in Plain \ {"ftyp", "moov"}
      /\ "vmhd" \in Plain \ {"ftyp", "moov"} /\ "dinf" \in Plain \ {"ftyp", "moov"}
      /\ "dref" \in Plain \ {"ftyp", "moov"} /\ "url " \in Plain \ {"ftyp", "moov"}
      /\ "stbl" \in Plain \ {"ftyp", "moov"}
  BY DEF Plain
<1>10. /\ a \in S /\ b \in S /\ c \in S /\ d \in S /\ e \in S /\ f \in S
       /\ g \in S /\ h \in S /\ i \in S /\ j \in S /\ k \in S
  BY <1>8 DEF Box, Leaf, Pieces, Plain
<1>11. Fills(<<j>>, "dref", 12) /\ Fills(<<g>>, "minf", 20) /\ Fills(<<e>>, "mdia", 48)
       /\ Fills(<<d>>, "mdia", 32) /\ Fills(<<b>>, "trak", 92)
  BY <1>8, <1>9, FitsMoov, LeafFills, ZenonT(60)
<1> HIDE DEF b, d, e, g, j, rest
<1>12. Fills(<<i>> \o <<j>>, "dinf", 28)
  BY <1>8, <1>9, <1>11, FitsMoov, BoxFills, ZenonT(60)
<1>13. Fills(<<h>> \o (<<i>> \o <<j>>), "minf", 36)
  BY <1>8, <1>9, <1>12, FitsMoov, BoxFills, ZenonT(60)
<1>14. Fills(<<k>> \o rest, "minf", l8)
  BY <1>4, <1>5, <1>8, <1>9, FitsMoov, BoxFills, ZenonT(60)
<1> HIDE DEF h, i, k
<1> DEFINE dinf == <<h>> \o (<<i>> \o <<j>>)
           stbl == <<k>> \o rest
           minf == <<g>> \o (dinf \o stbl)
           mdia == <<d>> \o (<<e>> \o (<<f>> \o minf))
           trak == <<b>> \o (<<c>> \o mdia)
<1>15. Fills(dinf \o stbl, "minf", 36 + l8)
  BY <1>13, <1>14, FillsBoth
<1>16. Fills(minf, "minf", 20 + (36 + l8))
  <2> DEFINE z == dinf \o stbl
  <2>1. Fills(z, "minf", 36 + l8)
    BY <1>15
  <2> HIDE DEF z
  <2>2. Fills(<<g>> \o z, "minf", 20 + (36 + l8))
    BY <1>11, <2>1, FillsBoth
  <2> QED
    BY <2>2 DEF z
<1> HIDE DEF minf
<1>17. Fills(<<f>> \o minf, "mdia", l72)
  BY <1>8, <1>9, <1>16, FitsMoov, BoxFills, ZenonT(60)
<1> HIDE DEF f
<1>18. Fills(<<e>> \o (<<f>> \o minf), "mdia", 48 + l72)
  BY <1>11, <1>17, FillsBoth
<1>19. Fills(mdia, "mdia", 32 + (48 + l72))
  BY <1>11, <1>18, FillsBoth
<1> HIDE DEF mdia
<1>20. Fills(<<c>> \o mdia, "trak", l160)
  BY <1>8, <1>9, <1>19, FitsMoov, BoxFills, ZenonT(60)
<1> HIDE DEF c
<1>21. Fills(trak, "trak", 92 + l160)
  BY <1>11, <1>20, FillsBoth
<1> HIDE DEF trak
<1>22. Fills(<<a>> \o trak, "moov", l260)
  BY <1>8, <1>9, <1>21, FitsMoov, BoxFills, ZenonT(60)
<1> HIDE DEF a
<1> DEFINE head == <<a, b, c, d, e, f, g, h, i, j, k>>
<1>23. head \in Seq(S)
  BY <1>10, Eleven
<1>24. TrakBoxes(id, t) = head \o rest
  <2>1. TrakBoxes(id, t) = (head \o Stsd(id, t.config)) \o Tables(id, t)
    BY <1>6
  <2> HIDE DEF head
  <2> QED
    BY <1>7, <1>23, <2>1, ConcatAssociative DEF rest
<1> HIDE DEF S
<1>25. head \o rest = <<a>> \o (<<b>> \o (<<c>> \o (<<d>> \o (<<e>> \o (<<f>> \o (<<g>> \o (<<h>> \o
               (<<i>> \o (<<j>> \o (<<k>> \o rest))))))))))
  <2>1. Heading(S, a, b, c, d, e, f, g, h, i, j, k, rest, head)
    BY <1>5, <1>10 DEF Heading
  <2> HIDE DEF head
  <2>2. InFront(a, b, c, d, e, f, g, h, i, j, k, rest, head \o rest)
    BY <2>1, ElevenInFront
  <2> QED
    BY <2>2 DEF InFront
<1>26. dinf \o stbl = <<h>> \o (<<i>> \o (<<j>> \o stbl))
  <2>1. /\ <<i>> \in Seq(S) /\ <<j>> \in Seq(S) /\ <<k>> \in Seq(S)
    BY <1>10
  <2>2. stbl \in Seq(S) /\ <<i>> \o <<j>> \in Seq(S)
    BY <1>5, <2>1, ConcatProperties
  <2>3. dinf \o stbl = <<h>> \o ((<<i>> \o <<j>>) \o stbl)
    <3>1. Puts(S, h, <<i>> \o <<j>>, dinf)
      BY <1>10, <2>2 DEF Puts
    <3> QED
      BY <2>2, <3>1, Put
  <2>4. (<<i>> \o <<j>>) \o stbl = <<i>> \o (<<j>> \o stbl)
    <3>1. Puts(S, i, <<j>>, <<i>> \o <<j>>)
      BY <1>10, <2>1 DEF Puts
    <3> QED
      BY <2>2, <3>1, Put
  <2> QED
    BY <2>3, <2>4
<1>27. head \o rest = <<a>> \o trak
  <2> HIDE DEF head, dinf
  <2> QED
    BY <1>25, <1>26 DEF trak, mdia, minf
<1> QED
  BY <1>8, <1>22, <1>24, <1>27, ZenonT(60)

TrunPieces(S, s, t, u) == s \in Seq(S) /\ t \in Seq(S) /\ u \in Seq(S)

LEMMA Regroup ==
  ASSUME NEW S, NEW s, NEW t, NEW u, TrunPieces(S, s, t, u)
  PROVE  (s \o t) \o u = s \o (t \o u)
BY ConcatAssociative DEF TrunPieces

LEMMA MvexFills == Fills(Mvex, "moov", 72)
<1> DEFINE x == Box("mvex", MvexSize, 8)
           y == Leaf("trex", 32)
           inner == <<y>> \o <<y>>
<1>1. /\ "trex" \in Plain \ {"ftyp", "moov"} /\ "mvex" \in Plain \ {"ftyp", "moov"}
      /\ 32 \in Nat /\ 32 > 0 /\ MvexSize \in Nat /\ MvexSize = 8 + (32 + 32) /\ MvexSize = 72 /\ 8 \in Nat /\ 8 > 0
  BY DEF Plain, MvexSize
<1>2. Fills(<<y>>, "mvex", 32)
  BY <1>1, FitsMoov, LeafFills, ZenonT(60)
<1>3. Mvex = <<x, y, y>>
  BY DEF Mvex
<1> HIDE DEF y
<1>4. Fills(inner, "mvex", 32 + 32)
  BY <1>2, FillsBoth
<1> HIDE DEF inner
<1>5. Fills(<<x>> \o inner, "moov", MvexSize)
  BY <1>1, <1>4, FitsMoov, BoxFills, ZenonT(60)
<1>6. <<x, y, y>> = <<x>> \o inner
  <2> DEFINE S == {x, y}
  <2>1. x \in S /\ y \in S
    OBVIOUS
  <2> HIDE DEF x, S
  <2>2. <<y, y>> = inner
    BY <2>1, Two DEF inner
  <2>3. <<x, y, y>> = <<x>> \o <<y, y>>
    BY <2>1
  <2> QED
    BY <2>2, <2>3
<1> QED
  BY <1>1, <1>3, <1>5, <1>6

(* The moov of a file: the only one, with its mvhd in front.                *)
MoovOf(id, v, a, mvex, s, dur, moov) ==
  /\ id \in {1, 2} /\ v \in Traks /\ a \in Traks /\ s \in Nat /\ Fills(mvex, "moov", s)
  /\ dur \in Int /\ moov = Moov(id, v, a, mvex, dur)

LEMMA MoovWhole ==
  ASSUME NEW id, NEW v, NEW a, NEW mvex, NEW s, NEW dur, NEW moov,
         MoovOf(id, v, a, mvex, s, dur, moov)
  PROVE  /\ Whole(moov, "file") /\ moov \in Seq(Pieces) /\ Len(moov) >= 2
         /\ moov[1].box = "moov" /\ moov[1].own = 8 /\ moov[2] = Mvhd(dur)
         /\ \A i \in 2..Len(moov) : moov[i].box \notin {"ftyp", "moov"}
<1>0. /\ id \in {1, 2} /\ v \in Traks /\ a \in Traks /\ s \in Nat /\ Fills(mvex, "moov", s)
      /\ dur \in Int /\ moov = Moov(id, v, a, mvex, dur)
  BY DEF MoovOf
<1>1. PICK s1 \in Nat : Fills(TrakBoxes(id, v), "moov", s1)
  BY <1>0, TrakFills
<1>2. PICK s2 \in Nat : Fills(TrakBoxes(2, a), "moov", s2)
  BY <1>0, TrakFills
<1> DEFINE traks == TrakBoxes(id, v) \o TrakBoxes(2, a)
           tables == mvex \o traks
           size == MoovSize + SizeOf(tables)
           x == Box("moov", size, 8)
           y == Mvhd(dur)
           inner == <<y>> \o tables
           S == Pieces
<1>3. moov = <<x, y>> \o mvex \o traks
  BY <1>0 DEF Moov
<1>4. Fills(traks, "moov", s1 + s2)
  BY <1>1, <1>2, FillsBoth
<1> HIDE DEF traks
<1>5. Fills(tables, "moov", s + (s1 + s2))
  BY <1>0, <1>4, FillsBoth
<1>6. SizeOf(tables) = s + (s1 + s2) /\ SizeOf(tables) \in Nat
  BY <1>0, <1>5 DEF Fills
<1>7. mvex \in Seq(S) /\ traks \in Seq(S) /\ tables \in Seq(S)
  BY <1>0, <1>4, <1>5 DEF Fills, Whole, Solid
<1>8. y \in S /\ y.own = 108 /\ y.size = 108 /\ y.box = "mvhd"
  BY <1>0 DEF Mvhd, Pieces
<1> HIDE DEF tables
<1>9. size \in Nat /\ size = 8 + (108 + SizeOf(tables))
  BY <1>6 DEF MoovSize
<1> HIDE DEF size
<1>10. x \in S /\ x.own = 8 /\ x.size = size /\ x.box = "moov"
  BY <1>9 DEF Box, Pieces, Plain
<1> HIDE DEF x
<1>11. Fills(inner, "moov", 108 + SizeOf(tables))
  <2> HIDE DEF y
  <2>1. Fits(y.box, "moov")
    BY <1>8, FitsMoov, ZenonT(60)
  <2>2. Fills(<<y>>, "moov", y.own)
    BY <1>8, <2>1, FillsLeaf
  <2>3. Fills(<<y>>, "moov", 108) /\ Fills(tables, "moov", SizeOf(tables))
    BY <1>5, <1>6, <1>8, <2>2
  <2> QED
    BY <2>3, FillsBoth
<1>12. inner \in Seq(S) /\ Len(inner) = 1 + Len(tables) /\ inner[1] = y /\ Len(tables) \in Nat
  BY <1>7, <1>8
<1> HIDE DEF y, inner
<1>13. Whole(<<x>> \o inner, "file")
  <2>1. Whole(inner, x.box) /\ x.size = x.own + SizeOf(inner)
    BY <1>9, <1>10, <1>11 DEF Fills
  <2>2. Fits(x.box, "file")
    BY <1>10, FitsMoov, ZenonT(60)
  <2> QED
    BY <1>10, <2>1, <2>2, WholeWrap
<1> HIDE DEF S
<1>14. moov = <<x>> \o inner
  <2> DEFINE two == <<x, y>>
             t1 == <<y>>
  <2>0. two = <<x>> \o t1 /\ t1 \in Seq(S)
    BY <1>8, <1>10, Two
  <2> HIDE DEF two, t1
  <2>1. Puts(S, x, t1, two)
    BY <1>10, <2>0 DEF Puts
  <2>2. two \in Seq(S) /\ two \o tables = <<x>> \o (t1 \o tables)
    <3>1. tables \in Seq(S)
      BY <1>7
    <3> QED
      BY <2>1, <3>1, Put
  <2>3. (two \o mvex) \o traks = two \o (mvex \o traks)
    <3>1. TrunPieces(S, two, mvex, traks)
      BY <1>7, <2>2 DEF TrunPieces
    <3> QED
      BY <3>1, Regroup
  <2>4. moov = (two \o mvex) \o traks
    BY <1>3 DEF two
  <2> QED
    BY <2>2, <2>3, <2>4 DEF tables, inner, t1
<1> USE DEF S
<1>15. /\ Len(moov) = 1 + Len(inner) /\ moov[1] = x
       /\ \A i \in 1..Len(inner) : moov[1 + i] = inner[i]
  <2> DEFINE one == <<x>>
  <2>1. one \in Seq(Pieces) /\ Len(one) = 1 /\ one[1] = x
    BY <1>10
  <2> HIDE DEF one
  <2>2. moov = one \o inner
    BY <1>14 DEF one
  <2>3. /\ Len(one \o inner) = Len(one) + Len(inner)
        /\ \A i \in 1..Len(one) : (one \o inner)[i] = one[i]
        /\ \A i \in 1..Len(inner) : (one \o inner)[Len(one) + i] = inner[i]
    BY <1>12, <2>1, FileExtended
  <2> QED
    BY <2>1, <2>2, <2>3
<1>16. \A i \in 2..Len(moov) : moov[i].box \notin {"ftyp", "moov"}
  <2>1. ASSUME NEW i \in 2..Len(moov) PROVE moov[i].box \notin {"ftyp", "moov"}
    <3>1. i - 1 \in 1..Len(inner) /\ 1 + (i - 1) = i
      BY <1>12, <1>15
    <3>2. moov[i] = inner[i - 1]
      BY <1>15, <3>1
    <3> QED
      BY <1>11, <3>1, <3>2 DEF Fills
  <2> QED
    BY <2>1
<1>17. Len(moov) >= 2 /\ moov[2] = y
  <2>1. 1 \in 1..Len(inner) /\ 1 + 1 = 2
    BY <1>12
  <2> QED
    BY <1>12, <1>15, <2>1
<1>18. Whole(moov, "file") /\ moov \in Seq(Pieces)
  BY <1>13, <1>14 DEF Whole, Solid
<1> QED
  BY <1>10, <1>15, <1>16, <1>17, <1>18 DEF y

(* A fragment and its sample.                                               *)
LEMMA MoofFills ==
  ASSUME NEW seq \in Nat, NEW track \in 1..2, NEW time \in Int, NEW duration \in Int,
         NEW f \in FramesOffered, Stored(f) > 0, NEW more,
         more = Moof(seq, track, time, duration, Stored(f)) \o <<Sample(f)>>
  PROVE  /\ Whole(more, "file") /\ more \in Seq(Pieces)
         /\ \A i \in 1..Len(more) : more[i].box \notin {"ftyp", "moov"}
<1> DEFINE a == Box("moof", MoofSize - MdatSize, 8)
           b == Mfhd(seq)
           c == Box("traf", 76, 8)
           d == Tfhd(track)
           e == Tfdt(time)
           g == Trun(duration, Stored(f), MoofSize)
           h == Box("mdat", MdatSize + Stored(f), MdatSize)
           z == Sample(f)
           S == Pieces
<1>1. more = <<a, b, c, d, e, g, h>> \o <<z>>
  BY DEF Moof
<1>2. /\ Stored(f) \in Nat /\ z \in S /\ z.box = "sample" /\ z.own = Stored(f) /\ z.size = Stored(f)
  BY SampleType DEF Sample
<1>3. b \in S /\ b.box = "mfhd" /\ b.own = 16 /\ b.size = 16
  BY DEF Mfhd, Pieces
<1>4. d \in S /\ d.box = "tfhd" /\ d.own = 16 /\ d.size = 16
  BY DEF Tfhd, Pieces
<1>5. e \in S /\ e.box = "tfdt" /\ e.own = 16 /\ e.size = 16
  BY DEF Tfdt, Pieces
<1>6. g \in S /\ g.box = "trun" /\ g.own = 36 /\ g.size = 36
  BY <1>2 DEF Trun, Pieces, MoofSize
<1>7. /\ a \in S /\ a.box = "moof" /\ a.own = 8 /\ a.size = 100
      /\ c \in S /\ c.box = "traf" /\ c.own = 8 /\ c.size = 76
  BY DEF Box, Pieces, Plain, MoofSize, MdatSize
<1>8. h \in S /\ h.box = "mdat" /\ h.own = 8 /\ h.size = 8 + Stored(f)
  <2>1. h = Box("mdat", 8 + Stored(f), 8)
    BY DEF MdatSize
  <2> HIDE DEF h
  <2>2. "mdat" \in Plain /\ 8 + Stored(f) \in Nat
    BY <1>2 DEF Plain
  <2> QED
    BY <2>1, <2>2 DEF Box, Pieces
<1> HIDE DEF a, b, c, d, e, g, h, z
<1>9. /\ Fits(a.box, "file") /\ Fits(b.box, a.box) /\ Fits(c.box, a.box) /\ Fits(d.box, c.box)
      /\ Fits(e.box, c.box) /\ Fits(g.box, c.box) /\ Fits(h.box, "file") /\ Fits(z.box, h.box)
  BY <1>2, <1>3, <1>4, <1>5, <1>6, <1>7, <1>8, FitsMoov, FitsStbl
<1>10. /\ Fills(<<b>>, a.box, 16) /\ Fills(<<d>>, c.box, 16) /\ Fills(<<e>>, c.box, 16)
       /\ Fills(<<g>>, c.box, 36) /\ Fills(<<z>>, h.box, Stored(f))
  <2>1. b.own > 0 /\ b.box \notin {"ftyp", "moov"} /\ d.own > 0 /\ d.box \notin {"ftyp", "moov"}
    BY <1>3, <1>4
  <2>2. e.own > 0 /\ e.box \notin {"ftyp", "moov"} /\ g.own > 0 /\ g.box \notin {"ftyp", "moov"}
    BY <1>5, <1>6
  <2>3. z.own > 0 /\ z.box \notin {"ftyp", "moov"} /\ z.size = z.own
    BY <1>2
  <2>4. Fills(<<b>>, a.box, b.own)
    BY <1>3, <1>9, <2>1, FillsLeaf
  <2>5. Fills(<<d>>, c.box, d.own)
    BY <1>4, <1>9, <2>1, FillsLeaf
  <2>6. Fills(<<e>>, c.box, e.own)
    BY <1>5, <1>9, <2>2, FillsLeaf
  <2>7. Fills(<<g>>, c.box, g.own)
    BY <1>6, <1>9, <2>2, FillsLeaf
  <2>8. Fills(<<z>>, h.box, z.own)
    BY <1>2, <1>9, <2>3, FillsLeaf
  <2> QED
    BY <1>2, <1>3, <1>4, <1>5, <1>6, <2>4, <2>5, <2>6, <2>7, <2>8
<1> DEFINE times == <<e>> \o <<g>>
           runs == <<d>> \o times
           traf == <<c>> \o runs
           inner == <<b>> \o traf
           moof == <<a>> \o inner
           mdat == <<h>> \o <<z>>
<1>11. Fills(times, c.box, 16 + 36)
  BY <1>10, FillsBoth
<1> HIDE DEF times
<1>12. Fills(runs, c.box, 16 + (16 + 36))
  BY <1>10, <1>11, FillsBoth
<1> HIDE DEF runs
<1>13. Fills(traf, a.box, 76)
  <2>1. c.own > 0 /\ c.box \notin {"ftyp", "moov"} /\ c.size = c.own + (16 + (16 + 36))
    BY <1>7
  <2>2. Fills(traf, a.box, c.size)
    BY <1>7, <1>9, <1>12, <2>1, FillsWrap
  <2> QED
    BY <1>7, <2>2
<1> HIDE DEF traf
<1>14. Fills(inner, a.box, 16 + 76)
  BY <1>10, <1>13, FillsBoth
<1> HIDE DEF inner
<1>15. Fills(moof, "file", 100)
  <2>1. a.own > 0 /\ a.box \notin {"ftyp", "moov"} /\ a.size = a.own + (16 + 76)
    BY <1>7
  <2>2. Fills(moof, "file", a.size)
    BY <1>7, <1>9, <1>14, <2>1, FillsWrap
  <2> QED
    BY <1>7, <2>2
<1> HIDE DEF moof
<1>16. Fills(mdat, "file", h.size)
  <2>1. h.own > 0 /\ h.box \notin {"ftyp", "moov"} /\ h.size = h.own + Stored(f)
    BY <1>2, <1>8
  <2> DEFINE one == <<z>>
  <2>2. Fills(one, h.box, Stored(f))
    BY <1>10
  <2> HIDE DEF one
  <2>3. Fills(<<h>> \o one, "file", h.size)
    BY <1>8, <1>9, <2>1, <2>2, FillsWrap
  <2> QED
    BY <2>3 DEF one
<1> HIDE DEF mdat
<1>17. Fills(moof \o mdat, "file", 100 + h.size)
  BY <1>15, <1>16, FillsBoth
<1> HIDE DEF S
<1>18. more = moof \o mdat
  <2> DEFINE t1 == <<g>>
             t2 == <<e, g>>
             t3 == <<d, e, g>>
             t4 == <<c, d, e, g>>
             t5 == <<b, c, d, e, g>>
             t6 == <<a, b, c, d, e, g>>
             x == <<h>>
             y == <<z>>
             seven == <<a, b, c, d, e, g, h>>
  <2>0. /\ a \in S /\ b \in S /\ c \in S /\ d \in S /\ e \in S /\ g \in S /\ h \in S /\ z \in S
    BY <1>2, <1>3, <1>4, <1>5, <1>6, <1>7, <1>8
  <2>1. t2 = <<e>> \o t1 /\ x \in Seq(S) /\ y \in Seq(S)
    BY <2>0, Two
  <2>2. t3 = <<d>> \o t2 /\ t4 = <<c>> \o t3
    BY <2>0
  <2>3. t5 = <<b>> \o t4 /\ t6 = <<a>> \o t5
    BY <2>0
  <2>4. seven = t6 \o x /\ t6 \in Seq(S)
    BY <2>0
  <2>5. more = seven \o y /\ mdat = x \o y
    BY <1>1 DEF mdat
  <2>6. t2 = times /\ t3 = runs /\ t4 = traf /\ t5 = inner /\ t6 = moof
    <3> HIDE DEF t2, t3, t4, t5, t6
    <3>1. t2 = times
      BY <2>1 DEF times
    <3>2. t3 = runs
      BY <2>2, <3>1 DEF runs
    <3>3. t4 = traf
      BY <2>2, <3>2 DEF traf
    <3>4. t5 = inner
      BY <2>3, <3>3 DEF inner
    <3>5. t6 = moof
      BY <2>3, <3>4 DEF moof
    <3> QED
      BY <3>1, <3>2, <3>3, <3>4, <3>5
  <2> HIDE DEF t6, x, y, seven
  <2>7. (t6 \o x) \o y = t6 \o (x \o y)
    <3>1. TrunPieces(S, t6, x, y)
      BY <2>1, <2>4 DEF TrunPieces
    <3> QED
      BY <3>1, Regroup
  <2> QED
    BY <2>4, <2>5, <2>6, <2>7
<1> QED
  BY <1>17, <1>18 DEF Fills, Whole, Solid

-----------------------------------------------------------------------------
(* Files of boxes                                                           *)

(* Boxes with one ftyp, in front, and one moov behind it.                   *)
Headed(file) ==
  /\ Whole(file, "file") /\ Len(file) >= 2 /\ file[1].box = "ftyp" /\ file[1].own = FtypSize
  /\ \A i \in 2..Len(file) : file[i].box # "ftyp"
  /\ \E m \in 2..Len(file) : \A i \in 1..Len(file) : file[i].box = "moov" <=> i = m

(* An MP4 file while it is being written.                                   *)
Laid(file) ==
  /\ Solid(file) /\ Len(file) >= 2 /\ file[1] = Leaf("ftyp", FtypSize)
  /\ file[2] = Box("mdat", FtypSize + MdatSize, MdatSize)
  /\ \A i \in 3..Len(file) : file[i].box = "sample" /\ file[i].size = file[i].own

(* No boxes of the head among those added.                                  *)
LEMMA HeadedMore ==
  ASSUME NEW file, Headed(file), NEW more, Whole(more, "file"),
         \A i \in 1..Len(more) : more[i].box \notin {"ftyp", "moov"}
  PROVE  /\ Headed(file \o more) /\ Len(file \o more) >= Len(file)
         /\ \A i \in 1..Len(file) : (file \o more)[i] = file[i]
<1> DEFINE both == file \o more
           n == Len(file)
           m == Len(more)
<1>1. Whole(file, "file") /\ file \in Seq(Pieces) /\ more \in Seq(Pieces) /\ Whole(both, "file")
  BY WholeBoth DEF Headed, Whole, Solid
<1>2. /\ Len(both) = n + m /\ n \in Nat /\ m \in Nat /\ n >= 2
      /\ \A i \in 1..n : both[i] = file[i]
      /\ \A i \in 1..m : both[n + i] = more[i]
  BY <1>1, FileExtended DEF Headed
<1> HIDE DEF both
<1>3. ASSUME NEW i \in (n + 1)..Len(both) PROVE both[i].box \notin {"ftyp", "moov"}
  <2>1. i - n \in 1..m /\ n + (i - n) = i
    BY <1>2
  <2>2. both[i] = more[i - n]
    BY <1>2, <2>1
  <2> QED
    BY <2>1, <2>2
<1>4. \A i \in 1..Len(both) : i \in 1..n \/ i \in (n + 1)..Len(both)
  BY <1>2
<1>5. both[1].box = "ftyp" /\ both[1].own = FtypSize
  BY <1>2 DEF Headed
<1>6. ASSUME NEW i \in 2..Len(both) PROVE both[i].box # "ftyp"
  <2>1. CASE i \in 1..n
    <3>1. i \in 2..n
      BY <2>1
    <3> QED
      BY <1>2, <2>1, <3>1 DEF Headed
  <2>2. CASE i \in (n + 1)..Len(both)
    BY <1>3, <2>2
  <2> QED
    BY <1>2, <1>4, <2>1, <2>2
<1>7. PICK k \in 2..n : \A i \in 1..n : file[i].box = "moov" <=> i = k
  BY DEF Headed
<1>8. k \in 2..Len(both)
  BY <1>2
<1>9. ASSUME NEW i \in 1..Len(both) PROVE both[i].box = "moov" <=> i = k
  <2>1. CASE i \in 1..n
    BY <1>2, <1>7, <2>1
  <2>2. CASE i \in (n + 1)..Len(both)
    BY <1>2, <1>3, <1>7, <2>2
  <2> QED
    BY <1>4, <2>1, <2>2
<1>10. Headed(both)
  BY <1>1, <1>2, <1>5, <1>6, <1>8, <1>9 DEF Headed
<1> QED
  BY <1>2, <1>10 DEF both

(* What differs in neither kind nor size nests alike.                       *)
LEMMA HeadedSame ==
  ASSUME NEW file, Headed(file), NEW other \in Seq(Pieces), Len(other) = Len(file),
         \A i \in 1..Len(file) : /\ other[i].box = file[i].box /\ other[i].size = file[i].size
                                 /\ other[i].own = file[i].own
  PROVE  Headed(other)
<1> DEFINE n == Len(file)
<1>1. /\ Solid(file) /\ Nested(file, 1, n + 1, "file") /\ n \in Nat /\ file \in Seq(Pieces) /\ n >= 2
  BY DEF Headed, Whole, Solid
<1>2. Solid(other)
  BY <1>1 DEF Solid
<1>3. \A i \in 1..(n + 1) : Positions(other)[i] = Positions(file)[i]
  <2>1. Measured(file) /\ Measured(other) /\ n <= Len(file) /\ n <= Len(other)
    BY <1>1, FilesMeasured
  <2> QED
    BY <1>1, <2>1, SamePlaces
<1>4. \A i \in 1..(n + 1) : Positions(file)[i] \in Nat
  BY <1>1, FilePlaces
<1>5. ASSUME NEW i \in 1..((n + 1) - 1) PROVE other[0 + i].box = file[i].box /\ other[0 + i].size = file[i].size
  <2>1. i \in 1..n /\ 0 + i = i
    BY <1>1
  <2> QED
    BY <2>1
<1>6. ASSUME NEW i \in 1..(n + 1) PROVE Positions(other)[0 + i] = 0 + Positions(file)[i]
  <2>1. 0 + i = i
    OBVIOUS
  <2> QED
    BY <1>3, <1>4, <2>1
<1>7. Alike(file, 1, n + 1, other, 0, 0)
  BY <1>1, <1>2, <1>5, <1>6 DEF Alike
<1>8. Nested(other, 0 + 1, 0 + (n + 1), "file")
  BY <1>1, <1>7, NestedAlike
<1>9. 0 + 1 = 1 /\ 0 + (n + 1) = Len(other) + 1
  BY <1>1
<1>10. Whole(other, "file")
  BY <1>2, <1>8, <1>9 DEF Whole
<1>11. other[1].box = "ftyp" /\ other[1].own = FtypSize /\ \A i \in 2..n : other[i].box # "ftyp"
  <2>1. 1 \in 1..n /\ \A i \in 2..n : i \in 1..n
    BY <1>1
  <2> QED
    BY <2>1 DEF Headed
<1>12. PICK k \in 2..n : \A i \in 1..n : file[i].box = "moov" <=> i = k
  BY DEF Headed
<1>13. \A i \in 1..n : other[i].box = "moov" <=> i = k
  BY <1>12
<1> QED
  BY <1>1, <1>10, <1>11, <1>12, <1>13 DEF Headed

(* The head of an MP4 file.                                                 *)
LEMMA LaidHead ==
  ASSUME NEW file, file = <<Leaf("ftyp", FtypSize), Box("mdat", FtypSize + MdatSize, MdatSize)>>
  PROVE  Laid(file)
<1> DEFINE p == Leaf("ftyp", FtypSize)
           q == Box("mdat", FtypSize + MdatSize, MdatSize)
<1>1. p \in Pieces /\ p.own > 0 /\ q \in Pieces /\ q.own > 0
  BY DEF Leaf, Box, Pieces, Plain, FtypSize, MdatSize
<1>2. file = <<p, q>>
  OBVIOUS
<1> HIDE DEF p, q
<1>3. file \in Seq(Pieces) /\ Len(file) = 2 /\ file[1] = p /\ file[2] = q
  BY <1>1, <1>2
<1>4. \A i \in 1..Len(file) : i = 1 \/ i = 2
  BY <1>3
<1>5. Solid(file)
  BY <1>1, <1>3, <1>4 DEF Solid
<1>6. \A i \in 3..Len(file) : FALSE
  BY <1>3
<1> QED
  BY <1>3, <1>5, <1>6 DEF Laid, p, q

LEMMA LaidMore ==
  ASSUME NEW file, Laid(file), NEW f \in FramesOffered, Stored(f) > 0
  PROVE  Laid(file \o <<Sample(f)>>)
<1> DEFINE z == Sample(f)
           one == <<z>>
           both == file \o one
           n == Len(file)
<1>1. z \in Pieces /\ z.box = "sample" /\ z.own = Stored(f) /\ z.size = Stored(f)
  BY SampleType DEF Sample
<1> HIDE DEF z
<1>2. Solid(one) /\ Len(one) = 1 /\ one[1] = z
  BY <1>1, OnePiece
<1> HIDE DEF one
<1>3. /\ Solid(file) /\ Solid(both) /\ file \in Seq(Pieces) /\ one \in Seq(Pieces) /\ n \in Nat /\ n >= 2
      /\ Len(both) = n + 1
  BY <1>2, SolidBoth DEF Laid, Solid
<1>4. /\ \A i \in 1..n : both[i] = file[i]
      /\ both[n + 1] = z
  <2>1. \A i \in 1..n : both[i] = file[i]
    BY <1>3, FileExtended
  <2>2. \A i \in 1..1 : both[n + i] = one[i]
    BY <1>2, <1>3, FileExtended
  <2> QED
    BY <1>2, <2>1, <2>2, SMTT(30)
<1> HIDE DEF both
<1>5. ASSUME NEW i \in 3..Len(both) PROVE both[i].box = "sample" /\ both[i].size = both[i].own
  <2>1. CASE i \in 1..n
    <3>1. i \in 3..n
      BY <2>1
    <3> QED
      BY <1>4, <2>1, <3>1 DEF Laid
  <2>2. CASE i = n + 1
    BY <1>1, <1>4, <2>2
  <2> QED
    BY <1>3, <2>1, <2>2
<1>6. both[1] = file[1] /\ both[2] = file[2]
  BY <1>3, <1>4
<1>7. Laid(both)
  BY <1>3, <1>5, <1>6 DEF Laid
<1> QED
  BY <1>7 DEF both, one, z

(* With the size that Close writes, the samples are in the mdat.            *)
LEMMA LaidWhole ==
  ASSUME NEW file, Laid(file), NEW next, next = Positions(file)[Len(file) + 1],
         NEW other, Len(other) = Len(file), other \in Seq(Pieces),
         other[2] = Box("mdat", next - FtypSize, MdatSize),
         \A i \in 1..Len(file) : i # 2 => other[i] = file[i]
  PROVE  Whole(other, "file")
<1> DEFINE n == Len(file)
<1>1. n \in Nat /\ n >= 2 /\ Solid(file) /\ file \in Seq(Pieces)
  BY DEF Laid, Solid
<1>2. /\ other[1].box = "ftyp" /\ other[1].own = 28 /\ other[1].size = 28
      /\ other[2].box = "mdat" /\ other[2].own = 8 /\ other[2].size = next - 28 /\ file[2].own = 8
  <2>1. other[1] = file[1] /\ file[1] = Leaf("ftyp", 28) /\ file[2] = Box("mdat", 36, 8)
    BY <1>1 DEF Laid, FtypSize, MdatSize
  <2>2. other[2] = Box("mdat", next - 28, 8)
    BY DEF FtypSize, MdatSize
  <2> QED
    BY <2>1, <2>2 DEF Leaf, Box
<1>3. \A i \in 1..n : other[i].own = file[i].own
  BY <1>2
<1>4. Solid(other)
  BY <1>1, <1>3 DEF Solid
<1>5. \A i \in 1..(n + 1) : Positions(other)[i] = Positions(file)[i]
  <2>1. Measured(file) /\ Measured(other) /\ n <= Len(file) /\ n <= Len(other)
    BY <1>1, FilesMeasured
  <2> QED
    BY <1>1, <1>3, <2>1, SamePlaces
<1>6. /\ Positions(other)[1] = 0 /\ \A i \in 1..(n + 1) : Positions(other)[i] \in Nat
      /\ \A i \in 1..n : Positions(other)[i + 1] = Positions(other)[i] + other[i].own
  BY FilePlaces
<1>7. Positions(other)[2] = 28 /\ Positions(other)[n + 1] = next /\ next \in Nat
  <2>1. Positions(other)[1 + 1] = Positions(other)[1] + other[1].own
    BY <1>1, <1>6
  <2>2. n + 1 \in 1..(n + 1)
    BY <1>1
  <2> QED
    BY <1>2, <1>5, <1>6, <2>1, <2>2
<1> DEFINE b == n + 1
<1>8. b \in Nat /\ 3 <= b /\ b <= Len(other) + 1 /\ b <= Len(file) + 1 /\ b - 1 = n
  BY <1>1
<1>9. Nested(other, 3, b, "mdat")
  <2>1. ASSUME NEW i \in 3..(b - 1) PROVE other[i].box = "sample" /\ other[i].size = other[i].own
    <3>1. i \in 3..n /\ i \in 1..n /\ i # 2
      BY <1>1
    <3> QED
      BY <3>1 DEF Laid
  <2> HIDE DEF b
  <2> QED
    BY <1>4, <1>8, <2>1, NestedSamples
<1>10. Positions(other)[b] = Positions(other)[2] + other[2].size
  BY <1>2, <1>7
<1>11. Fits("mdat", "file") /\ Fits("ftyp", "file")
  BY FitsMoov
<1>12. Nested(other, 2, b, "file")
  <2>1. \A pair \in Parents : other[2].box = pair[1] => "file" = pair[2]
    BY <1>2, <1>11 DEF Fits
  <2>2. Nested(other, 2 + 1, b, other[2].box)
    BY <1>2, <1>9
  <2>3. 2 \in Nat /\ 1 <= 2 /\ 2 < b
    BY <1>8
  <2> HIDE DEF b
  <2> QED
    BY <1>4, <1>8, <1>10, <2>1, <2>2, <2>3, NestedWrap
<1>13. Nested(other, 1, 1 + 1, "file")
  <2>1. \A pair \in Parents : other[1].box = pair[1] => "file" = pair[2]
    BY <1>2, <1>11 DEF Fits
  <2>2. 1 \in 1..Len(other) /\ other[1].size = other[1].own
    BY <1>1, <1>2
  <2> QED
    BY <1>4, <2>1, <2>2, NestedLeaf
<1>14. Nested(other, 1, b, "file")
  <2>1. 1 \in Nat /\ 2 \in Nat /\ 1 <= 1 /\ 1 <= 2 /\ 2 <= b /\ Nested(other, 1, 2, "file")
    BY <1>8, <1>13
  <2> HIDE DEF b
  <2> QED
    BY <1>4, <1>8, <1>12, <2>1, NestedJoin
<1> QED
  BY <1>4, <1>14 DEF Whole

(* An MP4 file that is closed: the tables behind the samples.               *)
ClosedWith(file, next, other, moov) ==
  /\ Laid(file) /\ next = Positions(file)[Len(file) + 1]
  /\ Len(other) = Len(file) /\ other \in Seq(Pieces)
  /\ other[2] = Box("mdat", next - FtypSize, MdatSize)
  /\ \A i \in 1..Len(file) : i # 2 => other[i] = file[i]
  /\ Whole(moov, "file") /\ Len(moov) >= 2 /\ moov[1].box = "moov"
  /\ \A i \in 2..Len(moov) : moov[i].box \notin {"ftyp", "moov"}

LEMMA LaidHeaded ==
  ASSUME NEW file, NEW next, NEW other, NEW moov, ClosedWith(file, next, other, moov)
  PROVE  Headed(other \o moov) /\ (other \o moov)[2].box = "mdat"
<1> SUFFICES ASSUME Laid(file), next = Positions(file)[Len(file) + 1],
                    Len(other) = Len(file), other \in Seq(Pieces),
                    other[2] = Box("mdat", next - FtypSize, MdatSize),
                    \A i \in 1..Len(file) : i # 2 => other[i] = file[i],
                    Whole(moov, "file"), Len(moov) >= 2, moov[1].box = "moov",
                    \A i \in 2..Len(moov) : moov[i].box \notin {"ftyp", "moov"}
             PROVE  Headed(other \o moov) /\ (other \o moov)[2].box = "mdat"
  BY DEF ClosedWith
<1> DEFINE n == Len(file)
           m == Len(moov)
           both == other \o moov
<1>1. n \in Nat /\ n >= 2 /\ moov \in Seq(Pieces) /\ m \in Nat
  BY DEF Laid, Solid, Whole
<1>2. Whole(other, "file")
  BY LaidWhole
<1>3. Whole(both, "file")
  BY <1>2, WholeBoth
<1>4. /\ Len(both) = n + m
      /\ \A i \in 1..n : both[i] = other[i]
      /\ \A i \in 1..m : both[n + i] = moov[i]
  <2>1. /\ Len(both) = Len(other) + Len(moov)
        /\ \A i \in 1..Len(other) : both[i] = other[i]
        /\ \A i \in 1..Len(moov) : both[Len(other) + i] = moov[i]
    BY <1>1, FileExtended
  <2> QED
    BY <2>1
<1> HIDE DEF both
<1>5. /\ other[1].box = "ftyp" /\ other[1].own = FtypSize /\ other[2].box = "mdat"
      /\ \A i \in 3..n : other[i].box = "sample"
  <2>1. other[1] = file[1]
    BY <1>1
  <2>2. \A i \in 3..n : i \in 1..n /\ i # 2
    BY <1>1
  <2> QED
    BY <2>1, <2>2 DEF Laid, Leaf, Box
<1>6. ASSUME NEW i \in 2..n PROVE both[i].box \notin {"ftyp", "moov"}
  <2>1. i \in 1..n /\ (i = 2 \/ i \in 3..n)
    BY <1>1
  <2> QED
    BY <1>4, <1>5, <2>1
<1>7. ASSUME NEW i \in (n + 2)..(n + m) PROVE both[i].box \notin {"ftyp", "moov"}
  <2>1. i - n \in 2..m /\ i - n \in 1..m /\ n + (i - n) = i
    BY <1>1
  <2>2. both[i] = moov[i - n]
    BY <1>4, <2>1
  <2> QED
    BY <2>1, <2>2
<1>8. both[n + 1].box = "moov" /\ both[1].box = "ftyp" /\ both[1].own = FtypSize /\ both[2].box = "mdat"
  <2>1. 1 \in 1..m /\ 1 \in 1..n /\ 2 \in 1..n
    BY <1>1
  <2> QED
    BY <1>4, <1>5, <2>1
<1>9. \A i \in 1..(n + m) : i = 1 \/ i \in 2..n \/ i = n + 1 \/ i \in (n + 2)..(n + m)
  BY <1>1
<1>10. \A i \in 2..(n + m) : both[i].box # "ftyp"
  <2>1. \A i \in 2..(n + m) : i \in 2..n \/ i = n + 1 \/ i \in (n + 2)..(n + m)
    BY <1>1
  <2> QED
    BY <1>6, <1>7, <1>8, <2>1
<1>11. \A i \in 1..(n + m) : both[i].box = "moov" <=> i = n + 1
  <2>1. ASSUME NEW i \in 1..(n + m), i # n + 1 PROVE both[i].box # "moov"
    BY <1>6, <1>7, <1>8, <1>9, <2>1
  <2> QED
    BY <1>8, <2>1
<1>12. n + 1 \in 2..(n + m) /\ n + m >= 2
  BY <1>1
<1>13. Headed(both)
  <2>1. \E k \in 2..(n + m) : \A i \in 1..(n + m) : both[i].box = "moov" <=> i = k
    BY <1>11, <1>12
  <2> QED
    BY <1>3, <1>4, <1>8, <1>10, <1>12, <2>1 DEF Headed
<1> QED
  BY <1>8, <1>13 DEF both

-----------------------------------------------------------------------------
(* The writers, and what their files are made of                            *)

(* A frame is not empty.                                                    *)
Lengthy == \A n \in Lengths : n > 0

(* The tables of an MP4 file begin before a u32 wraps.                      *)
Short(file) == \A i \in 1..Len(file) : file[i].box = "moov" => Positions(file)[i] < Wide
Mp4Boxes ==
  /\ w.file # "closed" /\ w.begun => Laid(disk)
  /\ w.file = "closed" /\ w.begun /\ Short(disk) => Headed(disk) /\ disk[2].box = "mdat" /\ patch = FtypSize

(* A fragmented file is whole after every frame, if its first key frame has *)
(* a time.                                                                  *)
Opened(file) == Headed(file) /\ Len(file) >= 3 /\ file[2].own = 8 /\ file[3].box = "mvhd"
KeysIn(given) == {j \in 1..Len(given) : given[j].type = 1}
FMp4Boxes ==
  /\ ~w.begun => w.first = 0 /\ disk = <<>> /\ KeysIn(offered) = {}
  /\ w.begun => KeysIn(offered) # {}
  /\ w.begun /\ offered[Min(KeysIn(offered))].ts # 0 => w.first # 0 /\ Opened(disk)
  /\ w.file = "closed" => patch = DurationAt

BoxesIInv ==
  /\ FilesIInv
  /\ w.kind = "mp4" => Mp4Boxes
  /\ w.kind = "fmp4" => FMp4Boxes

(* The first key frame stays the first.                                     *)
LEMMA KeyGiven ==
  ASSUME NEW given \in Seq(FramesOffered), NEW f \in FramesOffered, NEW now, now = Append(given, f)
  PROVE  /\ f.type # 1 => KeysIn(now) = KeysIn(given)
         /\ KeysIn(given) # {} => /\ KeysIn(now) # {}
                                  /\ now[Min(KeysIn(now))] = given[Min(KeysIn(given))]
         /\ KeysIn(given) = {} /\ f.type = 1 => KeysIn(now) # {} /\ now[Min(KeysIn(now))] = f
<1> DEFINE n == Len(given)  K == KeysIn(given)
<1>1. /\ n \in Nat /\ Len(now) = n + 1 /\ now[n + 1] = f /\ \A i \in 1..n : now[i] = given[i]
      /\ K \subseteq 1..n /\ K \subseteq Nat /\ \A i \in K : i < n + 1
  BY DEF KeysIn
<1>2. KeysIn(now) = IF f.type = 1 THEN K \cup {n + 1} ELSE K
  <2>1. ASSUME NEW i PROVE i \in KeysIn(now) <=> i \in K \/ (i = n + 1 /\ f.type = 1)
    <3>1. (i \in 1..(n + 1) <=> i \in 1..n \/ i = n + 1) /\ ~(n + 1 \in 1..n)
      BY <1>1
    <3> QED
      BY <1>1, <3>1 DEF KeysIn
  <2> HIDE DEF K
  <2>2. CASE f.type = 1
    BY <2>1, <2>2
  <2>3. CASE f.type # 1
    <3>1. \A i : i \in KeysIn(now) <=> i \in K
      BY <2>1, <2>3
    <3> QED
      BY <2>3, <3>1 DEF KeysIn, K
  <2> QED
    BY <2>2, <2>3
<1>3. K # {} => Min(K) \in K
  BY <1>1, MinLeast
<1>4. Min(K \cup {n + 1}) = IF K = {} THEN n + 1 ELSE Min(K)
  <2>1. n + 1 \in Nat
    BY <1>1
  <2> HIDE DEF K
  <2> QED
    BY <1>1, <2>1, ExtremesAdded
<1> HIDE DEF K
<1>5. CASE f.type = 1
  BY <1>1, <1>2, <1>3, <1>4, <1>5 DEF K
<1>6. CASE f.type # 1
  BY <1>1, <1>2, <1>3, <1>6 DEF K
<1> QED
  BY <1>5, <1>6

LEMMA StoredPositive ==
  ASSUME Lengthy, NEW f \in FramesOffered
  PROVE  Stored(f) > 0
<1>1. f.len \in Nat /\ f.len > 0
  BY Mp4Assumption DEF FramesOffered, Lengthy
<1> QED
  BY <1>1 DEF Stored

LEMMA Mp4FrameBoxes ==
  ASSUME Lengthy, FilesTypeOK, w.kind = "mp4", w.file = "open", Mp4Good, Mp4Boxes, NEW f \in FramesOffered,
         NEW config \in Configs, Mp4Frame(f, config)
  PROVE  Mp4Boxes'
<1>1. w \in Writing /\ w.begun \in BOOLEAN /\ disk \in Seq(Pieces)
  BY DEF FilesTypeOK, Writing
<1> DEFINE starts == ~w.begun /\ f.type = 1
           head == IF starts THEN <<Leaf("ftyp", FtypSize), Box("mdat", FtypSize + MdatSize, MdatSize)>> ELSE <<>>
           next == IF starts THEN FtypSize + MdatSize ELSE w.next
           trak == IF starts THEN [w.trak EXCEPT ![1].config = config] ELSE w.trak
           file == disk \o head
           now == [trak EXCEPT ![Track(f)] = AppendSample(@, f, next)]
<1>2. CASE ~w.begun /\ ~starts
  <2>1. w' = w /\ disk' = disk
    BY <1>2 DEF Mp4Frame
  <2> QED
    BY <1>2, <2>1 DEF Mp4Boxes
<1>3. CASE ~(~w.begun /\ ~starts)
  <2>1. /\ w' = [w EXCEPT !.begun = TRUE, !.next = Advance(next, Stored(f)), !.trak = now]
        /\ disk' = file \o <<Sample(f)>>
    BY <1>3 DEF Mp4Frame
  <2>2. Laid(file)
    <3>1. CASE starts
      <4>1. disk = <<>>
        BY <3>1 DEF Mp4Good
      <4>2. head = <<Leaf("ftyp", FtypSize), Box("mdat", FtypSize + MdatSize, MdatSize)>>
        BY <3>1
      <4> HIDE DEF head
      <4>3. Laid(head)
        BY <4>2, LaidHead
      <4>4. <<>> \o head = head
        BY <4>3, ConcatEmptySeq DEF Laid, Solid
      <4> QED
        BY <4>1, <4>3, <4>4
    <3>2. CASE ~starts
      <4>1. w.begun /\ head = <<>>
        BY <1>3, <3>2
      <4>2. disk \o <<>> = disk
        BY <1>1, ConcatEmptySeq
      <4> QED
        BY <4>1, <4>2 DEF Mp4Boxes
    <3> QED
      BY <3>1, <3>2
  <2> HIDE DEF file, head, next, now
  <2>3. Laid(file \o <<Sample(f)>>)
    BY <2>2, StoredPositive, LaidMore
  <2>4. w'.file = w.file
    BY <1>1, <2>1 DEF Writing
  <2> QED
    BY <2>1, <2>3, <2>4 DEF Mp4Boxes
<1> QED
  BY <1>2, <1>3

LEMMA Mp4CloseBoxes ==
  ASSUME FilesTypeOK, w.kind = "mp4", w.file = "open", Mp4Good, Mp4Boxes, Mp4Close
  PROVE  Mp4Boxes'
<1>1. /\ w \in Writing /\ w.trak \in [1..2 -> Traks] /\ w.next \in Nat /\ w.begun \in BOOLEAN
      /\ disk \in Seq(Pieces)
  BY DEF FilesTypeOK, Writing
<1>2. patch' = FtypSize /\ w' = [w EXCEPT !.file = "closed"]
  BY DEF Mp4Close
<1>3. w'.file = "closed" /\ w'.begun = w.begun
  BY <1>1, <1>2 DEF Writing
<1>4. SUFFICES ASSUME w.begun, Short(disk') PROVE Headed(disk') /\ disk'[2].box = "mdat"
  BY <1>2, <1>3 DEF Mp4Boxes
<1> DEFINE moov == Moov(IF w.begun THEN 1 ELSE 0, w.trak[1], w.trak[2], <<>>, Duration(w.trak[1]))
           whole == disk \o moov
           sized(i) == IF i = 2 /\ w.begun THEN [whole[i] EXCEPT !.size = (w.next - FtypSize) % Wide] ELSE whole[i]
           n == Len(disk)
           m == Len(moov)
           given(i) == IF i = 2 THEN Box("mdat", w.next - FtypSize, MdatSize) ELSE disk[i]
           other == [i \in 1..n |-> given(i)]
<1>5. disk' = [i \in DOMAIN whole |-> sized(i)]
  BY DEF Mp4Close
<1>6. /\ Whole(moov, "file") /\ moov \in Seq(Pieces) /\ m >= 2 /\ moov[1].box = "moov"
      /\ \A i \in 2..m : moov[i].box \notin {"ftyp", "moov"}
  <2>1. w.trak[1] \in Traks /\ w.trak[2] \in Traks
    BY <1>1
  <2>2. w.trak[1].last \in Nat /\ w.trak[1].first \in Nat
    BY <2>1 DEF Traks
  <2>3. Duration(w.trak[1]) \in Int
    BY <2>2 DEF Duration
  <2>4. Fills(<<>>, "moov", 0) /\ 0 \in Nat /\ 1 \in {1, 2}
    BY NoneFill
  <2>5. moov = Moov(1, w.trak[1], w.trak[2], <<>>, Duration(w.trak[1]))
    BY <1>4
  <2> DEFINE v == w.trak[1]
             a == w.trak[2]
             none == <<>>
             dur == Duration(w.trak[1])
  <2>6. /\ v \in Traks /\ a \in Traks /\ dur \in Int /\ Fills(none, "moov", 0)
        /\ moov = Moov(1, v, a, none, dur)
    BY <2>1, <2>3, <2>4, <2>5
  <2> HIDE DEF moov, v, a, none, dur
  <2> QED
    <3>1. MoovOf(1, v, a, none, 0, dur, moov)
      BY <2>4, <2>6 DEF MoovOf
    <3> QED
      BY <3>1, MoovWhole
<1>7. Laid(disk) /\ w.next = Positions(disk)[n + 1] % Wide
  BY <1>4 DEF Mp4Boxes, Mp4Good
<1>8. n \in Nat /\ n >= 2 /\ m \in Nat
  BY <1>1, <1>6, <1>7 DEF Laid
<1> HIDE DEF moov
<1>13. /\ whole \in Seq(Pieces) /\ Len(whole) = n + m
       /\ \A i \in 1..n : whole[i] = disk[i]
       /\ \A i \in 1..m : whole[n + i] = moov[i]
  BY <1>1, <1>6, FileExtended
<1> HIDE DEF whole
<1>16. w.next = Positions(disk)[n + 1] /\ (w.next - FtypSize) % Wide = w.next - FtypSize
  <2> DEFINE a == Positions(disk)[n + 1]  file == disk'
  <2>1. /\ file \in Seq(Pieces) /\ DOMAIN file = 1..(n + m) /\ Len(file) = n + m
        /\ \A i \in 1..(n + m) : file[i] = sized(i)
    <3>1. file \in Seq(Pieces)
      BY Mp4CloseStep
    <3>2. DOMAIN file = 1..(n + m) /\ \A i \in 1..(n + m) : file[i] = sized(i)
      BY <1>5, <1>8, <1>13
    <3> HIDE DEF file
    <3> QED
      BY <1>8, <3>1, <3>2
  <2>2. \A i \in 1..n : file[i].own = disk[i].own
    <3>1. ASSUME NEW i \in 1..n PROVE file[i].own = disk[i].own
      <4>1. i \in 1..(n + m) /\ whole[i] = disk[i]
        BY <1>8, <1>13
      <4>2. CASE i = 2
        <5>1. disk[i] = Box("mdat", FtypSize + MdatSize, MdatSize)
          BY <1>7, <4>2 DEF Laid
        <5>2. sized(i).own = disk[i].own
          BY <4>1, <5>1 DEF Box
        <5> QED
          BY <2>1, <4>1, <5>2
      <4>3. CASE i # 2
        BY <2>1, <4>1, <4>3
      <4> QED
        BY <4>2, <4>3
    <3> QED
      BY <3>1
  <2>3. file[n + 1].box = "moov"
    <3>1. n + 1 \in 1..(n + m) /\ n + 1 # 2 /\ 1 \in 1..m
      BY <1>6, <1>8
    <3>2. whole[n + 1] = moov[1]
      BY <1>13, <3>1
    <3> QED
      BY <1>6, <2>1, <3>1, <3>2
  <2> HIDE DEF sized
  <2>4. a = Positions(file)[n + 1]
    <3>1. Measured(disk) /\ Measured(file) /\ n <= Len(disk) /\ n <= Len(file) /\ n + 1 \in 1..(n + 1)
      BY <1>1, <1>8, <2>1, FilesMeasured
    <3> HIDE DEF file
    <3> QED
      BY <1>8, <2>2, <3>1, SamePlaces
  <2>5. a < Wide
    <3>1. n + 1 \in 1..Len(file)
      BY <1>6, <1>8, <2>1
    <3> QED
      BY <1>4, <2>3, <2>4, <3>1 DEF Short
  <2>6. a \in Nat /\ a >= 36
    <3>1. \A i \in 1..(n + 1) : Positions(disk)[i] \in Nat
      BY <1>1, FilePlaces
    <3>2. /\ Positions(disk)[1] = 0 /\ Positions(disk)[1 + 1] = Positions(disk)[1] + disk[1].own
          /\ Positions(disk)[2 + 1] = Positions(disk)[2] + disk[2].own
      BY <1>1, <1>8, FilePlaces
    <3>3. disk[1].own = 28 /\ disk[2].own = 8
      BY <1>7 DEF Laid, Leaf, Box, FtypSize, MdatSize
    <3>4. Positions(disk)[3] = 36
      BY <3>2, <3>3
    <3>5. \A i, j \in 1..(n + 1) : i < j => Positions(disk)[i] < Positions(disk)[j]
      BY <1>1, <1>7, PositionsGrow DEF Laid
    <3>6. 3 = n + 1 \/ Positions(disk)[3] < a
      BY <1>8, <3>5
    <3> QED
      BY <1>8, <3>1, <3>4, <3>6
  <2> HIDE DEF a, file
  <2>7. /\ a % Wide = a /\ (a - FtypSize) % Wide = a - FtypSize
    <3>1. Wide \in Nat /\ Wide > 0 /\ a \in 0..(Wide - 1) /\ a - 28 \in 0..(Wide - 1)
      BY <2>5, <2>6, Mp4Assumption
    <3>2. a = Wide * 0 + a /\ a - 28 = Wide * 0 + (a - 28) /\ a - 28 \in Int /\ a \in Int
      BY <2>6, <3>1
    <3>3. a % Wide = a
      BY <3>1, <3>2, WrappedOnce
    <3>4. (a - 28) % Wide = a - 28
      BY <3>1, <3>2, WrappedOnce
    <3> QED
      BY <3>3, <3>4 DEF FtypSize
  <2>8. w.next = a % Wide
    BY <1>7 DEF a
  <2> QED
    BY <2>7, <2>8 DEF a
<1>9. other \in Seq(Pieces) /\ Len(other) = n /\ \A i \in 1..n : other[i] = given(i)
  <2>1. w.next - FtypSize \in Int
    BY <1>1 DEF FtypSize
  <2>2. Box("mdat", w.next - FtypSize, MdatSize) \in Pieces
    BY <2>1 DEF Box, Pieces, Plain, MdatSize
  <2>3. ASSUME NEW i \in 1..n PROVE given(i) \in Pieces
    <3>1. disk[i] \in Pieces
      BY <1>1, ElementOfSeq
    <3> QED
      BY <2>2, <3>1
  <2> HIDE DEF given
  <2>4. other \in [1..n -> Pieces]
    BY <2>3
  <2>5. other \in Seq(Pieces)
    BY <1>8, <2>4, SeqDef
  <2> QED
    BY <1>8, <2>4, <2>5
<1>10. other[2] = Box("mdat", w.next - FtypSize, MdatSize) /\ \A i \in 1..n : i # 2 => other[i] = disk[i]
  BY <1>8, <1>9
<1> HIDE DEF other
<1> DEFINE both == other \o moov
<1>11. Headed(both) /\ both[2].box = "mdat"
  <2> DEFINE next == w.next
  <2>1. next = Positions(disk)[Len(disk) + 1] /\ other[2] = Box("mdat", next - FtypSize, MdatSize)
    BY <1>10, <1>16
  <2> HIDE DEF next
  <2>2. ClosedWith(disk, next, other, moov)
    BY <1>6, <1>7, <1>9, <1>10, <2>1 DEF ClosedWith
  <2> QED
    BY <2>2, LaidHeaded
<1>12. /\ both \in Seq(Pieces) /\ Len(both) = n + m
       /\ \A i \in 1..n : both[i] = other[i]
       /\ \A i \in 1..m : both[n + i] = moov[i]
  <2>1. /\ both \in Seq(Pieces) /\ Len(both) = Len(other) + Len(moov)
        /\ \A i \in 1..Len(other) : both[i] = other[i]
        /\ \A i \in 1..Len(moov) : both[Len(other) + i] = moov[i]
    BY <1>6, <1>9, FileExtended
  <2> QED
    BY <1>9, <2>1
<1> HIDE DEF both
<1>14. ASSUME NEW i \in 1..(n + m) PROVE sized(i) = both[i]
  <2>1. CASE i = 2
    <3>1. whole[2] = disk[2] /\ both[2] = other[2] /\ disk[2] = Box("mdat", FtypSize + MdatSize, MdatSize)
      <4>1. 2 \in 1..n
        BY <1>8
      <4> QED
        BY <1>7, <1>12, <1>13, <4>1 DEF Laid
    <3>2. sized(i) = [Box("mdat", FtypSize + MdatSize, MdatSize) EXCEPT !.size = w.next - FtypSize]
      BY <1>4, <1>16, <2>1, <3>1
    <3>3. sized(i) = Box("mdat", w.next - FtypSize, MdatSize)
      BY <3>2 DEF Box
    <3> QED
      BY <1>10, <2>1, <3>1, <3>3
  <2>2. CASE i # 2 /\ i \in 1..n
    BY <1>10, <1>12, <1>13, <2>2
  <2>3. CASE ~(i \in 1..n)
    <3>1. i - n \in 1..m /\ n + (i - n) = i /\ i # 2
      BY <1>8, <2>3
    <3>2. whole[i] = moov[i - n] /\ both[i] = moov[i - n]
      BY <1>12, <1>13, <3>1
    <3> QED
      BY <3>1, <3>2
  <2> QED
    BY <2>1, <2>2, <2>3
<1>15. disk' = both
  <2>1. DOMAIN whole = 1..(n + m) /\ DOMAIN both = 1..(n + m)
    BY <1>8, <1>12, <1>13
  <2> HIDE DEF sized
  <2>2. disk' = [i \in 1..(n + m) |-> both[i]]
    BY <1>5, <1>14, <2>1
  <2>3. both = [i \in 1..(n + m) |-> both[i]]
    BY <1>12, <2>1
  <2> QED
    BY <2>2, <2>3
<1> QED
  BY <1>11, <1>15

(* The head of a fragmented file.                                           *)
FilesStart(head, config) ==
  head = <<Leaf("ftyp", FtypSize)>> \o Moov(1, [NoTrak EXCEPT !.config = config], NoTrak, Mvex, 0)

LEMMA FMp4Head ==
  ASSUME NEW config \in Configs, NEW head, FilesStart(head, config)
  PROVE  Opened(head)
<1> DEFINE p == Leaf("ftyp", FtypSize)
           one == <<p>>
           v == [NoTrak EXCEPT !.config = config]
           moov == Moov(1, v, NoTrak, Mvex, 0)
           m == Len(moov)
<1>1. p \in Pieces /\ p.own = FtypSize /\ p.own > 0 /\ p.size = p.own /\ p.box = "ftyp"
  BY DEF Leaf, Box, Pieces, Plain, FtypSize
<1>2. NoTrak \in Traks
  BY NoTrakType
<1>3. v \in Traks
  <2>1. config \in Nat \X Nat \X Nat
    BY Mp4Assumption
  <2> QED
    BY <1>2, <2>1 DEF Traks
<1> HIDE DEF p, v
<1>4. head = one \o moov
  BY DEF p, v, FilesStart
<1>5. /\ Whole(moov, "file") /\ moov \in Seq(Pieces) /\ m >= 2
      /\ moov[1].box = "moov" /\ moov[1].own = 8 /\ moov[2] = Mvhd(0)
      /\ \A i \in 2..m : moov[i].box \notin {"ftyp", "moov"}
  <2>1. MoovOf(1, v, NoTrak, Mvex, 72, 0, moov)
    BY <1>2, <1>3, MvexFills DEF MoovOf
  <2> HIDE DEF moov
  <2> QED
    BY <2>1, MoovWhole
<1> HIDE DEF moov
<1>6. Whole(one, "file")
  <2>1. Fits(p.box, "file")
    BY <1>1, FitsMoov
  <2> QED
    BY <1>1, <2>1, WholeLeaf
<1>7. one \in Seq(Pieces) /\ Len(one) = 1 /\ one[1] = p
  BY <1>1
<1> HIDE DEF one
<1>8. Whole(head, "file")
  BY <1>4, <1>5, <1>6, WholeBoth
<1>9. /\ Len(head) = 1 + m /\ head[1] = p /\ m \in Nat
      /\ \A i \in 1..m : head[1 + i] = moov[i]
  <2>1. /\ Len(one \o moov) = Len(one) + Len(moov)
        /\ \A i \in 1..Len(one) : (one \o moov)[i] = one[i]
        /\ \A i \in 1..Len(moov) : (one \o moov)[Len(one) + i] = moov[i]
    BY <1>5, <1>7, FileExtended
  <2> QED
    BY <1>4, <1>5, <1>7, <2>1
<1>10. head[2].box = "moov" /\ head[2].own = 8 /\ head[3].box = "mvhd"
  <2>1. 1 \in 1..m /\ 2 \in 1..m /\ 1 + 1 = 2 /\ 1 + 2 = 3
    BY <1>5, <1>9
  <2>2. head[2] = moov[1] /\ head[3] = moov[2]
    BY <1>9, <2>1
  <2> QED
    BY <1>5, <2>2 DEF Mvhd
<1>11. ASSUME NEW i \in 3..Len(head) PROVE head[i].box \notin {"ftyp", "moov"}
  <2>1. i - 1 \in 2..m /\ i - 1 \in 1..m /\ 1 + (i - 1) = i
    BY <1>9
  <2>2. head[i] = moov[i - 1]
    BY <1>9, <2>1
  <2> QED
    BY <1>5, <2>1, <2>2
<1>12. \A i \in 1..Len(head) : i = 1 \/ i = 2 \/ i \in 3..Len(head)
  BY <1>9
<1>13. \A i \in 2..Len(head) : i = 2 \/ i \in 3..Len(head)
  BY <1>9
<1>14. \A i \in 2..Len(head) : head[i].box # "ftyp"
  BY <1>10, <1>11, <1>13
<1>15. \A i \in 1..Len(head) : head[i].box = "moov" <=> i = 2
  BY <1>1, <1>9, <1>10, <1>11, <1>12
<1>16. Len(head) >= 3 /\ 2 \in 2..Len(head)
  BY <1>5, <1>9
<1>17. Headed(head)
  BY <1>1, <1>8, <1>9, <1>14, <1>15, <1>16 DEF Headed
<1> QED
  BY <1>10, <1>16, <1>17 DEF Opened

LEMMA FMp4FrameBoxes ==
  ASSUME Lengthy, FilesTypeOK, w.kind = "fmp4", w.file = "open", FMp4Good, FMp4Boxes,
         NEW f \in FramesOffered, NEW config \in Configs, FMp4Frame(f, config),
         offered' = Append(offered, f)
  PROVE  FMp4Boxes'
<1>1. /\ w \in Writing /\ w.first \in Nat /\ w.last \in Nat /\ w.begun \in BOOLEAN /\ w.seq \in Nat
      /\ disk \in Seq(Pieces) /\ offered \in Seq(FramesOffered)
  BY Mp4Assumption DEF FilesTypeOK, Writing
<1>2. \/ ~w.begun /\ f.type # 1 /\ KeysIn(offered') = {}
      \/ ~w.begun /\ f.type = 1 /\ KeysIn(offered') # {} /\ offered'[Min(KeysIn(offered'))] = f
      \/ /\ w.begun /\ KeysIn(offered') # {}
         /\ offered'[Min(KeysIn(offered'))] = offered[Min(KeysIn(offered))]
  <2> DEFINE now == Append(offered, f)
  <2>1. offered' = now
    OBVIOUS
  <2> HIDE DEF now
  <2>2. /\ f.type # 1 => KeysIn(now) = KeysIn(offered)
        /\ KeysIn(offered) # {} => /\ KeysIn(now) # {}
                                   /\ now[Min(KeysIn(now))] = offered[Min(KeysIn(offered))]
        /\ KeysIn(offered) = {} /\ f.type = 1 => KeysIn(now) # {} /\ now[Min(KeysIn(now))] = f
    BY <1>1, KeyGiven DEF now
  <2>3. (~w.begun => KeysIn(offered) = {}) /\ (w.begun => KeysIn(offered) # {})
    BY DEF FMp4Boxes
  <2> QED
    BY <1>1, <2>1, <2>2, <2>3
<1>4. /\ ~w.begun => w.first = 0 /\ disk = <<>>
      /\ w.begun /\ offered[Min(KeysIn(offered))].ts # 0 => w.first # 0 /\ Opened(disk)
  BY DEF FMp4Boxes
<1>5. f.ts \in Nat
  BY Mp4Assumption DEF FramesOffered
<1> DEFINE starts == w.first = 0 /\ f.type = 1
           v == [NoTrak EXCEPT !.config = config]
           head == IF starts THEN <<Leaf("ftyp", FtypSize)>> \o Moov(1, v, NoTrak, Mvex, 0) ELSE <<>>
           first == IF starts THEN f.ts ELSE w.first
           last == IF starts THEN f.ts ELSE w.last
           file == disk \o head
           time == f.ts - first
           duration == f.ts - last
           moof == Moof(w.seq, Track(f), time, duration, Stored(f))
<1>6. CASE first = 0
  <2>1. w.first = 0 /\ (f.type = 1 => starts /\ f.ts = 0)
    BY <1>6
  <2>2. disk' = file /\ w' = [w EXCEPT !.begun = w.begun \/ starts]
    BY <1>6 DEF FMp4Frame
  <2>3. w'.first = w.first /\ w'.file = w.file /\ w'.begun = (w.begun \/ f.type = 1)
    BY <1>1, <2>1, <2>2 DEF Writing
  <2>4. ASSUME ~w.begun, f.type # 1 PROVE disk' = <<>>
    <3>1. file = <<>> \o <<>>
      BY <1>4, <2>4
    <3> QED
      BY <2>2, <3>1, ConcatEmptySeq
  <2> HIDE DEF file, head, starts
  <2>5. CASE ~w.begun /\ f.type # 1
    BY <1>2, <2>1, <2>3, <2>4, <2>5 DEF FMp4Boxes
  <2>6. CASE ~w.begun /\ f.type = 1
    BY <1>2, <2>1, <2>3, <2>6 DEF FMp4Boxes
  <2>7. CASE w.begun
    BY <1>2, <1>4, <2>1, <2>3, <2>7 DEF FMp4Boxes
  <2> QED
    BY <2>5, <2>6, <2>7
<1>7. CASE first # 0
  <2>1. /\ disk' = file \o moof \o <<Sample(f)>>
        /\ w' = [w EXCEPT !.begun = TRUE, !.seq = w.seq + 1, !.first = first, !.last = f.ts]
    BY <1>7 DEF FMp4Frame, Number, Elapsed
  <2>2. w'.first = first /\ w'.file = w.file /\ w'.begun = TRUE
    BY <1>1, <2>1 DEF Writing
  <2>11. w.begun \/ f.type = 1
    BY <1>4, <1>7
  <2>12. SUFFICES ASSUME offered'[Min(KeysIn(offered'))].ts # 0 PROVE Opened(disk')
    <3> HIDE DEF file, head, first, last, time, duration, starts
    <3>1. w'.first # 0 /\ w'.begun = TRUE /\ w'.file # "closed" /\ KeysIn(offered') # {}
      <4>1. KeysIn(offered') # {}
        BY <1>2, <2>11, Zenon
      <4> QED
        BY <1>7, <2>2, <4>1
    <3> QED
      BY <3>1 DEF FMp4Boxes
  <2>3. Opened(file)
    <3>0. w.begun => w.first # 0 /\ Opened(disk)
      <4>1. w.begun => offered'[Min(KeysIn(offered'))] = offered[Min(KeysIn(offered))]
        BY <1>2, Zenon
      <4> QED
        BY <1>4, <2>12, <4>1
    <3>1. CASE starts
      <4>1. FilesStart(head, config)
        BY <3>1 DEF FilesStart
      <4> HIDE DEF head
      <4>2. Opened(head)
        BY <4>1, FMp4Head
      <4>3. <<>> \o head = head /\ disk = <<>>
        BY <1>4, <3>0, <3>1, <4>2, ConcatEmptySeq DEF Opened, Headed, Whole, Solid
      <4> QED
        BY <4>2, <4>3
    <3>2. CASE ~starts
      <4>1. head = <<>> /\ w.first # 0
        BY <1>7, <3>2
      <4>2. disk \o <<>> = disk
        BY <1>1, ConcatEmptySeq
      <4> QED
        BY <1>4, <3>0, <4>1, <4>2
    <3> QED
      BY <3>1, <3>2
  <2>4. first \in Nat /\ time \in Int /\ duration \in Int
    BY <1>1, <1>5
  <2>5. Track(f) \in 1..2 /\ Stored(f) > 0 /\ <<Sample(f)>> \in Seq(Pieces)
    BY SampleType, StoredPositive
  <2> HIDE DEF file, head, first, last, time, duration
  <2> DEFINE more == moof \o <<Sample(f)>>
  <2>6. moof \in Seq(Pieces)
    <3>1. Stored(f) \in Nat
      BY SampleType
    <3>2. MoofHolds(moof, w.seq, Track(f), time, duration, Stored(f))
      BY <1>1, <2>4, <2>5, <3>1, MoofType
    <3> QED
      BY <3>2 DEF MoofHolds
  <2>7. /\ Whole(more, "file") /\ more \in Seq(Pieces)
        /\ \A i \in 1..Len(more) : more[i].box \notin {"ftyp", "moov"}
    <3>1. more = Moof(w.seq, Track(f), time, duration, Stored(f)) \o <<Sample(f)>>
      OBVIOUS
    <3> HIDE DEF more
    <3> QED
      BY <1>1, <2>4, <2>5, <3>1, MoofFills
  <2>8. disk' = file \o more
    <3> DEFINE one == <<Sample(f)>>
    <3>1. TrunPieces(Pieces, file, moof, one)
      BY <2>3, <2>5, <2>6 DEF TrunPieces, Opened, Headed, Whole, Solid
    <3>2. disk' = (file \o moof) \o one
      BY <2>1
    <3> HIDE DEF moof, one
    <3>3. (file \o moof) \o one = file \o (moof \o one)
      BY <3>1, Regroup
    <3> QED
      BY <3>2, <3>3 DEF one
  <2> HIDE DEF moof, more
  <2>9. /\ Headed(file \o more) /\ Len(file \o more) >= Len(file)
        /\ \A i \in 1..Len(file) : (file \o more)[i] = file[i]
    BY <2>3, <2>7, HeadedMore DEF Opened
  <2>10. Opened(disk')
    <3>1. Len(file) \in Nat /\ Len(file) >= 3 /\ Len(file \o more) \in Nat
      BY <2>3, <2>9 DEF Opened, Headed, Whole, Solid
    <3>2. 2 \in 1..Len(file) /\ 3 \in 1..Len(file)
      BY <3>1
    <3>3. disk'[2] = file[2] /\ disk'[3] = file[3] /\ Len(disk') >= 3 /\ Headed(disk')
      BY <2>8, <2>9, <3>1, <3>2
    <3> QED
      BY <2>3, <3>3 DEF Opened
  <2> QED
    BY <2>10
<1> QED
  BY <1>6, <1>7

LEMMA FMp4CloseBoxes ==
  ASSUME FilesTypeOK, w.kind = "fmp4", w.file = "open", FMp4Boxes, FMp4Close, offered' = offered
  PROVE  FMp4Boxes'
<1>1. /\ w \in Writing /\ disk \in Seq(Pieces)
  BY DEF FilesTypeOK, Writing
<1> DEFINE n == Len(disk)
<1>2. patch' = DurationAt /\ w' = [w EXCEPT !.file = "closed"]
  BY DEF FMp4Close
<1>3. w'.first = w.first /\ w'.begun = w.begun
  BY <1>1, <1>2 DEF Writing
<1>5. n \in Nat
  BY <1>1
<1>8. Opened(disk) => Opened(disk')
  <2>1. SUFFICES ASSUME Opened(disk) PROVE Opened(disk')
    OBVIOUS
  <2> DEFINE other == disk'
  <2>2. /\ other \in Seq(Pieces) /\ Len(other) = Len(disk)
        /\ \A i \in 1..Len(disk) : /\ other[i].box = disk[i].box /\ other[i].size = disk[i].size
                                   /\ other[i].own = disk[i].own
    BY DurationWritten
  <2>3. Headed(disk) /\ n >= 3 /\ disk[2].own = 8 /\ disk[3].box = "mvhd"
    BY <2>1 DEF Opened
  <2> HIDE DEF other
  <2>4. Headed(other)
    BY <2>2, <2>3, HeadedSame
  <2>5. 2 \in 1..Len(disk) /\ 3 \in 1..Len(disk)
    BY <1>5, <2>3
  <2>6. Opened(other)
    BY <2>2, <2>3, <2>4, <2>5 DEF Opened
  <2> QED
    BY <2>6 DEF other
<1> QED
  <2>1. disk = <<>> => disk' = <<>>
    BY DurationWritten
  <2>2. /\ w'.first = w.first /\ w'.begun = w.begun /\ patch' = DurationAt /\ offered' = offered
        /\ (disk = <<>> => disk' = <<>>) /\ (Opened(disk) => Opened(disk'))
    BY <1>2, <1>3, <1>8, <2>1
  <2>3. /\ ~w.begun => w.first = 0 /\ disk = <<>> /\ KeysIn(offered) = {}
        /\ w.begun => KeysIn(offered) # {}
        /\ w.begun /\ offered[Min(KeysIn(offered))].ts # 0 => w.first # 0 /\ Opened(disk)
    BY DEF FMp4Boxes
  <2>4. KeysIn(offered)' = KeysIn(offered) /\ offered[Min(KeysIn(offered))]' = offered[Min(KeysIn(offered))]
    BY <2>2
  <2>5. /\ ~w'.begun => w'.first = 0 /\ disk' = <<>> /\ KeysIn(offered)' = {}
        /\ w'.begun => KeysIn(offered)' # {}
        /\ w'.begun /\ offered[Min(KeysIn(offered))]'.ts # 0 => w'.first # 0 /\ Opened(disk')
    BY <2>2, <2>3, <2>4
  <2> QED
    BY <2>2, <2>5 DEF FMp4Boxes

(* Only the writer of a file writes to it.                                  *)
LEMMA BoxesBegin == FilesInit => BoxesIInv
<1>1. SUFFICES ASSUME FilesInit PROVE BoxesIInv
  OBVIOUS
<1>2. w.begun = FALSE /\ w.first = 0 /\ w.file = "none" /\ disk = <<>> /\ offered = <<>>
  BY <1>1 DEF FilesInit
<1>4. KeysIn(offered) = {}
  BY <1>2 DEF KeysIn
<1>5. Mp4Boxes /\ FMp4Boxes
  BY <1>2, <1>4 DEF Mp4Boxes, FMp4Boxes
<1> QED
  BY <1>1, <1>5, FilesBegin DEF BoxesIInv

LEMMA BoxesStep == Lengthy /\ BoxesIInv /\ [FilesNext]_filesVars => BoxesIInv'
<1>1. SUFFICES ASSUME Lengthy, BoxesIInv, [FilesNext]_filesVars PROVE BoxesIInv'
  OBVIOUS
<1>2. FilesIInv /\ FilesIInv'
  BY <1>1, FilesStep DEF BoxesIInv
<1>3. /\ FilesTypeOK /\ w \in Writing
      /\ w.kind = "mp4" => Mp4Good /\ Mp4Boxes
      /\ w.kind = "fmp4" => FMp4Good /\ FMp4Boxes
  BY <1>1 DEF BoxesIInv, FilesIInv, FilesTypeOK, Writing
<1>4. SUFFICES /\ w'.kind = "mp4" => Mp4Boxes'
               /\ w'.kind = "fmp4" => FMp4Boxes'
  BY <1>2 DEF BoxesIInv
<1>5. CASE Open
  <2>1. w' = [w EXCEPT !.file = "open"] /\ w.file = "none" /\ disk' = disk /\ patch' = patch /\ offered' = offered
    BY <1>5 DEF Open
  <2>2. w'.kind = w.kind /\ w'.file = "open" /\ w'.begun = w.begun /\ w'.first = w.first
    BY <1>3, <2>1 DEF Writing
  <2> QED
    BY <1>3, <2>1, <2>2 DEF Mp4Boxes, FMp4Boxes
<1>6. CASE WriteFrame
  <2>1. PICK f \in FramesOffered, config \in Configs :
          \/ w.kind = "mp4" /\ Mp4Frame(f, config) /\ offered' = Append(offered, f)
          \/ w.kind = "fmp4" /\ FMp4Frame(f, config) /\ offered' = Append(offered, f)
          \/ w.kind = "rtmp" /\ RtmpFrame(f, config)
    BY <1>6 DEF WriteFrame
  <2>2. /\ w.file = "open"
        /\ w.kind = "mp4" => Mp4Frame(f, config)
        /\ w.kind = "fmp4" => FMp4Frame(f, config) /\ offered' = Append(offered, f)
        /\ w.kind = "rtmp" => RtmpFrame(f, config)
    BY <1>6, <2>1 DEF WriteFrame
  <2>3. CASE w.kind = "mp4"
    <3>1. Mp4Boxes'
      BY <1>1, <1>3, <2>2, <2>3, Mp4FrameBoxes
    <3>2. w'.kind = w.kind
      BY <1>3, <2>2, <2>3, Mp4FrameStep
    <3> QED
      BY <2>3, <3>1, <3>2
  <2>4. CASE w.kind = "fmp4"
    <3>1. FMp4Boxes'
      BY <1>1, <1>3, <2>2, <2>4, FMp4FrameBoxes
    <3>2. w'.kind = w.kind
      <4>1. w.seq \in Nat /\ w.seq <= Len(offered) /\ Len(offered) \in Nat /\ Len(offered) < MaxOffered
        BY <1>2, <1>3, <1>6, Mp4Assumption DEF FilesIInv, FilesTypeOK, Writing, WriteFrame
      <4>2. w.seq < MaxOffered
        BY <4>1, Mp4Assumption
      <4> QED
        BY <1>3, <2>2, <2>4, <4>2, FMp4FrameStep
    <3> QED
      BY <2>4, <3>1, <3>2
  <2>5. CASE w.kind = "rtmp"
    <3>1. w'.kind = w.kind
      <4>1. RtmpFrame(f, config) /\ RtmpGood
        BY <1>2, <2>2, <2>5 DEF FilesIInv
      <4> QED
        BY <1>3, <2>5, <4>1, RtmpFrameStep
    <3> QED
      BY <2>5, <3>1
  <2>6. w.kind \in Writers
    BY <1>3 DEF Writing
  <2> QED
    BY <2>3, <2>4, <2>5, <2>6 DEF Writers
<1>7. CASE Close
  <2>1. /\ w.file = "open" /\ offered' = offered
        /\ w.kind = "mp4" => Mp4Close
        /\ w.kind = "fmp4" => FMp4Close
        /\ w.kind = "rtmp" => RtmpClose
    BY <1>7 DEF Close
  <2>2. w' = [w EXCEPT !.file = "closed"]
    <3>1. w.kind = "mp4" \/ w.kind = "fmp4" \/ w.kind = "rtmp"
      BY <1>3 DEF Writing, Writers
    <3>2. CASE w.kind = "mp4"
      BY <2>1, <3>2 DEF Mp4Close
    <3>3. CASE w.kind = "fmp4"
      BY <2>1, <3>3 DEF FMp4Close
    <3>4. CASE w.kind = "rtmp"
      BY <2>1, <3>4 DEF RtmpClose
    <3> QED
      BY <3>1, <3>2, <3>3, <3>4
  <2>3. w'.kind = w.kind
    BY <1>3, <2>2 DEF Writing
  <2>4. w.kind = "mp4" => Mp4Boxes'
    BY <1>3, <2>1, Mp4CloseBoxes
  <2>5. w.kind = "fmp4" => FMp4Boxes'
    BY <1>3, <2>1, FMp4CloseBoxes
  <2> QED
    BY <2>3, <2>4, <2>5
<1>8. CASE UNCHANGED filesVars
  <2>1. w' = w /\ disk' = disk /\ patch' = patch /\ offered' = offered
    BY <1>8 DEF filesVars
  <2> QED
    BY <1>3, <2>1 DEF Mp4Boxes, FMp4Boxes
<1> QED
  BY <1>1, <1>5, <1>6, <1>7, <1>8 DEF FilesNext

(* A file of whole boxes is one whose boxes nest.                           *)
Reads(file, boxes, at, end) ==
  /\ Headed(file) /\ boxes = {i \in DOMAIN file : file[i].box # "sample"}
  /\ at = Positions(file) /\ end = [i \in boxes |-> at[i] + file[i].size]

Nests(file, boxes, at, end) ==
  /\ \A i, j \in boxes : i < j /\ at[j] < end[i] => end[j] <= end[i]
  /\ \A i \in boxes : \E j \in DOMAIN at : at[j] = end[i]
  /\ \A j \in DOMAIN file : \A p \in Parents : file[j].box = p[1] =>
       LET around == {i \in boxes : i < j /\ at[j] < end[i]}
       IN around # {} /\ file[Max(around)].box = p[2]
  /\ \A type \in {"ftyp", "moov"} : \E i \in boxes : \A j \in boxes : file[j].box = type <=> j = i
  /\ 1 \in boxes /\ at[1] = 0 /\ at[2] = 28
  /\ 2 \in 1..Len(file) /\ (3 \in 1..Len(file) => at[3] = 28 + file[2].own)

LEMMA HeadedNests ==
  ASSUME NEW file, NEW boxes, NEW at, NEW end, Reads(file, boxes, at, end)
  PROVE  Nests(file, boxes, at, end)
<1> DEFINE n == Len(file)
           b == n + 1
<1>1. /\ Headed(file) /\ boxes = {i \in DOMAIN file : file[i].box # "sample"}
      /\ at = Positions(file) /\ end = [i \in boxes |-> at[i] + file[i].size]
  BY DEF Reads
<1>2. /\ Solid(file) /\ Nested(file, 1, b, "file") /\ file \in Seq(Pieces) /\ n \in Nat /\ n >= 2
      /\ DOMAIN file = 1..n /\ file[1].box = "ftyp" /\ file[1].own = 28
  BY <1>1 DEF Headed, Whole, Solid, FtypSize
<1>3. /\ \A i \in 1..b : at[i] \in Nat
      /\ \A i \in 1..n : at[i + 1] = at[i] + file[i].own
      /\ \A i \in 1..n : file[i].size \in Int /\ Ends(file, i) \in Int
      /\ \A i, j \in 1..b : i < j => at[i] < at[j]
  BY <1>1, <1>2, PositionsGrow
<1>4. DOMAIN at = 1..b /\ at[1] = 0
  <2>1. Places(at, file)
    BY <1>1, <1>2, FilesMeasured, PositionsPlace
  <2>2. at \in Seq(Nat) /\ Len(at) = n + 1 /\ at[1] = 0
    BY <2>1 DEF Places
  <2> QED
    BY <2>2
<1>5. \A i \in boxes : i \in 1..n /\ end[i] = Ends(file, i) /\ end[i] \in Int
  <2>1. ASSUME NEW i \in boxes PROVE i \in 1..n /\ end[i] = Ends(file, i) /\ end[i] \in Int
    <3>1. i \in 1..n
      BY <1>1, <1>2
    <3>2. end[i] = at[i] + file[i].size
      BY <1>1
    <3> QED
      BY <1>1, <1>3, <3>1, <3>2 DEF Ends
  <2> QED
    BY <2>1
<1>6. \A i \in 1..n : file[i].box # "sample" => i \in boxes
  BY <1>1, <1>2
<1> DEFINE e(i) == Ends(file, i)
<1>7. \A i \in 1..n :
        /\ \E j \in (i + 1)..b : at[j] = e(i)
        /\ \A k \in (i + 1)..n : at[k] < e(i) => e(k) <= e(i)
        /\ \A pair \in Parents : file[i].box = pair[1] =>
             \/ "file" = pair[2] /\ \A h \in 1..(i - 1) : e(h) <= at[i]
             \/ \E g \in 1..(i - 1) :
                  /\ file[g].box = pair[2] /\ at[i] < e(g)
                  /\ \A h \in (g + 1)..(i - 1) : e(h) <= at[i]
  <2>1. b - 1 = n
    BY <1>2
  <2> QED
    BY <1>1, <1>2, <2>1 DEF Nested
<1> HIDE DEF e
<1>8. \A i \in boxes : end[i] = e(i)
  BY <1>5 DEF e
<1>9. ASSUME NEW i \in boxes, NEW j \in boxes, i < j, at[j] < end[i] PROVE end[j] <= end[i]
  <2>1. i \in 1..n /\ j \in (i + 1)..n
    BY <1>2, <1>5, <1>9
  <2>2. at[j] < e(i) => e(j) <= e(i)
    BY <1>7, <2>1
  <2> QED
    BY <1>8, <1>9, <2>2
<1>10. ASSUME NEW i \in boxes PROVE \E j \in DOMAIN at : at[j] = end[i]
  <2>1. PICK j \in (i + 1)..b : at[j] = e(i)
    BY <1>5, <1>7
  <2>2. j \in 1..b
    BY <1>2, <1>5, <2>1
  <2> QED
    BY <1>4, <1>8, <2>1, <2>2
<1>11. ASSUME NEW j \in DOMAIN file, NEW pair \in Parents, file[j].box = pair[1]
       PROVE  LET around == {i \in boxes : i < j /\ at[j] < end[i]}
              IN around # {} /\ file[Max(around)].box = pair[2]
  <2> DEFINE around == {i \in boxes : i < j /\ at[j] < end[i]}
  <2>1. j \in 1..n
    BY <1>2
  <2>2. pair[2] # "file" /\ pair[2] # "sample"
    BY DEF Parents
  <2>3. PICK g \in 1..(j - 1) : /\ file[g].box = pair[2] /\ at[j] < e(g)
                                /\ \A h \in (g + 1)..(j - 1) : e(h) <= at[j]
    BY <1>7, <1>11, <2>1, <2>2
  <2>4. g \in 1..n /\ g < j /\ g \in Nat
    BY <1>2, <2>1
  <2>5. g \in boxes
    BY <1>6, <2>2, <2>3, <2>4
  <2>6. g \in around
    BY <1>8, <2>3, <2>4, <2>5
  <2>7. around \subseteq Nat
    BY <1>5
  <2>8. ASSUME NEW i \in around PROVE i <= g
    <3>0. i \in boxes /\ i < j /\ at[j] < end[i]
      OBVIOUS
    <3>1. i \in 1..n /\ i < j /\ at[j] < e(i) /\ e(i) \in Int /\ at[j] \in Nat
      <4>1. i \in 1..n /\ end[i] = e(i) /\ end[i] \in Int
        BY <1>5, <1>8, <3>0
      <4>2. j \in 1..b
        BY <1>2, <2>1
      <4> QED
        BY <1>3, <3>0, <4>1, <4>2
    <3>2. CASE g < i
      <4>1. i \in (g + 1)..(j - 1)
        BY <2>1, <2>4, <3>1, <3>2
      <4>2. e(i) <= at[j]
        BY <2>3, <4>1
      <4> QED
        BY <3>1, <4>2
    <3> QED
      BY <2>4, <3>1, <3>2
  <2> HIDE DEF around
  <2>9. Max(around) = g
    BY <2>6, <2>7, <2>8, MaxIs
  <2>10. around # {} /\ file[Max(around)].box = pair[2]
    BY <2>3, <2>6, <2>9
  <2> QED
    BY <2>10 DEF around
<1>12. 1 \in boxes /\ \A j \in boxes : file[j].box = "ftyp" <=> j = 1
  <2>1. 1 \in boxes
    BY <1>2, <1>6
  <2>2. \A j \in boxes : j = 1 \/ j \in 2..n
    BY <1>2, <1>5
  <2>3. \A j \in 2..n : file[j].box # "ftyp"
    BY <1>1 DEF Headed
  <2> QED
    BY <1>2, <2>1, <2>2, <2>3
<1>13. \E i \in boxes : \A j \in boxes : file[j].box = "moov" <=> j = i
  <2>1. PICK m \in 2..n : \A i \in 1..n : file[i].box = "moov" <=> i = m
    BY <1>1 DEF Headed
  <2>2. m \in 1..n /\ file[m].box = "moov"
    BY <1>2, <2>1
  <2>3. m \in boxes
    BY <1>6, <2>2
  <2> QED
    BY <1>5, <2>1, <2>3
<1>14. ASSUME NEW type \in {"ftyp", "moov"}
       PROVE  \E i \in boxes : \A j \in boxes : file[j].box = type <=> j = i
  BY <1>12, <1>13
<1>15. at[2] = 28 /\ 2 \in 1..n /\ (3 \in 1..n => at[3] = 28 + file[2].own)
  <2>1. 1 \in 1..n /\ 2 \in 1..n /\ 1 + 1 = 2 /\ 2 + 1 = 3
    BY <1>2
  <2>2. at[1 + 1] = at[1] + file[1].own /\ at[2 + 1] = at[2] + file[2].own
    BY <1>3, <2>1
  <2> QED
    BY <1>2, <1>4, <2>1, <2>2
<1> QED
  BY <1>4, <1>9, <1>10, <1>11, <1>12, <1>14, <1>15 DEF Nests

LEMMA BoxesAreNested == BoxesIInv => BoxesNest
<1>1. SUFFICES ASSUME BoxesIInv, FileComplete PROVE BoxesNest
  BY DEF BoxesNest
<1> DEFINE at == Positions(disk)
           boxes == Boxes
           end == [i \in boxes |-> at[i] + disk[i].size]
<1>2. /\ w.kind \in Writers /\ w.kind # "rtmp" /\ w.file = "closed" /\ w.begun
      /\ disk \in Seq(Pieces) /\ DOMAIN disk = 1..Len(disk)
  BY <1>1 DEF BoxesIInv, FilesIInv, FilesTypeOK, FileComplete
<1>3. /\ Headed(disk)
      /\ w.kind = "mp4" => disk[2].box = "mdat" /\ patch = 28
      /\ w.kind = "fmp4" => Opened(disk) /\ patch = 60
  <2>1. CASE w.kind = "mp4"
    <3>1. Short(disk)
      <4>1. ASSUME NEW i \in 1..Len(disk), disk[i].box = "moov" PROVE Positions(disk)[i] < Wide
        <5>1. i \in Boxes
          BY <1>2, <4>1 DEF Boxes
        <5> QED
          BY <1>1, <2>1, <4>1, <5>1 DEF FileComplete
      <4> QED
        BY <4>1 DEF Short
    <3> QED
      BY <1>1, <1>2, <2>1, <3>1 DEF BoxesIInv, Mp4Boxes, FtypSize
  <2>2. CASE w.kind = "fmp4"
    <3>1. offered \in Seq(FramesOffered) /\ DOMAIN offered = 1..Len(offered)
      BY <1>1 DEF BoxesIInv, FilesIInv, FilesTypeOK
    <3>2. KeyFrames = KeysIn(offered)
      BY <3>1 DEF KeyFrames, KeysIn
    <3>3. offered[Min(KeysIn(offered))].ts # 0
      BY <1>1, <2>2, <3>2 DEF FileComplete
    <3> QED
      BY <1>1, <1>2, <2>2, <3>3 DEF BoxesIInv, FMp4Boxes, Opened, DurationAt, FtypSize
  <2> QED
    BY <1>2, <2>1, <2>2 DEF Writers
<1>4. boxes = {i \in DOMAIN disk : disk[i].box # "sample"}
  BY DEF Boxes
<1> HIDE DEF boxes
<1>5. Nests(disk, boxes, at, end)
  <2>1. at = Positions(disk) /\ end = [i \in boxes |-> at[i] + disk[i].size]
    OBVIOUS
  <2> HIDE DEF at, end
  <2>2. Reads(disk, boxes, at, end)
    BY <1>3, <1>4, <2>1 DEF Reads
  <2> QED
    BY <2>2, HeadedNests
<1>6. /\ \A i, j \in boxes : i < j /\ at[j] < end[i] => end[j] <= end[i]
      /\ \A i \in boxes : \E j \in DOMAIN at : at[j] = end[i]
      /\ \A j \in DOMAIN disk : \A p \in Parents : disk[j].box = p[1] =>
           LET around == {i \in boxes : i < j /\ at[j] < end[i]}
           IN around # {} /\ disk[Max(around)].box = p[2]
      /\ \A type \in {"ftyp", "moov"} : \E i \in boxes : \A j \in boxes : disk[j].box = type <=> j = i
  BY <1>5, Zenon DEF Nests
<1>7. at[2] = 28 /\ 2 \in 1..Len(disk) /\ (3 \in 1..Len(disk) => at[3] = 28 + disk[2].own)
  <2> HIDE DEF at, end
  <2> QED
    BY <1>5, Zenon DEF Nests
<1>8. \E i \in boxes : IF w.kind = "mp4" THEN disk[i].box = "mdat" /\ patch = at[i]
                       ELSE disk[i].box = "mvhd" /\ patch = at[i] + 24
  <2>1. CASE w.kind = "mp4"
    <3>1. 2 \in boxes
      BY <1>2, <1>3, <1>4, <1>7, <2>1
    <3> QED
      BY <1>3, <1>7, <2>1, <3>1
  <2>2. CASE w.kind = "fmp4"
    <3>1. Len(disk) >= 3 /\ disk[2].own = 8 /\ disk[3].box = "mvhd"
      BY <1>3, <2>2 DEF Opened
    <3>2. Len(disk) \in Nat
      BY <1>2
    <3>3. 3 \in 1..Len(disk)
      BY <3>1, <3>2
    <3>4. 3 \in boxes /\ at[3] = 36
      BY <1>2, <1>4, <1>7, <3>1, <3>3
    <3>5. patch = at[3] + 24
      BY <1>3, <2>2, <3>4
    <3> QED
      BY <2>2, <3>1, <3>4, <3>5
  <2> QED
    BY <1>2, <2>1, <2>2 DEF Writers
<1> QED
  BY <1>6, <1>8, Zenon DEF BoxesNest, boxes

LEMMA BoxesInvariant == ASSUME Lengthy PROVE FilesSpec => []BoxesIInv
<1>1. BoxesIInv /\ [FilesNext]_filesVars => BoxesIInv'
  BY BoxesStep
<1> QED
  BY BoxesBegin, <1>1, PTL DEF FilesSpec

(* The boxes of a closed file nest, whatever frames were written, as long   *)
(* as no frame is empty: each box ends where its content ends and lies in   *)
(* the kind of box it belongs to, and Close writes over the right field; of *)
(* an MP4 file whose samples end before 4 GiB, of an FMP4 file whose first  *)
(* key frame has a time (Trak::Marshal, moov::Marshal, moof::Marshal,       *)
(* Mp4::Close, FMp4::Close).                                                *)
THEOREM BoxesNestInFiles == ASSUME Lengthy PROVE FilesSpec => []BoxesNest
BY BoxesInvariant, BoxesAreNested, PTL
=============================================================================
