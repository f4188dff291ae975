----------------------------- MODULE PartsProofs -----------------------------
(* The safety of the components of Parts that compute over sequences: the      *)
(* embedding cache, the reranker's cache, the build of an index, the index file *)
(* and the sections of a markdown file.  What a filter keeps and a             *)
(* concatenation joins is proved first, by induction over sets of numbers.    *)
EXTENDS ProtocolProofs, Subsequences

-----------------------------------------------------------------------------
(* Induction and recursion.  A set that holds 0 and every successor holds all  *)
(* numbers; a step function iterates.                                         *)

LEMMA NatSetInduction ==
  ASSUME NEW T, 0 \in T, \A n \in Nat : n \in T => n + 1 \in T
  PROVE  Nat \subseteq T
<1> DEFINE U == {n \in Nat : n \notin T}
<1> SUFFICES ASSUME U # {} PROVE FALSE OBVIOUS
<1>1. PICK x \in U : \A y \in U : x <= y BY Least
<1>2. x # 0 OBVIOUS
<1>3. x - 1 \in Nat /\ x - 1 \notin U BY <1>1, <1>2
<1>4. x - 1 \in T BY <1>3
<1> QED BY <1>3, <1>4

Iterates(f, V, base, step) ==
  f \in [Nat -> V] /\ f[0] = base /\ \A n \in Nat : f[n + 1] = step[n][f[n]]

LEMMA RecursionOnNat ==
  ASSUME NEW V, NEW base \in V, NEW step \in [Nat -> [V -> V]]
  PROVE  \E f : Iterates(f, V, base, step)
<1> DEFINE Through(f, n) == /\ f \in [0..n -> V] /\ f[0] = base
                         /\ \A i \in 0..n : i < n => f[i + 1] = step[i][f[i]]
           T == {n \in Nat : \E f : Through(f, n)}
           U == {n \in Nat : \A f, g : Through(f, n) /\ Through(g, n) => f[n] = g[n]}
<1>1. 0 \in T
  <2>1. Through([i \in 0..0 |-> base], 0)
    OBVIOUS
  <2> QED BY <2>1
<1>2. ASSUME NEW n \in Nat, n \in T PROVE n + 1 \in T
  <2>1. PICK f : Through(f, n)
    BY <1>2
  <2> DEFINE g == [i \in 0..(n + 1) |-> IF i = n + 1 THEN step[n][f[n]] ELSE f[i]]
  <2>2. \A i \in 0..(n + 1) : i # n + 1 => i \in 0..n
    OBVIOUS
  <2>3. f[n] \in V /\ step[n][f[n]] \in V
    BY <2>1
  <2>4. g \in [0..(n + 1) -> V] /\ g[0] = base
    BY <2>1, <2>2, <2>3
  <2>5. ASSUME NEW i \in 0..(n + 1), i < n + 1 PROVE g[i + 1] = step[i][g[i]]
    BY <2>1, <2>5
  <2> HIDE DEF g
  <2>6. Through(g, n + 1)
    BY <2>4, <2>5
  <2> QED BY <2>6
<1>3. Nat \subseteq T
  BY <1>1, <1>2, NatSetInduction
<1>4. 0 \in U
  OBVIOUS
<1>5. ASSUME NEW n \in Nat, n \in U PROVE n + 1 \in U
  <2> SUFFICES ASSUME NEW f, NEW g, Through(f, n + 1), Through(g, n + 1) PROVE f[n + 1] = g[n + 1]
    OBVIOUS
  <2> DEFINE cut(h) == [i \in 0..n |-> h[i]]
  <2>1. \A h : Through(h, n + 1) => Through(cut(h), n)
    <3> SUFFICES ASSUME NEW h, Through(h, n + 1) PROVE Through(cut(h), n)
      OBVIOUS
    <3>1. cut(h) \in [0..n -> V] /\ cut(h)[0] = base
      OBVIOUS
    <3>2. \A i \in 0..n : i < n => cut(h)[i + 1] = step[i][cut(h)[i]]
      OBVIOUS
    <3> QED BY <3>1, <3>2
  <2>2. Through(cut(f), n) /\ Through(cut(g), n)
    BY <2>1
  <2>3. cut(f)[n] = cut(g)[n]
    <3> HIDE DEF Through, cut
    <3> QED BY <1>5, <2>2
  <2>4. f[n] = g[n]
    BY <2>3
  <2> QED BY <2>3
<1>6. Nat \subseteq U
  BY <1>4, <1>5, NatSetInduction
<1> DEFINE pick(n) == CHOOSE f : Through(f, n)
           F == [n \in Nat |-> pick(n)[n]]
<1>7. \A n \in Nat : Through(pick(n), n)
  BY <1>3
<1>8. F \in [Nat -> V] /\ F[0] = base
  <2> HIDE DEF pick
  <2> QED BY <1>7
<1>9. ASSUME NEW n \in Nat PROVE F[n + 1] = step[n][F[n]]
  <2> HIDE DEF pick
  <2> DEFINE h == pick(n + 1)
             c == [i \in 0..n |-> h[i]]
  <2>1. Through(h, n + 1)
    BY <1>7
  <2> HIDE DEF h
  <2>2. c \in [0..n -> V] /\ c[0] = base
    BY <2>1
  <2>3. \A i \in 0..n : i < n => c[i + 1] = step[i][c[i]]
    BY <2>1
  <2>4. Through(c, n) /\ c[n] = h[n]
    BY <2>2, <2>3
  <2> HIDE DEF c
  <2>5. c[n] = pick(n)[n]
    <3>1. Through(pick(n), n) /\ n \in U
      BY <1>6, <1>7
    <3> HIDE DEF Through
    <3> QED BY <2>4, <3>1
  <2>6. h[n + 1] = step[n][h[n]]
    BY <2>1
  <2> QED BY <2>4, <2>5, <2>6 DEF h
<1> HIDE DEF F
<1> QED BY <1>8, <1>9 DEF Iterates

\* What a selection keeps, it keeps in order.
LEMMA SelectRec ==
  ASSUME NEW S, NEW s \in Seq(S), NEW K
  PROVE  \E kept \in [Nat -> Seq(S)] :
           /\ Select(s, K) = kept[Len(s)]
           /\ kept[0] = <<>>
           /\ \A i \in 1..Len(s) :
                kept[i] = IF i \in K THEN Append(kept[i - 1], s[i]) ELSE kept[i - 1]
<1> DEFINE step == [n \in Nat |-> [v \in Seq(S) |->
                     IF n + 1 \in K /\ n < Len(s) THEN Append(v, s[n + 1]) ELSE v]]
<1>1. step \in [Nat -> [Seq(S) -> Seq(S)]] /\ <<>> \in Seq(S)
  OBVIOUS
<1>2. PICK f \in [Nat -> Seq(S)] : f[0] = <<>> /\ \A n \in Nat : f[n + 1] = step[n][f[n]]
  <2> HIDE DEF step
  <2>1. PICK f : Iterates(f, Seq(S), <<>>, step)
    BY <1>1, RecursionOnNat
  <2> QED BY <2>1 DEF Iterates
<1>3. \A i \in 1..Len(s) : f[i] = IF i \in K THEN Append(f[i - 1], s[i]) ELSE f[i - 1]
  <2> SUFFICES ASSUME NEW i \in 1..Len(s)
               PROVE  f[i] = IF i \in K THEN Append(f[i - 1], s[i]) ELSE f[i - 1]
    OBVIOUS
  <2>1. i - 1 \in Nat /\ i - 1 < Len(s) /\ (i - 1) + 1 = i
    OBVIOUS
  <2>2. f[(i - 1) + 1] = step[i - 1][f[i - 1]]
    BY <1>2, <2>1
  <2> QED BY <1>2, <2>1, <2>2
<1> HIDE DEF step
<1> DEFINE Rec(g) == g = [i \in 0..Len(s) |-> IF i = 0 THEN <<>>
                            ELSE IF i \in K THEN Append(g[i - 1], s[i]) ELSE g[i - 1]]
           cut == [i \in 0..Len(s) |-> f[i]]
<1>4. Rec(cut)
  <2>1. \A i \in 0..Len(s) : i # 0 => i \in 1..Len(s) /\ i - 1 \in 0..Len(s)
    OBVIOUS
  <2>2. \A i \in 0..Len(s) : i # 0 => cut[i] = f[i] /\ cut[i - 1] = f[i - 1]
    BY <2>1
  <2>3. \A i \in 0..Len(s) : cut[i] = IF i = 0 THEN <<>>
                            ELSE IF i \in K THEN Append(cut[i - 1], s[i]) ELSE cut[i - 1]
    BY <1>2, <1>3, <2>1, <2>2
  <2>4. cut = [i \in 0..Len(s) |-> cut[i]]
    OBVIOUS
  <2> HIDE DEF cut
  <2> QED BY <2>3, <2>4
<1> DEFINE kept == CHOOSE g : Rec(g)
<1>5. Rec(kept)
  <2> HIDE DEF Rec, cut
  <2> QED BY <1>4
<1>6. Select(s, K) = kept[Len(s)]
  BY DEF Select
<1> HIDE DEF kept, cut
<1>7. \A i \in 0..Len(s) : kept[i] = IF i = 0 THEN <<>>
                            ELSE IF i \in K THEN Append(kept[i - 1], s[i]) ELSE kept[i - 1]
  BY <1>5
<1> HIDE DEF Rec
<1> DEFINE same == {n \in Nat : n <= Len(s) => kept[n] = f[n]}
<1>8. 0 \in same
  <2>1. 0 \in 0..Len(s)
    OBVIOUS
  <2>2. kept[0] = <<>>
    BY <1>7, <2>1
  <2> QED BY <1>2, <2>2
<1>9. ASSUME NEW n \in Nat, n \in same PROVE n + 1 \in same
  <2> SUFFICES ASSUME n + 1 <= Len(s) PROVE kept[n + 1] = f[n + 1]
    OBVIOUS
  <2>1. n + 1 \in 1..Len(s) /\ n + 1 \in 0..Len(s) /\ (n + 1) - 1 = n /\ n + 1 # 0 /\ n <= Len(s)
    OBVIOUS
  <2>2. kept[n] = f[n]
    BY <1>9, <2>1
  <2> QED BY <1>3, <1>7, <2>1, <2>2
<1>10. Nat \subseteq same
  BY <1>8, <1>9, NatSetInduction
<1>11. Len(s) \in same
  BY <1>10
<1>12. Select(s, K) = f[Len(s)]
  BY <1>6, <1>11
<1> QED BY <1>2, <1>3, <1>12


\* r is what K keeps of the first n elements of s.
Kept(r, s, n, K) ==
  /\ Len(r) <= n
  /\ \A a \in 1..Len(r) : \E i \in 1..n : i \in K /\ r[a] = s[i]
  /\ \A a, b \in 1..Len(r) : a < b => \E i, j \in 1..n : i < j /\ i \in K /\ j \in K /\ r[a] = s[i] /\ r[b] = s[j]
  /\ \A i \in 1..n : i \in K => \E a \in 1..Len(r) : r[a] = s[i]

LEMMA KeptAppend ==
  ASSUME NEW S, NEW s \in Seq(S), NEW K, NEW n \in Nat, n + 1 <= Len(s), n + 1 \in K,
         NEW r \in Seq(S), Kept(r, s, n, K)
  PROVE  Kept(Append(r, s[n + 1]), s, n + 1, K)
<1> DEFINE q == Append(r, s[n + 1])
<1>1. /\ s[n + 1] \in S /\ Len(r) \in Nat /\ q \in Seq(S) /\ Len(q) = Len(r) + 1 /\ q[Len(r) + 1] = s[n + 1]
      /\ \A a \in 1..Len(r) : q[a] = r[a]
  OBVIOUS
<1> HIDE DEF q
<1>2. \A i \in 1..n : i \in 1..(n + 1) /\ i < n + 1
  OBVIOUS
<1>3. \A a \in 1..Len(q) : a = Len(r) + 1 \/ a \in 1..Len(r)
  BY <1>1
<1>4. \A a \in 1..Len(r) : \E i \in 1..n : i \in K /\ r[a] = s[i]
  BY DEF Kept
<1>5. \A a \in 1..Len(q) : \E i \in 1..(n + 1) : i \in K /\ q[a] = s[i]
  <2> SUFFICES ASSUME NEW a \in 1..Len(q) PROVE \E i \in 1..(n + 1) : i \in K /\ q[a] = s[i]
    OBVIOUS
  <2>1. CASE a = Len(r) + 1
    <3>1. n + 1 \in 1..(n + 1) /\ q[a] = s[n + 1]
      BY <1>1, <2>1
    <3> QED BY <3>1
  <2>2. CASE a \in 1..Len(r)
    BY <1>1, <1>2, <1>4, <2>2
  <2> QED BY <1>3, <2>1, <2>2
<1>6. ASSUME NEW a \in 1..Len(q), NEW b \in 1..Len(q), a < b
      PROVE  \E i, j \in 1..(n + 1) : i < j /\ i \in K /\ j \in K /\ q[a] = s[i] /\ q[b] = s[j]
  <2>1. a \in 1..Len(r)
    BY <1>1, <1>6
  <2>2. CASE b = Len(r) + 1
    <3>1. PICK i \in 1..n : i \in K /\ r[a] = s[i]
      BY <1>4, <2>1
    <3>2. n + 1 \in 1..(n + 1) /\ i \in 1..(n + 1) /\ i < n + 1 /\ q[a] = s[i] /\ q[b] = s[n + 1]
      BY <1>1, <1>2, <2>1, <2>2, <3>1
    <3> QED BY <3>1, <3>2
  <2>3. CASE b \in 1..Len(r)
    <3>1. PICK i \in 1..n, j \in 1..n : i < j /\ i \in K /\ j \in K /\ r[a] = s[i] /\ r[b] = s[j]
      BY <1>6, <2>1, <2>3 DEF Kept
    <3>2. i \in 1..(n + 1) /\ j \in 1..(n + 1) /\ q[a] = s[i] /\ q[b] = s[j]
      BY <1>1, <1>2, <2>1, <2>3, <3>1
    <3> QED BY <3>1, <3>2
  <2> QED BY <1>3, <2>2, <2>3
<1>7. ASSUME NEW i \in 1..(n + 1), i \in K PROVE \E a \in 1..Len(q) : q[a] = s[i]
  <2>1. CASE i = n + 1
    <3>1. Len(r) + 1 \in 1..Len(q) /\ q[Len(r) + 1] = s[i]
      BY <1>1, <2>1
    <3> QED BY <3>1
  <2>2. CASE i # n + 1
    <3>1. i \in 1..n
      BY <2>2
    <3>2. PICK a \in 1..Len(r) : r[a] = s[i]
      BY <1>7, <3>1 DEF Kept
    <3>3. a \in 1..Len(q) /\ q[a] = s[i]
      BY <1>1, <3>2
    <3> QED BY <3>3
  <2> QED BY <2>1, <2>2
<1>8. Len(q) <= n + 1
  BY <1>1 DEF Kept
<1>9. Kept(q, s, n + 1, K)
  BY <1>5, <1>6, <1>7, <1>8 DEF Kept
<1> QED BY <1>9 DEF q

LEMMA KeptSkip ==
  ASSUME NEW S, NEW s \in Seq(S), NEW K, NEW n \in Nat, n + 1 \notin K,
         NEW r \in Seq(S), Kept(r, s, n, K)
  PROVE  Kept(r, s, n + 1, K)
<1>1. \A i \in 1..n : i \in 1..(n + 1)
  OBVIOUS
<1>2. \A i \in 1..(n + 1) : i \in K => i \in 1..n
  OBVIOUS
<1>3. Len(r) \in Nat
  OBVIOUS
<1>4. Len(r) <= n + 1
  BY <1>3 DEF Kept
<1>5. \A a, b \in 1..Len(r) : a < b => \E i, j \in 1..(n + 1) : i < j /\ i \in K /\ j \in K /\ r[a] = s[i] /\ r[b] = s[j]
  <2> SUFFICES ASSUME NEW a \in 1..Len(r), NEW b \in 1..Len(r), a < b
               PROVE  \E i, j \in 1..(n + 1) : i < j /\ i \in K /\ j \in K /\ r[a] = s[i] /\ r[b] = s[j]
    OBVIOUS
  <2>1. PICK i \in 1..n, j \in 1..n : i < j /\ i \in K /\ j \in K /\ r[a] = s[i] /\ r[b] = s[j]
    BY DEF Kept
  <2> QED BY <1>1, <2>1
<1>6. \A a \in 1..Len(r) : \E i \in 1..(n + 1) : i \in K /\ r[a] = s[i]
  BY <1>1, Zenon DEF Kept
<1>7. \A i \in 1..(n + 1) : i \in K => \E a \in 1..Len(r) : r[a] = s[i]
  BY <1>2, Zenon DEF Kept
<1> QED BY <1>4, <1>5, <1>6, <1>7 DEF Kept

LEMMA SelectKeeps ==
  ASSUME NEW S, NEW s \in Seq(S), NEW K
  PROVE  Select(s, K) \in Seq(S) /\ Kept(Select(s, K), s, Len(s), K)
<1>1. PICK kept \in [Nat -> Seq(S)] :
           /\ Select(s, K) = kept[Len(s)]
           /\ kept[0] = <<>>
           /\ \A i \in 1..Len(s) :
                kept[i] = IF i \in K THEN Append(kept[i - 1], s[i]) ELSE kept[i - 1]
  BY SelectRec
<1> DEFINE T == {n \in Nat : n <= Len(s) => Kept(kept[n], s, n, K)}
<1>2. 0 \in T
  <2>1. Kept(<<>>, s, 0, K)
    BY DEF Kept
  <2> QED BY <1>1, <2>1
<1>3. ASSUME NEW n \in Nat, n \in T PROVE n + 1 \in T
  <2> SUFFICES ASSUME n + 1 <= Len(s) PROVE Kept(kept[n + 1], s, n + 1, K)
    OBVIOUS
  <2>1. n + 1 \in 1..Len(s) /\ (n + 1) - 1 = n
    OBVIOUS
  <2>2. kept[n + 1] = IF n + 1 \in K THEN Append(kept[n], s[n + 1]) ELSE kept[n]
    BY <1>1, <2>1
  <2>3. Kept(kept[n], s, n, K) /\ kept[n] \in Seq(S)
    BY <1>3
  <2> QED BY <2>2, <2>3, KeptAppend, KeptSkip
<1>4. Nat \subseteq T
  BY <1>2, <1>3, NatSetInduction
<1>5. Len(s) \in Nat
  OBVIOUS
<1>6. Kept(kept[Len(s)], s, Len(s), K)
  <2>1. Len(s) \in T
    BY <1>4, <1>5
  <2> QED BY <1>5, <2>1
<1>7. kept[Len(s)] \in Seq(S)
  BY <1>5
<1> QED BY <1>1, <1>6, <1>7

-----------------------------------------------------------------------------
(* Sequences of <<key, value>> in which no key comes twice.                   *)

UniqueKeys(s) == \A i, j \in 1..Len(s) : s[i][1] = s[j][1] => i = j
Others(s, ts) == {i \in DOMAIN s : s[i][1] \notin ts}

\* What is left without some keys has unique keys, and none of these.
LEMMA OthersUnique ==
  ASSUME NEW S, NEW s \in Seq(S), NEW ts, UniqueKeys(s)
  PROVE  LET r == Select(s, Others(s, ts)) IN
           /\ r \in Seq(S) /\ UniqueKeys(r)
           /\ \A a \in 1..Len(r) : r[a][1] \notin ts /\ \E i \in 1..Len(s) : r[a] = s[i]
<1> DEFINE r == Select(s, Others(s, ts))
<1>1. r \in Seq(S) /\ Kept(r, s, Len(s), Others(s, ts))
  BY SelectKeeps
<1> HIDE DEF r
<1>2. \A a \in 1..Len(r) : r[a][1] \notin ts /\ \E i \in 1..Len(s) : r[a] = s[i]
  BY <1>1 DEF Kept, Others
<1>3. \A a, b \in 1..Len(r) : a < b => r[a][1] # r[b][1]
  <2> SUFFICES ASSUME NEW a \in 1..Len(r), NEW b \in 1..Len(r), a < b PROVE r[a][1] # r[b][1]
    OBVIOUS
  <2>1. PICK i \in 1..Len(s), j \in 1..Len(s) : i < j /\ r[a] = s[i] /\ r[b] = s[j]
    BY <1>1 DEF Kept
  <2>2. i # j
    BY <2>1
  <2> QED BY <2>1, <2>2 DEF UniqueKeys
<1>4. UniqueKeys(r)
  <2> SUFFICES ASSUME NEW a \in 1..Len(r), NEW b \in 1..Len(r), r[a][1] = r[b][1] PROVE a = b
    BY DEF UniqueKeys
  <2>1. a < b \/ b < a \/ a = b
    BY <1>1
  <2> QED BY <1>3, <2>1
<1> QED BY <1>1, <1>2, <1>4 DEF r

\* What is written behind others under other keys keeps the keys unique.
LEMMA JoinedUnique ==
  ASSUME NEW S, NEW s \in Seq(S), NEW t \in Seq(S), UniqueKeys(s), UniqueKeys(t),
         \A a \in 1..Len(s), b \in 1..Len(t) : s[a][1] # t[b][1]
  PROVE  /\ s \o t \in Seq(S) /\ UniqueKeys(s \o t)
         /\ \A a \in 1..Len(s \o t) : \/ \E i \in 1..Len(s) : (s \o t)[a] = s[i]
                                      \/ \E i \in 1..Len(t) : (s \o t)[a] = t[i]
<1> DEFINE q == s \o t
<1>1. /\ q \in Seq(S) /\ Len(q) = Len(s) + Len(t) /\ Len(s) \in Nat /\ Len(t) \in Nat
      /\ \A a \in 1..Len(q) : IF a <= Len(s) THEN a \in 1..Len(s) /\ q[a] = s[a]
                              ELSE a - Len(s) \in 1..Len(t) /\ q[a] = t[a - Len(s)]
  OBVIOUS
<1> HIDE DEF q
<1>3. \A a \in 1..Len(q) : \/ a \in 1..Len(s) /\ q[a] = s[a]
                           \/ \E i \in 1..Len(t) : a = i + Len(s) /\ q[a] = t[i]
  <2> SUFFICES ASSUME NEW a \in 1..Len(q), a > Len(s)
               PROVE  \E i \in 1..Len(t) : a = i + Len(s) /\ q[a] = t[i]
    BY <1>1
  <2>1. a - Len(s) \in 1..Len(t) /\ q[a] = t[a - Len(s)] /\ a = (a - Len(s)) + Len(s)
    BY <1>1
  <2> QED BY <2>1
<1>2. UniqueKeys(q)
  <2> SUFFICES ASSUME NEW a \in 1..Len(q), NEW b \in 1..Len(q), q[a][1] = q[b][1] PROVE a = b
    BY DEF UniqueKeys
  <2>1. a \in Nat /\ b \in Nat /\ Len(s) \in Nat
    BY <1>1
  <2>2. \/ a \in 1..Len(s) /\ q[a] = s[a]
        \/ \E i \in 1..Len(t) : a = i + Len(s) /\ q[a] = t[i]
    BY <1>3
  <2>3. \/ b \in 1..Len(s) /\ q[b] = s[b]
        \/ \E i \in 1..Len(t) : b = i + Len(s) /\ q[b] = t[i]
    BY <1>3
  <2>4. CASE a \in 1..Len(s) /\ q[a] = s[a] /\ b \in 1..Len(s) /\ q[b] = s[b]
    BY <2>4 DEF UniqueKeys
  <2>5. CASE \E i, k \in 1..Len(t) : a = i + Len(s) /\ q[a] = t[i] /\ b = k + Len(s) /\ q[b] = t[k]
    BY <2>5 DEF UniqueKeys
  <2> QED BY <2>2, <2>3, <2>4, <2>5
<1> QED BY <1>1, <1>2, <1>3 DEF q

Last(s, n) == SubSeq(s, IF Len(s) > n THEN Len(s) - n + 1 ELSE 1, Len(s))

\* The last n of a sequence are some of it.
LEMMA LastUnique ==
  ASSUME NEW S, NEW s \in Seq(S), UniqueKeys(s), NEW n \in Nat
  PROVE  /\ Last(s, n) \in Seq(S) /\ Len(Last(s, n)) <= n /\ UniqueKeys(Last(s, n))
         /\ \A a \in 1..Len(Last(s, n)) : \E i \in 1..Len(s) : Last(s, n)[a] = s[i]
<1> DEFINE m == IF Len(s) > n THEN Len(s) - n + 1 ELSE 1
           r == SubSeq(s, m, Len(s))
<1>1. m \in Nat /\ m >= 1 /\ m <= Len(s) + 1 /\ Len(s) - m + 1 <= n /\ Len(s) \in Nat
  OBVIOUS
<1> HIDE DEF m
<1>2. /\ r \in Seq(S) /\ Len(r) = Len(s) - m + 1
      /\ \A a \in 1..Len(r) : a + m - 1 \in 1..Len(s) /\ r[a] = s[a + m - 1]
  BY <1>1
<1> HIDE DEF r
<1>3. UniqueKeys(r)
  <2> SUFFICES ASSUME NEW a \in 1..Len(r), NEW b \in 1..Len(r), r[a][1] = r[b][1] PROVE a = b
    BY DEF UniqueKeys
  <2>1. a + m - 1 = b + m - 1
    BY <1>2 DEF UniqueKeys
  <2> QED BY <1>1, <1>2, <2>1
<1>4. \A a \in 1..Len(r) : \E i \in 1..Len(s) : r[a] = s[i]
  BY <1>2
<1> QED BY <1>1, <1>2, <1>3, <1>4 DEF r, m, Last

\* SetToSeq lists every element of a finite set once.
LEMMA SetToSeqLists ==
  ASSUME NEW T, IsFiniteSet(T)
  PROVE  /\ Cardinality(T) \in Nat
         /\ Embed!SetToSeq(T) \in [1..Cardinality(T) -> T]
         /\ \A i, j \in 1..Cardinality(T) : Embed!SetToSeq(T)[i] = Embed!SetToSeq(T)[j] => i = j
<1>1. Cardinality(T) \in Nat /\ ExistsBijection(1..Cardinality(T), T)
  BY FS_CardinalityType
<1>2. Embed!Cardinality(T) = Cardinality(T)
  BY DEF Cardinality, Embed!Cardinality
<1>3. \E f \in [1..Cardinality(T) -> T] : \A i, j \in 1..Cardinality(T) : f[i] = f[j] => i = j
  BY <1>1 DEF ExistsBijection, Bijection, Injection, IsInjective
<1>4. \E f \in [1..Cardinality(T) -> T] : Embed!IsInjective(f)
  BY <1>3 DEF Embed!IsInjective
<1>5. /\ Embed!SetToSeq(T) \in [1..Cardinality(T) -> T]
      /\ Embed!IsInjective(Embed!SetToSeq(T))
  BY <1>2, <1>4 DEF Embed!SetToSeq
<1> QED BY <1>1, <1>5 DEF Embed!IsInjective

Batch(T, v) == [i \in 1..Cardinality(T) |-> <<Embed!SetToSeq(T)[i], v>>]

\* A batch of new entries, in some order.
LEMMA BatchUnique ==
  ASSUME NEW S, NEW T, T \subseteq S, IsFiniteSet(T), NEW V, NEW v \in V
  PROVE  /\ Batch(T, v) \in Seq(S \X V) /\ UniqueKeys(Batch(T, v))
         /\ \A i \in 1..Len(Batch(T, v)) : Batch(T, v)[i][1] \in T /\ Batch(T, v)[i][2] = v
<1> DEFINE n == Cardinality(T)
           q == Embed!SetToSeq(T)
           b == [i \in 1..n |-> <<q[i], v>>]
<1>1. n \in Nat /\ q \in [1..n -> T] /\ \A i, j \in 1..n : q[i] = q[j] => i = j
  BY SetToSeqLists
<1> HIDE DEF n, q
<1>2. b \in Seq(S \X V) /\ Len(b) = n /\ \A i \in 1..n : b[i] = <<q[i], v>>
  BY <1>1
<1> HIDE DEF b
<1> QED BY <1>1, <1>2 DEF UniqueKeys, Batch, b, n, q

-----------------------------------------------------------------------------
(* The embedding cache.                                                       *)

LEMMA EmbedSelect == \A s, K : Embed!Select(s, K) = Select(s, K)
BY DEF Embed!Select, Select

\* A flush keeps the table's size, one row per text, and old rows or new ones.
LEMMA EmbedFlushes ==
  ASSUME Embed!EmbedAssumption, table \in Seq(Texts \X Models), UniqueKeys(table),
         NEW T, T \subseteq Texts, IsFiniteSet(T), NEW m \in Models,
         table' = Embed!Newest(Embed!Inserted(table, T, m))
  PROVE  /\ table' \in Seq(Texts \X Models) /\ Len(table') <= MaxEntries /\ UniqueKeys(table)'
         /\ \A a \in 1..Len(table') : table'[a][2] = m \/ \E i \in 1..Len(table) : table'[a] = table[i]
<1> DEFINE S == Texts \X Models
           r == Select(table, Others(table, T))
           b == Batch(T, m)
<1>1. /\ r \in Seq(S) /\ UniqueKeys(r)
      /\ \A a \in 1..Len(r) : r[a][1] \notin T /\ \E i \in 1..Len(table) : r[a] = table[i]
  BY OthersUnique
<1>2. b \in Seq(S) /\ UniqueKeys(b) /\ \A i \in 1..Len(b) : b[i][1] \in T /\ b[i][2] = m
  BY BatchUnique
<1>3. Embed!Inserted(table, T, m) = r \o b
  <2>1. Embed!Cardinality(T) = Cardinality(T)
    BY DEF Cardinality, Embed!Cardinality
  <2> QED BY <2>1, EmbedSelect DEF Embed!Inserted, Others, Batch
<1> HIDE DEF r, b, S
<1>4. \A a \in 1..Len(r), c \in 1..Len(b) : r[a][1] # b[c][1]
  BY <1>1, <1>2
<1>5. /\ r \o b \in Seq(S) /\ UniqueKeys(r \o b)
      /\ \A a \in 1..Len(r \o b) : \/ \E i \in 1..Len(r) : (r \o b)[a] = r[i]
                                   \/ \E i \in 1..Len(b) : (r \o b)[a] = b[i]
  BY <1>1, <1>2, <1>4, JoinedUnique
<1> DEFINE q == r \o b
<1> HIDE DEF q
<1>6. /\ table' = Last(q, MaxEntries)
      /\ MaxEntries \in Nat /\ q \in Seq(S) /\ UniqueKeys(q)
  BY <1>3, <1>5 DEF Embed!Newest, Embed!EmbedAssumption, Last, q
<1>7. /\ table' \in Seq(S) /\ Len(table') <= MaxEntries /\ UniqueKeys(table')
      /\ \A a \in 1..Len(table') : \E i \in 1..Len(q) : table'[a] = q[i]
  BY <1>6, LastUnique
<1>8. UniqueKeys(table)'
  BY <1>7 DEF UniqueKeys
<1>9. \A i \in 1..Len(q) : q[i][2] = m \/ \E k \in 1..Len(table) : q[i] = table[k]
  BY <1>1, <1>2, <1>5 DEF q
<1> QED BY <1>7, <1>8, <1>9 DEF S

EmbedTypes ==
  /\ Embed!EmbedAssumption
  /\ tableScope \in Models \cup {NoValue} /\ open \in [Processes -> Models \cup {NoValue}]
  /\ buffer \in [Processes -> SUBSET Texts] /\ \A p \in Processes : IsFiniteSet(buffer[p])
  /\ mixed \in BOOLEAN
  /\ table \in Seq(Texts \X Models) /\ Len(table) <= MaxEntries /\ UniqueKeys(table)

\* The rows are of the table's model, and so is whoever has it open.
OneScope ==
  ~mixed => /\ \A p \in Processes : open[p] # NoValue => open[p] = tableScope
            /\ \A i \in 1..Len(table) : table[i][2] = tableScope
            /\ vector[1] = vector[2]

EmbedInv == EmbedTypes /\ OneScope

\* The table is empty at first.
LEMMA EmbedInit == Embed!EmbedAssumption /\ Embed!Init => EmbedInv
<1> SUFFICES ASSUME Embed!EmbedAssumption, Embed!Init PROVE EmbedInv
  OBVIOUS
<1>1. IsFiniteSet({})
  BY FS_EmptySet
<1>2. table = <<>> /\ buffer = [p \in Processes |-> {}] /\ open = [p \in Processes |-> NoValue]
      /\ tableScope = NoValue /\ mixed = FALSE /\ MaxEntries \in Nat
  BY DEF Embed!Init, Embed!EmbedAssumption
<1>4. table \in Seq(Texts \X Models) /\ Len(table) <= MaxEntries /\ UniqueKeys(table)
  BY <1>2 DEF UniqueKeys
<1>5. buffer \in [Processes -> SUBSET Texts] /\ \A p \in Processes : IsFiniteSet(buffer[p])
  BY <1>1, <1>2
<1>6. EmbedTypes
  BY <1>2, <1>4, <1>5 DEF EmbedTypes
<1>3. OneScope
  BY DEF Embed!Init, OneScope
<1> QED BY <1>3, <1>6 DEF EmbedInv

\* A flush by one that has the table open writes its own model's rows.
LEMMA EmbedFlushed ==
  ASSUME EmbedInv, NEW p \in Processes, open[p] # NoValue, NEW T, T \subseteq Texts, IsFiniteSet(T),
         Embed!Flushed(p, T)
  PROVE  /\ table' \in Seq(Texts \X Models) /\ Len(table') <= MaxEntries /\ UniqueKeys(table)'
         /\ ~mixed => \A i \in 1..Len(table') : table'[i][2] = tableScope
<1>1. CASE UNCHANGED table
  BY <1>1 DEF EmbedInv, EmbedTypes, OneScope, UniqueKeys
<1>2. CASE table' = Embed!Newest(Embed!Inserted(table, T, open[p]))
  <2>1. /\ open[p] \in Models /\ Embed!EmbedAssumption
        /\ table \in Seq(Texts \X Models) /\ UniqueKeys(table)
    BY DEF EmbedInv, EmbedTypes
  <2>2. /\ table' \in Seq(Texts \X Models) /\ Len(table') <= MaxEntries /\ UniqueKeys(table)'
        /\ \A a \in 1..Len(table') :
             table'[a][2] = open[p] \/ \E i \in 1..Len(table) : table'[a] = table[i]
    BY <1>2, <2>1, EmbedFlushes
  <2>3. ~mixed => open[p] = tableScope /\ \A i \in 1..Len(table) : table[i][2] = tableScope
    BY DEF EmbedInv, OneScope
  <2> QED BY <2>2, <2>3
<1> QED BY <1>1, <1>2 DEF Embed!Flushed

\* A table of another model is emptied before it is used.
LEMMA EmbedOpens ==
  ASSUME EmbedInv, NEW p \in Processes, NEW m \in Models, Embed!Open(p, m)
  PROVE  EmbedInv'
<1>1. /\ open[p] = NoValue /\ open' = [open EXCEPT ![p] = m] /\ tableScope' = m
      /\ UNCHANGED <<buffer, vector>>
      /\ \/ tableScope \in {NoValue, m} /\ UNCHANGED <<table, mixed>>
         \/ /\ table' = <<>> /\ mixed' \in BOOLEAN
            /\ ~mixed' => ~mixed /\ \A q \in Processes : open[q] = NoValue
  BY DEF Embed!Open, EmbedInv, EmbedTypes
<1>2. EmbedTypes'
  <2>1. table' \in Seq(Texts \X Models) /\ Len(table') <= MaxEntries /\ UniqueKeys(table)'
    <3>1. CASE UNCHANGED table
      BY <3>1 DEF EmbedInv, EmbedTypes, UniqueKeys
    <3>2. CASE table' = <<>>
      BY <3>2 DEF EmbedInv, EmbedTypes, UniqueKeys, Embed!EmbedAssumption
    <3> QED BY <1>1, <3>1, <3>2
  <2>2. /\ open' \in [Processes -> Models \cup {NoValue}] /\ tableScope' \in Models \cup {NoValue}
        /\ mixed' \in BOOLEAN
    BY <1>1 DEF EmbedInv, EmbedTypes
  <2> QED BY <1>1, <2>1, <2>2 DEF EmbedInv, EmbedTypes, Embed!EmbedAssumption
<1>3. OneScope'
  <2> SUFFICES ASSUME ~mixed' PROVE OneScope'
    BY DEF OneScope
  <2>1. CASE tableScope = m /\ UNCHANGED <<table, mixed>>
    BY <1>1, <2>1 DEF EmbedInv, EmbedTypes, OneScope
  <2>2. CASE tableScope = NoValue /\ UNCHANGED <<table, mixed>>
    <3>1. \A i \in 1..Len(table) : table[i][2] \in Models /\ table[i][2] = NoValue
      BY <2>2 DEF EmbedInv, EmbedTypes, OneScope
    <3>2. \A q \in Processes : open[q] = NoValue
      BY <2>2 DEF EmbedInv, OneScope
    <3>3. ~ \E i \in 1..Len(table) : TRUE
      BY <3>1 DEF EmbedInv, EmbedTypes, Embed!EmbedAssumption
    <3> QED BY <1>1, <2>2, <3>2, <3>3 DEF EmbedInv, EmbedTypes, OneScope
  <2>3. CASE table' = <<>> /\ ~mixed /\ \A q \in Processes : open[q] = NoValue
    BY <1>1, <2>3 DEF EmbedInv, EmbedTypes, OneScope
  <2> QED BY <1>1, <2>1, <2>2, <2>3
<1> QED BY <1>2, <1>3 DEF EmbedInv

\* A hit is of the table's model; a miss is encoded by the process's own.
LEMMA EmbedEncodes ==
  ASSUME EmbedInv, NEW p \in Processes, NEW t \in Texts, Embed!EncodeCached(p, t)
  PROVE  EmbedInv'
<1>1. open[p] # NoValue /\ UNCHANGED <<tableScope, open, mixed>>
  BY DEF Embed!EncodeCached
<1>2. CASE vector' = <<open[p], open[p]>> /\ UNCHANGED <<table, buffer>>
  BY <1>1, <1>2 DEF EmbedInv, EmbedTypes, OneScope, UniqueKeys, Embed!EmbedAssumption
<1>3. CASE \E i \in Embed!RowsOf(t) : vector' = <<open[p], table[i][2]>> /\ UNCHANGED <<table, buffer>>
  <2>1. PICK i \in 1..Len(table) : vector' = <<open[p], table[i][2]>> /\ UNCHANGED <<table, buffer>>
    BY <1>3 DEF Embed!RowsOf, EmbedInv, EmbedTypes
  <2>2. EmbedTypes'
    BY <1>1, <2>1 DEF EmbedInv, EmbedTypes, UniqueKeys, Embed!EmbedAssumption
  <2>3. OneScope'
    BY <1>1, <2>1 DEF EmbedInv, OneScope
  <2> QED BY <2>2, <2>3 DEF EmbedInv
<1>4. CASE /\ vector' = <<open[p], open[p]>>
           /\ \/ Embed!Flushed(p, buffer[p] \cup {t}) /\ buffer' = [buffer EXCEPT ![p] = {}]
              \/ buffer' = [buffer EXCEPT ![p] = buffer[p] \cup {t}] /\ UNCHANGED table
  <2>1. IsFiniteSet(buffer[p] \cup {t}) /\ buffer[p] \cup {t} \subseteq Texts /\ IsFiniteSet({})
    BY FS_AddElement, FS_EmptySet DEF EmbedInv, EmbedTypes
  <2>2. /\ table' \in Seq(Texts \X Models) /\ Len(table') <= MaxEntries /\ UniqueKeys(table)'
        /\ ~mixed => \A i \in 1..Len(table') : table'[i][2] = tableScope
    <3>1. CASE Embed!Flushed(p, buffer[p] \cup {t})
      BY <1>1, <2>1, <3>1, EmbedFlushed
    <3>2. CASE UNCHANGED table
      BY <3>2 DEF EmbedInv, EmbedTypes, OneScope, UniqueKeys
    <3> QED BY <1>4, <3>1, <3>2
  <2>3. /\ buffer' \in [Processes -> SUBSET Texts]
        /\ \A q \in Processes : IsFiniteSet(buffer'[q])
    BY <1>4, <2>1 DEF EmbedInv, EmbedTypes
  <2>4. EmbedTypes'
    BY <1>1, <2>2, <2>3 DEF EmbedInv, EmbedTypes, Embed!EmbedAssumption
  <2>5. OneScope'
    BY <1>1, <1>4, <2>2 DEF EmbedInv, OneScope
  <2> QED BY <2>4, <2>5 DEF EmbedInv
<1> QED BY <1>2, <1>3, <1>4 DEF Embed!EncodeCached

\* The table keeps one model's rows, whoever opens, fills, closes and crashes.
LEMMA EmbedNext == EmbedInv /\ [Embed!Next]_Embed!vars => EmbedInv'
<1> SUFFICES ASSUME EmbedInv, [Embed!Next]_Embed!vars PROVE EmbedInv'
  OBVIOUS
<1>1. CASE UNCHANGED Embed!vars
  BY <1>1 DEF Embed!vars, EmbedInv, EmbedTypes, OneScope, UniqueKeys, Embed!EmbedAssumption
<1>2. ASSUME NEW p \in Processes, Embed!Close(p) \/ Embed!Crash(p) PROVE EmbedInv'
  <2>1. /\ open[p] # NoValue /\ UNCHANGED <<tableScope, mixed, vector>>
        /\ buffer' = [buffer EXCEPT ![p] = {}] /\ open' = [open EXCEPT ![p] = NoValue]
        /\ Embed!Flushed(p, buffer[p]) \/ UNCHANGED table
    BY <1>2 DEF Embed!Close, Embed!Crash
  <2>2. IsFiniteSet(buffer[p]) /\ buffer[p] \subseteq Texts /\ IsFiniteSet({})
    BY FS_EmptySet DEF EmbedInv, EmbedTypes
  <2>3. /\ table' \in Seq(Texts \X Models) /\ Len(table') <= MaxEntries /\ UniqueKeys(table)'
        /\ ~mixed => \A i \in 1..Len(table') : table'[i][2] = tableScope
    <3>1. CASE Embed!Flushed(p, buffer[p])
      BY <2>1, <2>2, <3>1, EmbedFlushed
    <3>2. CASE UNCHANGED table
      BY <3>2 DEF EmbedInv, EmbedTypes, OneScope, UniqueKeys
    <3> QED BY <2>1, <3>1, <3>2
  <2>4. /\ buffer' \in [Processes -> SUBSET Texts] /\ open' \in [Processes -> Models \cup {NoValue}]
        /\ \A q \in Processes : IsFiniteSet(buffer'[q])
    BY <2>1, <2>2 DEF EmbedInv, EmbedTypes
  <2>5. EmbedTypes'
    BY <2>1, <2>3, <2>4 DEF EmbedInv, EmbedTypes, Embed!EmbedAssumption
  <2>6. OneScope'
    BY <2>1, <2>3 DEF EmbedInv, EmbedTypes, OneScope
  <2> QED BY <2>5, <2>6 DEF EmbedInv
<1>3. ASSUME NEW p \in Processes, Embed!OpenFails(p) PROVE EmbedInv'
  BY <1>1, <1>3 DEF Embed!OpenFails
<1> QED BY <1>1, <1>2, <1>3, EmbedOpens, EmbedEncodes DEF Embed!Next

LEMMA EmbedServes == EmbedInv => Embed!OwnModelServed
BY DEF EmbedInv, EmbedTypes, OneScope, UniqueKeys, Embed!OwnModelServed

-----------------------------------------------------------------------------
(* The reranker's cache.                                                      *)

\* A cache of vectors of one model, one entry per text.
CacheOf(c, m) == c \in Seq(Texts \X {m}) /\ UniqueKeys(c)

RerankTypes ==
  /\ Rerank!RerankAssumption
  /\ CacheOf(lru, scope) /\ Len(lru) <= Capacity
  /\ misses \in [Queries -> SUBSET Texts] /\ scored \subseteq {scope}

\* A file that decodes holds what its model made.
SavedIsOwn == saved.state = "ok" => CacheOf(saved.entries, saved.scope)

RerankInv == RerankTypes /\ SavedIsOwn

LEMMA RerankOperators ==
  /\ \A s, K : Rerank!Select(s, K) = Select(s, K)
  /\ \A T : Rerank!SetToSeq(T) = Embed!SetToSeq(T) /\ Rerank!Cardinality(T) = Cardinality(T)
<1>1. \A s, K : Rerank!Select(s, K) = Select(s, K)
  BY DEF Rerank!Select, Select
<1>2. \A T : Rerank!Cardinality(T) = Embed!Cardinality(T) /\ Rerank!Cardinality(T) = Cardinality(T)
  BY DEF Rerank!Cardinality, Embed!Cardinality, Cardinality
<1>3. \A f : Rerank!IsInjective(f) <=> Embed!IsInjective(f)
  BY DEF Rerank!IsInjective, Embed!IsInjective
<1>4. \A T : Rerank!SetToSeq(T) = Embed!SetToSeq(T)
  BY <1>2, <1>3, Zenon DEF Rerank!SetToSeq, Embed!SetToSeq
<1> QED BY <1>1, <1>2, <1>4

\* What is left without some texts is a cache of the same model.
LEMMA RerankWithout ==
  ASSUME NEW c, NEW m, CacheOf(c, m), NEW T
  PROVE  /\ CacheOf(Rerank!Without(c, T), m)
         /\ \A a \in 1..Len(Rerank!Without(c, T)) :
              /\ Rerank!Without(c, T)[a][1] \notin T
              /\ \E i \in 1..Len(c) : Rerank!Without(c, T)[a] = c[i]
<1>1. Rerank!Without(c, T) = Select(c, Others(c, T))
  BY RerankOperators DEF Rerank!Without, Others
<1>2. c \in Seq(Texts \X {m}) /\ UniqueKeys(c)
  BY DEF CacheOf
<1> QED BY <1>1, <1>2, OthersUnique DEF CacheOf

\* The most recent of a cache are a cache that fits.
LEMMA RerankRecent ==
  ASSUME Rerank!RerankAssumption, NEW c, NEW m, CacheOf(c, m)
  PROVE  CacheOf(Rerank!Recent(c), m) /\ Len(Rerank!Recent(c)) <= Capacity
<1>1. Rerank!Recent(c) = Last(c, Capacity) /\ Capacity \in Nat
  BY DEF Rerank!Recent, Last, Rerank!RerankAssumption
<1>2. c \in Seq(Texts \X {m}) /\ UniqueKeys(c)
  BY DEF CacheOf
<1>3. /\ Last(c, Capacity) \in Seq(Texts \X {m}) /\ Len(Last(c, Capacity)) <= Capacity
      /\ UniqueKeys(Last(c, Capacity))
  BY <1>1, <1>2, LastUnique
<1> QED BY <1>1, <1>3 DEF CacheOf

\* Entries put behind those of other texts make a cache.
LEMMA RerankJoin ==
  ASSUME NEW c, NEW m, CacheOf(c, m), NEW d, CacheOf(d, m), NEW T,
         \A a \in 1..Len(c) : c[a][1] \notin T, \A a \in 1..Len(d) : d[a][1] \in T
  PROVE  CacheOf(c \o d, m)
<1>1. /\ c \in Seq(Texts \X {m}) /\ UniqueKeys(c) /\ d \in Seq(Texts \X {m}) /\ UniqueKeys(d)
  BY DEF CacheOf
<1>2. \A a \in 1..Len(c), b \in 1..Len(d) : c[a][1] # d[b][1]
  OBVIOUS
<1>3. c \o d \in Seq(Texts \X {m}) /\ UniqueKeys(c \o d)
  BY <1>1, <1>2, JoinedUnique
<1> QED BY <1>3 DEF CacheOf

\* put of a batch.
LEMMA RerankPuts ==
  ASSUME Rerank!RerankAssumption, CacheOf(lru, scope), Len(lru) <= Capacity, NEW T, T \subseteq Texts
  PROVE  CacheOf(Rerank!Puts(lru, T), scope) /\ Len(Rerank!Puts(lru, T)) <= Capacity
<1> DEFINE r == Rerank!Without(lru, T)
           b == Batch(T, scope)
<1>1. IsFiniteSet(T)
  BY FS_Subset DEF Rerank!RerankAssumption, Rerank!IsFiniteSet, IsFiniteSet
<1>2. /\ CacheOf(b, scope) /\ \A a \in 1..Len(b) : b[a][1] \in T
  <2>1. b \in Seq(Texts \X {scope}) /\ UniqueKeys(b) /\ \A a \in 1..Len(b) : b[a][1] \in T
    BY <1>1, BatchUnique
  <2> QED BY <2>1 DEF CacheOf
<1>3. CacheOf(r, scope) /\ \A a \in 1..Len(r) : r[a][1] \notin T
  BY RerankWithout
<1>4. Rerank!Puts(lru, T) = IF Capacity = 0 THEN lru ELSE Rerank!Recent(r \o b)
  BY RerankOperators DEF Rerank!Puts, Batch
<1> HIDE DEF r, b
<1>5. CacheOf(r \o b, scope)
  BY <1>2, <1>3, RerankJoin
<1>6. CacheOf(Rerank!Recent(r \o b), scope) /\ Len(Rerank!Recent(r \o b)) <= Capacity
  BY <1>5, RerankRecent
<1> QED BY <1>4, <1>6

\* A cache has as many texts as entries.
LEMMA RerankKeys ==
  ASSUME NEW c, NEW m, CacheOf(c, m)
  PROVE  /\ IsFiniteSet(Rerank!Keys(c)) /\ Cardinality(Rerank!Keys(c)) = Len(c)
         /\ Rerank!Keys(c) = {c[i][1] : i \in 1..Len(c)}
<1> DEFINE K == Rerank!Keys(c)
           f == [i \in 1..Len(c) |-> c[i][1]]
<1>1. Len(c) \in Nat /\ DOMAIN c = 1..Len(c)
  BY DEF CacheOf
<1>2. K = {c[i][1] : i \in 1..Len(c)}
  BY <1>1 DEF Rerank!Keys, Rerank!ToSet
<1>3. f \in [1..Len(c) -> K] /\ \A t \in K : \E i \in 1..Len(c) : f[i] = t
  BY <1>2
<1>4. \A i, j \in 1..Len(c) : f[i] = f[j] => i = j
  BY DEF CacheOf, UniqueKeys
<1> HIDE DEF f, K
<1>5. f \in Bijection(1..Len(c), K)
  BY <1>3, <1>4 DEF Bijection, Injection, Surjection, IsInjective
<1>6. ExistsBijection(1..Len(c), K)
  BY <1>5 DEF ExistsBijection
<1>7. IsFiniteSet(K) /\ Cardinality(K) = Len(c)
  BY <1>1, <1>6, FS_NatBijection, FS_CountingElements
<1>8. K = Rerank!Keys(c)
  BY DEF K
<1> QED BY <1>2, <1>7, <1>8, Zenon

\* get of a batch: the entries that were there, in another order.
LEMMA RerankGets ==
  ASSUME Rerank!RerankAssumption, CacheOf(lru, scope), NEW T, T \subseteq Texts \cap Rerank!Keys(lru)
  PROVE  /\ CacheOf(Rerank!Gets(lru, T), scope)
         /\ \A i \in 1..Len(Rerank!Gets(lru, T)) : Rerank!Gets(lru, T)[i][1] \in Rerank!Keys(lru)
<1> DEFINE r == Rerank!Without(lru, T)
           n == Cardinality(T)
           q == Embed!SetToSeq(T)
           e(t) == Rerank!EntryOf(lru, t)
           b == [i \in 1..n |-> e(q[i])]
<1>1. IsFiniteSet(T)
  BY FS_Subset DEF Rerank!RerankAssumption, Rerank!IsFiniteSet, IsFiniteSet
<1>2. n \in Nat /\ q \in [1..n -> T] /\ \A i, j \in 1..n : q[i] = q[j] => i = j
  BY <1>1, SetToSeqLists
<1>3. \A t \in T : e(t) \in Texts \X {scope} /\ e(t)[1] = t
  <2> SUFFICES ASSUME NEW t \in T PROVE e(t) \in Texts \X {scope} /\ e(t)[1] = t
    OBVIOUS
  <2>1. \E x \in Rerank!ToSet(lru) : x[1] = t
    BY DEF Rerank!Keys
  <2>2. e(t) \in Rerank!ToSet(lru) /\ e(t)[1] = t
    BY <2>1 DEF Rerank!EntryOf
  <2>3. Rerank!ToSet(lru) \subseteq Texts \X {scope}
    BY DEF Rerank!ToSet, CacheOf
  <2> QED BY <2>2, <2>3
<1>4. Rerank!Gets(lru, T) = r \o b
  BY RerankOperators DEF Rerank!Gets
<1>5. CacheOf(r, scope) /\ \A a \in 1..Len(r) : r[a][1] \notin T
  BY RerankWithout
<1> HIDE DEF r, n, q, e
<1>6. b \in Seq(Texts \X {scope}) /\ Len(b) = n /\ \A i \in 1..n : b[i] = e(q[i]) /\ b[i][1] = q[i]
  BY <1>2, <1>3
<1> HIDE DEF b
<1>7. CacheOf(b, scope) /\ \A a \in 1..Len(b) : b[a][1] \in T
  BY <1>2, <1>6 DEF CacheOf, UniqueKeys
<1>8. \A a \in 1..Len(r) : r[a][1] \in Rerank!Keys(lru)
  <2>1. \A a \in 1..Len(r) : \E i \in 1..Len(lru) : r[a] = lru[i]
    BY RerankWithout DEF r
  <2> QED BY <2>1, RerankKeys
<1>9. \A i \in 1..Len(r \o b) : (r \o b)[i][1] \in Rerank!Keys(lru)
  <2>1. /\ r \in Seq(Texts \X {scope}) /\ UniqueKeys(r) /\ b \in Seq(Texts \X {scope}) /\ UniqueKeys(b)
        /\ \A i \in 1..Len(r), k \in 1..Len(b) : r[i][1] # b[k][1]
    BY <1>5, <1>7 DEF CacheOf
  <2>2. \A a \in 1..Len(r \o b) : \/ \E i \in 1..Len(r) : (r \o b)[a] = r[i]
                                \/ \E i \in 1..Len(b) : (r \o b)[a] = b[i]
    BY <2>1, JoinedUnique
  <2> QED BY <1>7, <1>8, <2>2
<1> QED BY <1>4, <1>5, <1>7, <1>9, RerankJoin

\* get leaves the cache at its length.
LEMMA RerankGetsFit ==
  ASSUME Rerank!RerankAssumption, CacheOf(lru, scope), Len(lru) <= Capacity,
         NEW T, T \subseteq Texts \cap Rerank!Keys(lru)
  PROVE  CacheOf(Rerank!Gets(lru, T), scope) /\ Len(Rerank!Gets(lru, T)) <= Capacity
<1> DEFINE g == Rerank!Gets(lru, T)
<1>1. CacheOf(g, scope) /\ \A i \in 1..Len(g) : g[i][1] \in Rerank!Keys(lru)
  BY RerankGets
<1> HIDE DEF g
<1>2. Rerank!Keys(g) \subseteq Rerank!Keys(lru)
  BY <1>1, RerankKeys
<1>3. /\ IsFiniteSet(Rerank!Keys(g)) /\ Cardinality(Rerank!Keys(g)) = Len(g)
      /\ IsFiniteSet(Rerank!Keys(lru)) /\ Cardinality(Rerank!Keys(lru)) = Len(lru)
  BY <1>1, RerankKeys
<1>4. Len(g) <= Len(lru)
  BY <1>2, <1>3, FS_Subset
<1>5. Len(g) \in Nat /\ Len(lru) \in Nat /\ Capacity \in Nat
  BY <1>1 DEF CacheOf, Rerank!RerankAssumption
<1> QED BY <1>1, <1>4, <1>5 DEF g

LEMMA RerankInit == Rerank!RerankAssumption /\ Rerank!Init => RerankInv
<1> SUFFICES ASSUME Rerank!RerankAssumption, Rerank!Init PROVE RerankInv
  OBVIOUS
<1>1. lru = <<>> /\ scored = {} /\ misses = [q \in Queries |-> {}] /\ saved.state = "missing"
  BY DEF Rerank!Init, Rerank!NoFile
<1>2. CacheOf(lru, scope) /\ Len(lru) <= Capacity
  BY <1>1 DEF CacheOf, UniqueKeys, Rerank!RerankAssumption
<1> QED BY <1>1, <1>2 DEF RerankInv, RerankTypes, SavedIsOwn

\* A process that starts holds no vector, of whatever model it is.
LEMMA RerankBoots ==
  ASSUME RerankInv, NEW s, Rerank!Boot(s)
  PROVE  RerankTypes'
<1>1. lru' = <<>> /\ scored' = {} /\ misses' = [q \in Queries |-> {}]
  BY DEF Rerank!Boot
<1>2. CacheOf(lru', scope') /\ Len(lru') <= Capacity
  BY <1>1 DEF CacheOf, UniqueKeys, Rerank!RerankAssumption, RerankInv, RerankTypes
<1> QED BY <1>1, <1>2 DEF RerankInv, RerankTypes

\* What the loader takes from a file is what this model made.
LEMMA RerankLoads ==
  ASSUME RerankInv, Rerank!Decodes(saved)
  PROVE  CacheOf(Rerank!Restore(saved.entries), scope) /\ Len(Rerank!Restore(saved.entries)) <= Capacity
<1>1. CacheOf(saved.entries, scope)
  BY DEF RerankInv, SavedIsOwn, Rerank!Decodes
<1>2. Rerank!RerankAssumption /\ Capacity \in Nat
  BY DEF RerankInv, RerankTypes, Rerank!RerankAssumption
<1>3. CacheOf(<<>>, scope) /\ Len(<<>>) <= Capacity
  BY <1>2 DEF CacheOf, UniqueKeys
<1>4. CacheOf(Rerank!Recent(saved.entries), scope) /\ Len(Rerank!Recent(saved.entries)) <= Capacity
  BY <1>1, <1>2, RerankRecent
<1> QED BY <1>3, <1>4 DEF Rerank!Restore

\* A query takes what the cache has, and scores it with the query's own vector.
LEMMA RerankLooksUp ==
  ASSUME RerankInv, NEW q \in Queries, NEW cands \in SUBSET Texts, Rerank!Lookup(q, cands)
  PROVE  RerankInv'
<1> DEFINE T == cands \cap Rerank!Keys(lru)
<1>1. /\ lru' = Rerank!Gets(lru, T)
      /\ misses' = [misses EXCEPT ![q] = cands \ Rerank!Keys(lru)]
      /\ scored' = {e[2] : e \in {x \in Rerank!ToSet(lru) : x[1] \in cands}} \cup {scope}
      /\ scope' = scope /\ saved' = saved
  BY DEF Rerank!Lookup
<1>2. T \subseteq Texts \cap Rerank!Keys(lru)
  OBVIOUS
<1> HIDE DEF T
<1>3. CacheOf(lru', scope') /\ Len(lru') <= Capacity
  BY <1>1, <1>2, RerankGetsFit DEF RerankInv, RerankTypes
<1>4. misses' \in [Queries -> SUBSET Texts]
  BY <1>1 DEF RerankInv, RerankTypes
<1>5. Rerank!ToSet(lru) \subseteq Texts \X {scope}
  BY DEF Rerank!ToSet, CacheOf, RerankInv, RerankTypes
<1>6. scored' \subseteq {scope'}
  BY <1>1, <1>5
<1>7. SavedIsOwn'
  BY <1>1 DEF RerankInv, SavedIsOwn, CacheOf, UniqueKeys
<1> QED BY <1>3, <1>4, <1>6, <1>7 DEF RerankInv, RerankTypes

LEMMA RerankNext == RerankInv /\ [Rerank!Next]_Rerank!vars => RerankInv'
<1> SUFFICES ASSUME RerankInv, [Rerank!Next]_Rerank!vars PROVE RerankInv'
  OBVIOUS
<1>0. RerankTypes /\ SavedIsOwn
  BY DEF RerankInv
<1>a. ASSUME UNCHANGED Rerank!vars PROVE RerankInv'
  BY <1>0, <1>a DEF RerankInv, RerankTypes, SavedIsOwn, Rerank!vars, CacheOf, UniqueKeys
<1>b. ASSUME saved' = saved PROVE SavedIsOwn'
  BY <1>0, <1>b DEF SavedIsOwn, CacheOf, UniqueKeys
<1>1. ASSUME NEW q \in Queries, Rerank!Load(q) PROVE RerankInv'
  BY <1>0, <1>1, <1>b DEF Rerank!Load, RerankInv, RerankTypes, CacheOf, UniqueKeys
<1>2. ASSUME NEW q \in Queries, Rerank!LoadEnds(q) PROVE RerankInv'
  <2>1. UNCHANGED <<scope, saved, misses, scored>>
    BY <1>2 DEF Rerank!LoadEnds
  <2>2. CacheOf(lru', scope') /\ Len(lru') <= Capacity
    BY <1>0, <1>2, <2>1, RerankLoads DEF Rerank!LoadEnds, RerankTypes, CacheOf, UniqueKeys
  <2> QED BY <1>0, <1>b, <2>1, <2>2 DEF RerankInv, RerankTypes
<1>3. ASSUME NEW q \in Queries, Rerank!Encode(q) PROVE RerankInv'
  <2>1. misses[q] \subseteq Texts
    BY <1>0 DEF RerankTypes
  <2>2. lru' \in {lru, Rerank!Puts(lru, misses[q])} /\ UNCHANGED <<scope, saved, scored>>
        /\ misses' = [misses EXCEPT ![q] = {}]
    BY <1>3 DEF Rerank!Encode
  <2>3. CacheOf(Rerank!Puts(lru, misses[q]), scope) /\ Len(Rerank!Puts(lru, misses[q])) <= Capacity
    BY <1>0, <2>1, RerankPuts DEF RerankTypes
  <2>4. CacheOf(lru', scope') /\ Len(lru') <= Capacity
    BY <1>0, <2>2, <2>3 DEF RerankTypes, CacheOf, UniqueKeys
  <2> QED BY <1>0, <1>b, <2>2, <2>4 DEF RerankInv, RerankTypes
<1>4. ASSUME NEW q \in Queries, Rerank!Declines(q) PROVE RerankInv'
  BY <1>4, <1>a DEF Rerank!Declines
<1>5. ASSUME NEW q \in Queries, NEW cands \in SUBSET Texts, Rerank!Lookup(q, cands) PROVE RerankInv'
  BY <1>5, RerankLooksUp
<1>6. ASSUME NEW s \in Scopes, Rerank!Shutdown(s) PROVE RerankInv'
  <2>1. saved' = saved \/ saved' = [state |-> "ok", scope |-> scope, entries |-> lru]
    BY <1>6 DEF Rerank!Shutdown, Rerank!Save, Rerank!SaveNothing
  <2>2. SavedIsOwn'
    BY <1>0, <1>b, <2>1 DEF SavedIsOwn, RerankTypes, CacheOf, UniqueKeys
  <2> QED BY <1>6, <2>2, RerankBoots DEF Rerank!Shutdown, RerankInv
<1>7. ASSUME NEW s \in Scopes, Rerank!Crash(s) PROVE RerankInv'
  BY <1>7, <1>b, RerankBoots DEF Rerank!Crash, RerankInv
<1>8. ASSUME Rerank!Damage PROVE RerankInv'
  <2>1. saved'.state # "ok"
    BY <1>8 DEF Rerank!Damage
  <2> QED BY <1>0, <1>8, <2>1 DEF Rerank!Damage, RerankInv, RerankTypes, SavedIsOwn, CacheOf, UniqueKeys
<1> QED BY <1>a, <1>1, <1>2, <1>3, <1>4, <1>5, <1>6, <1>7, <1>8 DEF Rerank!Next

LEMMA RerankScores == RerankInv => Rerank!OneModelScored
<1> SUFFICES ASSUME RerankInv PROVE Rerank!OneModelScored
  OBVIOUS
<1>1. Rerank!Cardinality(Rerank!Keys(lru)) = Len(lru)
  BY RerankKeys, RerankOperators DEF RerankInv, RerankTypes
<1> QED BY <1>1 DEF RerankInv, RerankTypes, Rerank!OneModelScored

(* A query is scored with vectors of the model it configured, whatever file    *)
(* the process restored its cache from, and the embedder's cache answers with  *)
(* what its model would compute: of any models, texts, queries and capacities. *)
THEOREM CachesScoreOwnModel == PartsSpec => []ScoresOwnModel
<1> DEFINE Inv == (part = "embed" => EmbedInv) /\ (part = "rerank" => RerankInv)
<1>1. PartsInit => Inv
  BY PartsStart, PartsAssumption, EmbedInit, RerankInit
<1>2. Inv /\ [PartsNext]_<<part, partsVars>> => Inv'
  BY PartsStep, EmbedNext, RerankNext
<1>3. Inv => ScoresOwnModel
  BY EmbedServes, RerankScores DEF ScoresOwnModel
<1> QED BY <1>1, <1>2, <1>3, PTL DEF PartsSpec
-----------------------------------------------------------------------------
(* The build.  What joining a sequence of sequences gives.                    *)

Flat(ss) == Build!FlattenSeq(ss)

Joins(f, ss, V) ==
  f \in [Nat -> V] /\ f[0] = <<>> /\ \A n \in Nat : n < Len(ss) => f[n + 1] = f[n] \o ss[n + 1]

LEMMA JoinsAgree ==
  ASSUME NEW V, NEW W, NEW ss, NEW tt, NEW f, NEW g, Joins(f, ss, V), Joins(g, tt, W), NEW m \in Nat,
         m <= Len(ss), m <= Len(tt), Len(ss) \in Nat, Len(tt) \in Nat, \A i \in 1..m : ss[i] = tt[i]
  PROVE  f[m] = g[m]
<1> DEFINE T == {n \in Nat : n <= m => f[n] = g[n]}
<1>1. 0 \in T
  BY DEF Joins
<1>2. ASSUME NEW n \in Nat, n \in T PROVE n + 1 \in T
  <2> SUFFICES ASSUME n + 1 <= m PROVE f[n + 1] = g[n + 1]
    OBVIOUS
  <2>1. n < Len(ss) /\ n < Len(tt) /\ n + 1 \in 1..m /\ n <= m
    OBVIOUS
  <2>2. f[n + 1] = f[n] \o ss[n + 1] /\ g[n + 1] = g[n] \o tt[n + 1]
    BY <2>1 DEF Joins
  <2> QED BY <1>2, <2>1, <2>2
<1>3. m \in T
  BY <1>1, <1>2, NatSetInduction
<1> QED BY <1>3

LEMMA JoinsExist ==
  ASSUME NEW S, NEW ss \in Seq(Seq(S))
  PROVE  \E f : Joins(f, ss, Seq(S))
<1> DEFINE step == [n \in Nat |-> [v \in Seq(S) |-> IF n < Len(ss) THEN v \o ss[n + 1] ELSE v]]
<1>1. <<>> \in Seq(S) /\ \A n \in Nat : n < Len(ss) => ss[n + 1] \in Seq(S)
  OBVIOUS
<1>2. step \in [Nat -> [Seq(S) -> Seq(S)]]
  BY <1>1
<1>3. \A n \in Nat : n < Len(ss) => \A v \in Seq(S) : step[n][v] = v \o ss[n + 1]
  OBVIOUS
<1> HIDE DEF step
<1>4. PICK f : Iterates(f, Seq(S), <<>>, step)
  BY <1>1, <1>2, RecursionOnNat
<1>5. Joins(f, ss, Seq(S))
  BY <1>3, <1>4 DEF Iterates, Joins
<1> QED BY <1>5

LEMMA FlatJoins ==
  ASSUME NEW S, NEW ss \in Seq(Seq(S)), NEW f, Joins(f, ss, Seq(S))
  PROVE  Flat(ss) = f[Len(ss)]
<1>1. CASE Len(ss) = 0
  <2>1. ss = <<>>
    BY <1>1
  <2> QED BY <1>1, <2>1 DEF Flat, Build!FlattenSeq, Joins
<1>2. CASE Len(ss) # 0
  <2> DEFINE Rec(g) == g = [i \in 1..Len(ss) |-> IF i = 1 THEN ss[i] ELSE g[i - 1] \o ss[i]]
             cut == [i \in 1..Len(ss) |-> f[i]]
             all == CHOOSE g : Rec(g)
  <2>1. Len(ss) \in Nat \ {0} /\ \A i \in 1..Len(ss) : ss[i] \in Seq(S)
    BY <1>2
  <2>2. \A i \in 1..Len(ss) : f[i] = IF i = 1 THEN ss[i] ELSE f[i - 1] \o ss[i]
    <3> SUFFICES ASSUME NEW i \in 1..Len(ss)
                 PROVE  f[i] = IF i = 1 THEN ss[i] ELSE f[i - 1] \o ss[i]
      OBVIOUS
    <3>1. i - 1 \in Nat /\ i - 1 < Len(ss) /\ (i - 1) + 1 = i
      OBVIOUS
    <3>2. f[(i - 1) + 1] = f[i - 1] \o ss[(i - 1) + 1]
      BY <3>1 DEF Joins
    <3>3. f[i] = f[i - 1] \o ss[i]
      BY <3>1, <3>2
    <3>4. CASE i = 1
      <4>1. f[i - 1] = <<>>
        BY <3>4 DEF Joins
      <4>2. <<>> \o ss[i] = ss[i]
        BY <2>1
      <4> QED BY <3>3, <3>4, <4>1, <4>2
    <3> QED BY <3>3, <3>4
  <2>3. Rec(cut)
    <3>1. \A i \in 1..Len(ss) : i # 1 => i - 1 \in 1..Len(ss)
      OBVIOUS
    <3>2. \A i \in 1..Len(ss) : cut[i] = IF i = 1 THEN ss[i] ELSE cut[i - 1] \o ss[i]
      BY <2>2, <3>1
    <3>3. cut = [i \in 1..Len(ss) |-> cut[i]]
      OBVIOUS
    <3> HIDE DEF cut
    <3> QED BY <3>2, <3>3
  <2>4. Rec(all)
    <3> HIDE DEF Rec, cut
    <3> QED BY <2>3
  <2>5. Flat(ss) = all[Len(ss)]
    BY <1>2 DEF Flat, Build!FlattenSeq
  <2> HIDE DEF all, cut
  <2>6. \A i \in 1..Len(ss) : all[i] = IF i = 1 THEN ss[i] ELSE all[i - 1] \o ss[i]
    BY <2>4
  <2> HIDE DEF Rec
  <2> DEFINE same == {n \in Nat : n \in 1..Len(ss) => all[n] = f[n]}
  <2>7. 0 \in same
    OBVIOUS
  <2>8. ASSUME NEW n \in Nat, n \in same PROVE n + 1 \in same
    <3> SUFFICES ASSUME n + 1 \in 1..Len(ss) PROVE all[n + 1] = f[n + 1]
      OBVIOUS
    <3>1. n + 1 # 1 => n \in 1..Len(ss) /\ (n + 1) - 1 = n
      OBVIOUS
    <3> QED BY <2>2, <2>6, <2>8, <3>1
  <2>9. Len(ss) \in same
    BY <2>1, <2>7, <2>8, NatSetInduction
  <2> QED BY <2>1, <2>5, <2>9
<1> QED BY <1>1, <1>2

LEMMA FlatType ==
  ASSUME NEW S, NEW ss \in Seq(Seq(S))
  PROVE  Flat(ss) \in Seq(S)
<1>1. PICK f : Joins(f, ss, Seq(S))
  BY JoinsExist
<1>2. Flat(ss) = f[Len(ss)] /\ Len(ss) \in Nat
  BY <1>1, FlatJoins
<1> QED BY <1>1, <1>2 DEF Joins

\* One more sequence is joined at the end.
LEMMA FlatAppend ==
  ASSUME NEW S, NEW ss \in Seq(Seq(S)), NEW tt \in Seq(Seq(S)), Len(tt) = Len(ss) + 1,
         \A i \in 1..Len(ss) : tt[i] = ss[i]
  PROVE  Flat(tt) = Flat(ss) \o tt[Len(tt)]
<1>1. PICK f : Joins(f, ss, Seq(S))
  BY JoinsExist
<1>2. PICK g : Joins(g, tt, Seq(S))
  BY JoinsExist
<1>3. Flat(ss) = f[Len(ss)] /\ Flat(tt) = g[Len(tt)]
  BY <1>1, <1>2, FlatJoins
<1> DEFINE n == Len(ss)
           m == Len(tt)
<1>4. n \in Nat /\ m \in Nat /\ m = n + 1 /\ n < m /\ n <= n /\ n <= m
  OBVIOUS
<1>5. \A i \in 1..n : ss[i] = tt[i]
  OBVIOUS
<1>6. g[n + 1] = g[n] \o tt[n + 1]
  <2> HIDE DEF n
  <2> QED BY <1>2, <1>4 DEF Joins
<1>7. f[n] = g[n]
  <2>1. n <= Len(ss) /\ n <= Len(tt) /\ Len(ss) \in Nat /\ Len(tt) \in Nat
    BY <1>4
  <2> HIDE DEF n, m
  <2> QED BY <1>1, <1>2, <1>4, <1>5, <2>1, JoinsAgree
<1> QED BY <1>3, <1>4, <1>6, <1>7

\* Joining nothings gives nothing.
LEMMA FlatOfNothing ==
  ASSUME NEW ss, ss \in Seq({<<>>})
  PROVE  Flat(ss) = <<>>
<1>1. ss \in Seq(Seq({}))
  <2>1. <<>> \in Seq({}) /\ {<<>>} \subseteq Seq({})
    OBVIOUS
  <2>2. DOMAIN ss = 1..Len(ss) /\ Len(ss) \in Nat /\ ss = [i \in 1..Len(ss) |-> ss[i]]
        /\ \A i \in 1..Len(ss) : ss[i] \in {<<>>}
    OBVIOUS
  <2>3. \A i \in 1..Len(ss) : ss[i] \in Seq({})
    BY <2>1, <2>2
  <2> QED BY <2>2, <2>3
<1>2. PICK f : Joins(f, ss, Seq({}))
  BY <1>1, JoinsExist
<1>3. Flat(ss) = f[Len(ss)] /\ Len(ss) \in Nat
  BY <1>1, <1>2, FlatJoins
<1>4. f[Len(ss)] \in Seq({})
  BY <1>2, <1>3 DEF Joins
<1> QED BY <1>3, <1>4

\* The vectors of joined chunks are the joined vectors of the chunks.
LEMMA VecsJoin ==
  ASSUME NEW S, NEW a \in Seq(S), NEW b \in Seq(S)
  PROVE  Build!VecsOf(a \o b) = Build!VecsOf(a) \o Build!VecsOf(b)
<1> DEFINE V == {Build!Vec(x) : x \in S}
           va == Build!VecsOf(a)
           vb == Build!VecsOf(b)
           c == a \o b
           l == Build!VecsOf(c)
<1>1. \A s \in Seq(S) : /\ Build!VecsOf(s) \in Seq(V) /\ Len(Build!VecsOf(s)) = Len(s)
                        /\ \A i \in 1..Len(s) : Build!VecsOf(s)[i] = Build!Vec(s[i])
  BY DEF Build!VecsOf
<1>2. /\ c \in Seq(S) /\ Len(c) = Len(a) + Len(b) /\ Len(a) \in Nat /\ Len(b) \in Nat
      /\ \A i \in 1..Len(a) : c[i] = a[i]
      /\ \A i \in 1..Len(b) : c[i + Len(a)] = b[i]
  OBVIOUS
<1> HIDE DEF V
<1>3. /\ va \in Seq(V) /\ Len(va) = Len(a) /\ \A i \in 1..Len(a) : va[i] = Build!Vec(a[i])
      /\ vb \in Seq(V) /\ Len(vb) = Len(b) /\ \A i \in 1..Len(b) : vb[i] = Build!Vec(b[i])
      /\ l \in Seq(V) /\ Len(l) = Len(c) /\ \A i \in 1..Len(c) : l[i] = Build!Vec(c[i])
  BY <1>1, <1>2
<1> HIDE DEF va, vb, c, l
<1>4. /\ va \o vb \in Seq(V) /\ Len(va \o vb) = Len(a) + Len(b)
      /\ \A i \in 1..Len(a) : (va \o vb)[i] = va[i]
      /\ \A i \in 1..Len(b) : (va \o vb)[i + Len(a)] = vb[i]
  <2>1. va \in Seq(V) /\ vb \in Seq(V) /\ Len(va) = Len(a) /\ Len(vb) = Len(b)
    BY <1>3
  <2>2. Concatenation(va \o vb, va, vb, V)
    BY <2>1, Concatenated
  <2> QED BY <2>1, <2>2 DEF Concatenation
<1>5. ASSUME NEW i \in 1..(Len(a) + Len(b)) PROVE l[i] = (va \o vb)[i]
  <2>1. CASE i \in 1..Len(a)
    BY <1>2, <1>3, <1>4, <2>1
  <2>2. CASE i \notin 1..Len(a)
    <3>1. \E k \in 1..Len(b) : i = k + Len(a)
      <4>1. i - Len(a) \in 1..Len(b) /\ i = (i - Len(a)) + Len(a)
        BY <1>2, <2>2
      <4> QED BY <4>1
    <3> QED BY <1>2, <1>3, <1>4, <3>1
  <2> QED BY <2>1, <2>2
<1>6. l = va \o vb
  BY <1>2, <1>3, <1>4, <1>5
<1> QED BY <1>6 DEF l, va, vb, c

LEMMA FlatOfVecs ==
  ASSUME NEW S, NEW ss \in Seq(Seq(S)), NEW tt, tt = [i \in 1..Len(ss) |-> Build!VecsOf(ss[i])]
  PROVE  Flat(tt) = Build!VecsOf(Flat(ss))
<1> DEFINE V == {Build!Vec(x) : x \in S}
<1>1. Len(ss) \in Nat /\ Len(tt) = Len(ss) /\ \A i \in 1..Len(ss) : ss[i] \in Seq(S) /\ tt[i] = Build!VecsOf(ss[i])
  OBVIOUS
<1>2. \A c \in Seq(S) : Build!VecsOf(c) \in Seq(V)
  BY DEF Build!VecsOf
<1>3. tt \in Seq(Seq(V))
  BY <1>1, <1>2
<1> HIDE DEF V
<1>4. PICK f : Joins(f, ss, Seq(S))
  BY JoinsExist
<1>5. PICK g : Joins(g, tt, Seq(V))
  BY <1>3, JoinsExist
<1> DEFINE T == {n \in Nat : n <= Len(ss) => g[n] = Build!VecsOf(f[n])}
<1>6. 0 \in T
  <2>1. Build!VecsOf(<<>>) = <<>>
    BY DEF Build!VecsOf
  <2> QED BY <1>4, <1>5, <2>1 DEF Joins
<1>7. ASSUME NEW n \in Nat, n \in T PROVE n + 1 \in T
  <2> SUFFICES ASSUME n + 1 <= Len(ss) PROVE g[n + 1] = Build!VecsOf(f[n + 1])
    OBVIOUS
  <2>1. n < Len(ss) /\ n < Len(tt) /\ n + 1 \in 1..Len(ss) /\ n <= Len(ss)
    BY <1>1
  <2>2. f[n + 1] = f[n] \o ss[n + 1] /\ g[n + 1] = g[n] \o tt[n + 1] /\ f[n] \in Seq(S)
    BY <1>4, <1>5, <2>1 DEF Joins
  <2>3. g[n] = Build!VecsOf(f[n])
    BY <1>7, <2>1
  <2>4. Build!VecsOf(f[n] \o ss[n + 1]) = Build!VecsOf(f[n]) \o Build!VecsOf(ss[n + 1])
    BY <1>1, <2>1, <2>2, VecsJoin
  <2> QED BY <1>1, <2>1, <2>2, <2>3, <2>4
<1>8. Len(ss) \in T
  BY <1>1, <1>6, <1>7, NatSetInduction
<1>9. Flat(ss) = f[Len(ss)] /\ Flat(tt) = g[Len(tt)]
  BY <1>3, <1>4, <1>5, FlatJoins
<1> QED BY <1>1, <1>8, <1>9

-----------------------------------------------------------------------------
(* The serial build, and what of it each phase has made.                      *)

Elements(s) == {s[i] : i \in DOMAIN s}
Ids == (UNION {Elements(Files[f].plain) \cup Elements(Files[f].extras) : f \in DOMAIN Files})
       \cup (UNION {Elements(Folds[DirOrder[i]]) : i \in DOMAIN DirOrder})
Chunks == [id : Ids, label : BOOLEAN]
Chunked(f) == Build!Labelled(Build!ChunkOneFile(f), Build!Labels)
OfDir(d) == Build!Labelled(Folds[d], FALSE)
OfFiles == [f \in Build!Indexes |-> Chunked(f)]
OfDirs == [i \in DOMAIN Build!Folded |-> OfDir(Build!Folded[i])]
FirstDirs(n) == [i \in 1..n |-> OfDirs[i]]
VecsFor(cs) == IF Build!Embeds THEN Build!VecsOf(cs) ELSE <<>>
ResultOf(f) == [chunks |-> Chunked(f), vecs |-> VecsFor(Chunked(f))]

LEMMA BuildInputs ==
  ASSUME Build!BuildAssumption
  PROVE  /\ Len(Files) \in Nat /\ DOMAIN Files = 1..Len(Files) /\ Build!Indexes = 1..Len(Files)
         /\ \A f \in 1..Len(Files) : Files[f].plain \in Seq(Ids) /\ Files[f].extras \in Seq(Ids)
         /\ DirOrder \in Seq(Elements(DirOrder))
         /\ \A d \in Elements(DirOrder) : Folds[d] \in Seq(Ids)
<1>1. \A s : Build!Listed(s) => s \in Seq(Elements(s))
  BY DEF Build!Listed, Build!Range, Elements
<1>2. Files \in Seq(Elements(Files)) /\ DirOrder \in Seq(Elements(DirOrder))
  BY <1>1 DEF Build!BuildAssumption
<1>3. Len(Files) \in Nat /\ DOMAIN Files = 1..Len(Files)
  BY <1>2
<1>4. ASSUME NEW f \in 1..Len(Files) PROVE Files[f].plain \in Seq(Ids) /\ Files[f].extras \in Seq(Ids)
  <2>1. Files[f].plain \in Seq(Elements(Files[f].plain)) /\ Files[f].extras \in Seq(Elements(Files[f].extras))
    BY <1>1, <1>3 DEF Build!BuildAssumption
  <2>2. Elements(Files[f].plain) \subseteq Ids /\ Elements(Files[f].extras) \subseteq Ids
    BY <1>3 DEF Ids
  <2> QED BY <2>1, <2>2
<1>5. ASSUME NEW d \in Elements(DirOrder) PROVE Folds[d] \in Seq(Ids)
  <2>1. PICK i \in DOMAIN DirOrder : d = DirOrder[i]
    BY DEF Elements
  <2>2. Folds[d] \in Seq(Elements(Folds[d]))
    BY <1>1, <2>1 DEF Build!BuildAssumption
  <2>3. Elements(Folds[d]) \subseteq Ids
    BY <2>1 DEF Ids
  <2> QED BY <2>2, <2>3
<1> QED BY <1>2, <1>3, <1>4, <1>5 DEF Build!Indexes

LEMMA LabelledType ==
  ASSUME NEW cs \in Seq(Ids), NEW label \in BOOLEAN
  PROVE  Build!Labelled(cs, label) \in Seq(Chunks)
<1>1. Len(cs) \in Nat /\ DOMAIN cs = 1..Len(cs) /\ \A i \in 1..Len(cs) : cs[i] \in Ids
  OBVIOUS
<1>2. \A i \in 1..Len(cs) : [id |-> cs[i], label |-> label] \in Chunks
  BY <1>1 DEF Chunks
<1> QED BY <1>1, <1>2 DEF Build!Labelled

LEMMA ChunkedType ==
  ASSUME Build!BuildAssumption
  PROVE  \A f \in 1..Len(Files) : Chunked(f) \in Seq(Chunks)
<1> SUFFICES ASSUME NEW f \in 1..Len(Files) PROVE Chunked(f) \in Seq(Chunks)
  OBVIOUS
<1>1. Build!Labels \in BOOLEAN
  BY Zenon DEF Build!Labels
<1>2. Files[f].plain \in Seq(Ids) /\ Files[f].extras \in Seq(Ids) /\ <<>> \in Seq(Ids)
  BY BuildInputs
<1>3. Build!ChunkOneFile(f) \in Seq(Ids)
  BY <1>2 DEF Build!ChunkOneFile
<1> QED BY <1>1, <1>3, LabelledType DEF Chunked

LEMMA FoldedType ==
  ASSUME Build!BuildAssumption
  PROVE  /\ Build!Folded \in Seq(Elements(DirOrder))
         /\ \A d \in Elements(DirOrder) : OfDir(d) \in Seq(Chunks)
<1>1. DirOrder \in Seq(Elements(DirOrder)) /\ \A d \in Elements(DirOrder) : Folds[d] \in Seq(Ids)
  BY BuildInputs
<1>2. \A s, K : Build!Select(s, K) = Select(s, K)
  BY DEF Build!Select, Select
<1>3. Build!Folded = Select(DirOrder, {i \in DOMAIN DirOrder : DirOrder[i] \in migDirs})
  BY <1>2 DEF Build!Folded
<1>4. \A K : Select(DirOrder, K) \in Seq(Elements(DirOrder))
  BY <1>1, SelectKeeps
<1>5. \A d \in Elements(DirOrder) : OfDir(d) \in Seq(Chunks)
  BY <1>1, LabelledType DEF OfDir
<1> QED BY <1>3, <1>4, <1>5

LEMMA SerialType ==
  ASSUME Build!BuildAssumption
  PROVE  /\ OfFiles \in Seq(Seq(Chunks)) /\ Len(OfFiles) = Len(Files)
         /\ OfDirs \in Seq(Seq(Chunks)) /\ Len(OfDirs) = Len(Build!Folded)
         /\ Build!Whole = Flat(OfFiles) \o Flat(OfDirs)
         /\ Flat(OfFiles) \in Seq(Chunks) /\ Flat(OfDirs) \in Seq(Chunks)
         /\ Build!Whole \in Seq(Chunks)
<1>1. Len(Files) \in Nat /\ Build!Indexes = 1..Len(Files) /\ \A f \in 1..Len(Files) : Chunked(f) \in Seq(Chunks)
  BY BuildInputs, ChunkedType
<1>2. OfFiles \in Seq(Seq(Chunks)) /\ Len(OfFiles) = Len(Files)
  BY <1>1 DEF OfFiles
<1>3. /\ Build!Folded \in Seq(Elements(DirOrder)) /\ \A d \in Elements(DirOrder) : OfDir(d) \in Seq(Chunks)
  BY FoldedType
<1>4. OfDirs \in Seq(Seq(Chunks)) /\ Len(OfDirs) = Len(Build!Folded)
  <2> DEFINE fo == Build!Folded
             n == Len(fo)
  <2>1. n \in Nat /\ DOMAIN fo = 1..n /\ \A i \in 1..n : fo[i] \in Elements(DirOrder)
    BY <1>3
  <2>2. OfDirs = [i \in DOMAIN fo |-> OfDir(fo[i])]
    BY DEF OfDirs
  <2> HIDE DEF n, fo
  <2>3. OfDirs = [i \in 1..n |-> OfDir(fo[i])] /\ \A i \in 1..n : OfDir(fo[i]) \in Seq(Chunks)
    BY <1>3, <2>1, <2>2
  <2>4. OfDirs \in Seq(Seq(Chunks)) /\ Len(OfDirs) = n
    BY <2>1, <2>3
  <2> QED BY <2>4 DEF n, fo
<1>5. Build!Whole = Flat(OfFiles) \o Flat(OfDirs)
  BY DEF Build!Whole, OfFiles, OfDirs, Flat, Chunked, OfDir
<1>6. Flat(OfFiles) \in Seq(Chunks) /\ Flat(OfDirs) \in Seq(Chunks)
  BY <1>2, <1>4, FlatType
<1> QED BY <1>2, <1>4, <1>5, <1>6

\* The options and the migration directories are fixed once the pool starts,
\* and with them what a serial build makes.
LEMMA SerialFixed ==
  ASSUME build' = build, migDirs' = migDirs
  PROVE  /\ \A f : Chunked(f)' = Chunked(f) /\ ResultOf(f)' = ResultOf(f)
         /\ Build!Folded' = Build!Folded /\ OfFiles' = OfFiles /\ OfDirs' = OfDirs
         /\ Build!Whole' = Build!Whole /\ Build!Embeds' = Build!Embeds
<1>1. \A f : Build!ChunkOneFile(f)' = Build!ChunkOneFile(f)
  BY DEF Build!ChunkOneFile
<1>2. Build!Labels' = Build!Labels /\ Build!Embeds' = Build!Embeds
  BY DEF Build!Labels, Build!Embeds
<1>3. \A f : Chunked(f)' = Chunked(f)
  BY <1>1, <1>2 DEF Chunked, Build!Labelled
<1>4. \A f : ResultOf(f)' = ResultOf(f)
  BY <1>2, <1>3 DEF ResultOf, VecsFor, Build!VecsOf
<1>5. Build!Folded' = Build!Folded
  BY DEF Build!Folded, Build!Select
<1>6. OfFiles' = OfFiles /\ OfDirs' = OfDirs
  BY <1>3, <1>5 DEF OfFiles, OfDirs, OfDir, Build!Labelled, Build!Indexes
<1>7. Build!Whole' = Build!Whole
  <2>1. Build!Whole' = Flat(OfFiles') \o Flat(OfDirs') /\ Build!Whole = Flat(OfFiles) \o Flat(OfDirs)
    BY DEF Build!Whole, OfFiles, OfDirs, Flat, Chunked, OfDir
  <2> QED BY <1>6, <2>1
<1> QED BY <1>2, <1>3, <1>4, <1>5, <1>6, <1>7

-----------------------------------------------------------------------------
Waiting == worker = [w \in Workers |-> Build!Idle]
Starting ==
  next = 1 /\ jobs = <<>> /\ closed = FALSE /\ errs = <<>> /\ results = <<>> /\ Waiting

\* Who has file f, if its result is not there yet.
Held(f) ==
  \/ \E k \in 1..Len(jobs) : jobs[k] = f
  \/ \E w \in Workers : worker[w].step # "idle" /\ worker[w].job = f
Pooled ==
  /\ next \in Nat \ {0} /\ jobs \in Seq(1..Len(Files)) /\ errs \in Seq(1..Len(Files))
  /\ worker \in [Workers -> {Build!Idle} \cup [step : {"taken", "work"}, job : 1..Len(Files)]]
  /\ \A f \in DOMAIN results : results[f] = ResultOf(f)
  /\ closed => next > Len(Files) \/ ctx = "cancelled"
  /\ \/ errs # <<>> \/ ctx = "cancelled"
     \/ \A f \in 1..Len(Files) : f < next => f \in DOMAIN results \/ Held(f)

FoldedTo(n) ==
  /\ dirs \in Seq(Elements(DirOrder)) /\ Len(dirs) = Len(Build!Folded) - n
  /\ \A i \in 1..Len(dirs) : dirs[i] = Build!Folded[i + n]
  /\ chunks = Flat(OfFiles) \o Flat(FirstDirs(n))
Folding == Waiting /\ vecs = VecsFor(chunks) /\ \E n \in 0..Len(Build!Folded) : FoldedTo(n)

TokensOf(cs) == [i \in DOMAIN cs |-> Build!Tokens(cs[i])]
Tokenizing ==
  /\ chunks = Build!Whole /\ vecs = VecsFor(chunks) /\ next \in Nat \ {0}
  /\ docs \in [1..Len(chunks) -> {Build!Blank} \cup {Build!Tokens(c) : c \in Chunks}]
  /\ worker \in [Workers -> {Build!Idle} \cup [step : {"tokenize"}, job : 1..Len(chunks)]]
  /\ \A i \in 1..Len(chunks) : i < next =>
       docs[i] = Build!Tokens(chunks[i]) \/ \E w \in Workers : worker[w].step # "idle" /\ worker[w].job = i

BuildInv ==
  /\ Build!BuildAssumption
  /\ stage = "start" => Starting
  /\ stage = "pool" => Pooled
  /\ stage = "fold" => Folding
  /\ stage = "tokenize" => Tokenizing
  /\ stage = "built" => Waiting /\ Build!BuildIsSerial

LEMMA BuildInit == Build!BuildAssumption /\ Build!Init => BuildInv
BY DEF Build!Init, BuildInv, Starting, Waiting

LEMMA BuildFeeds ==
  ASSUME Build!BuildAssumption, Pooled, Build!Feed PROVE Pooled'
<1>0. Len(Files) \in Nat
  BY BuildInputs
<1>1. /\ ~closed /\ next <= Len(Files) /\ jobs' = Append(jobs, next) /\ next' = next + 1
      /\ UNCHANGED <<build, migDirs, ctx, closed, worker, errs, results>>
  BY DEF Build!Feed
<1>2. \A f : ResultOf(f)' = ResultOf(f)
  BY <1>1, SerialFixed
<1>3. next \in 1..Len(Files)
  BY <1>0, <1>1 DEF Pooled
<1>4. /\ jobs' \in Seq(1..Len(Files)) /\ Len(jobs') = Len(jobs) + 1 /\ Len(jobs) \in Nat
      /\ jobs'[Len(jobs) + 1] = next /\ \A k \in 1..Len(jobs) : jobs'[k] = jobs[k]
  BY <1>1, <1>3 DEF Pooled
<1>5. \A f : Held(f) => Held(f)'
  <2> SUFFICES ASSUME NEW f, Held(f) PROVE Held(f)'
    OBVIOUS
  <2>1. \A k \in 1..Len(jobs) : k \in 1..Len(jobs')
    BY <1>4
  <2> QED BY <1>1, <1>4, <2>1 DEF Held
<1>6. ASSUME NEW f, f = next PROVE Held(f)'
  <2>1. Len(jobs) + 1 \in 1..Len(jobs')
    BY <1>4
  <2> QED BY <1>4, <1>6, <2>1 DEF Held
<1>7. \A f \in 1..Len(Files) : f < next' => f < next \/ f = next
  BY <1>0, <1>1 DEF Pooled
<1> QED BY <1>0, <1>1, <1>2, <1>4, <1>5, <1>6, <1>7 DEF Pooled

LEMMA BuildCloses ==
  ASSUME Pooled, Build!CloseJobs PROVE Pooled'
<1>1. /\ next > Len(Files) \/ ctx = "cancelled"
      /\ UNCHANGED <<build, migDirs, ctx, next, jobs, worker, errs, results>>
  BY DEF Build!CloseJobs
<1>2. \A f : ResultOf(f)' = ResultOf(f)
  BY <1>1, SerialFixed
<1> QED BY <1>1, <1>2 DEF Pooled, Held

LEMMA BuildTakes ==
  ASSUME Build!BuildAssumption, Pooled, NEW w \in Workers, Build!Take(w) PROVE Pooled'
<1>1. /\ worker[w] = Build!Idle /\ jobs # <<>> /\ jobs' = Tail(jobs)
      /\ worker' = [worker EXCEPT ![w] = [step |-> "taken", job |-> Head(jobs)]]
      /\ UNCHANGED <<build, migDirs, ctx, next, closed, errs, results>>
  BY DEF Build!Take
<1>2. \A f : ResultOf(f)' = ResultOf(f)
  BY <1>1, SerialFixed
<1>3. Len(jobs) \in Nat /\ Len(jobs) > 0 /\ Head(jobs) = jobs[1] /\ Head(jobs) \in 1..Len(Files)
      /\ jobs' \in Seq(1..Len(Files)) /\ Len(jobs') = Len(jobs) - 1 /\ \A k \in 1..Len(jobs') : jobs'[k] = jobs[k + 1]
  BY <1>1 DEF Pooled
<1>4. worker' \in [Workers -> {Build!Idle} \cup [step : {"taken", "work"}, job : 1..Len(Files)]]
  BY <1>1, <1>3 DEF Pooled
<1>5. worker'[w].step # "idle" /\ worker'[w].job = jobs[1] /\ \A v \in Workers : v # w => worker'[v] = worker[v]
  BY <1>1, <1>3 DEF Pooled
<1>6. worker[w].step = "idle"
  BY <1>1 DEF Build!Idle
<1>7. ASSUME NEW f, Held(f) PROVE Held(f)'
  <2>1. CASE \E v \in Workers : worker[v].step # "idle" /\ worker[v].job = f
    BY <1>5, <1>6, <2>1 DEF Held
  <2>2. ASSUME NEW k \in 1..Len(jobs), jobs[k] = f PROVE Held(f)'
    <3>1. CASE k = 1
      BY <1>5, <2>2, <3>1 DEF Held
    <3>2. CASE k # 1
      <4>1. k - 1 \in 1..Len(jobs') /\ jobs'[k - 1] = f
        BY <1>3, <2>2, <3>2
      <4> QED BY <4>1 DEF Held
    <3> QED BY <3>1, <3>2
  <2> QED BY <1>7, <2>1, <2>2 DEF Held
<1> QED BY <1>1, <1>2, <1>3, <1>4, <1>7 DEF Pooled

\* A worker that goes idle with its job has its result, an error or a cancelled
\* build behind it.
LEMMA BuildLets ==
  ASSUME Pooled, NEW w \in Workers, worker[w].step # "idle",
         worker' = [worker EXCEPT ![w] = Build!Idle], UNCHANGED <<build, migDirs, ctx, next, jobs, closed>>,
         errs' \in Seq(1..Len(Files)), errs # <<>> => errs' # <<>>,
         \A f \in DOMAIN results' : results'[f] = ResultOf(f), DOMAIN results \subseteq DOMAIN results',
         worker[w].job \in DOMAIN results' \/ errs' # <<>> \/ ctx = "cancelled"
  PROVE  Pooled'
<1>1. \A f : ResultOf(f)' = ResultOf(f)
  BY SerialFixed
<1>2. worker' \in [Workers -> {Build!Idle} \cup [step : {"taken", "work"}, job : 1..Len(Files)]]
  BY DEF Pooled
<1>3. \A v \in Workers : v # w => worker'[v] = worker[v]
  BY DEF Pooled
<1>4. ASSUME NEW f, Held(f) PROVE Held(f)' \/ f = worker[w].job
  BY <1>3, <1>4 DEF Held
<1> QED BY <1>1, <1>2, <1>4 DEF Pooled

LEMMA BuildChecks ==
  ASSUME Pooled, NEW w \in Workers, Build!CheckCtx(w) PROVE Pooled'
<1>0. /\ worker[w].step = "taken"
      /\ worker' = [worker EXCEPT ![w] = IF ctx = "cancelled" THEN Build!Idle ELSE [@ EXCEPT !.step = "work"]]
      /\ UNCHANGED <<build, migDirs, ctx, next, jobs, closed, errs, results>>
  BY DEF Build!CheckCtx
<1>1. CASE ctx = "cancelled"
  <2>1. worker' = [worker EXCEPT ![w] = Build!Idle] /\ worker[w].step # "idle"
    BY <1>0, <1>1
  <2>2. errs' \in Seq(1..Len(Files)) /\ \A f \in DOMAIN results' : results'[f] = ResultOf(f)
    BY <1>0 DEF Pooled
  <2> QED BY <1>0, <1>1, <2>1, <2>2, BuildLets
<1>2. CASE ctx # "cancelled"
  <2>1. \A f : ResultOf(f)' = ResultOf(f)
    BY <1>0, SerialFixed
  <2>2. worker' = [worker EXCEPT ![w] = [@ EXCEPT !.step = "work"]]
    BY <1>0, <1>2
  <2>3. worker[w] \in [step : {"taken", "work"}, job : 1..Len(Files)]
    BY <1>0 DEF Pooled, Build!Idle
  <2>4. worker' \in [Workers -> {Build!Idle} \cup [step : {"taken", "work"}, job : 1..Len(Files)]]
    BY <2>2, <2>3 DEF Pooled
  <2>5. \A v \in Workers : worker'[v].job = worker[v].job /\ (worker[v].step # "idle" => worker'[v].step # "idle")
    BY <2>2, <2>3 DEF Pooled
  <2>6. ASSUME NEW f, Held(f) PROVE Held(f)'
    BY <1>0, <2>5, <2>6 DEF Held
  <2> QED BY <1>0, <2>1, <2>4, <2>6 DEF Pooled
<1> QED BY <1>1, <1>2

LEMMA BuildProcesses ==
  ASSUME Pooled, NEW w \in Workers, Build!Process(w) PROVE Pooled'
<1> DEFINE j == worker[w].job
<1>1. /\ worker[w].step = "work" /\ worker' = [worker EXCEPT ![w] = Build!Idle]
      /\ UNCHANGED <<build, migDirs, ctx, next, jobs, closed, errs>>
      /\ results' = [i \in DOMAIN results \cup {j} |-> IF i = j THEN ResultOf(j) ELSE results[i]]
  BY DEF Build!Process, ResultOf, Chunked, VecsFor
<1>2. /\ j \in DOMAIN results' /\ DOMAIN results \subseteq DOMAIN results'
      /\ \A f \in DOMAIN results' : results'[f] = ResultOf(f)
  BY <1>1 DEF Pooled
<1>3. errs' \in Seq(1..Len(Files))
  BY <1>1 DEF Pooled
<1> QED BY <1>1, <1>2, <1>3, BuildLets

\* errCh has room for an error of every worker, so the first is never dropped.
LEMMA BuildProcessFails ==
  ASSUME Build!BuildAssumption, Pooled, NEW w \in Workers, Build!ProcessFails(w) PROVE Pooled'
<1>1. /\ worker[w].step = "work" /\ worker' = [worker EXCEPT ![w] = Build!Idle]
      /\ UNCHANGED <<build, migDirs, ctx, next, jobs, closed, results>>
      /\ errs' = IF Len(errs) < Build!NumWorkers THEN Append(errs, worker[w].job) ELSE errs
  BY DEF Build!ProcessFails
<1>2. Build!NumWorkers \in Nat /\ Build!NumWorkers # 0
  <2>1. Build!NumWorkers = Cardinality(Workers) /\ IsFiniteSet(Workers)
    BY DEF Build!NumWorkers, Build!Cardinality, Cardinality, Build!BuildAssumption, Build!IsFiniteSet, IsFiniteSet
  <2>2. Cardinality(Workers) \in Nat
    BY <2>1, FS_CardinalityType
  <2>3. Cardinality(Workers) # 0
    BY <2>1, FS_EmptySet
  <2> QED BY <2>1, <2>2, <2>3
<1>3. worker[w].job \in 1..Len(Files) /\ errs \in Seq(1..Len(Files))
  BY <1>1 DEF Pooled, Build!Idle
<1>4. errs' \in Seq(1..Len(Files)) /\ errs' # <<>>
  <2>1. CASE errs = <<>>
    <3>1. Len(errs) < Build!NumWorkers
      BY <1>2, <2>1
    <3> QED BY <1>1, <1>3, <3>1
  <2>2. CASE errs # <<>>
    <3>1. /\ Append(errs, worker[w].job) \in Seq(1..Len(Files))
          /\ Len(Append(errs, worker[w].job)) = Len(errs) + 1 /\ Len(errs) \in Nat
      BY <1>3
    <3>2. Append(errs, worker[w].job) # <<>>
      BY <3>1
    <3> QED BY <1>1, <1>3, <2>2, <3>1, <3>2
  <2> QED BY <2>1, <2>2
<1>5. \A f \in DOMAIN results' : results'[f] = ResultOf(f)
  BY <1>1 DEF Pooled
<1> QED BY <1>1, <1>4, <1>5, BuildLets

LEMMA BuildFails ==
  ASSUME BuildInv, Build!Fail PROVE BuildInv'
BY DEF BuildInv, Build!Fail, Build!BuildAssumption

\* All is drained without an error: every file has its result.
LEMMA BuildGathers ==
  ASSUME Build!BuildAssumption, Pooled, Build!Drained, ctx # "cancelled", errs = <<>>, Build!Gathered
  PROVE  Folding'
<1>1. Len(Files) \in Nat /\ Build!Indexes = 1..Len(Files)
  BY BuildInputs
<1>2. closed /\ jobs = <<>> /\ \A w \in Workers : worker[w] = Build!Idle
  BY DEF Build!Drained
<1>3. \A f \in 1..Len(Files) : f < next /\ ~Held(f)
  BY <1>1, <1>2 DEF Pooled, Held, Build!Idle
<1>4. \A f \in 1..Len(Files) : Build!Result(f) = ResultOf(f)
  BY <1>3 DEF Pooled, Build!Result
<1> DEFINE cs == [i \in Build!Indexes |-> Build!Result(i).chunks]
           vs == [i \in Build!Indexes |-> Build!Result(i).vecs]
<1>5. /\ chunks' = Flat(cs) /\ dirs' = Build!Folded
      /\ vecs' = IF build.hasModel THEN Flat(vs) ELSE <<>>
      /\ UNCHANGED <<build, migDirs, worker>>
  BY DEF Build!Gathered, Build!Pool, Flat
<1>6. cs = OfFiles
  BY <1>1, <1>4 DEF ResultOf, OfFiles
<1>7. vs = [f \in 1..Len(Files) |-> VecsFor(Chunked(f))]
  BY <1>1, <1>4 DEF ResultOf
<1> HIDE DEF cs, vs
<1>8. OfFiles \in Seq(Seq(Chunks)) /\ Len(OfFiles) = Len(Files) /\ Flat(OfFiles) \in Seq(Chunks)
  BY SerialType
<1>9. vecs' = VecsFor(Flat(OfFiles))
  <2>1. CASE Build!Embeds
    <3>1. vs = [f \in 1..Len(OfFiles) |-> Build!VecsOf(OfFiles[f])]
      BY <1>1, <1>7, <1>8, <2>1 DEF VecsFor, OfFiles
    <3>2. Flat(vs) = Build!VecsOf(Flat(OfFiles))
      BY <1>8, <3>1, FlatOfVecs
    <3> QED BY <1>5, <2>1, <3>2 DEF VecsFor, Build!Embeds
  <2>2. CASE ~Build!Embeds
    <3>1. vs = [f \in 1..Len(Files) |-> <<>>]
      BY <1>7, <2>2 DEF VecsFor
    <3>2. vs \in Seq({<<>>})
      BY <1>1, <3>1
    <3>3. Flat(vs) = <<>>
      BY <3>2, FlatOfNothing
    <3> QED BY <1>5, <2>2, <3>3 DEF VecsFor
  <2> QED BY <2>1, <2>2
<1>10. Flat(FirstDirs(0)) = <<>>
  <2>1. FirstDirs(0) \in Seq({<<>>})
    BY DEF FirstDirs
  <2> QED BY <2>1, FlatOfNothing
<1>11. chunks' = Flat(OfFiles) \o Flat(FirstDirs(0))
  BY <1>5, <1>6, <1>8, <1>10
<1>12. Build!Folded \in Seq(Elements(DirOrder))
  BY FoldedType
<1>13. /\ dirs' \in Seq(Elements(DirOrder)) /\ Len(dirs') = Len(Build!Folded) - 0
       /\ \A i \in 1..Len(dirs') : dirs'[i] = Build!Folded[i + 0]
  BY <1>5, <1>12
<1>14. /\ Build!Folded' = Build!Folded /\ OfFiles' = OfFiles /\ OfDirs' = OfDirs /\ Build!Embeds' = Build!Embeds
  BY <1>5, SerialFixed
<1>15. FoldedTo(0)'
  BY <1>11, <1>13, <1>14 DEF FoldedTo, FirstDirs
<1>16. Waiting'
  BY <1>2, <1>5 DEF Waiting, Pooled
<1>17. vecs' = VecsFor(chunks')
  BY <1>5, <1>6, <1>9
<1>18. (vecs = VecsFor(chunks))'
  BY <1>14, <1>17 DEF VecsFor
<1>19. Len(Build!Folded)' \in Nat
  BY <1>12, <1>14
<1> QED BY <1>15, <1>16, <1>18, <1>19 DEF Folding

LEMMA ConcatAssociates ==
  ASSUME NEW S, NEW a \in Seq(S), NEW b \in Seq(S), NEW c \in Seq(S)
  PROVE  (a \o b) \o c = a \o (b \o c)
OBVIOUS

\* One directory more.
LEMMA BuildFolds ==
  ASSUME Build!BuildAssumption, Folding, Build!FoldDir, ctx # "cancelled"
  PROVE  Folding'
<1>1. PICK n \in 0..Len(Build!Folded) : FoldedTo(n)
  BY DEF Folding
<1> DEFINE cs == OfDir(Head(dirs))
           a == Flat(OfFiles)
           b == Flat(FirstDirs(n))
<1>2. /\ dirs # <<>> /\ chunks' = chunks \o cs /\ dirs' = Tail(dirs)
      /\ vecs' = IF Build!Embeds THEN vecs \o Build!VecsOf(cs) ELSE vecs
      /\ UNCHANGED <<build, migDirs, worker>>
  BY DEF Build!FoldDir, OfDir, Build!Pool
<1>3. Build!Folded \in Seq(Elements(DirOrder)) /\ \A d \in Elements(DirOrder) : OfDir(d) \in Seq(Chunks)
  BY FoldedType
<1>4. Len(Build!Folded) \in Nat /\ n \in Nat
  BY <1>3
<1>5. /\ dirs \in Seq(Elements(DirOrder)) /\ Len(dirs) = Len(Build!Folded) - n
      /\ \A i \in 1..Len(dirs) : dirs[i] = Build!Folded[i + n]
      /\ chunks = a \o b
  BY <1>1 DEF FoldedTo
<1>6. /\ Len(dirs) > 0 /\ Head(dirs) = dirs[1] /\ dirs' \in Seq(Elements(DirOrder)) /\ Len(dirs') = Len(dirs) - 1
      /\ \A i \in 1..Len(dirs') : dirs'[i] = dirs[i + 1]
  BY <1>2, <1>5
<1>7. n + 1 \in 0..Len(Build!Folded) /\ n + 1 \in 1..Len(Build!Folded) /\ Head(dirs) = Build!Folded[n + 1]
  <2>1. 1 \in 1..Len(dirs) /\ 1 + n = n + 1
    BY <1>4, <1>5, <1>6
  <2> QED BY <1>4, <1>5, <1>6, <2>1
<1>8. OfDirs \in Seq(Seq(Chunks)) /\ Len(OfDirs) = Len(Build!Folded) /\ a \in Seq(Chunks)
  BY SerialType
<1>9. /\ FirstDirs(n) \in Seq(Seq(Chunks)) /\ Len(FirstDirs(n)) = n
      /\ FirstDirs(n + 1) \in Seq(Seq(Chunks)) /\ Len(FirstDirs(n + 1)) = n + 1
      /\ \A i \in 1..n : FirstDirs(n + 1)[i] = FirstDirs(n)[i]
      /\ FirstDirs(n + 1)[n + 1] = OfDirs[n + 1]
  BY <1>4, <1>7, <1>8 DEF FirstDirs
<1>10. OfDirs[n + 1] = cs
  BY <1>3, <1>7 DEF OfDirs
<1>11. b \in Seq(Chunks) /\ cs \in Seq(Chunks)
  BY <1>8, <1>7, <1>9, <1>10, FlatType
<1>12. Flat(FirstDirs(n + 1)) = b \o cs
  BY <1>9, <1>10, FlatAppend
<1> HIDE DEF a, b, cs
<1>13. chunks' = a \o Flat(FirstDirs(n + 1)) /\ chunks \in Seq(Chunks)
  <2>1. (a \o b) \o cs = a \o (b \o cs)
    BY <1>8, <1>11, ConcatAssociates
  <2>2. a \o b \in Seq(Chunks)
    BY <1>8, <1>11
  <2> QED BY <1>2, <1>5, <1>12, <2>1, <2>2
<1>14. vecs' = VecsFor(chunks')
  <2>1. Build!VecsOf(chunks \o cs) = Build!VecsOf(chunks) \o Build!VecsOf(cs)
    BY <1>11, <1>13, VecsJoin
  <2> QED BY <1>2, <2>1 DEF VecsFor, Folding
<1>15. /\ Build!Folded' = Build!Folded /\ OfFiles' = OfFiles /\ OfDirs' = OfDirs /\ Build!Embeds' = Build!Embeds
  BY <1>2, SerialFixed
<1>16. /\ Len(dirs') = Len(Build!Folded) - (n + 1)
       /\ \A i \in 1..Len(dirs') : dirs'[i] = Build!Folded[i + (n + 1)]
  <2>1. Len(dirs') = Len(Build!Folded) - (n + 1)
    BY <1>4, <1>5, <1>6
  <2>2. ASSUME NEW i \in 1..Len(dirs') PROVE dirs'[i] = Build!Folded[i + (n + 1)]
    <3>1. i + 1 \in 1..Len(dirs) /\ (i + 1) + n = i + (n + 1)
      BY <1>4, <1>5, <1>6, <2>1
    <3> QED BY <1>5, <1>6, <3>1
  <2> QED BY <2>1, <2>2
<1>17. FoldedTo(n + 1)'
  BY <1>6, <1>13, <1>15, <1>16 DEF FoldedTo, FirstDirs, a
<1>18. Waiting' /\ (vecs = VecsFor(chunks))'
  BY <1>2, <1>14, <1>15 DEF Folding, Waiting, VecsFor
<1> QED BY <1>7, <1>15, <1>17, <1>18 DEF Folding

\* Every directory is folded: the chunks are those of the serial build.
LEMMA BuildTokenizes ==
  ASSUME Build!BuildAssumption, Folding, dirs = <<>>
  PROVE  chunks = Build!Whole /\ chunks \in Seq(Chunks)
<1>1. PICK n \in 0..Len(Build!Folded) : FoldedTo(n)
  BY DEF Folding
<1>2. Len(Build!Folded) \in Nat
  BY FoldedType
<1>3. n = Len(Build!Folded) /\ chunks = Flat(OfFiles) \o Flat(FirstDirs(n))
  BY <1>1, <1>2 DEF FoldedTo
<1>4. /\ OfDirs \in Seq(Seq(Chunks)) /\ Len(OfDirs) = Len(Build!Folded)
      /\ Build!Whole = Flat(OfFiles) \o Flat(OfDirs) /\ Build!Whole \in Seq(Chunks)
  BY SerialType
<1>5. FirstDirs(n) = OfDirs
  BY <1>3, <1>4 DEF FirstDirs
<1> QED BY <1>3, <1>4, <1>5

LEMMA BuildStartsTokens ==
  ASSUME BuildInv, Build!StartTokenize
  PROVE  BuildInv'
<1>1. stage = "fold" /\ dirs = <<>> /\ Folding /\ Build!BuildAssumption
  BY DEF Build!StartTokenize, BuildInv
<1>2. chunks = Build!Whole /\ chunks \in Seq(Chunks)
  BY <1>1, BuildTokenizes
<1>3. CASE Build!Fail
  BY <1>3, BuildFails
<1>4. CASE ~Build!Fail
  <2>1. /\ stage' = "tokenize" /\ next' = 1 /\ docs' = [i \in DOMAIN chunks |-> Build!Blank]
        /\ UNCHANGED <<build, migDirs, worker, chunks, vecs>>
    BY <1>4 DEF Build!StartTokenize
  <2>2. Build!Whole' = Build!Whole /\ Build!Embeds' = Build!Embeds
    BY <2>1, SerialFixed
  <2>3. chunks' = Build!Whole' /\ (vecs = VecsFor(chunks))'
    BY <1>1, <1>2, <2>1, <2>2 DEF Folding, VecsFor
  <2>4. DOMAIN chunks = 1..Len(chunks) /\ Len(chunks) \in Nat
    BY <1>2
  <2>5. docs' \in [1..Len(chunks) -> {Build!Blank} \cup {Build!Tokens(c) : c \in Chunks}]
    BY <2>1, <2>4
  <2>6. worker' = [w \in Workers |-> Build!Idle]
    BY <1>1, <2>1 DEF Folding, Waiting
  <2>7. worker' \in [Workers -> {Build!Idle} \cup [step : {"tokenize"}, job : 1..Len(chunks)]]
    BY <2>6
  <2>8. \A i \in 1..Len(chunks) : ~(i < next')
    BY <2>1, <2>4
  <2>9. Tokenizing'
    BY <2>1, <2>3, <2>5, <2>7, <2>8 DEF Tokenizing
  <2> QED BY <1>1, <2>1, <2>9 DEF BuildInv
<1> QED BY <1>3, <1>4

LEMMA BuildInlines ==
  ASSUME Build!BuildAssumption, Tokenizing, Build!TokenizeInline
  PROVE  Tokenizing'
<1>1. /\ docs' = [i \in DOMAIN chunks |-> Build!Tokens(chunks[i])] /\ next' = Len(chunks) + 1
      /\ UNCHANGED <<build, migDirs, worker, chunks, vecs>>
  BY DEF Build!TokenizeInline
<1>2. chunks \in Seq(Chunks) /\ chunks = Build!Whole
  BY SerialType DEF Tokenizing
<1>3. DOMAIN chunks = 1..Len(chunks) /\ Len(chunks) \in Nat /\ \A i \in 1..Len(chunks) : chunks[i] \in Chunks
  BY <1>2
<1>4. Build!Whole' = Build!Whole /\ Build!Embeds' = Build!Embeds
  BY <1>1, SerialFixed
<1>5. docs' \in [1..Len(chunks) -> {Build!Blank} \cup {Build!Tokens(c) : c \in Chunks}]
  BY <1>1, <1>3
<1>6. \A i \in 1..Len(chunks) : docs'[i] = Build!Tokens(chunks[i])
  BY <1>1, <1>3
<1>7. (vecs = VecsFor(chunks))'
  BY <1>1, <1>4 DEF Tokenizing, VecsFor
<1> QED BY <1>1, <1>2, <1>3, <1>4, <1>5, <1>6, <1>7 DEF Tokenizing

LEMMA BuildClaims ==
  ASSUME Build!BuildAssumption, Tokenizing, NEW w \in Workers, Build!Claim(w)
  PROVE  Tokenizing'
<1>1. /\ worker[w] = Build!Idle /\ next <= Len(chunks) /\ next' = next + 1
      /\ worker' = [worker EXCEPT ![w] = [step |-> "tokenize", job |-> next]]
      /\ UNCHANGED <<build, migDirs, chunks, vecs, docs>>
  BY DEF Build!Claim, Build!Product
<1>2. chunks \in Seq(Chunks)
  BY SerialType DEF Tokenizing
<1>3. Len(chunks) \in Nat /\ next \in 1..Len(chunks)
  BY <1>1, <1>2 DEF Tokenizing
<1>4. Build!Whole' = Build!Whole /\ Build!Embeds' = Build!Embeds
  BY <1>1, SerialFixed
<1>5. worker' \in [Workers -> {Build!Idle} \cup [step : {"tokenize"}, job : 1..Len(chunks)]]
  BY <1>1, <1>3 DEF Tokenizing
<1>6. worker'[w].step # "idle" /\ worker'[w].job = next /\ worker[w].step = "idle"
      /\ \A v \in Workers : v # w => worker'[v] = worker[v]
  BY <1>1 DEF Tokenizing, Build!Idle
<1>7. \A i \in 1..Len(chunks) : i < next' => i < next \/ i = next
  BY <1>1, <1>3
<1>8. ASSUME NEW i \in 1..Len(chunks), i < next'
      PROVE  docs'[i] = Build!Tokens(chunks[i]) \/ \E v \in Workers : worker'[v].step # "idle" /\ worker'[v].job = i
  <2>1. CASE i = next
    BY <1>6, <2>1
  <2>2. CASE i < next
    BY <1>1, <1>6, <2>2 DEF Tokenizing
  <2> QED BY <1>7, <1>8, <2>1, <2>2
<1>9. (vecs = VecsFor(chunks))'
  BY <1>1, <1>4 DEF Tokenizing, VecsFor
<1> QED BY <1>1, <1>3, <1>4, <1>5, <1>8, <1>9 DEF Tokenizing

LEMMA BuildFills ==
  ASSUME Build!BuildAssumption, Tokenizing, NEW w \in Workers, Build!Tokenize(w)
  PROVE  Tokenizing'
<1> DEFINE j == worker[w].job
<1>1. /\ worker[w].step = "tokenize" /\ docs' = [docs EXCEPT ![j] = Build!Tokens(chunks[j])]
      /\ worker' = [worker EXCEPT ![w] = Build!Idle]
      /\ UNCHANGED <<build, migDirs, chunks, vecs, next>>
  BY DEF Build!Tokenize
<1>2. chunks \in Seq(Chunks)
  BY SerialType DEF Tokenizing
<1>3. Len(chunks) \in Nat /\ j \in 1..Len(chunks) /\ chunks[j] \in Chunks
  <2>1. worker[w] \in [step : {"tokenize"}, job : 1..Len(chunks)]
    BY <1>1 DEF Tokenizing, Build!Idle
  <2> QED BY <1>2, <2>1
<1>4. Build!Whole' = Build!Whole /\ Build!Embeds' = Build!Embeds
  BY <1>1, SerialFixed
<1>5. worker' \in [Workers -> {Build!Idle} \cup [step : {"tokenize"}, job : 1..Len(chunks)]]
  BY <1>1 DEF Tokenizing
<1>6. /\ \A v \in Workers : v # w => worker'[v] = worker[v]
      /\ docs'[j] = Build!Tokens(chunks[j]) /\ \A i \in 1..Len(chunks) : i # j => docs'[i] = docs[i]
  BY <1>1, <1>3 DEF Tokenizing
<1>7. docs' \in [1..Len(chunks) -> {Build!Blank} \cup {Build!Tokens(c) : c \in Chunks}]
  BY <1>1, <1>3 DEF Tokenizing
<1> HIDE DEF j
<1>8. ASSUME NEW i \in 1..Len(chunks), i < next
      PROVE  docs'[i] = Build!Tokens(chunks[i]) \/ \E v \in Workers : worker'[v].step # "idle" /\ worker'[v].job = i
  <2>1. CASE i = j
    BY <1>6, <2>1
  <2>2. CASE i # j
    BY <1>6, <1>8, <2>2 DEF Tokenizing, j
  <2> QED BY <2>1, <2>2
<1>9. (vecs = VecsFor(chunks))'
  BY <1>1, <1>4 DEF Tokenizing, VecsFor
<1> QED BY <1>1, <1>4, <1>5, <1>7, <1>8, <1>9 DEF Tokenizing

LEMMA BuildEnds ==
  ASSUME BuildInv, Build!BuildIndex
  PROVE  BuildInv'
<1>1. /\ Tokenizing /\ Build!BuildAssumption /\ stage' = "built" /\ next > Len(chunks)
      /\ \A w \in Workers : worker[w] = Build!Idle
      /\ UNCHANGED <<build, migDirs, worker, chunks, vecs, docs>>
  BY DEF BuildInv, Build!BuildIndex, Build!Pool, Build!Product
<1>2. chunks \in Seq(Chunks) /\ chunks = Build!Whole
  BY <1>1, SerialType DEF Tokenizing
<1>3. DOMAIN chunks = 1..Len(chunks) /\ Len(chunks) \in Nat
  BY <1>2
<1>4. \A i \in 1..Len(chunks) : docs[i] = Build!Tokens(chunks[i])
  BY <1>1, <1>3 DEF Tokenizing, Build!Idle
<1>5. docs = [i \in DOMAIN Build!Whole |-> Build!Tokens(Build!Whole[i])]
  BY <1>1, <1>2, <1>3, <1>4 DEF Tokenizing
<1>6. Build!Whole' = Build!Whole /\ Build!Embeds' = Build!Embeds
  BY <1>1, SerialFixed
<1>7. vecs = IF Build!Embeds THEN Build!VecsOf(Build!Whole) ELSE <<>>
  BY <1>1, <1>2 DEF Tokenizing, VecsFor
<1>8. Waiting'
  BY <1>1 DEF Waiting, Tokenizing
<1>9. Build!BuildIsSerial'
  BY <1>1, <1>2, <1>5, <1>6, <1>7 DEF Build!BuildIsSerial
<1> QED BY <1>1, <1>8, <1>9 DEF BuildInv

\* What the phases have made stays while nothing of it changes.
LEMMA BuildStays ==
  ASSUME BuildInv, ctx' = "cancelled" \/ ctx' = ctx,
         UNCHANGED <<build, migDirs, next, jobs, closed, worker, errs, results, chunks, vecs, dirs, docs, stage>>
  PROVE  BuildInv'
<1>1. /\ \A f : ResultOf(f)' = ResultOf(f)
      /\ Build!Folded' = Build!Folded /\ OfFiles' = OfFiles /\ OfDirs' = OfDirs
      /\ Build!Whole' = Build!Whole /\ Build!Embeds' = Build!Embeds
  BY SerialFixed
<1>2. (vecs = VecsFor(chunks)) => (vecs = VecsFor(chunks))'
  BY <1>1 DEF VecsFor
<1>3. Starting => Starting'
  BY DEF Starting, Waiting
<1>4. Pooled => Pooled'
  BY <1>1 DEF Pooled, Held
<1>5. \A n : FoldedTo(n) => FoldedTo(n)'
  BY <1>1 DEF FoldedTo, FirstDirs
<1>6. Folding => Folding'
  BY <1>1, <1>2, <1>5 DEF Folding, Waiting
<1>7. Tokenizing => Tokenizing'
  BY <1>1, <1>2 DEF Tokenizing
<1>8. Waiting /\ Build!BuildIsSerial => (Waiting /\ Build!BuildIsSerial)'
  BY <1>1 DEF Waiting, Build!BuildIsSerial
<1> QED BY <1>3, <1>4, <1>6, <1>7, <1>8 DEF BuildInv

LEMMA BuildNext == BuildInv /\ [Build!Next]_Build!vars => BuildInv'
<1> SUFFICES ASSUME BuildInv, [Build!Next]_Build!vars PROVE BuildInv'
  OBVIOUS
<1>0. Build!BuildAssumption
  BY DEF BuildInv
<1>a. CASE UNCHANGED Build!vars
  BY <1>a, BuildStays DEF Build!vars
<1>b. \A w \in Workers : /\ worker[w].step \in {"taken", "work"} => stage \notin {"start", "fold", "tokenize", "built"}
                         /\ worker[w].step = "tokenize" => stage \notin {"start", "pool", "fold", "built"}
  BY DEF BuildInv, Starting, Pooled, Folding, Tokenizing, Waiting, Build!Idle
<1>1. CASE Build!Start
  <2>1. CASE Build!Fail
    BY <2>1, BuildFails
  <2>2. CASE ~Build!Fail
    <3>1. /\ stage = "start" /\ stage' = "pool"
          /\ UNCHANGED <<next, jobs, closed, worker, errs, results>>
      BY <1>1, <2>2 DEF Build!Start, Build!Pool
    <3>2. Pooled'
      BY <3>1, <1>0, BuildInputs DEF BuildInv, Starting, Waiting, Pooled
    <3> QED BY <1>0, <3>1, <3>2 DEF BuildInv
  <2> QED BY <2>1, <2>2
<1>2. CASE Build!Feed
  <2>1. stage = "pool" /\ stage' = "pool"
    BY <1>2 DEF Build!Feed
  <2> QED BY <1>0, <1>2, <2>1, BuildFeeds DEF BuildInv
<1>3. CASE Build!CloseJobs
  <2>1. stage = "pool" /\ stage' = "pool"
    BY <1>3 DEF Build!CloseJobs
  <2> QED BY <1>0, <1>3, <2>1, BuildCloses DEF BuildInv
<1>4. CASE Build!Gather
  <2>1. CASE Build!Fail
    BY <2>1, BuildFails
  <2>2. CASE ~Build!Fail
    <3>1. stage = "pool" /\ Build!Drained /\ Build!Gathered /\ ctx # "cancelled" /\ errs = <<>>
      BY <1>4, <2>2 DEF Build!Gather, Build!Drained
    <3>2. stage' = "fold" /\ Pooled
      BY <3>1 DEF Build!Gathered, BuildInv
    <3> QED BY <1>0, <3>1, <3>2, BuildGathers DEF BuildInv
  <2> QED BY <2>1, <2>2
<1>5. CASE Build!FoldDir
  <2>1. CASE Build!Fail
    BY <2>1, BuildFails
  <2>2. CASE ~Build!Fail
    <3>1. stage = "fold" /\ stage' = "fold" /\ ctx # "cancelled"
      BY <1>5, <2>2 DEF Build!FoldDir
    <3> QED BY <1>0, <1>5, <3>1, BuildFolds DEF BuildInv
  <2> QED BY <2>1, <2>2
<1>6. CASE Build!StartTokenize
  BY <1>6, BuildStartsTokens
<1>7. CASE Build!TokenizeInline
  <2>1. stage = "tokenize" /\ stage' = "tokenize"
    BY <1>7 DEF Build!TokenizeInline
  <2> QED BY <1>0, <1>7, <2>1, BuildInlines DEF BuildInv
<1>8. CASE Build!BuildIndex
  BY <1>8, BuildEnds
<1>9. CASE Build!Cancel
  BY <1>9, BuildStays DEF Build!Cancel, Build!Pool, Build!Product
<1>10. ASSUME NEW w \in Workers, Build!Take(w) PROVE BuildInv'
  <2>1. stage = "pool" /\ stage' = "pool"
    BY <1>10 DEF Build!Take
  <2> QED BY <1>0, <1>10, <2>1, BuildTakes DEF BuildInv
<1>11. ASSUME NEW w \in Workers, Build!CheckCtx(w) PROVE BuildInv'
  <2>1. stage' = stage /\ stage \notin {"start", "fold", "tokenize", "built"}
    BY <1>b, <1>11 DEF Build!CheckCtx
  <2> QED BY <1>0, <1>11, <2>1, BuildChecks DEF BuildInv
<1>12. ASSUME NEW w \in Workers, Build!Process(w) PROVE BuildInv'
  <2>1. stage' = stage /\ stage \notin {"start", "fold", "tokenize", "built"}
    BY <1>b, <1>12 DEF Build!Process
  <2> QED BY <1>0, <1>12, <2>1, BuildProcesses DEF BuildInv
<1>13. ASSUME NEW w \in Workers, Build!ProcessFails(w) PROVE BuildInv'
  <2>1. stage' = stage /\ stage \notin {"start", "fold", "tokenize", "built"}
    BY <1>b, <1>13 DEF Build!ProcessFails
  <2> QED BY <1>0, <1>13, <2>1, BuildProcessFails DEF BuildInv
<1>14. ASSUME NEW w \in Workers, Build!Claim(w) PROVE BuildInv'
  <2>1. stage = "tokenize" /\ stage' = "tokenize"
    BY <1>14 DEF Build!Claim
  <2> QED BY <1>0, <1>14, <2>1, BuildClaims DEF BuildInv
<1>15. ASSUME NEW w \in Workers, Build!Tokenize(w) PROVE BuildInv'
  <2>1. stage' = stage /\ stage \notin {"start", "pool", "fold", "built"}
    BY <1>b, <1>15 DEF Build!Tokenize
  <2> QED BY <1>0, <1>15, <2>1, BuildFills DEF BuildInv
<1> QED BY <1>a, <1>1, <1>2, <1>3, <1>4, <1>5, <1>6, <1>7, <1>8, <1>9, <1>10, <1>11, <1>12, <1>13, <1>14, <1>15
        DEF Build!Next

(* An index that a build returns is the one a serial build of the same files   *)
(* makes, chunk by chunk with its vector and its tokens, whatever the workers,*)
(* the errors and the moment of a cancellation: of any files, directories,    *)
(* options and number of workers (walkAndChunkFSWithModel, parallelTokenize).  *)
THEOREM BuildsAreSerial == PartsSpec => []BuildIsSerial
<1> DEFINE Inv == part = "build" => BuildInv
<1>1. PartsInit => Inv
  BY PartsStart, PartsAssumption, BuildInit
<1>2. Inv /\ [PartsNext]_<<part, partsVars>> => Inv'
  BY PartsStep, BuildNext
<1>3. Inv => BuildIsSerial
  BY DEF BuildInv, Build!BuildIsSerial, BuildIsSerial
<1> QED BY <1>1, <1>2, <1>3, PTL DEF PartsSpec

-----------------------------------------------------------------------------
(* The index file.  Each record ends where the one before it does and its      *)
(* size later, and a record has a size: the ends grow.                        *)
Sized == [name : ChunkNames, tomb : BOOLEAN]
RowSet == [of : ChunkNames, exact : BOOLEAN]

LEMMA RecordSize ==
  ASSUME File!FileAssumption, NEW cs \in Seq(Sized), NEW k \in 1..Len(cs)
  PROVE  SizeOf[cs[k].name] \in Nat /\ SizeOf[cs[k].name] >= MinChunkBytes
<1>1. cs[k] \in Sized
  OBVIOUS
<1>2. cs[k].name \in ChunkNames
  BY <1>1 DEF Sized
<1>3. SizeOf \in [ChunkNames -> Nat] /\ \A c \in ChunkNames : SizeOf[c] >= MinChunkBytes
  BY DEF File!FileAssumption
<1> QED BY <1>2, <1>3

LEMMA EndsStep ==
  ASSUME File!FileAssumption, NEW cs \in Seq(Sized)
  PROVE  /\ File!Ends(cs) \in [0..Len(cs) -> Nat]
         /\ File!Ends(cs)[0] = 0
         /\ \A k \in 1..Len(cs) : File!Ends(cs)[k] = File!Ends(cs)[k - 1] + SizeOf[cs[k].name]
<1> DEFINE size(n) == IF n < Len(cs) THEN SizeOf[cs[n + 1].name] ELSE 0
           step == [n \in Nat |-> [v \in Nat |-> v + size(n)]]
<1>0. \A k \in 1..Len(cs) : SizeOf[cs[k].name] \in Nat
  BY RecordSize
<1>1. step \in [Nat -> [Nat -> Nat]]
  <2>1. \A n \in Nat : n < Len(cs) => n + 1 \in 1..Len(cs)
    OBVIOUS
  <2>2. \A n \in Nat : size(n) \in Nat
    BY <1>0, <2>1
  <2> HIDE DEF size
  <2>3. \A n \in Nat : [v \in Nat |-> v + size(n)] \in [Nat -> Nat]
    BY <2>2
  <2> QED BY <2>3
<1>2. PICK f \in [Nat -> Nat] : f[0] = 0 /\ \A n \in Nat : f[n + 1] = step[n][f[n]]
  <2> HIDE DEF step
  <2>1. PICK f : Iterates(f, Nat, 0, step)
    BY <1>1, RecursionOnNat
  <2> QED BY <2>1 DEF Iterates
<1>3. \A k \in 1..Len(cs) : f[k] = f[k - 1] + SizeOf[cs[k].name]
  <2> SUFFICES ASSUME NEW k \in 1..Len(cs)
               PROVE  f[k] = f[k - 1] + SizeOf[cs[k].name]
    OBVIOUS
  <2>1. k - 1 \in Nat /\ k - 1 < Len(cs) /\ (k - 1) + 1 = k
    OBVIOUS
  <2>2. f[(k - 1) + 1] = step[k - 1][f[k - 1]]
    BY <1>2, <2>1
  <2> QED BY <1>2, <2>1, <2>2
<1> HIDE DEF step
<1> DEFINE Rec(g) == g = [k \in 0..Len(cs) |-> IF k = 0 THEN 0 ELSE g[k - 1] + SizeOf[cs[k].name]]
           cut == [k \in 0..Len(cs) |-> f[k]]
<1>4. Rec(cut)
  <2>1. \A k \in 0..Len(cs) : k # 0 => k \in 1..Len(cs) /\ k - 1 \in 0..Len(cs)
    OBVIOUS
  <2>2. \A k \in 0..Len(cs) : k # 0 => cut[k] = f[k] /\ cut[k - 1] = f[k - 1]
    BY <2>1
  <2>3. \A k \in 0..Len(cs) : cut[k] = IF k = 0 THEN 0 ELSE cut[k - 1] + SizeOf[cs[k].name]
    BY <1>2, <1>3, <2>1, <2>2
  <2>4. cut = [k \in 0..Len(cs) |-> cut[k]]
    OBVIOUS
  <2> HIDE DEF cut
  <2> QED BY <2>3, <2>4
<1> DEFINE end == CHOOSE g : Rec(g)
<1>5. Rec(end)
  <2> HIDE DEF Rec, cut
  <2> QED BY <1>4
<1>6. File!Ends(cs) = end
  BY DEF File!Ends
<1> HIDE DEF end, cut
<1>7. end = [k \in 0..Len(cs) |-> end[k]] /\
      \A k \in 0..Len(cs) : end[k] = IF k = 0 THEN 0 ELSE end[k - 1] + SizeOf[cs[k].name]
  BY <1>5
<1> HIDE DEF Rec
<1> DEFINE same == {n \in Nat : n <= Len(cs) => end[n] = f[n]}
<1>8. 0 \in same
  <2>1. 0 \in 0..Len(cs)
    OBVIOUS
  <2>2. end[0] = 0
    BY <1>7, <2>1
  <2> QED BY <1>2, <2>2
<1>9. ASSUME NEW n \in Nat, n \in same PROVE n + 1 \in same
  <2> SUFFICES ASSUME n + 1 <= Len(cs) PROVE end[n + 1] = f[n + 1]
    OBVIOUS
  <2>1. n + 1 \in 1..Len(cs) /\ n + 1 \in 0..Len(cs) /\ (n + 1) - 1 = n /\ n + 1 # 0 /\ n <= Len(cs)
    OBVIOUS
  <2>2. end[n] = f[n]
    BY <1>9, <2>1
  <2>3. end[n + 1] = end[n] + SizeOf[cs[n + 1].name]
    BY <1>7, <2>1, Zenon
  <2>4. f[n + 1] = f[n] + SizeOf[cs[n + 1].name]
    BY <1>3, <2>1, Zenon
  <2> QED BY <2>2, <2>3, <2>4
<1>10. Nat \subseteq same
  BY <1>8, <1>9, NatSetInduction
<1>11. \A k \in 0..Len(cs) : end[k] = f[k] /\ end[k] \in Nat
  <2>1. \A k \in 0..Len(cs) : k \in Nat /\ k <= Len(cs) /\ f[k] \in Nat
    OBVIOUS
  <2>2. \A k \in 0..Len(cs) : k \in same
    BY <1>10, <2>1
  <2> QED BY <2>1, <2>2
<1>12. end \in [0..Len(cs) -> Nat]
  BY <1>7, <1>11, Zenon
<1>13. \A k \in 1..Len(cs) : k \in 0..Len(cs) /\ k - 1 \in 0..Len(cs)
  OBVIOUS
<1>14. end[0] = 0 /\ \A k \in 1..Len(cs) : end[k] = end[k - 1] + SizeOf[cs[k].name]
  <2>1. 0 \in 0..Len(cs)
    OBVIOUS
  <2> QED BY <1>2, <1>3, <1>11, <1>13, <2>1
<1> QED BY <1>6, <1>12, <1>14

LEMMA EndsGrow ==
  ASSUME File!FileAssumption, NEW cs \in Seq(Sized), NEW n \in 0..Len(cs)
  PROVE  /\ n * MinChunkBytes <= File!Ends(cs)[n]
         /\ \A k \in 0..Len(cs) : k < n => File!Ends(cs)[k] < File!Ends(cs)[n]
<1> DEFINE e == File!Ends(cs)
           T == {m \in Nat : m <= Len(cs) => m * MinChunkBytes <= e[m] /\ \A k \in 0..Len(cs) : k < m => e[k] < e[m]}
<1>1. /\ e \in [0..Len(cs) -> Nat] /\ e[0] = 0
      /\ \A k \in 1..Len(cs) : e[k] = e[k - 1] + SizeOf[cs[k].name]
  BY EndsStep
<1>2. \A k \in 1..Len(cs) : SizeOf[cs[k].name] \in Nat /\ SizeOf[cs[k].name] >= MinChunkBytes
  BY RecordSize
<1>3. MinChunkBytes \in Nat /\ MinChunkBytes > 0
  BY DEF File!FileAssumption
<1> HIDE DEF e
<1>4. 0 \in T
  <2>1. 0 * MinChunkBytes = 0 /\ ~ \E k \in 0..Len(cs) : k < 0
    BY <1>3
  <2> QED BY <1>1, <2>1
<1>5. ASSUME NEW m \in Nat, m \in T PROVE m + 1 \in T
  <2> SUFFICES ASSUME m + 1 <= Len(cs)
               PROVE  (m + 1) * MinChunkBytes <= e[m + 1] /\ \A k \in 0..Len(cs) : k < m + 1 => e[k] < e[m + 1]
    OBVIOUS
  <2>1. m + 1 \in 1..Len(cs) /\ m \in 0..Len(cs) /\ (m + 1) - 1 = m /\ m <= Len(cs)
    OBVIOUS
  <2>2. e[m + 1] = e[m] + SizeOf[cs[m + 1].name] /\ e[m] \in Nat
    BY <1>1, <2>1
  <2>3. SizeOf[cs[m + 1].name] \in Nat /\ SizeOf[cs[m + 1].name] >= MinChunkBytes
    BY <1>2, <2>1
  <2>4. m * MinChunkBytes <= e[m] /\ \A k \in 0..Len(cs) : k < m => e[k] < e[m]
    BY <1>5, <2>1
  <2>5. (m + 1) * MinChunkBytes = m * MinChunkBytes + MinChunkBytes /\ m * MinChunkBytes \in Nat
    BY <1>3
  <2>6. (m + 1) * MinChunkBytes <= e[m + 1]
    <3> DEFINE p == m * MinChunkBytes
               q == (m + 1) * MinChunkBytes
               d == SizeOf[cs[m + 1].name]
    <3>1. q = p + MinChunkBytes /\ p \in Nat /\ p <= e[m] /\ e[m + 1] = e[m] + d /\ d \in Nat
          /\ d >= MinChunkBytes /\ e[m] \in Nat
      BY <2>2, <2>3, <2>4, <2>5
    <3> HIDE DEF p, q, d
    <3>2. q <= e[m + 1]
      BY <1>3, <3>1
    <3> QED BY <3>2 DEF q
  <2>7. \A k \in 0..Len(cs) : k < m + 1 => k = m \/ k < m
    OBVIOUS
  <2>8. \A k \in 0..Len(cs) : k < m + 1 => e[k] < e[m + 1]
    <3> SUFFICES ASSUME NEW k \in 0..Len(cs), k < m + 1 PROVE e[k] < e[m + 1]
      OBVIOUS
    <3>a. e[k] \in Nat
      BY <1>1
    <3>b. k = m \/ e[k] < e[m]
      BY <2>4, <2>7
    <3>1. e[k] \in Nat /\ e[k] <= e[m]
      <4> HIDE DEF T
      <4> QED BY <2>2, <3>a, <3>b
    <3> DEFINE d == SizeOf[cs[m + 1].name]
    <3>2. d \in Nat /\ d > 0 /\ e[m + 1] = e[m] + d
      BY <1>3, <2>2, <2>3
    <3> HIDE DEF d
    <3> QED BY <2>2, <3>1, <3>2
  <2> QED BY <2>6, <2>8
<1>6. Nat \subseteq T
  BY <1>4, <1>5, NatSetInduction
<1>7. n \in T /\ n <= Len(cs)
  BY <1>6
<1> QED BY <1>7 DEF e

\* What is read back is as many records as were written when the length is
\* theirs, and not when it is not.
LEMMA DecodedAll ==
  ASSUME File!FileAssumption, NEW cs \in Seq(Sized), NEW len \in Nat
  PROVE  File!Decoded(cs, len) = Len(cs) <=> len = File!ChunksBytes(cs)
<1> DEFINE e == File!Ends(cs)
           n == Len(cs)
           read == {k \in 0..n : e[k] = len}
<1>1. n \in 0..n /\ n \in Nat /\ File!ChunksBytes(cs) = e[n]
  BY DEF File!ChunksBytes
<1>2. \A k \in 0..n : k < n => e[k] < e[n]
  BY <1>1, EndsGrow
<1>3. e \in [0..n -> Nat]
  BY EndsStep
<1>4. File!Decoded(cs, len) = IF read = {} THEN n + 1 ELSE File!Min(read)
  BY DEF File!Decoded
<1> HIDE DEF e
<1>5. CASE len = e[n]
  <2>1. read = {n}
    <3>1. \A k \in 0..n : k # n => k < n
      OBVIOUS
    <3>2. \A k \in 0..n : k # n => e[k] # e[n]
      BY <1>1, <1>2, <1>3, <3>1
    <3> QED BY <1>1, <1>5, <3>2
  <2>2. File!Min({n}) = n
    BY <1>1 DEF File!Min
  <2> QED BY <1>1, <1>4, <1>5, <2>1, <2>2
<1>6. CASE len # e[n]
  <2>1. n \notin read
    BY <1>6
  <2>2. CASE read = {}
    BY <1>1, <1>4, <1>6, <2>2
  <2>3. CASE read # {}
    <3>1. read \subseteq Nat
      OBVIOUS
    <3>2. \E x \in read : \A y \in read : x <= y
      <4> HIDE DEF read
      <4> QED BY <2>3, <3>1, Least
    <3>3. File!Min(read) \in read
      <4> HIDE DEF read
      <4> QED BY <3>2 DEF File!Min
    <3> QED BY <1>1, <1>4, <1>6, <2>1, <2>3, <3>3
  <2> QED BY <2>2, <2>3
<1> QED BY <1>1, <1>5, <1>6

-----------------------------------------------------------------------------
\* What is written of these chunks and rows, whatever fits its field.
VecBytes(vs) == Len(vs) * RowBytes
Written_File(w) ==
  LET b == [version |-> FormatVersion, mode |-> w.mode, chunker |-> w.chunker,
            n |-> Len(w.chunks), dim |-> IF w.mode # "bm25" /\ Len(w.chunks) # 0 THEN RowBytes ELSE 0,
            chunksLen |-> File!ChunksBytes(w.chunks) % Wrap, chunks |-> w.chunks,
            vecsLen |-> VecBytes(w.vecs) % Wrap, vecs |-> w.vecs]
  IN [body |-> b, crc |-> b, whole |-> TRUE]

Source(w) ==
  /\ w = [mode |-> w.mode, chunker |-> w.chunker, chunks |-> w.chunks, vecs |-> w.vecs]
  /\ w.chunks \in Seq(Sized) /\ w.vecs \in Seq(RowSet)
  /\ w.mode = "bm25" => w.vecs = <<>>
  /\ w.mode # "bm25" => Len(w.vecs) = Len(w.chunks)

Exact(r, w) == [mode |-> r.mode, chunker |-> r.chunker, chunks |-> r.chunks, vecs |-> r.vecs] = w
IsWanted(w, o) ==
  /\ o.mode \in {"", w.mode} /\ o.chunker \in {"", w.chunker}
  /\ w.mode = "bm25" \/ o.model
Fits(w) == File!ChunksBytes(w.chunks) < Wrap /\ Len(w.vecs) * RowBytes < Wrap

\* A section that outgrew its field reads shorter than it is, so it is refused.
LEMMA Remainder ==
  ASSUME NEW x \in Nat, NEW W \in Nat \ {0}
  PROVE  x % W \in Nat /\ x % W <= x /\ (x % W = x <=> x < W)
<1>1. x % W \in Nat /\ x % W < W /\ x % W <= x
  OBVIOUS
<1>2. x < W => x % W = x
  OBVIOUS
<1> QED BY <1>1, <1>2

\* No check fails, the ones of what was asked for aside, just when it fits.
LEMMA FileReads ==
  ASSUME File!FileAssumption, NEW w, Source(w), NEW f, f = Written_File(w), NEW o
  PROVE  /\ File!Deserialize(f, o).ok <=> IsWanted(w, o) /\ Fits(w)
         /\ File!Deserialize(f, o).ok => Exact(File!Deserialize(f, o), w)
<1> DEFINE n == Len(w.chunks)
           total == File!ChunksBytes(w.chunks)
           rowsTotal == VecBytes(w.vecs)
           b == f.body
<1>1. /\ b.version = FormatVersion /\ b.mode = w.mode /\ b.chunker = w.chunker /\ b.n = n
      /\ b.dim = IF w.mode # "bm25" /\ n # 0 THEN RowBytes ELSE 0
      /\ b.chunksLen = total % Wrap /\ b.chunks = w.chunks
      /\ b.vecsLen = rowsTotal % Wrap /\ b.vecs = w.vecs
      /\ f.whole = TRUE /\ f.crc = f.body
  BY DEF Written_File
<1>2. n \in Nat /\ total \in Nat /\ n * MinChunkBytes \in Nat /\ n * MinChunkBytes <= total
  <2>1. n \in 0..n /\ n \in Nat
    BY DEF Source
  <2>2. File!Ends(w.chunks) \in [0..n -> Nat]
    BY EndsStep DEF Source
  <2>3. n * MinChunkBytes <= File!Ends(w.chunks)[n]
    BY <2>1, EndsGrow DEF Source
  <2>4. n * MinChunkBytes \in Nat
    BY <2>1 DEF File!FileAssumption
  <2> QED BY <2>1, <2>2, <2>3, <2>4 DEF File!ChunksBytes
<1>3. rowsTotal \in Nat /\ RowBytes \in Nat /\ RowBytes > 0 /\ n * RowBytes \in Nat
  BY <1>2 DEF File!FileAssumption, Source, VecBytes
<1>4. /\ total % Wrap \in Nat /\ total % Wrap <= total /\ (total % Wrap = total <=> total < Wrap)
      /\ rowsTotal % Wrap \in Nat /\ rowsTotal % Wrap <= rowsTotal /\ (rowsTotal % Wrap = rowsTotal <=> rowsTotal < Wrap)
  <2>1. Wrap \in Nat \ {0}
    BY DEF File!FileAssumption
  <2> HIDE DEF total, rowsTotal
  <2> QED BY <1>2, <1>3, <2>1, Remainder
<1>5. File!Decoded(b.chunks, b.chunksLen) = b.n <=> total % Wrap = total
  <2>1. File!Decoded(w.chunks, total % Wrap) = n <=> total % Wrap = total
    BY <1>4, DecodedAll DEF Source
  <2> QED BY <1>1, <2>1
<1>6. w.mode = "bm25" => rowsTotal = 0
  <2> SUFFICES ASSUME w.mode = "bm25" PROVE rowsTotal = 0
    OBVIOUS
  <2>1. w.vecs = <<>>
    BY DEF Source
  <2>2. Len(w.vecs) = 0
    BY <2>1
  <2> QED BY <1>3, <2>2 DEF VecBytes
<1>7. w.mode # "bm25" => rowsTotal = n * RowBytes /\ (n > 0 => rowsTotal > 0) /\ (n = 0 => rowsTotal = 0)
  <2>1. n > 0 => n * RowBytes > 0
    BY <1>2, <1>3
  <2>2. n = 0 => n * RowBytes = 0
    BY <1>3
  <2> QED BY <2>1, <2>2, <1>2 DEF Source, VecBytes
<1> DEFINE bad1 == o.chunker \notin {"", w.chunker}
           bad2 == o.mode \notin {"", w.mode}
           bad3 == w.mode # "bm25" /\ ~o.model
           bad4 == n * MinChunkBytes > total % Wrap
           bad5 == total % Wrap # total
           bad6 == b.vecsLen > 0 /\ (b.mode = "bm25" \/ b.vecsLen # b.n * b.dim)
           bad7 == b.vecsLen = 0 /\ b.mode # "bm25" /\ b.n > 0
           failed == {i \in DOMAIN <<"corrupt", "format version", "chunker", "mode", "model required",
               "corrupt", "corrupt", "corrupt", "corrupt">> :
        \/ i = 1 /\ ~File!CrcMatches(f)
        \/ i = 2 /\ b.version # FormatVersion
        \/ i = 3 /\ o.chunker \notin {"", b.chunker}
        \/ i = 4 /\ o.mode \notin {"", b.mode}
        \/ i = 5 /\ b.mode # "bm25" /\ ~o.model
        \/ i = 6 /\ b.n * MinChunkBytes > b.chunksLen
        \/ i = 7 /\ File!Decoded(b.chunks, b.chunksLen) # b.n
        \/ i = 8 /\ b.vecsLen > 0 /\ (b.mode = "bm25" \/ b.vecsLen # b.n * b.dim)
        \/ i = 9 /\ b.vecsLen = 0 /\ b.mode # "bm25" /\ b.n > 0}
<1>8. File!CrcMatches(f)
  BY <1>1 DEF File!CrcMatches
<1>9. failed = {} <=> ~bad1 /\ ~bad2 /\ ~bad3 /\ ~bad4 /\ ~bad5 /\ ~bad6 /\ ~bad7
  <2>1. failed = {i \in 1..9 : \/ i = 3 /\ bad1
                               \/ i = 4 /\ bad2
                               \/ i = 5 /\ bad3
                               \/ i = 6 /\ bad4
                               \/ i = 7 /\ bad5
                               \/ i = 8 /\ bad6
                               \/ i = 9 /\ bad7}
    <3> DEFINE d == File!Decoded(b.chunks, b.chunksLen)
               c == File!CrcMatches(f)
    <3>1. c /\ (d # b.n <=> bad5)
      BY <1>5, <1>8
    <3>2. DOMAIN <<"corrupt", "format version", "chunker", "mode", "model required",
               "corrupt", "corrupt", "corrupt", "corrupt">> = 1..9
      OBVIOUS
    <3>3. /\ b.version = FormatVersion
          /\ o.chunker \notin {"", b.chunker} <=> bad1
          /\ o.mode \notin {"", b.mode} <=> bad2
          /\ b.mode # "bm25" /\ ~o.model <=> bad3
          /\ b.n * MinChunkBytes > b.chunksLen <=> bad4
      BY <1>1
    <3> HIDE DEF d, c, bad1, bad2, bad3, bad4, bad5, bad6, bad7
    <3>4. failed = {i \in 1..9 :
        \/ i = 1 /\ ~c
        \/ i = 2 /\ b.version # FormatVersion
        \/ i = 3 /\ o.chunker \notin {"", b.chunker}
        \/ i = 4 /\ o.mode \notin {"", b.mode}
        \/ i = 5 /\ b.mode # "bm25" /\ ~o.model
        \/ i = 6 /\ b.n * MinChunkBytes > b.chunksLen
        \/ i = 7 /\ d # b.n
        \/ i = 8 /\ bad6
        \/ i = 9 /\ bad7}
      BY <3>2, Zenon DEF d, c, bad6, bad7
    <3> HIDE DEF failed
    <3> QED BY <3>1, <3>3, <3>4, Zenon
  <2> HIDE DEF failed, bad1, bad2, bad3, bad4, bad5, bad6, bad7
  <2> QED BY <2>1
<1>10. ~bad6 /\ ~bad7 <=> rowsTotal % Wrap = rowsTotal
  <2>1. CASE w.mode = "bm25"
    BY <1>1, <1>3, <1>4, <1>6, <2>1
  <2>2. CASE w.mode # "bm25"
    <3>1. CASE n = 0
      BY <1>1, <1>3, <1>4, <1>7, <2>2, <3>1
    <3>2. CASE n # 0
      <4>1. b.n * b.dim = rowsTotal /\ rowsTotal > 0 /\ b.n > 0
        BY <1>1, <1>2, <1>7, <2>2, <3>2
      <4> DEFINE t == rowsTotal % Wrap
                 area == b.n * b.dim
      <4>2. b.vecsLen = t /\ b.mode = w.mode /\ t \in Nat /\ area = rowsTotal /\ rowsTotal \in Nat
        BY <1>1, <1>3, <1>4, <4>1
      <4>3. (bad6 <=> t > 0 /\ t # rowsTotal) /\ (bad7 <=> t = 0)
        <5> HIDE DEF t, rowsTotal
        <5> QED BY <2>2, <4>1, <4>2
      <4> HIDE DEF t, rowsTotal, bad6, bad7
      <4>4. ~bad6 /\ ~bad7 <=> t = rowsTotal
        BY <4>1, <4>2, <4>3
      <4> QED BY <4>4 DEF t
    <3> QED BY <3>1, <3>2
  <2> QED BY <2>1, <2>2
<1>11. ~bad5 => ~bad4
  <2> DEFINE m == n * MinChunkBytes
             t == total % Wrap
  <2>1. m \in Nat /\ total \in Nat /\ m <= total /\ t \in Nat
    BY <1>2, <1>4
  <2> HIDE DEF m, total, t
  <2>2. ~(t # total) => ~(m > t)
    BY <2>1
  <2> QED BY <2>2 DEF m, t
<1>12. failed = {} <=> IsWanted(w, o) /\ Fits(w)
  <2>1. Fits(w) <=> ~bad5 /\ ~bad6 /\ ~bad7
    BY <1>4, <1>10 DEF Fits, VecBytes
  <2>2. IsWanted(w, o) <=> ~bad1 /\ ~bad2 /\ ~bad3
    BY DEF IsWanted
  <2> HIDE DEF failed, bad1, bad2, bad3, bad4, bad5, bad6, bad7
  <2> QED BY <1>9, <1>11, <2>1, <2>2
<1>13. File!Deserialize(f, o).ok <=> failed = {}
  <2>1. failed = {} => File!Deserialize(f, o).ok = TRUE
    BY DEF File!Deserialize
  <2>2. failed # {} => File!Deserialize(f, o).ok = FALSE
    BY DEF File!Deserialize, File!Refused
  <2> QED BY <2>1, <2>2, Zenon
<1>14. ASSUME failed = {} PROVE Exact(File!Deserialize(f, o), w)
  <2> DEFINE r == File!Deserialize(f, o)
  <2>1. r = [ok |-> TRUE, mode |-> b.mode, chunker |-> b.chunker, chunks |-> b.chunks,
             vecs |-> IF b.vecsLen > 0 THEN b.vecs ELSE <<>>]
    BY <1>14 DEF File!Deserialize
  <2>2. (IF b.vecsLen > 0 THEN b.vecs ELSE <<>>) = w.vecs
    <3>1. CASE b.vecsLen > 0
      BY <1>1, <3>1
    <3>2. CASE ~(b.vecsLen > 0)
      <4>1. rowsTotal = 0
        <5>1. ~bad6 /\ ~bad7
          <6> HIDE DEF failed, bad1, bad2, bad3, bad4, bad5, bad6, bad7
          <6> QED BY <1>9, <1>14
        <5> DEFINE t == rowsTotal % Wrap
        <5>2. t \in Nat /\ ~(t > 0) /\ t = rowsTotal
          <6>1. rowsTotal % Wrap = rowsTotal
            <7> HIDE DEF bad6, bad7, rowsTotal
            <7> QED BY <1>10, <5>1
          <6> HIDE DEF rowsTotal
          <6> QED BY <1>1, <1>4, <3>2, <6>1
        <5> HIDE DEF t, rowsTotal
        <5> QED BY <5>2
      <4>2. Len(w.vecs) = 0
        BY <1>6, <1>7, <1>2, <1>3, <4>1 DEF Source
      <4>3. w.vecs = <<>>
        BY <4>2 DEF Source
      <4> QED BY <3>2, <4>3
    <3> QED BY <3>1, <3>2
  <2>3. r.mode = w.mode /\ r.chunker = w.chunker /\ r.chunks = w.chunks /\ r.vecs = w.vecs
    BY <1>1, <2>1, <2>2
  <2> HIDE DEF r
  <2> QED BY <2>3 DEF Exact, Source, r
<1> HIDE DEF failed
<1> QED BY <1>12, <1>13, <1>14

-----------------------------------------------------------------------------
\* Rows and codes stay beside the chunks.
RowsBeside ==
  /\ names \in Seq(ChunkNames) /\ tombs \in Seq(BOOLEAN) /\ Len(tombs) = Len(names)
  /\ rows \in Seq(RowSet) /\ codes \in Seq(ChunkNames)
  /\ mode = "bm25" => rows = <<>> /\ codes = <<>>
  /\ mode # "bm25" => /\ Len(rows) = Len(names)
                      /\ \A i \in 1..Len(names) : rows[i].of = names[i]
                      /\ codes = IF kind = "flat-binary-i8" THEN names ELSE <<>>

\* A file with another body than its check sum's, or of another format, is refused.
LEMMA HarmIsSeen ==
  ASSUME NEW f, NEW o, ~File!CrcMatches(f) \/ f.body.version # FormatVersion
  PROVE  File!Deserialize(f, o).ok = FALSE
<1> DEFINE why == <<"corrupt", "format version", "chunker", "mode", "model required",
                    "corrupt", "corrupt", "corrupt", "corrupt">>
           b == f.body
           failed == {i \in DOMAIN why :
        \/ i = 1 /\ ~File!CrcMatches(f)
        \/ i = 2 /\ b.version # FormatVersion
        \/ i = 3 /\ o.chunker \notin {"", b.chunker}
        \/ i = 4 /\ o.mode \notin {"", b.mode}
        \/ i = 5 /\ b.mode # "bm25" /\ ~o.model
        \/ i = 6 /\ b.n * MinChunkBytes > b.chunksLen
        \/ i = 7 /\ File!Decoded(b.chunks, b.chunksLen) # b.n
        \/ i = 8 /\ b.vecsLen > 0 /\ (b.mode = "bm25" \/ b.vecsLen # b.n * b.dim)
        \/ i = 9 /\ b.vecsLen = 0 /\ b.mode # "bm25" /\ b.n > 0}
<1>1. 1 \in DOMAIN why /\ 2 \in DOMAIN why
  OBVIOUS
<1>2. ~File!CrcMatches(f) => 1 \in failed
  BY <1>1
<1>3. f.body.version # FormatVersion => 2 \in failed
  BY <1>1
<1>4. failed # {}
  <2> HIDE DEF failed
  <2> QED BY <1>2, <1>3
<1> QED BY <1>4 DEF File!Deserialize, File!Refused

\* The file is what was written, or shows that it is not.
FileHonest ==
  /\ harmed \in BOOLEAN
  /\ file # File!NoFile =>
       /\ Source(written)
       /\ ~harmed => file = Written_File(written)
       /\ harmed => ~File!CrcMatches(file) \/ file.body.version # FormatVersion
  /\ loaded # File!NotLoaded => /\ file # File!NoFile
                                /\ loaded.result = File!Deserialize(file, loaded.want)

FileInv == RowsBeside /\ FileHonest

LEMMA FileInit == File!Init => FileInv
<1> SUFFICES ASSUME File!Init PROVE FileInv
  OBVIOUS
<1>1. names = <<>> /\ tombs = <<>> /\ rows = <<>> /\ codes = <<>>
  BY DEF File!Init
<1>2. \A S : <<>> \in Seq(S) /\ Len(<<>>) = 0
  OBVIOUS
<1>3. names \in Seq(ChunkNames) /\ tombs \in Seq(BOOLEAN) /\ rows \in Seq(RowSet) /\ codes \in Seq(ChunkNames)
  BY <1>1, <1>2
<1>4. Len(names) = 0 /\ Len(tombs) = 0 /\ Len(rows) = 0
  BY <1>1, <1>2
<1>5. RowsBeside
  BY <1>1, <1>3, <1>4 DEF RowsBeside
<1>6. FileHonest
  BY DEF File!Init, FileHonest
<1> QED BY <1>5, <1>6 DEF FileInv

LEMMA OneMore ==
  ASSUME NEW S, NEW s \in Seq(S), NEW x \in S
  PROVE  /\ Append(s, x) \in Seq(S) /\ Len(Append(s, x)) = Len(s) + 1
         /\ Append(s, x)[Len(s) + 1] = x
         /\ \A i \in 1..Len(s) : Append(s, x)[i] = s[i]
OBVIOUS

LEMMA OneChanged ==
  ASSUME NEW S, NEW s \in Seq(S), NEW i \in 1..Len(s), NEW x \in S
  PROVE  [s EXCEPT ![i] = x] \in Seq(S) /\ Len([s EXCEPT ![i] = x]) = Len(s)
OBVIOUS

LEMMA OneJoined ==
  ASSUME NEW S, NEW s \in Seq(S), NEW t \in Seq(S), Len(t) = 1
  PROVE  /\ s \o t \in Seq(S) /\ Len(s \o t) = Len(s) + 1
         /\ (s \o t)[Len(s) + 1] = t[1]
         /\ \A i \in 1..Len(s) : (s \o t)[i] = s[i]
<1>1. Concatenation(s \o t, s, t, S)
  BY Concatenated
<1> DEFINE c == s \o t
<1> HIDE DEF c
<1>2. Concatenation(c, s, t, S)
  BY <1>1 DEF c
<1>3. 1 \in 1..Len(t) /\ 1 + Len(s) = Len(s) + 1
  OBVIOUS
<1>4. c[Len(s) + 1] = t[1]
  BY <1>2, <1>3 DEF Concatenation
<1>5. c \in Seq(S) /\ Len(c) = Len(s) + 1 /\ \A i \in 1..Len(s) : c[i] = s[i]
  BY <1>2 DEF Concatenation
<1> QED BY <1>4, <1>5 DEF c

LEMMA RowsOfChunks ==
  ASSUME NEW k, NEW cs \in Seq(ChunkNames)
  PROVE  /\ File!StoreOf(k, cs).rows \in Seq(RowSet)
         /\ Len(File!StoreOf(k, cs).rows) = Len(cs)
         /\ \A i \in 1..Len(cs) : File!StoreOf(k, cs).rows[i].of = cs[i]
         /\ File!StoreOf(k, cs).codes = IF k = "flat-binary-i8" THEN cs ELSE <<>>
<1>1. \A c \in ChunkNames : File!RowOf(k, c) \in RowSet /\ File!RowOf(k, c).of = c
  BY DEF File!RowOf, File!Exact, File!Rounded, RowSet
<1>2. File!StoreOf(k, cs).rows = [i \in 1..Len(cs) |-> File!RowOf(k, cs[i])]
  BY DEF File!StoreOf
<1>3. \A i \in 1..Len(cs) : cs[i] \in ChunkNames
  OBVIOUS
<1>4. File!StoreOf(k, cs).codes = IF k = "flat-binary-i8" THEN cs ELSE <<>>
  BY DEF File!StoreOf
<1> QED BY <1>1, <1>2, <1>3, <1>4

LEMMA FileAppends ==
  ASSUME RowsBeside, NEW c \in ChunkNames, File!AppendChunk(c)
  PROVE  RowsBeside'
<1>1. names' = Append(names, c) /\ tombs' = Append(tombs, FALSE) /\ kind' = kind /\ mode' = mode
  BY DEF File!AppendChunk
<1>2. names' \in Seq(ChunkNames) /\ tombs' \in Seq(BOOLEAN) /\ Len(tombs') = Len(names')
      /\ Len(names') = Len(names) + 1
  BY <1>1 DEF RowsBeside
<1>3. CASE mode = "bm25"
  BY <1>1, <1>2, <1>3 DEF RowsBeside, File!AppendChunk, File!Stored
<1>4. CASE mode # "bm25"
  <2> DEFINE st == File!StoreOf(kind, <<c>>)
  <2>1. rows' = rows \o st.rows /\ codes' = codes \o st.codes
    BY <1>4 DEF File!AppendChunk, File!Stored, File!Appended
  <2>2. /\ st.rows \in Seq(RowSet) /\ Len(st.rows) = 1 /\ st.rows[1].of = c
        /\ st.codes = IF kind = "flat-binary-i8" THEN <<c>> ELSE <<>>
    <3>1. <<c>> \in Seq(ChunkNames) /\ Len(<<c>>) = 1 /\ <<c>>[1] = c /\ 1 \in 1..1
      OBVIOUS
    <3>2. \A i \in 1..1 : st.rows[i].of = <<c>>[i]
      BY <3>1, RowsOfChunks
    <3> QED BY <3>1, <3>2, RowsOfChunks
  <2> HIDE DEF st
  <2>3. rows' \in Seq(RowSet) /\ Len(rows') = Len(names')
    <3>1. rows \in Seq(RowSet) /\ Len(rows) = Len(names)
      BY <1>4 DEF RowsBeside
    <3> QED BY <1>2, <2>1, <2>2, <3>1, OneJoined
  <2>4. \A i \in 1..Len(names') : rows'[i].of = names'[i]
    <3>1. \A i \in 1..Len(names) : rows'[i] = rows[i] /\ names'[i] = names[i] /\ rows[i].of = names[i]
      BY <1>1, <1>4, <2>1, <2>2 DEF RowsBeside
    <3>2. rows'[Len(names) + 1] = st.rows[1] /\ names'[Len(names) + 1] = c
      BY <1>1, <1>4, <2>1, <2>2 DEF RowsBeside
    <3>3. \A i \in 1..Len(names') : i \in 1..Len(names) \/ i = Len(names) + 1
      BY <1>2 DEF RowsBeside
    <3> QED BY <2>2, <3>1, <3>2, <3>3
  <2>5. codes' = (IF kind' = "flat-binary-i8" THEN names' ELSE <<>>) /\ codes' \in Seq(ChunkNames)
    <3>1. CASE kind = "flat-binary-i8"
      <4>1. codes' = names \o <<c>> /\ names' = Append(names, c) /\ names \in Seq(ChunkNames)
        BY <1>1, <1>4, <2>1, <2>2, <3>1 DEF RowsBeside
      <4>2. names \o <<c>> = Append(names, c)
        BY <4>1
      <4> QED BY <1>1, <1>2, <3>1, <4>1, <4>2
    <3>2. CASE kind # "flat-binary-i8"
      BY <1>1, <1>4, <2>1, <2>2, <3>2 DEF RowsBeside
    <3> QED BY <3>1, <3>2
  <2> QED BY <1>1, <1>2, <1>4, <2>3, <2>4, <2>5 DEF RowsBeside
<1> QED BY <1>3, <1>4

LEMMA FileCompacts ==
  ASSUME RowsBeside, File!CompactStore
  PROVE  RowsBeside'
<1> DEFINE every == [i \in DOMAIN names |-> i]
           kept == File!Select(every, {i \in DOMAIN tombs : ~tombs[i]})
<1>1. /\ names' = File!Picked(names, kept) /\ tombs' = [i \in DOMAIN kept |-> FALSE]
      /\ kind' = kind /\ mode' = mode
  BY DEF File!CompactStore
<1>2. kept \in Seq(1..Len(names))
  <2>1. every \in Seq(1..Len(names))
    BY DEF RowsBeside
  <2>2. \A s, K : File!Select(s, K) = Select(s, K)
    BY DEF File!Select, Select
  <2> HIDE DEF every
  <2> QED BY <2>1, <2>2, SelectKeeps
<1>3. rows' = (IF mode = "bm25" THEN <<>> ELSE File!Picked(rows, kept)) /\
      codes' = IF mode # "bm25" /\ kind = "flat-binary-i8" THEN File!Picked(codes, kept) ELSE <<>>
  BY DEF File!CompactStore, File!Stored, File!Compacted
<1> HIDE DEF every, kept
<1>4. \A S : \A s \in Seq(S) : Len(s) = Len(names) =>
         /\ File!Picked(s, kept) \in Seq(S) /\ Len(File!Picked(s, kept)) = Len(kept)
         /\ \A j \in 1..Len(kept) : File!Picked(s, kept)[j] = s[kept[j]]
  <2> SUFFICES ASSUME NEW S, NEW s \in Seq(S), Len(s) = Len(names)
               PROVE /\ File!Picked(s, kept) \in Seq(S) /\ Len(File!Picked(s, kept)) = Len(kept)
                     /\ \A j \in 1..Len(kept) : File!Picked(s, kept)[j] = s[kept[j]]
    OBVIOUS
  <2>1. \A j \in 1..Len(kept) : kept[j] \in 1..Len(s)
    BY <1>2
  <2>2. \A j \in 1..Len(kept) : s[kept[j]] \in S
    BY <2>1
  <2>3. File!Picked(s, kept) = [j \in 1..Len(kept) |-> s[kept[j]]]
    BY <1>2 DEF File!Picked
  <2> QED BY <1>2, <2>2, <2>3
<1>5. names' \in Seq(ChunkNames) /\ Len(names') = Len(kept) /\ \A j \in 1..Len(kept) : names'[j] = names[kept[j]]
  BY <1>1, <1>4 DEF RowsBeside
<1>6. tombs' \in Seq(BOOLEAN) /\ Len(tombs') = Len(kept)
  <2>1. tombs' = [i \in 1..Len(kept) |-> FALSE] /\ Len(kept) \in Nat
    BY <1>1, <1>2
  <2>2. FALSE \in BOOLEAN
    OBVIOUS
  <2> QED BY <2>1, <2>2
<1>7. CASE mode = "bm25"
  BY <1>1, <1>3, <1>5, <1>6, <1>7 DEF RowsBeside
<1>8. CASE mode # "bm25"
  <2>1. rows' \in Seq(RowSet) /\ Len(rows') = Len(kept) /\ \A j \in 1..Len(kept) : rows'[j] = rows[kept[j]]
    BY <1>3, <1>4, <1>8 DEF RowsBeside
  <2>2. \A j \in 1..Len(kept) : rows[kept[j]].of = names[kept[j]]
    BY <1>2, <1>8 DEF RowsBeside
  <2>3. codes' = IF kind = "flat-binary-i8" THEN names' ELSE <<>>
    BY <1>1, <1>3, <1>8 DEF RowsBeside
  <2>4. codes' \in Seq(ChunkNames)
    BY <1>5, <2>3
  <2> QED BY <1>1, <1>5, <1>6, <1>8, <2>1, <2>2, <2>3, <2>4 DEF RowsBeside
<1> QED BY <1>7, <1>8

LEMMA FileExtends ==
  ASSUME RowsBeside, NEW c \in ChunkNames, File!WithExtraChunks(c)
  PROVE  RowsBeside'
<1>1. names' = Append(names, c) /\ tombs' = Append(tombs, FALSE) /\ kind' = "flat" /\ mode' = mode /\ codes' = <<>>
      /\ rows' = IF mode = "bm25" THEN <<>> ELSE Append(File!Vecs, File!Exact(c))
  BY DEF File!WithExtraChunks
<1>2. names' \in Seq(ChunkNames) /\ tombs' \in Seq(BOOLEAN) /\ Len(tombs') = Len(names')
      /\ Len(names') = Len(names) + 1
  BY <1>1 DEF RowsBeside
<1>3. CASE mode = "bm25"
  BY <1>1, <1>2, <1>3 DEF RowsBeside
<1>4. CASE mode # "bm25"
  <2>1. \A d \in ChunkNames : File!Exact(d) \in RowSet /\ File!Exact(d).of = d
    BY DEF File!Exact, RowSet
  <2>2. File!Vecs \in Seq(RowSet) /\ Len(File!Vecs) = Len(names) /\ \A i \in 1..Len(names) : File!Vecs[i].of = names[i]
    <3>1. CASE kind = "flat"
      BY <1>4, <3>1 DEF RowsBeside, File!Vecs
    <3>2. CASE kind # "flat"
      <4>1. File!Vecs = [i \in 1..Len(names) |-> File!Exact(names[i])]
        BY <3>2 DEF File!Vecs, RowsBeside
      <4>2. \A i \in 1..Len(names) : names[i] \in ChunkNames
        BY DEF RowsBeside
      <4>3. Len(names) \in Nat
        BY DEF RowsBeside
      <4> QED BY <2>1, <4>1, <4>2, <4>3
    <3> QED BY <3>1, <3>2
  <2> DEFINE v == File!Vecs
             x == File!Exact(c)
  <2>3. rows' = Append(v, x) /\ x \in RowSet /\ x.of = c
    BY <1>1, <1>4, <2>1
  <2> HIDE DEF v, x
  <2>4. v \in Seq(RowSet) /\ Len(v) = Len(names) /\ \A i \in 1..Len(names) : v[i].of = names[i]
    BY <2>2 DEF v
  <2>5. rows' \in Seq(RowSet) /\ Len(rows') = Len(names')
    BY <1>2, <2>3, <2>4
  <2>6. \A i \in 1..Len(names') : rows'[i].of = names'[i]
    <3>a. names \in Seq(ChunkNames)
      BY DEF RowsBeside
    <3>b. \A i \in 1..Len(names) : names'[i] = names[i]
      BY <1>1, <3>a, OneMore
    <3>c. \A i \in 1..Len(v) : rows'[i] = v[i]
      BY <2>3, <2>4, OneMore
    <3>1. \A i \in 1..Len(names) : rows'[i] = v[i] /\ names'[i] = names[i]
      BY <2>4, <3>b, <3>c
    <3>2. rows'[Len(names) + 1] = x /\ names'[Len(names) + 1] = c
      BY <1>1, <2>3, <2>4, <3>a, OneMore
    <3>3. \A i \in 1..Len(names') : i \in 1..Len(names) \/ i = Len(names) + 1
      BY <1>2 DEF RowsBeside
    <3> QED BY <2>3, <2>4, <3>1, <3>2, <3>3
  <2> QED BY <1>1, <1>2, <1>4, <2>5, <2>6 DEF RowsBeside
<1> QED BY <1>3, <1>4

LEMMA FileSerializes ==
  ASSUME File!FileAssumption, FileInv, NEW ch \in Chunkers, File!Serialize(ch)
  PROVE  FileInv'
<1>1. RowsBeside'
  BY DEF File!Serialize, FileInv, RowsBeside
<1> DEFINE vs == IF mode = "bm25" THEN <<>> ELSE rows
           cs == File!Corpus
           b == File!Body(mode, ch)
<1>2. cs \in Seq(Sized) /\ Len(cs) = Len(names) /\ Len(names) \in Nat
  <2>1. cs = [i \in 1..Len(names) |-> [name |-> names[i], tomb |-> tombs[i]]] /\ Len(names) \in Nat
    BY DEF File!Corpus, FileInv, RowsBeside
  <2>2. \A i \in 1..Len(names) : names[i] \in ChunkNames /\ tombs[i] \in BOOLEAN
    BY DEF FileInv, RowsBeside
  <2>3. \A i \in 1..Len(names) : [name |-> names[i], tomb |-> tombs[i]] \in Sized
    BY <2>2 DEF Sized
  <2> QED BY <2>1, <2>3
<1>3. vs \in Seq(RowSet) /\ (mode = "bm25" => vs = <<>>) /\ (mode # "bm25" => Len(vs) = Len(cs))
  BY <1>2 DEF FileInv, RowsBeside
<1>4. names # <<>> <=> Len(cs) # 0
  BY <1>2 DEF FileInv, RowsBeside
<1>5. b = [version |-> FormatVersion, mode |-> mode, chunker |-> ch,
           n |-> Len(names), dim |-> IF mode # "bm25" /\ names # <<>> THEN RowBytes ELSE 0,
           chunksLen |-> File!ChunksBytes(cs) % Wrap, chunks |-> cs,
           vecsLen |-> (Len(vs) * RowBytes) % Wrap, vecs |-> vs]
  BY DEF File!Body
<1> HIDE DEF vs, cs, b
<1>6. written' = [mode |-> mode, chunker |-> ch, chunks |-> cs, vecs |-> vs]
  BY <1>5 DEF File!Serialize, cs, b
<1>7. file' = [body |-> b, crc |-> b, whole |-> TRUE] /\ harmed' = FALSE /\ loaded' = File!NotLoaded
  BY DEF File!Serialize, b
<1>8. written'.mode = mode /\ written'.chunker = ch /\ written'.chunks = cs /\ written'.vecs = vs
  BY <1>6
<1>9. Source(written')
  BY <1>2, <1>3, <1>6, <1>8 DEF Source
<1>10. file' = Written_File(written')
  <2>1. b = [version |-> FormatVersion, mode |-> mode, chunker |-> ch,
             n |-> Len(cs), dim |-> IF mode # "bm25" /\ Len(cs) # 0 THEN RowBytes ELSE 0,
             chunksLen |-> File!ChunksBytes(cs) % Wrap, chunks |-> cs,
             vecsLen |-> VecBytes(vs) % Wrap, vecs |-> vs]
    BY <1>2, <1>4, <1>5 DEF VecBytes
  <2> QED BY <1>7, <1>8, <2>1 DEF Written_File
<1>11. FileHonest'
  BY <1>7, <1>9, <1>10 DEF FileHonest
<1> QED BY <1>1, <1>11 DEF FileInv

LEMMA FileDamaged ==
  ASSUME FileInv, File!Damage
  PROVE  FileInv'
<1>1. RowsBeside'
  BY DEF File!Damage, File!Store, FileInv, RowsBeside
<1> DEFINE b == file.body
<1>2. file # File!NoFile /\ ~harmed /\ harmed' = TRUE /\ loaded' = File!NotLoaded /\ written' = written
  BY DEF File!Damage
<1>3. Source(written) /\ file = Written_File(written)
  BY <1>2 DEF FileInv, FileHonest
<1>4. file = [body |-> b, crc |-> b, whole |-> TRUE]
      /\ b = [version |-> b.version, mode |-> b.mode, chunker |-> b.chunker, n |-> b.n, dim |-> b.dim,
              chunksLen |-> b.chunksLen, chunks |-> b.chunks, vecsLen |-> b.vecsLen, vecs |-> b.vecs]
      /\ b.n = Len(b.chunks) /\ b.chunks \in Seq(Sized)
  BY <1>3 DEF Written_File, Source
<1> HIDE DEF b
<1>5. ~File!CrcMatches(file')
  <2>1. CASE file' = [file EXCEPT !.whole = FALSE]
    BY <1>4, <2>1 DEF File!CrcMatches
  <2>2. ASSUME NEW v \in Versions \ {file.body.version}, file' = [file EXCEPT !.body.version = v]
        PROVE  ~File!CrcMatches(file')
    <3>1. file'.body.version = v /\ file'.crc.version = b.version /\ v # b.version
      BY <1>4, <2>2 DEF b
    <3> QED BY <3>1 DEF File!CrcMatches
  <2>3. ASSUME NEW m \in Modes \ {file.body.mode}, file' = [file EXCEPT !.body.mode = m]
        PROVE  ~File!CrcMatches(file')
    <3>1. file'.body.mode = m /\ file'.crc.mode = b.mode /\ m # b.mode
      BY <1>4, <2>3 DEF b
    <3> QED BY <3>1 DEF File!CrcMatches
  <2>4. CASE file.body.n > 0 /\ file' = [file EXCEPT !.body.chunks[1].tomb = ~file.body.chunks[1].tomb]
    <3>1. 1 \in 1..Len(b.chunks) /\ b.chunks[1] \in Sized
      BY <1>4, <2>4 DEF b
    <3>2. b.chunks[1].tomb \in BOOLEAN /\ b.chunks[1] = [name |-> b.chunks[1].name, tomb |-> b.chunks[1].tomb]
      BY <3>1 DEF Sized
    <3> DEFINE t == ~file.body.chunks[1].tomb
    <3>3. t # b.chunks[1].tomb
      BY <3>2 DEF b
    <3>4. file' = [file EXCEPT !.body.chunks[1].tomb = t]
      BY <2>4
    <3> HIDE DEF t
    <3>5. file'.crc = b
      BY <1>4, <3>4
    <3>6. file'.body.chunks[1].tomb = t
      BY <1>4, <3>1, <3>2, <3>4
    <3> QED BY <3>3, <3>5, <3>6 DEF File!CrcMatches
  <2> QED BY <2>1, <2>2, <2>3, <2>4 DEF File!Damage
<1>6. file' # File!NoFile
  <2> SUFFICES ASSUME file' = <<>> PROVE FALSE
    BY DEF File!NoFile
  <2>1. DOMAIN file' = DOMAIN file
    BY DEF File!Damage
  <2>2. "crc" \in DOMAIN file
    BY <1>4
  <2> QED BY <2>1, <2>2
<1>7. FileHonest'
  BY <1>2, <1>3, <1>5 DEF FileHonest
<1> QED BY <1>1, <1>7 DEF FileInv

LEMMA FileReplaced ==
  ASSUME FileInv, File!Replaced
  PROVE  FileInv'
<1>1. RowsBeside'
  BY DEF File!Replaced, File!Store, FileInv, RowsBeside
<1>2. file # File!NoFile /\ ~harmed /\ harmed' = TRUE /\ loaded' = File!NotLoaded /\ written' = written
  BY DEF File!Replaced
<1>3. Source(written) /\ file = Written_File(written)
  BY <1>2 DEF FileInv, FileHonest
<1>4. PICK v \in Versions \ {FormatVersion} :
        file' = [body |-> [file.body EXCEPT !.version = v], crc |-> [file.body EXCEPT !.version = v], whole |-> TRUE]
  BY DEF File!Replaced
<1>5. "version" \in DOMAIN file.body
  BY <1>3 DEF Written_File
<1>6. file'.body.version = v
  BY <1>4, <1>5
<1>7. FileHonest'
  BY <1>2, <1>3, <1>6 DEF FileHonest
<1> QED BY <1>1, <1>7 DEF FileInv

LEMMA FileLoads ==
  ASSUME FileInv, NEW w \in LoadOptions, File!Load(w)
  PROVE  FileInv'
<1>1. RowsBeside'
  BY DEF File!Load, File!Store, FileInv, RowsBeside
<1>2. UNCHANGED <<file, written, harmed>> /\ file # File!NoFile
      /\ loaded' = [result |-> File!Deserialize(file, w), want |-> w]
  BY DEF File!Load
<1>3. loaded'.result = File!Deserialize(file', loaded'.want)
  BY <1>2
<1>4. FileHonest'
  BY <1>2, <1>3 DEF FileInv, FileHonest
<1> QED BY <1>1, <1>4 DEF FileInv

LEMMA FileNext == File!FileAssumption /\ FileInv /\ [File!Next]_File!vars => FileInv'
<1> SUFFICES ASSUME File!FileAssumption, FileInv, [File!Next]_File!vars PROVE FileInv'
  OBVIOUS
<1>0. File!Disk /\ RowsBeside' => FileInv'
  BY DEF File!Disk, FileInv, FileHonest
<1>1. ASSUME NEW c \in ChunkNames, File!AppendChunk(c) PROVE FileInv'
  BY <1>0, <1>1, FileAppends DEF FileInv, File!AppendChunk
<1>2. ASSUME NEW c \in ChunkNames, File!WithExtraChunks(c) PROVE FileInv'
  BY <1>0, <1>2, FileExtends DEF FileInv, File!WithExtraChunks
<1>3. ASSUME NEW i \in DOMAIN names, File!Tombstone(i) PROVE FileInv'
  <2>1. tombs' = [tombs EXCEPT ![i] = TRUE] /\ UNCHANGED <<kind, mode, names, rows, codes>> /\ File!Disk
    BY <1>3 DEF File!Tombstone
  <2>2. tombs' \in Seq(BOOLEAN) /\ Len(tombs') = Len(tombs)
    <3>1. tombs \in Seq(BOOLEAN) /\ TRUE \in BOOLEAN
      BY DEF FileInv, RowsBeside
    <3>2. i \in 1..Len(tombs)
      BY DEF FileInv, RowsBeside
    <3> QED BY <2>1, <3>1, <3>2, OneChanged
  <2> QED BY <1>0, <2>1, <2>2 DEF FileInv, RowsBeside
<1>4. CASE File!CompactStore
  BY <1>0, <1>4, FileCompacts DEF FileInv, File!CompactStore
<1>5. ASSUME NEW ch \in Chunkers, File!Serialize(ch) PROVE FileInv'
  BY <1>5, FileSerializes
<1>6. CASE File!Damage
  BY <1>6, FileDamaged
<1>7. CASE File!Replaced
  BY <1>7, FileReplaced
<1>8. ASSUME NEW w \in LoadOptions, File!Load(w) PROVE FileInv'
  BY <1>8, FileLoads
<1>9. CASE UNCHANGED File!vars
  BY <1>9 DEF File!vars, FileInv, RowsBeside, FileHonest
<1> QED BY <1>1, <1>2, <1>3, <1>4, <1>5, <1>6, <1>7, <1>8, <1>9 DEF File!Next

LEMMA FileServes == File!FileAssumption /\ FileInv => File!FileIsExact
<1> SUFFICES ASSUME File!FileAssumption, FileInv PROVE File!FileIsExact
  OBVIOUS
<1>1. File!RowsFollow
  <2> SUFFICES ASSUME mode # "bm25"
               PROVE  /\ [i \in DOMAIN rows |-> rows[i].of] = names
                      /\ kind = "flat-binary-i8" => codes = names
    BY DEF File!RowsFollow
  <2>1. DOMAIN rows = 1..Len(names) /\ \A i \in 1..Len(names) : rows[i].of = names[i]
    BY DEF FileInv, RowsBeside
  <2>2. names = [i \in 1..Len(names) |-> names[i]]
    BY DEF FileInv, RowsBeside
  <2> QED BY <2>1, <2>2 DEF FileInv, RowsBeside
<1>2. File!LoadIsExact
  <2> SUFFICES ASSUME loaded # File!NotLoaded PROVE File!LoadIsExact
    BY DEF File!LoadIsExact
  <2> DEFINE r == loaded.result
             o == loaded.want
  <2>1. Source(written) /\ r = File!Deserialize(file, o)
    BY DEF FileInv, FileHonest
  <2>2. CASE ~harmed
    <3>1. file = Written_File(written)
      BY <2>2 DEF FileInv, FileHonest
    <3>2. (r.ok <=> IsWanted(written, o) /\ Fits(written)) /\ (r.ok => Exact(r, written))
      BY <2>1, <3>1, FileReads
    <3> QED BY <2>2, <3>2 DEF File!LoadIsExact, IsWanted, Fits, Exact
  <2>3. CASE harmed
    <3>1. ~File!CrcMatches(file) \/ file.body.version # FormatVersion
      BY <2>3 DEF FileInv, FileHonest
    <3>2. r.ok = FALSE
      BY <2>1, <3>1, HarmIsSeen
    <3> HIDE DEF r
    <3> QED BY <2>3, <3>2 DEF File!LoadIsExact, r
  <2>4. harmed \in BOOLEAN
    BY DEF FileInv, FileHonest
  <2> QED BY <2>2, <2>3, <2>4
<1> QED BY <1>1, <1>2 DEF File!FileIsExact

(* Rows and codes stay beside their chunks whatever is appended, tombstoned,   *)
(* compacted or indexed again, and a load gives back just what was written or *)
(* refuses, of any chunks and sizes, past the width of a length field too     *)
(* (dense_store.go, index_serialize.go); a server boots from a finished build *)
(* of its mode and chunker, or indexes for itself (Run, BuildIndexAndModelTo). *)
THEOREM FilesAreExact == PartsSpec => []FileIsExact
<1> DEFINE Inv == /\ part = "file" => FileInv
                  /\ part = "prebuilt" => BootInv
<1>1. PartsInit => Inv
  BY PartsStart, FileInit, BootInit
<1>2. Inv /\ [PartsNext]_<<part, partsVars>> => Inv'
  BY PartsStep, PartsAssumption, FileNext, BootNext
<1>3. Inv => FileIsExact
  BY PartsAssumption, FileServes, BootIsServed DEF FileIsExact
<1> QED BY <1>1, <1>2, <1>3, PTL DEF PartsSpec

-----------------------------------------------------------------------------
(* The sections of a markdown file.                                           *)

LEMMA HeadingSelect == \A s, K : Md!Select(s, K) = Select(s, K)
BY DEF Md!Select, Select

\* r is the numbers of S, in order.
Ascends(r, S) ==
  /\ r \in Seq(Nat)
  /\ \A a, b \in 1..Len(r) : a < b => r[a] < r[b]
  /\ \A a \in 1..Len(r) : r[a] \in S
  /\ \A i \in S : \E a \in 1..Len(r) : r[a] = i

Chain(n, S) == Select([i \in 1..n |-> i], S)

LEMMA ChainLists ==
  ASSUME NEW n \in Nat, NEW S, S \subseteq 1..n
  PROVE  Ascends(Chain(n, S), S)
<1> DEFINE id == [i \in 1..n |-> i]
           r == Chain(n, S)
<1>1. id \in Seq(Nat) /\ Len(id) = n /\ \A i \in 1..n : id[i] = i
  OBVIOUS
<1>2. r \in Seq(Nat) /\ Kept(r, id, n, S)
  <2> HIDE DEF id
  <2> QED BY <1>1, SelectKeeps DEF Chain, id
<1> HIDE DEF id, r
<1>3. \A a, b \in 1..Len(r) : a < b => r[a] < r[b]
  <2> SUFFICES ASSUME NEW a \in 1..Len(r), NEW b \in 1..Len(r), a < b PROVE r[a] < r[b]
    OBVIOUS
  <2>1. PICK i \in 1..n, j \in 1..n : i < j /\ r[a] = id[i] /\ r[b] = id[j]
    BY <1>2 DEF Kept
  <2> QED BY <1>1, <2>1
<1>4. \A a \in 1..Len(r) : r[a] \in S
  BY <1>1, <1>2 DEF Kept
<1>5. \A i \in S : \E a \in 1..Len(r) : r[a] = i
  <2>1. \A i \in S : i \in 1..n /\ id[i] = i
    BY <1>1
  <2>2. \A i \in 1..n : i \in S => \E a \in 1..Len(r) : r[a] = id[i]
    BY <1>1, <1>2 DEF Kept
  <2> QED BY <2>1, <2>2
<1>6. Ascends(r, S)
  BY <1>2, <1>3, <1>4, <1>5 DEF Ascends
<1> QED BY <1>6 DEF r

LEMMA ListsPrefix ==
  ASSUME NEW S, NEW r, NEW q, Ascends(r, S), Ascends(q, S)
  PROVE  Len(r) <= Len(q) /\ \A m \in 1..Len(r) : r[m] = q[m]
<1> DEFINE T == {n \in Nat : n <= Len(r) => n <= Len(q) /\ \A m \in 1..n : r[m] = q[m]}
<1>0. /\ Len(r) \in Nat /\ Len(q) \in Nat
      /\ \A a \in 1..Len(r) : r[a] \in Nat
      /\ \A a \in 1..Len(q) : q[a] \in Nat
  BY DEF Ascends
<1>1. 0 \in T
  BY <1>0
<1>2. ASSUME NEW n \in Nat, n \in T PROVE n + 1 \in T
  <2> SUFFICES ASSUME n + 1 <= Len(r)
               PROVE  n + 1 <= Len(q) /\ \A m \in 1..(n + 1) : r[m] = q[m]
    OBVIOUS
  <2>0. n + 1 \in 1..Len(r) /\ \A m \in 1..n : m \in 1..Len(r) /\ m < n + 1
    BY <1>0
  <2>1. n <= Len(q) /\ \A m \in 1..n : r[m] = q[m] /\ m \in 1..Len(q)
    BY <1>0, <1>2
  <2>2. PICK b \in 1..Len(q) : q[b] = r[n + 1]
    BY <2>0 DEF Ascends
  <2>3. ~(b \in 1..n)
    <3>1. ASSUME b \in 1..n PROVE FALSE
      <4>1. r[b] < r[n + 1] /\ r[b] = q[b]
        BY <2>0, <2>1, <3>1 DEF Ascends
      <4> QED BY <1>0, <2>0, <2>2, <4>1
    <3> QED BY <3>1
  <2>4. n + 1 <= b /\ n + 1 \in 1..Len(q) /\ n + 1 <= Len(q)
    BY <1>0, <2>3
  <2>5. q[n + 1] <= r[n + 1]
    <3>1. n + 1 = b \/ n + 1 < b
      BY <2>4
    <3>2. n + 1 < b => q[n + 1] < q[b]
      BY <2>4 DEF Ascends
    <3> QED BY <1>0, <2>2, <2>4, <3>1, <3>2
  <2>6. PICK a \in 1..Len(r) : r[a] = q[n + 1]
    BY <2>4 DEF Ascends
  <2>7. ~(a \in 1..n)
    <3>1. ASSUME a \in 1..n PROVE FALSE
      <4>1. a < n + 1 /\ a \in 1..Len(q) /\ r[a] = q[a]
        BY <2>0, <2>1, <3>1
      <4>2. q[a] < q[n + 1]
        BY <2>4, <4>1 DEF Ascends
      <4> QED BY <1>0, <2>4, <2>6, <4>1, <4>2
    <3> QED BY <3>1
  <2>8. r[n + 1] <= q[n + 1]
    <3>1. n + 1 = a \/ n + 1 < a
      BY <1>0, <2>7
    <3>2. n + 1 < a => r[n + 1] < r[a]
      BY <2>0 DEF Ascends
    <3> QED BY <1>0, <2>0, <2>6, <3>1, <3>2
  <2>9. r[n + 1] = q[n + 1]
    BY <1>0, <2>0, <2>4, <2>5, <2>8
  <2>10. \A m \in 1..(n + 1) : m = n + 1 \/ m \in 1..n
    OBVIOUS
  <2> QED BY <2>1, <2>4, <2>9, <2>10
<1>3. Nat \subseteq T
  BY <1>1, <1>2, NatSetInduction
<1>4. Len(r) \in T
  BY <1>0, <1>3
<1> QED BY <1>0, <1>4

LEMMA ListsUnique ==
  ASSUME NEW S, NEW r, NEW q, Ascends(r, S), Ascends(q, S)
  PROVE  r = q
<1>1. Len(r) <= Len(q) /\ Len(q) <= Len(r) /\ \A m \in 1..Len(r) : r[m] = q[m]
  BY ListsPrefix
<1>2. r \in Seq(Nat) /\ q \in Seq(Nat) /\ Len(r) \in Nat /\ Len(q) \in Nat
  BY DEF Ascends
<1>3. Len(r) = Len(q)
  BY <1>1, <1>2
<1> QED BY <1>1, <1>2, <1>3

\* The headings that enclose a line: those before it that none of their level
\* or above has closed.
Enclosing(H, lev, j) ==
  {i \in H : i <= j /\ \A m \in H : i < m /\ m <= j => lev[i] < lev[m]}

Headed(c, lev, txt) == [a \in 1..Len(c) |-> [level |-> lev[c[a]], text |-> txt[c[a]]]]
Opening(n, H, lev, txt, j) == Headed(Chain(n, Enclosing(H, lev, j)), lev, txt)

\* A heading takes the place of those of its level or below.
LEMMA HeadingPops ==
  ASSUME NEW n \in Nat, NEW H, H \subseteq 1..n, NEW lev, \A i \in H : lev[i] \in Nat, NEW txt,
         NEW j \in 0..n, NEW k \in H, j < k, \A m \in H : m <= j \/ k <= m
  PROVE  Md!Stacked(Opening(n, H, lev, txt, j), lev[k], txt[k]) = Opening(n, H, lev, txt, k)
<1> DEFINE c == Chain(n, Enclosing(H, lev, j))
           d == Chain(n, Enclosing(H, lev, k))
           st == Headed(c, lev, txt)
           cuts == {x \in 0..Len(st) : \A m \in x + 1..Len(st) : st[m].level >= lev[k]}
           p == Md!First(cuts)
           cut == SubSeq(c, 1, p)
           e == Append(cut, k)
<1>1. Ascends(c, Enclosing(H, lev, j)) /\ Ascends(d, Enclosing(H, lev, k))
  BY ChainLists DEF Enclosing
<1> HIDE DEF c, d
<1>2. /\ c \in Seq(Nat) /\ Len(c) \in Nat /\ Len(st) = Len(c)
      /\ \A a \in 1..Len(c) : /\ c[a] \in Nat /\ c[a] \in Enclosing(H, lev, j)
                              /\ c[a] \in H /\ c[a] <= j /\ lev[c[a]] \in Nat
                              /\ st[a] = [level |-> lev[c[a]], text |-> txt[c[a]]]
                              /\ st[a].level = lev[c[a]]
  <2>1. c \in Seq(Nat) /\ \A a \in 1..Len(c) : c[a] \in Enclosing(H, lev, j)
    BY <1>1 DEF Ascends
  <2>2. Len(st) = Len(c)
    BY <2>1 DEF Headed
  <2> QED BY <2>1, <2>2 DEF Enclosing, Headed
<1> HIDE DEF st
<1>3. \A a, b \in 1..Len(c) : a < b => lev[c[a]] < lev[c[b]]
  <2> SUFFICES ASSUME NEW a \in 1..Len(c), NEW b \in 1..Len(c), a < b PROVE lev[c[a]] < lev[c[b]]
    OBVIOUS
  <2>1. c[a] < c[b]
    BY <1>1 DEF Ascends
  <2> QED BY <1>2, <2>1 DEF Enclosing
<1>4. cuts \subseteq Nat /\ Len(c) \in cuts
  BY <1>2
<1> HIDE DEF cuts
<1>5. p \in cuts /\ \A x \in cuts : p <= x
  <2>1. \E x \in cuts : \A y \in cuts : x <= y
    BY <1>4, Least
  <2> QED BY <2>1 DEF Md!First
<1> HIDE DEF p
<1>6. p \in 0..Len(c) /\ \A m \in p + 1..Len(c) : lev[c[m]] >= lev[k]
  <2>1. p \in 0..Len(c) /\ \A m \in p + 1..Len(c) : st[m].level >= lev[k]
    BY <1>2, <1>5 DEF cuts
  <2>2. \A m \in p + 1..Len(c) : m \in 1..Len(c)
    BY <2>1
  <2>3. \A m \in p + 1..Len(c) : st[m].level = lev[c[m]]
    BY <1>2, <2>2
  <2> QED BY <2>1, <2>3
<1>7. \A a \in 1..p : lev[c[a]] < lev[k]
  <2> SUFFICES ASSUME NEW a \in 1..p PROVE lev[c[a]] < lev[k]
    OBVIOUS
  <2>1. p \in 1..Len(c) /\ a \in 1..Len(c) /\ (a = p \/ a < p)
    BY <1>2, <1>6
  <2>2. lev[c[p]] < lev[k]
    <3>1. p - 1 \notin cuts /\ p - 1 \in 0..Len(st) /\ (p - 1) + 1 = p
      BY <1>2, <1>5, <2>1
    <3>2. PICK m \in p..Len(st) : ~(st[m].level >= lev[k])
      BY <3>1 DEF cuts
    <3>3. m \in 1..Len(c) /\ (m = p \/ m \in p + 1..Len(c))
      BY <1>2, <2>1
    <3>4. st[m].level = lev[c[m]]
      BY <1>2, <3>3
    <3>5. lev[c[m]] \in Nat /\ lev[k] \in Nat /\ ~(lev[c[m]] >= lev[k])
      BY <1>2, <3>2, <3>3, <3>4
    <3> QED BY <1>6, <3>3, <3>5
  <2>3. lev[c[a]] \in Nat /\ lev[c[p]] \in Nat /\ lev[k] \in Nat
    BY <1>2, <2>1
  <2>4. a < p => lev[c[a]] < lev[c[p]]
    BY <1>3, <2>1
  <2> QED BY <2>1, <2>2, <2>3, <2>4
<1>8. /\ cut \in Seq(Nat) /\ Len(cut) = p /\ \A a \in 1..p : cut[a] = c[a] /\ a \in 1..Len(c)
      /\ e \in Seq(Nat) /\ Len(e) = p + 1 /\ e[p + 1] = k /\ \A a \in 1..p : e[a] = c[a]
  <2>1. cut \in Seq(Nat) /\ Len(cut) = p /\ \A a \in 1..p : cut[a] = c[a] /\ a \in 1..Len(c)
    BY <1>2, <1>6
  <2>2. k \in Nat /\ p \in Nat
    BY <1>6
  <2> HIDE DEF cut
  <2> QED BY <2>1, <2>2
<1> HIDE DEF e
<1>9. Ascends(e, Enclosing(H, lev, k))
  <2>0. k \in Nat /\ j \in Nat /\ p \in Nat /\ \A a \in 1..Len(e) : a = p + 1 \/ a \in 1..p
    BY <1>6, <1>8
  <2>1. ASSUME NEW a \in 1..Len(e), NEW b \in 1..Len(e), a < b PROVE e[a] < e[b]
    <3>1. a \in 1..p /\ e[a] = c[a] /\ a \in 1..Len(c)
      BY <1>8, <2>0, <2>1
    <3>2. CASE b = p + 1
      <4>1. e[b] = k /\ c[a] <= j /\ c[a] \in Nat
        BY <1>2, <1>8, <3>1, <3>2
      <4> QED BY <2>0, <3>1, <4>1
    <3>3. CASE b \in 1..p
      <4>1. e[b] = c[b] /\ b \in 1..Len(c)
        BY <1>8, <3>3
      <4> QED BY <1>1, <2>1, <3>1, <4>1 DEF Ascends
    <3> QED BY <2>0, <3>2, <3>3
  <2>2. ASSUME NEW a \in 1..Len(e) PROVE e[a] \in Enclosing(H, lev, k)
    <3>1. CASE a = p + 1
      <4>1. e[a] = k /\ \A m \in H : ~(k < m /\ m <= k)
        BY <1>8, <2>0, <3>1
      <4> QED BY <2>0, <4>1 DEF Enclosing
    <3>2. CASE a \in 1..p
      <4>1. e[a] = c[a] /\ a \in 1..Len(c) /\ lev[c[a]] < lev[k]
        BY <1>7, <1>8, <3>2
      <4>0. c[a] \in H /\ c[a] <= j /\ c[a] \in Nat
        BY <1>2, <4>1
      <4>2. c[a] \in H /\ c[a] <= k /\ c[a] \in Nat
        BY <2>0, <4>0
      <4>3. ASSUME NEW m \in H, c[a] < m, m <= k PROVE lev[c[a]] < lev[m]
        <5>1. m <= j \/ m = k
          BY <4>3
        <5>2. c[a] \in Enclosing(H, lev, j)
          BY <1>2, <4>1
        <5> QED BY <4>1, <4>3, <5>1, <5>2 DEF Enclosing
      <4> QED BY <4>1, <4>2, <4>3 DEF Enclosing
    <3> QED BY <2>0, <3>1, <3>2
  <2>3. ASSUME NEW i \in Enclosing(H, lev, k) PROVE \E a \in 1..Len(e) : e[a] = i
    <3>1. CASE i = k
      <4>1. p + 1 \in 1..Len(e)
        BY <1>8, <2>0
      <4> QED BY <1>8, <3>1, <4>1
    <3>2. CASE i # k
      <4>1. i \in H /\ i <= j /\ lev[i] < lev[k] /\ i \in Nat
        BY <2>0, <3>2 DEF Enclosing
      <4>2. i \in Enclosing(H, lev, j)
        BY <2>0, <4>1 DEF Enclosing
      <4>3. PICK a \in 1..Len(c) : c[a] = i
        BY <1>1, <4>2 DEF Ascends
      <4>4. a \in 1..p
        <5>1. ASSUME a \in p + 1..Len(c) PROVE FALSE
          <6>1. lev[i] >= lev[k] /\ lev[i] \in Nat /\ lev[k] \in Nat
            BY <1>6, <4>1, <4>3, <5>1
          <6> QED BY <4>1, <6>1
        <5> QED BY <2>0, <5>1
      <4>5. e[a] = i /\ a \in 1..Len(e)
        BY <1>8, <2>0, <4>3, <4>4
      <4> QED BY <4>5
    <3> QED BY <3>1, <3>2
  <2> QED BY <1>8, <2>1, <2>2, <2>3 DEF Ascends
<1>10. d = e
  BY <1>1, <1>9, ListsUnique
<1>11. Headed(e, lev, txt) = Append(SubSeq(st, 1, p), [level |-> lev[k], text |-> txt[k]])
  <2> DEFINE R == {[level |-> lev[i], text |-> txt[i]] : i \in H}
             q == Append(SubSeq(st, 1, p), [level |-> lev[k], text |-> txt[k]])
             o == Headed(e, lev, txt)
  <2>1. st \in Seq(R) /\ [level |-> lev[k], text |-> txt[k]] \in R
    <3>1. \A a \in 1..Len(c) : st[a] \in R
      BY <1>2
    <3> QED BY <1>2, <3>1 DEF Headed, st
  <2>2. p \in 0..Len(st) /\ \A a \in 1..p : st[a] = [level |-> lev[c[a]], text |-> txt[c[a]]]
    BY <1>2, <1>6, <1>8
  <2> HIDE DEF R
  <2>3. q \in Seq(R) /\ Len(q) = p + 1 /\ q[p + 1] = [level |-> lev[k], text |-> txt[k]]
        /\ \A a \in 1..p : q[a] = [level |-> lev[c[a]], text |-> txt[c[a]]]
    <3> DEFINE u == SubSeq(st, 1, p)
               x == [level |-> lev[k], text |-> txt[k]]
    <3>1. u \in Seq(R) /\ Len(u) = p /\ p \in Nat
      BY <2>1, <2>2
    <3>2. \A a \in 1..p : u[a] = st[a]
      BY <2>1, <2>2
    <3>3. x \in R
      BY <2>1
    <3>4. q = Append(u, x)
      OBVIOUS
    <3> HIDE DEF u, x, q
    <3>5. q \in Seq(R) /\ Len(q) = p + 1 /\ q[p + 1] = x /\ \A a \in 1..p : q[a] = u[a]
      BY <3>1, <3>3, <3>4
    <3> QED BY <2>2, <3>2, <3>5 DEF x
  <2>4. o = [a \in 1..(p + 1) |-> [level |-> lev[e[a]], text |-> txt[e[a]]]]
    BY <1>8 DEF Headed
  <2>5. \A a \in 1..(p + 1) : a = p + 1 \/ a \in 1..p
    BY <1>6
  <2> HIDE DEF q, o
  <2>6. \A a \in 1..(p + 1) : q[a] = o[a]
    <3>1. \A a \in 1..(p + 1) : o[a] = [level |-> lev[e[a]], text |-> txt[e[a]]]
      BY <2>4
    <3> SUFFICES ASSUME NEW a \in 1..(p + 1) PROVE q[a] = o[a]
      OBVIOUS
    <3>2. CASE a = p + 1
      BY <1>8, <2>3, <3>1, <3>2
    <3>3. CASE a \in 1..p
      <4>1. e[a] = c[a] /\ q[a] = [level |-> lev[c[a]], text |-> txt[c[a]]]
        BY <1>8, <2>3, <3>3
      <4>2. o[a] = [level |-> lev[e[a]], text |-> txt[e[a]]]
        BY <3>1
      <4> QED BY <4>1, <4>2
    <3> QED BY <2>5, <3>2, <3>3
  <2>7. q = [a \in 1..(p + 1) |-> q[a]]
    BY <2>3
  <2>8. o = q
    BY <2>4, <2>6, <2>7
  <2> QED BY <2>8 DEF o, q
<1>12. Md!Stacked(st, lev[k], txt[k]) = Append(SubSeq(st, 1, p), [level |-> lev[k], text |-> txt[k]])
  BY DEF Md!Stacked, p, cuts
<1> QED BY <1>10, <1>11, <1>12 DEF Opening, c, d, st

\* Recursion up to a bound.
Reaches(g, V, base, step, n) ==
  /\ g \in [0..n -> V]
  /\ \A i \in 0..n : g[i] = IF i = 0 THEN base ELSE step[i - 1][g[i - 1]]

LEMMA RecursionUpTo ==
  ASSUME NEW V, NEW base \in V, NEW step \in [Nat -> [V -> V]], NEW n \in Nat
  PROVE  \E g : Reaches(g, V, base, step, n)
<1>1. PICK f : Iterates(f, V, base, step)
  BY RecursionOnNat
<1> DEFINE g == [i \in 0..n |-> f[i]]
<1>2. g \in [0..n -> V]
  BY <1>1 DEF Iterates
<1>3. ASSUME NEW i \in 0..n, i # 0 PROVE g[i] = step[i - 1][g[i - 1]]
  <2>1. i - 1 \in Nat /\ i - 1 \in 0..n /\ (i - 1) + 1 = i
    BY <1>3
  <2>2. f[(i - 1) + 1] = step[i - 1][f[i - 1]]
    BY <1>1, <2>1 DEF Iterates
  <2> QED BY <2>1, <2>2
<1>4. g[0] = base
  BY <1>1 DEF Iterates
<1> HIDE DEF g
<1>5. Reaches(g, V, base, step, n)
  BY <1>2, <1>3, <1>4 DEF Reaches
<1> QED BY <1>5

\* A line that is a heading by itself has its level written on it.
LEMMA HeadingLines ==
  ASSUME NEW src \in Seq(TextLines)
  PROVE  /\ DOMAIN Md!ScanMdLines(src) = 1..Len(src)
         /\ \A i \in 1..Len(src) : Md!ScanMdLines(src)[i] = "heading" => src[i].is = "atx"
<1> DEFINE States == {Md!Outside} \cup {Md!Within(w, l) : w \in {"front", "fence"}, l \in TextLines}
           V == [state : States, kind : {"none", "frontmatter", "code", "heading", "underline", "text", "other"}]
           base == [state |-> Md!Outside, kind |-> "none"]
           step == [m \in Nat |-> [v \in V |->
                      IF m < Len(src) THEN Md!Scanned(v.state, src[m + 1], m + 1) ELSE v]]
           Rec(g) == g = [i \in 0..Len(src) |-> IF i = 0 THEN base
                            ELSE Md!Scanned(g[i - 1].state, src[i], i)]
           scan == CHOOSE g : Rec(g)
<1>1. ASSUME NEW st \in States, NEW l \in TextLines, NEW i \in Nat
      PROVE  /\ Md!Scanned(st, l, i) \in V
             /\ Md!Scanned(st, l, i).kind = "heading" => l.is = "atx"
  <2>1. Md!Classified(l) \in {"heading", "underline", "text", "other"}
    BY DEF Md!Classified
  <2>2. Md!Classified(l) = "heading" => l.is = "atx"
    BY DEF Md!Classified
  <2>3. Md!Outside \in States /\ Md!Within("front", l) \in States /\ Md!Within("fence", l) \in States
    OBVIOUS
  <2> HIDE DEF States
  <2>4. \/ \E s \in States : \E k \in {"frontmatter", "code"} :
              Md!Scanned(st, l, i) = [state |-> s, kind |-> k]
        \/ Md!Scanned(st, l, i) = [state |-> Md!Outside, kind |-> Md!Classified(l)]
    BY <2>3 DEF Md!Scanned
  <2>5. CASE Md!Scanned(st, l, i) = [state |-> Md!Outside, kind |-> Md!Classified(l)]
    BY <2>1, <2>2, <2>3, <2>5
  <2>6. CASE \E s \in States : \E k \in {"frontmatter", "code"} :
              Md!Scanned(st, l, i) = [state |-> s, kind |-> k]
    BY <2>6
  <2> QED BY <2>4, <2>5, <2>6
<1>2. base \in V
  OBVIOUS
<1> HIDE DEF base, States
<1>3. step \in [Nat -> [V -> V]]
  <2>1. ASSUME NEW m \in Nat, NEW v \in V
        PROVE  (IF m < Len(src) THEN Md!Scanned(v.state, src[m + 1], m + 1) ELSE v) \in V
    <3>1. CASE m < Len(src)
      <4>1. src[m + 1] \in TextLines /\ v.state \in States /\ m + 1 \in Nat
        BY <3>1
      <4> HIDE DEF V
      <4> QED BY <1>1, <3>1, <4>1
    <3> QED BY <3>1
  <2> HIDE DEF V
  <2> QED BY <2>1
<1>4. \E g : Rec(g)
  <2>0. PICK g : Reaches(g, V, base, step, Len(src))
    <3> HIDE DEF V, step
    <3>1. Len(src) \in Nat
      OBVIOUS
    <3> QED BY <1>2, <1>3, <3>1, RecursionUpTo
  <2>1. /\ g \in [0..Len(src) -> V]
        /\ \A i \in 0..Len(src) : g[i] = IF i = 0 THEN base ELSE step[i - 1][g[i - 1]]
    <3> HIDE DEF V, step
    <3> QED BY <2>0 DEF Reaches
  <2>2. ASSUME NEW i \in 0..Len(src), i # 0
        PROVE  g[i] = Md!Scanned(g[i - 1].state, src[i], i)
    <3>1. i - 1 \in Nat /\ i - 1 \in 0..Len(src) /\ i - 1 < Len(src) /\ (i - 1) + 1 = i
      BY <2>2
    <3>2. g[i] = step[i - 1][g[i - 1]] /\ g[i - 1] \in V
      BY <2>1, <2>2, <3>1
    <3> HIDE DEF V
    <3> QED BY <3>1, <3>2
  <2>3. g = [i \in 0..Len(src) |-> g[i]] /\ g[0] = base
    <3> HIDE DEF V, step
    <3>1. 0 \in 0..Len(src)
      OBVIOUS
    <3>2. g[0] = base
      BY <2>1, <3>1
    <3>3. g = [i \in 0..Len(src) |-> g[i]]
      BY <2>1
    <3> QED BY <3>2, <3>3
  <2> HIDE DEF V, step
  <2>4. Rec(g)
    BY <2>2, <2>3
  <2> QED BY <2>4
<1>5. Rec(scan)
  <2> HIDE DEF Rec
  <2> QED BY <1>4
<1> HIDE DEF scan, step
<1>6. /\ scan[0] = base
      /\ \A i \in 1..Len(src) : scan[i] = Md!Scanned(scan[i - 1].state, src[i], i)
  <2>1. \A i \in 1..Len(src) : i \in 0..Len(src) /\ i # 0
    OBVIOUS
  <2>2. 0 \in 0..Len(src)
    OBVIOUS
  <2> QED BY <1>5, <2>1, <2>2
<1> HIDE DEF Rec
<1> DEFINE T == {m \in Nat : m <= Len(src) => scan[m] \in V}
<1>7. Nat \subseteq T
  <2>1. 0 \in T
    BY <1>2, <1>6
  <2>2. ASSUME NEW m \in Nat, m \in T PROVE m + 1 \in T
    <3> SUFFICES ASSUME m + 1 <= Len(src) PROVE scan[m + 1] \in V
      OBVIOUS
    <3>1. m + 1 \in 1..Len(src) /\ (m + 1) - 1 = m /\ src[m + 1] \in TextLines /\ m + 1 \in Nat
      OBVIOUS
    <3>2. scan[m] \in V
      BY <2>2, <3>1
    <3>3. scan[m].state \in States
      BY <3>2
    <3>4. scan[m + 1] = Md!Scanned(scan[m].state, src[m + 1], m + 1)
      BY <1>6, <3>1
    <3> HIDE DEF V
    <3> QED BY <1>1, <3>1, <3>3, <3>4
  <2> QED BY <2>1, <2>2, NatSetInduction
<1>8. Md!ScanMdLines(src) = [i \in 1..Len(src) |-> scan[i].kind]
  BY DEF Md!ScanMdLines, scan, Rec, base
<1>9. ASSUME NEW i \in 1..Len(src), scan[i].kind = "heading" PROVE src[i].is = "atx"
  <2>1. i - 1 \in Nat /\ i - 1 <= Len(src) /\ src[i] \in TextLines /\ i \in Nat
    OBVIOUS
  <2>2. scan[i - 1] \in V
    BY <1>7, <2>1
  <2>3. scan[i - 1].state \in States
    BY <2>2
  <2>4. scan[i] = Md!Scanned(scan[i - 1].state, src[i], i)
    BY <1>6
  <2> HIDE DEF V
  <2> QED BY <1>1, <1>9, <2>1, <2>3, <2>4
<1> QED BY <1>8, <1>9

\* The heading stacks of a file are the headings that enclose each section.
LEMMA SectionsCarry ==
  ASSUME Md!LinesAssumption, NEW src \in Seq(TextLines)
  PROVE  LET n == Len(src)
             kinds == Md!ScanMdLines(src)
             H == {i \in 1..n : Md!IsHeading(kinds, i)}
             lev == [i \in H |-> Md!LevelOf(src, kinds, i)]
             txt == [i \in H |-> Md!TextOf(src, i)]
             secs == Md!ParseMdSections(src)
             opens == Chain(n, {i \in 1..n : i = 1 \/ i \in H})
         IN /\ \A i \in H : lev[i] \in Nat
            /\ Ascends(opens, {i \in 1..n : i = 1 \/ i \in H})
            /\ DOMAIN secs = 1..Len(opens)
            /\ \A k \in 1..Len(opens) :
                 /\ secs[k].start = opens[k]
                 /\ secs[k].end = IF k < Len(opens) THEN opens[k + 1] - 1 ELSE n
                 /\ opens[k] \notin H => secs[k].path = <<>>
                 /\ LET c == Chain(n, Enclosing(H, lev, opens[k]))
                    IN opens[k] \in H => secs[k].path = [a \in 1..Len(c) |-> txt[c[a]]]
<1> DEFINE n == Len(src)
           kinds == Md!ScanMdLines(src)
           H == {i \in 1..n : Md!IsHeading(kinds, i)}
           lev == [i \in H |-> Md!LevelOf(src, kinds, i)]
           txt == [i \in H |-> Md!TextOf(src, i)]
           secs == Md!ParseMdSections(src)
           B == {i \in 1..n : i = 1 \/ i \in H}
           opens == Chain(n, B)
           L == Len(opens)
           Prev(k) == IF k = 0 THEN 0 ELSE opens[k]
           Rec(g) == g = [k \in 0..L |-> IF k = 0 THEN <<>>
                            ELSE IF Md!IsHeading(kinds, opens[k])
                              THEN Md!Stacked(g[k - 1], Md!LevelOf(src, kinds, opens[k]), Md!TextOf(src, opens[k]))
                              ELSE g[k - 1]]
           stacks == CHOOSE g : Rec(g)
           goal(k) == Opening(n, H, lev, txt, Prev(k))
<1>0. n \in Nat /\ H \subseteq 1..n /\ B \subseteq 1..n
  OBVIOUS
<1>1. \A i \in H : lev[i] \in Nat
  <2> SUFFICES ASSUME NEW i \in H PROVE Md!LevelOf(src, kinds, i) \in Nat
    OBVIOUS
  <2>1. i \in 1..n /\ src[i] \in TextLines
    OBVIOUS
  <2>2. kinds[i] = "heading" => src[i].level \in Nat
    BY <2>1, HeadingLines DEF Md!LinesAssumption
  <2> QED BY <2>2 DEF Md!LevelOf
<1>2. Ascends(opens, B)
  BY <1>0, ChainLists
<1>3. Md!SectionBoundaries(kinds) = opens
  <2>1. DOMAIN kinds = 1..n
    BY HeadingLines
  <2>2. Md!Positions(kinds) = [i \in 1..n |-> i]
    BY <2>1 DEF Md!Positions
  <2>3. {i \in DOMAIN kinds : i = 1 \/ Md!IsHeading(kinds, i)} = B
    BY <2>1
  <2> HIDE DEF kinds, B
  <2> QED BY <2>2, <2>3, HeadingSelect DEF Md!SectionBoundaries, Chain
<1>4. secs = [k \in 1..L |-> Md!Section(src, kinds, stacks[k], opens[k],
                                       IF k < L THEN opens[k + 1] - 1 ELSE n)]
  BY <1>3 DEF Md!ParseMdSections
<1> HIDE DEF opens, kinds
<1>5. /\ L \in Nat
      /\ \A k \in 1..L : opens[k] \in 1..n /\ (opens[k] \in H <=> Md!IsHeading(kinds, opens[k]))
      /\ \A k \in 1..L : opens[k] = 1 \/ opens[k] \in H
      /\ \A k, m \in 1..L : k < m => opens[k] < opens[m]
      /\ \A m \in H : \E k \in 1..L : opens[k] = m
  BY <1>2 DEF Ascends
<1>6. goal(0) = <<>>
  <2>1. Enclosing(H, lev, 0) = {}
    BY DEF Enclosing
  <2>2. Ascends(Chain(n, {}), {})
    BY <1>0, ChainLists
  <2>3. Len(Chain(n, {})) = 0
    BY <2>2 DEF Ascends
  <2>4. \A c : Len(c) = 0 => Headed(c, lev, txt) = <<>>
    <3> HIDE DEF lev, txt
    <3> QED BY DEF Headed
  <2>5. Prev(0) = 0
    OBVIOUS
  <2> HIDE DEF lev, txt, H
  <2> QED BY <2>1, <2>3, <2>4, <2>5 DEF Opening
<1>7. ASSUME NEW k \in 1..L
      PROVE  goal(k) = IF Md!IsHeading(kinds, opens[k])
                         THEN Md!Stacked(goal(k - 1), Md!LevelOf(src, kinds, opens[k]), Md!TextOf(src, opens[k]))
                         ELSE goal(k - 1)
  <2> DEFINE j == Prev(k - 1)
  <2>1. j \in 0..n /\ j < opens[k] /\ Prev(k) = opens[k]
    <3>1. CASE k = 1
      BY <1>5, <3>1
    <3>2. CASE k # 1
      <4>1. k - 1 \in 1..L /\ k - 1 < k /\ k - 1 # 0 /\ k # 0
        BY <1>5, <3>2
      <4>2. opens[k - 1] < opens[k] /\ opens[k - 1] \in 1..n
        BY <1>5, <4>1
      <4> QED BY <4>1, <4>2
    <3> QED BY <3>1, <3>2
  <2>2. \A m \in H : m <= j \/ opens[k] <= m
    <3> SUFFICES ASSUME NEW m \in H, m < opens[k] PROVE m <= j
      BY <1>5
    <3>1. PICK i \in 1..L : opens[i] = m
      BY <1>5
    <3>2. i < k
      <4>1. ASSUME ~(i < k) PROVE FALSE
        <5>1. i = k \/ k < i
          BY <1>5, <4>1
        <5>2. opens[k] <= opens[i]
          BY <1>5, <5>1
        <5> QED BY <1>5, <3>1, <5>2
      <4> QED BY <4>1
    <3>3. k - 1 \in 1..L /\ k - 1 # 0 /\ (i = k - 1 \/ i < k - 1)
      BY <1>5, <3>2
    <3>4. opens[i] <= opens[k - 1]
      BY <1>5, <3>3
    <3> QED BY <3>1, <3>3, <3>4
  <2> HIDE DEF j, H
  <2>3. CASE opens[k] \in H
    <3>1. Md!Stacked(Opening(n, H, lev, txt, j), lev[opens[k]], txt[opens[k]]) = Opening(n, H, lev, txt, opens[k])
      <4> HIDE DEF lev, txt, n
      <4> QED BY <1>0, <1>1, <2>1, <2>2, <2>3, HeadingPops
    <3>2. lev[opens[k]] = Md!LevelOf(src, kinds, opens[k]) /\ txt[opens[k]] = Md!TextOf(src, opens[k])
      BY <2>3
    <3>3. Md!IsHeading(kinds, opens[k])
      BY <1>5, <2>3
    <3> HIDE DEF lev, txt, n
    <3> QED BY <2>1, <3>1, <3>2, <3>3 DEF j
  <2>4. CASE opens[k] \notin H
    <3>1. opens[k] = 1 /\ ~Md!IsHeading(kinds, opens[k])
      BY <1>5, <2>4
    <3>2. j = 0
      BY <2>1, <3>1
    <3>3. Enclosing(H, lev, 1) = {} /\ Enclosing(H, lev, 0) = {}
      <4>1. \A m \in H : m \in Nat /\ m # 1 /\ m # 0
        BY <1>0, <2>4, <3>1
      <4> QED BY <4>1 DEF Enclosing
    <3>4. goal(k) = goal(k - 1)
      BY <2>1, <3>1, <3>2, <3>3 DEF j, Opening
    <3> HIDE DEF goal
    <3> QED BY <3>1, <3>4
  <2> QED BY <2>3, <2>4
<1> HIDE DEF goal
<1>8. \E g : Rec(g)
  <2> DEFINE g == [k \in 0..L |-> goal(k)]
  <2>1. \A k \in 0..L : k # 0 => k \in 1..L /\ k - 1 \in 0..L
    BY <1>5
  <2>2. \A k \in 0..L : g[k] = goal(k)
    OBVIOUS
  <2>3. g = [k \in 0..L |-> g[k]]
    OBVIOUS
  <2> HIDE DEF g
  <2>4. \A k \in 0..L : g[k] = IF k = 0 THEN <<>>
                            ELSE IF Md!IsHeading(kinds, opens[k])
                              THEN Md!Stacked(g[k - 1], Md!LevelOf(src, kinds, opens[k]), Md!TextOf(src, opens[k]))
                              ELSE g[k - 1]
    BY <1>6, <1>7, <2>1, <2>2
  <2>5. Rec(g)
    BY <2>3, <2>4
  <2> QED BY <2>5
<1>9. Rec(stacks)
  <2> HIDE DEF Rec
  <2> QED BY <1>8
<1> HIDE DEF stacks
<1>10. \A k \in 0..L : stacks[k] = IF k = 0 THEN <<>>
                            ELSE IF Md!IsHeading(kinds, opens[k])
                              THEN Md!Stacked(stacks[k - 1], Md!LevelOf(src, kinds, opens[k]), Md!TextOf(src, opens[k]))
                              ELSE stacks[k - 1]
  BY <1>9
<1> HIDE DEF Rec
<1> DEFINE T == {k \in Nat : k <= L => stacks[k] = goal(k)}
<1>11. Nat \subseteq T
  <2>1. 0 \in T
    BY <1>5, <1>6, <1>10
  <2>2. ASSUME NEW m \in Nat, m \in T PROVE m + 1 \in T
    <3> SUFFICES ASSUME m + 1 <= L PROVE stacks[m + 1] = goal(m + 1)
      OBVIOUS
    <3>1. m + 1 \in 1..L /\ m + 1 \in 0..L /\ m + 1 # 0 /\ (m + 1) - 1 = m /\ m <= L
      BY <1>5
    <3>2. stacks[m] = goal(m)
      BY <2>2, <3>1
    <3> HIDE DEF L
    <3> QED BY <1>7, <1>10, <3>1, <3>2
  <2> QED BY <2>1, <2>2, NatSetInduction
<1>12. ASSUME NEW k \in 1..L
       PROVE  /\ secs[k].start = opens[k]
              /\ secs[k].end = IF k < L THEN opens[k + 1] - 1 ELSE n
              /\ opens[k] \notin H => secs[k].path = <<>>
              /\ LET c == Chain(n, Enclosing(H, lev, opens[k]))
                 IN opens[k] \in H => secs[k].path = [a \in 1..Len(c) |-> txt[c[a]]]
  <2> DEFINE c == Chain(n, Enclosing(H, lev, opens[k]))
             x == IF k < L THEN opens[k + 1] - 1 ELSE n
             path == IF Md!IsHeading(kinds, opens[k]) THEN [a \in 1..Len(stacks[k]) |-> stacks[k][a].text] ELSE <<>>
  <2>1. secs[k] = Md!Section(src, kinds, stacks[k], opens[k], x)
    BY <1>4
  <2> HIDE DEF x
  <2>2. secs[k].start = opens[k] /\ secs[k].end = x /\ secs[k].path = path
    BY <2>1 DEF Md!Section
  <2>3. stacks[k] = Headed(c, lev, txt)
    <3>1. k \in Nat /\ k # 0 /\ k <= L
      BY <1>5
    <3>2. stacks[k] = goal(k)
      BY <1>11, <3>1
    <3> QED BY <3>1, <3>2 DEF goal, Opening
  <2>4. Ascends(c, Enclosing(H, lev, opens[k]))
    <3>1. Enclosing(H, lev, opens[k]) \subseteq 1..n
      BY <1>0 DEF Enclosing
    <3> QED BY <1>0, <3>1, ChainLists
  <2> HIDE DEF c
  <2>5. Len(stacks[k]) = Len(c) /\ \A a \in 1..Len(c) : stacks[k][a].text = txt[c[a]]
    <3>1. Len(c) \in Nat
      BY <2>4 DEF Ascends
    <3> HIDE DEF lev, txt
    <3> QED BY <2>3, <3>1 DEF Headed
  <2>6. opens[k] \in H => path = [a \in 1..Len(c) |-> txt[c[a]]]
    <3> HIDE DEF lev, txt
    <3> QED BY <1>5, <2>5
  <2>7. opens[k] \notin H => path = <<>>
    BY <1>5
  <2> HIDE DEF path, H, lev, txt
  <2> QED BY <2>2, <2>6, <2>7 DEF c, x
<1>13. DOMAIN secs = 1..L
  BY <1>4
<1> HIDE DEF secs, H, lev, txt
<1> QED BY <1>1, <1>2, <1>12, <1>13 DEF secs, H, lev, txt, opens, kinds

\* Sections that begin at increasing lines, the first at line 1, partition the
\* lines.
LEMMA SectionsPartition ==
  ASSUME NEW n \in Nat, NEW S, S \subseteq 1..n, 1 \in S, NEW opens, Ascends(opens, S),
         NEW secs, \A k \in 1..Len(opens) : /\ secs[k].start = opens[k]
                                        /\ secs[k].end = IF k < Len(opens) THEN opens[k + 1] - 1 ELSE n,
         NEW i \in 1..n
  PROVE  \E k \in 1..Len(opens) :
           /\ secs[k].start <= i /\ i <= secs[k].end
           /\ \A o \in 1..Len(opens) \ {k} : i < secs[o].start \/ secs[o].end < i
<1>1. /\ Len(opens) \in Nat /\ \A k \in 1..Len(opens) : opens[k] \in 1..n
      /\ \A k, m \in 1..Len(opens) : k < m => opens[k] < opens[m]
  BY DEF Ascends
<1> DEFINE after == {k \in Nat : k \in 1..Len(opens) => i < opens[k]} \ {0}
<1>2. Len(opens) + 1 \in after
  BY <1>1
<1>3. PICK m \in after : \A x \in after : m <= x
  <2>1. after \subseteq Nat
    OBVIOUS
  <2> HIDE DEF after
  <2> QED BY <1>2, <2>1, Least
<1>4. 1 \notin after
  <2>1. PICK k \in 1..Len(opens) : opens[k] = 1
    BY DEF Ascends
  <2>2. 1 \in 1..Len(opens) /\ (k = 1 \/ 1 < k)
    BY <1>1
  <2>3. opens[1] = 1
    BY <1>1, <2>1, <2>2
  <2> QED BY <2>2, <2>3
<1> DEFINE k == m - 1
<1>5. k \in 1..Len(opens) /\ opens[k] <= i
  <2>1. m \in Nat /\ m # 0 /\ m # 1 /\ m <= Len(opens) + 1
    BY <1>2, <1>3, <1>4
  <2>2. k \in Nat /\ k # 0 /\ k \notin after /\ k \in 1..Len(opens)
    BY <1>1, <1>3, <2>1
  <2>3. ~(i < opens[k])
    BY <2>2
  <2> QED BY <1>1, <2>2, <2>3
<1>6. k + 1 \in 1..Len(opens) => i < opens[k + 1]
  BY <1>3
<1> HIDE DEF k, after
<1>7. i <= secs[k].end
  <2>1. CASE k < Len(opens)
    <3>1. k + 1 \in 1..Len(opens) /\ opens[k + 1] \in 1..n /\ i < opens[k + 1]
      BY <1>1, <1>5, <1>6, <2>1
    <3> QED BY <1>5, <2>1, <3>1
  <2>2. CASE ~(k < Len(opens))
    BY <1>5, <2>2
  <2> QED BY <2>1, <2>2
<1>8. ASSUME NEW o \in 1..Len(opens), o # k PROVE i < secs[o].start \/ secs[o].end < i
  <2>1. CASE o < k
    <3>1. o < Len(opens) /\ o + 1 \in 1..Len(opens) /\ (o + 1 = k \/ o + 1 < k)
      BY <1>1, <1>5, <2>1
    <3>2. opens[o + 1] <= opens[k] /\ opens[o + 1] \in 1..n /\ opens[k] \in 1..n
      BY <1>1, <1>5, <3>1
    <3>3. secs[o].end = opens[o + 1] - 1
      BY <3>1
    <3> QED BY <1>5, <3>2, <3>3
  <2>2. CASE k < o
    <3>1. k + 1 \in 1..Len(opens) /\ (k + 1 = o \/ k + 1 < o)
      BY <1>1, <1>5, <2>2
    <3>2. i < opens[k + 1] /\ opens[k + 1] <= opens[o] /\ opens[k + 1] \in 1..n /\ opens[o] \in 1..n
      BY <1>1, <1>6, <3>1
    <3>3. secs[o].start = opens[o]
      OBVIOUS
    <3> QED BY <3>2, <3>3
  <2> QED BY <1>5, <1>8, <2>1, <2>2
<1>9. secs[k].start <= i
  BY <1>5
<1> QED BY <1>5, <1>7, <1>8, <1>9

LEMMA SectionsHold ==
  ASSUME Md!LinesAssumption, document \in Seq(TextLines)
  PROVE  Md!SectionsNest
<1> DEFINE n == Len(document)
           kinds == Md!ScanMdLines(document)
           H == {i \in 1..n : Md!IsHeading(kinds, i)}
           lev == [i \in H |-> Md!LevelOf(document, kinds, i)]
           txt == [i \in H |-> Md!TextOf(document, i)]
           secs == Md!ParseMdSections(document)
           B == {i \in 1..n : i = 1 \/ i \in H}
           opens == Chain(n, B)
           heads == {i \in DOMAIN document : Md!IsHeading(kinds, i)}
           level(i) == Md!LevelOf(document, kinds, i)
           encloses(i, j) == i <= j /\ \A m \in heads : i < m /\ m <= j => level(i) < level(m)
<1>1. n \in Nat /\ DOMAIN document = 1..n /\ heads = H /\ H \subseteq 1..n
  OBVIOUS
<1>2. /\ Ascends(opens, B) /\ DOMAIN secs = 1..Len(opens)
      /\ \A k \in 1..Len(opens) :
                 /\ secs[k].start = opens[k]
                 /\ secs[k].end = IF k < Len(opens) THEN opens[k + 1] - 1 ELSE n
                 /\ opens[k] \notin H => secs[k].path = <<>>
                 /\ LET c == Chain(n, Enclosing(H, lev, opens[k]))
                    IN opens[k] \in H => secs[k].path = [a \in 1..Len(c) |-> txt[c[a]]]
  BY SectionsCarry
<1> HIDE DEF secs, opens
<1>3. \A i \in DOMAIN document : \E k \in DOMAIN secs :
          /\ secs[k].start <= i /\ i <= secs[k].end
          /\ \A o \in DOMAIN secs \ {k} : i < secs[o].start \/ secs[o].end < i
  <2> SUFFICES ASSUME NEW i \in 1..n
               PROVE  \E k \in 1..Len(opens) :
                        /\ secs[k].start <= i /\ i <= secs[k].end
                        /\ \A o \in 1..Len(opens) \ {k} : i < secs[o].start \/ secs[o].end < i
    BY <1>1, <1>2
  <2>1. B \subseteq 1..n /\ 1 \in B
    BY <1>1
  <2>2. \A k \in 1..Len(opens) : /\ secs[k].start = opens[k]
                             /\ secs[k].end = IF k < Len(opens) THEN opens[k + 1] - 1 ELSE n
    BY <1>2
  <2> HIDE DEF B, n
  <2> QED BY <1>1, <1>2, <2>1, <2>2, SectionsPartition
<1>4. ASSUME NEW k \in DOMAIN secs
      PROVE  LET s == secs[k].start
                 chain == Md!Select(Md!Positions(document), {i \in heads : encloses(i, s)})
             IN /\ s = 1 \/ s \in heads
                /\ secs[k].path = IF s \in heads
                                    THEN [x \in DOMAIN chain |-> Md!TextOf(document, chain[x])] ELSE <<>>
  <2> DEFINE s == secs[k].start
             c == Chain(n, Enclosing(H, lev, s))
             chain == Md!Select(Md!Positions(document), {i \in heads : encloses(i, s)})
  <2>1. k \in 1..Len(opens) /\ s = opens[k] /\ opens[k] \in B
    BY <1>2 DEF Ascends
  <2>2. {i \in heads : encloses(i, s)} = Enclosing(H, lev, s)
    <3>1. \A i \in H : lev[i] = level(i)
      OBVIOUS
    <3> HIDE DEF lev, level, H, heads
    <3> QED BY <1>1, <3>1 DEF Enclosing
  <2>3. Md!Positions(document) = [i \in 1..n |-> i]
    BY <1>1 DEF Md!Positions
  <2>4. chain = c
    <3> HIDE DEF encloses, heads, lev, H, n
    <3> QED BY <2>2, <2>3, HeadingSelect DEF Chain
  <2>5. c \in Seq(Nat) /\ \A a \in 1..Len(c) : c[a] \in H
    <3>1. Enclosing(H, lev, s) \subseteq H
      BY DEF Enclosing
    <3>2. Ascends(c, Enclosing(H, lev, s))
      <4> HIDE DEF H, lev, n
      <4> QED BY <1>1, <3>1, ChainLists
    <3> HIDE DEF H, lev, c
    <3> QED BY <3>1, <3>2 DEF Ascends
  <2>6. s \in H => secs[k].path = [a \in 1..Len(c) |-> txt[c[a]]]
    <3> HIDE DEF H, lev, txt, n
    <3> QED BY <1>2, <2>1
  <2>7. s \notin H => secs[k].path = <<>>
    <3> HIDE DEF H, lev, txt, n
    <3> QED BY <1>2, <2>1
  <2>8. s = 1 \/ s \in heads
    BY <1>1, <2>1
  <2> HIDE DEF c, chain
  <2>9. DOMAIN chain = 1..Len(c) /\ \A a \in 1..Len(c) : txt[c[a]] = Md!TextOf(document, chain[a])
    BY <2>4, <2>5
  <2> HIDE DEF H, heads, txt, s
  <2>10. [a \in 1..Len(c) |-> txt[c[a]]] = [x \in DOMAIN chain |-> Md!TextOf(document, chain[x])]
    BY <2>9
  <2>11. secs[k].path = IF s \in heads
                         THEN [x \in DOMAIN chain |-> Md!TextOf(document, chain[x])] ELSE <<>>
    BY <1>1, <2>6, <2>7, <2>10
  <2> QED BY <2>8, <2>11 DEF chain, s
<1>5. \A i \in heads : ~\E o \in DOMAIN document :
          /\ o < i /\ document[o].is = "fence" /\ kinds[o] = "code"
          /\ \A c \in o + 1..i : kinds[c] = "code"
  <2> SUFFICES ASSUME NEW i \in heads, NEW o \in 1..n, o < i, \A c \in o + 1..i : kinds[c] = "code"
               PROVE  FALSE
    BY <1>1
  <2>1. i \in o + 1..i
    BY <1>1
  <2>2. kinds[i] = "heading" \/ kinds[i] = "text"
    BY DEF Md!IsHeading, Md!Setext
  <2> HIDE DEF kinds
  <2> QED BY <2>1, <2>2
<1> HIDE DEF kinds
<1> QED BY <1>3, <1>4, <1>5 DEF Md!SectionsNest, secs, kinds

-----------------------------------------------------------------------------
HeadingInv ==
  /\ document \in Seq(TextLines) /\ indexed \in Seq(TextLines)
  /\ Md!PathIsOfHit

LEMMA HeadingsInit == Md!LinesAssumption /\ Md!Init => HeadingInv
BY DEF Md!LinesAssumption, Md!Init, HeadingInv, Md!PathIsOfHit

LEMMA HeadingsNext == Md!LinesAssumption /\ HeadingInv /\ [Md!Next]_Md!vars => HeadingInv'
<1> SUFFICES ASSUME Md!LinesAssumption, HeadingInv, [Md!Next]_Md!vars PROVE HeadingInv'
  OBVIOUS
<1> USE DEF HeadingInv
<1>1. CASE Md!Edit
  <2>1. document' \in Seq(TextLines)
    <3>1. CASE \E l \in NewLines : document' = <<l>> \o document
      <4>1. PICK l \in TextLines : document' = <<l>> \o document
        BY <3>1 DEF Md!LinesAssumption
      <4>2. <<l>> \in Seq(TextLines)
        OBVIOUS
      <4> QED BY <4>1, <4>2
    <3>2. CASE document # <<>> /\ document' = Tail(document)
      BY <3>2
    <3> QED BY <1>1, <3>1, <3>2 DEF Md!Edit
  <2> QED BY <1>1, <2>1 DEF Md!Edit, Md!PathIsOfHit
<1>2. CASE Md!Flush
  BY <1>2 DEF Md!Flush, Md!PathIsOfHit
<1>3. ASSUME NEW line \in DOMAIN indexed, Md!Search(line) PROVE HeadingInv'
  <2>1. /\ hit'.line = line /\ hit'.path = Md!HeadingPathFor(document, line) /\ hit'.of = indexed
        /\ hit'.current = (document = indexed)
    BY <1>3 DEF Md!Search
  <2>2. hit'.current => hit'.path = Md!HeadingPathFor(hit'.of, hit'.line)
    BY <2>1
  <2>3. Md!PathIsOfHit'
    BY <2>2 DEF Md!PathIsOfHit, Md!HeadingPathFor
  <2> QED BY <1>3, <2>3 DEF Md!Search
<1>4. CASE Md!Answered
  BY <1>4 DEF Md!Answered, Md!PathIsOfHit
<1>5. CASE UNCHANGED Md!vars
  BY <1>5 DEF Md!vars, Md!PathIsOfHit
<1> QED BY <1>1, <1>2, <1>3, <1>4, <1>5 DEF Md!Next

(* The sections of a file partition its lines and each has as its path the    *)
(* headings that enclose it; a hit's path is that of its section in the text  *)
(* the index has, unless the file was edited since: for files of any lines    *)
(* (parseMdSections, headingPathFor).                                         *)
THEOREM HeadingsEnclose == PartsSpec => []SectionsAgree
<1> DEFINE Inv == part = "headings" => HeadingInv
<1>1. PartsInit => Inv
  BY PartsStart, PartsAssumption, HeadingsInit
<1>2. Inv /\ [PartsNext]_<<part, partsVars>> => Inv'
  BY PartsStep, PartsAssumption, HeadingsNext
<1>3. Inv => SectionsAgree
  BY PartsAssumption, SectionsHold DEF SectionsAgree, Md!SectionsAgree, HeadingInv
<1> QED BY <1>1, <1>2, <1>3, PTL DEF PartsSpec
==============================================================================
