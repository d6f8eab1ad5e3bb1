--------------------------- MODULE ConversationProofs ---------------------------
(***************************************************************************)
(* What programs say to each other arrives, proved for any conversation:   *)
(* a handler is given what its caller passed, and a caller reads what the  *)
(* agent answered.  No induction is used: what is true of a fold over the  *)
(* parts of a text is true of its first n parts for every n, since there   *)
(* is no least n of which it is not.                                       *)
(***************************************************************************)
EXTENDS DeploymentProofs

-----------------------------------------------------------------------------
(* Sequences that are put together.                                         *)

(* A set of numbers has a least one. *)
LEMMA LeastNumber ==
  ASSUME NEW S \in SUBSET Nat, S # {}
  PROVE  \E i \in S : \A j \in S : i <= j
  <1>1. PICK i \in S : \A j \in S : <<j, i>> \notin OpToRel(<, Nat)
    BY NatLessThanWellFounded, WFMin
  <1>2. \A j \in S : ~(j < i)
    BY <1>1 DEF OpToRel
  <1> QED
    BY <1>2

(* A set of numbers that holds zero, and with each number the next, holds all. *)
LEMMA AllNumbers ==
  ASSUME NEW N \in SUBSET Nat, 0 \in N, \A n \in N : n + 1 \in N
  PROVE  N = Nat
  <1> SUFFICES ASSUME Nat \ N # {} PROVE FALSE
    OBVIOUS
  <1>1. PICK n \in Nat \ N : \A m \in Nat \ N : n <= m
    <2>1. Nat \ N \in SUBSET Nat
      OBVIOUS
    <2> QED
      BY <2>1, LeastNumber
  <1>2. n # 0 /\ n - 1 \in Nat /\ n - 1 < n
    BY <1>1
  <1>3. n - 1 \in N
    BY <1>1, <1>2
  <1> QED
    BY <1>1, <1>2, <1>3

(* f[i] is the concatenation of the first i of the sequences. *)
Flattens(s, f) ==
    f = [i \in 1 .. Len(s) |-> IF i = 1 THEN s[i] ELSE f[i - 1] \o s[i]]

(* Its values, one by one. *)
LEMMA FlattensNext ==
  ASSUME NEW s, NEW f, Flattens(s, f), NEW n \in Nat, n + 1 \in 1 .. Len(s)
  PROVE  f[n + 1] = IF n = 0 THEN s[n + 1] ELSE f[n] \o s[n + 1]
  <1>1. \A i \in 1 .. Len(s) : f[i] = IF i = 1 THEN s[i] ELSE f[i - 1] \o s[i]
    BY DEF Flattens
  <1>2. f[n + 1] = IF n + 1 = 1 THEN s[n + 1] ELSE f[(n + 1) - 1] \o s[n + 1]
    BY <1>1
  <1>3. (n + 1) - 1 = n /\ (n + 1 = 1 <=> n = 0)
    OBVIOUS
  <1> QED
    BY <1>2, <1>3

LEMMA FlattensTyped ==
  ASSUME NEW S, NEW s \in Seq(Seq(S)), NEW f, Flattens(s, f)
  PROVE  \A i \in 1 .. Len(s) : f[i] \in Seq(S)
  <1> DEFINE N == {n \in Nat : n \in 1 .. Len(s) => f[n] \in Seq(S)}
  <1>1. Len(s) \in Nat
    BY LenProperties
  <1>2. ASSUME NEW n \in N PROVE n + 1 \in N
    <2> SUFFICES ASSUME n + 1 \in 1 .. Len(s) PROVE f[n + 1] \in Seq(S)
      OBVIOUS
    <2>1. s[n + 1] \in Seq(S)
      BY ElementOfSeq
    <2>2. f[n + 1] = IF n = 0 THEN s[n + 1] ELSE f[n] \o s[n + 1]
      BY FlattensNext
    <2>3. CASE n = 0
      BY <2>1, <2>2, <2>3
    <2>4. CASE n # 0
      <3>1. f[n] \in Seq(S)
        BY <1>1, <2>4
      <3>2. f[n] \o s[n + 1] \in Seq(S)
        BY <2>1, <3>1, ConcatProperties
      <3> QED
        BY <2>2, <2>4, <3>2
    <2> QED
      BY <2>3, <2>4
  <1>3. N = Nat
    <2>1. N \in SUBSET Nat /\ 0 \in N
      OBVIOUS
    <2> HIDE DEF N
    <2> QED
      BY <1>2, <2>1, AllNumbers
  <1> SUFFICES ASSUME NEW i \in 1 .. Len(s) PROVE f[i] \in Seq(S)
    OBVIOUS
  <1>4. i \in N
    <2>1. i \in Nat
      BY <1>1
    <2> HIDE DEF N
    <2> QED
      BY <1>3, <2>1
  <1> QED
    BY <1>4

LEMMA FlattensOnce ==
  ASSUME NEW S, NEW s \in Seq(Seq(S)), NEW f, NEW g, Flattens(s, f), Flattens(s, g)
  PROVE  f = g
  <1> DEFINE N == {n \in Nat : n \in 1 .. Len(s) => f[n] = g[n]}
  <1>1. Len(s) \in Nat
    BY LenProperties
  <1>2. ASSUME NEW n \in N PROVE n + 1 \in N
    <2> SUFFICES ASSUME n + 1 \in 1 .. Len(s) PROVE f[n + 1] = g[n + 1]
      OBVIOUS
    <2>1. f[n + 1] = IF n = 0 THEN s[n + 1] ELSE f[n] \o s[n + 1]
      BY FlattensNext
    <2>2. g[n + 1] = IF n = 0 THEN s[n + 1] ELSE g[n] \o s[n + 1]
      BY FlattensNext
    <2>3. n # 0 => f[n] = g[n]
      BY <1>1
    <2> QED
      BY <2>1, <2>2, <2>3
  <1>3. N = Nat
    <2>1. N \in SUBSET Nat /\ 0 \in N
      OBVIOUS
    <2> HIDE DEF N
    <2> QED
      BY <1>2, <2>1, AllNumbers
  <1>4. \A i \in 1 .. Len(s) : f[i] = g[i]
    BY <1>1, <1>3
  <1> QED
    BY <1>4 DEF Flattens

(* Restricted to a prefix, and extended by one more sequence. *)
LEMMA FlattensMore ==
  ASSUME NEW S, NEW s \in Seq(Seq(S)), NEW t \in Seq(S), NEW f, Flattens(s, f)
  PROVE  LET n == Len(s) + 1
             last == IF s = <<>> THEN t ELSE f[Len(s)] \o t
         IN  Flattens(Append(s, t), [i \in 1 .. n |-> IF i = n THEN last ELSE f[i]])
  <1> DEFINE n == Len(s) + 1
             last == IF s = <<>> THEN t ELSE f[Len(s)] \o t
             g == [i \in 1 .. n |-> IF i = n THEN last ELSE f[i]]
             u == Append(s, t)
  <1>1. Len(s) \in Nat /\ (s = <<>> <=> Len(s) = 0)
    BY LenProperties, EmptySeq
  <1>2. Len(u) = n /\ u[n] = t /\ \A i \in 1 .. Len(s) : u[i] = s[i]
    BY <1>1, AppendProperties
  <1>3. ASSUME NEW i \in 1 .. n PROVE g[i] = IF i = 1 THEN u[i] ELSE g[i - 1] \o u[i]
    <2>1. CASE i = n
      <3>1. CASE i = 1
        BY <1>1, <1>2, <2>1, <3>1
      <3>2. CASE i # 1
        <4>1. i - 1 \in 1 .. n /\ i - 1 # n /\ i - 1 = Len(s) /\ s # <<>>
          BY <1>1, <2>1, <3>2
        <4>2. g[i] = f[Len(s)] \o t /\ g[i - 1] = f[Len(s)]
          BY <2>1, <4>1
        <4> QED
          BY <1>2, <2>1, <3>2, <4>2
      <3> QED
        BY <3>1, <3>2
    <2>2. CASE i # n
      <3>1. i \in 1 .. Len(s)
        BY <1>1, <2>2
      <3>2. f[i] = IF i = 1 THEN s[i] ELSE f[i - 1] \o s[i]
        BY <3>1 DEF Flattens
      <3>3. i # 1 => i - 1 \in 1 .. n /\ i - 1 # n
        BY <1>1, <3>1
      <3>4. g[i] = f[i] /\ (i # 1 => g[i - 1] = f[i - 1])
        BY <2>2, <3>3
      <3> QED
        BY <1>2, <3>1, <3>2, <3>4
    <2> QED
      BY <2>1, <2>2
  <1>4. g = [i \in 1 .. Len(u) |-> IF i = 1 THEN u[i] ELSE g[i - 1] \o u[i]]
    <2>1. g = [i \in 1 .. n |-> g[i]]
      OBVIOUS
    <2> HIDE DEF g
    <2> QED
      BY <1>2, <1>3, <2>1
  <1> QED
    BY <1>4 DEF Flattens

LEMMA FlattensSome ==
  ASSUME NEW S, NEW s \in Seq(Seq(S))
  PROVE  \E f : Flattens(s, f)
  <1> DEFINE N == {n \in Nat : \A t \in Seq(Seq(S)) : Len(t) = n => \E f : Flattens(t, f)}
  <1>1. 0 \in N
    <2> SUFFICES ASSUME NEW t \in Seq(Seq(S)), Len(t) = 0 PROVE \E f : Flattens(t, f)
      OBVIOUS
    <2>1. 1 .. Len(t) = {}
      OBVIOUS
    <2> QED
      BY <2>1 DEF Flattens
  <1>2. ASSUME NEW n \in N PROVE n + 1 \in N
    <2> SUFFICES ASSUME NEW t \in Seq(Seq(S)), Len(t) = n + 1 PROVE \E f : Flattens(t, f)
      OBVIOUS
    <2>1. /\ n + 1 \in 1 .. Len(t)
          /\ t[n + 1] \in Seq(S)
          /\ SubSeq(t, 1, n) \in Seq(Seq(S)) /\ Len(SubSeq(t, 1, n)) = n
          /\ t = Append(SubSeq(t, 1, n), t[n + 1])
      <3>1. n + 1 \in 1 .. Len(t) /\ t # <<>> /\ n = Len(t) - 1
        BY EmptySeq
      <3>2. t = Append(SubSeq(t, 1, n), t[n + 1]) /\ SubSeq(t, 1, n) \in Seq(Seq(S))
        BY <3>1
      <3>3. Len(SubSeq(t, 1, n)) = n
        BY <3>1
      <3> QED
        BY <3>1, <3>2, <3>3, ElementOfSeq
    <2>2. PICK f : Flattens(SubSeq(t, 1, n), f)
      BY <2>1
    <2>3. \E g : Flattens(Append(SubSeq(t, 1, n), t[n + 1]), g)
      BY <2>1, <2>2, FlattensMore
    <2> QED
      BY <2>1, <2>3
  <1>3. N = Nat
    <2>1. N \in SUBSET Nat
      OBVIOUS
    <2> HIDE DEF N
    <2> QED
      BY <1>1, <1>2, <2>1, AllNumbers
  <1>4. Len(s) \in N
    BY <1>3, LenProperties
  <1> QED
    BY <1>4

(* Concatenating a sequence of sequences, one after the other. *)
LEMMA FlattenOneMore ==
  ASSUME NEW S, NEW s \in Seq(Seq(S))
  PROVE  /\ FlattenSeq(s) \in Seq(S)
         /\ \A t \in Seq(S) : FlattenSeq(Append(s, t)) = FlattenSeq(s) \o t
  <1>1. \A u \in Seq(Seq(S)) : \A f : Flattens(u, f) /\ u # <<>> => FlattenSeq(u) = f[Len(u)]
    <2> SUFFICES ASSUME NEW u \in Seq(Seq(S)), NEW f, Flattens(u, f), u # <<>>
                 PROVE  FlattenSeq(u) = f[Len(u)]
      OBVIOUS
    <2> DEFINE c == CHOOSE g : Flattens(u, g)
    <2>1. Flattens(u, c)
      OBVIOUS
    <2>2. c = f
      <3> HIDE DEF c
      <3> QED
        BY <2>1, FlattensOnce
    <2>3. Len(u) # 0
      BY EmptySeq
    <2>4. FlattenSeq(u) = c[Len(u)]
      BY <2>3 DEF FlattenSeq, Flattens
    <2> QED
      BY <2>2, <2>4
  <1>2. FlattenSeq(<<>>) = <<>>
    BY DEF FlattenSeq
  <1>3. PICK f : Flattens(s, f)
    BY FlattensSome
  <1>4. Len(s) \in Nat /\ (s = <<>> <=> Len(s) = 0)
    BY LenProperties, EmptySeq
  <1>5. FlattenSeq(s) \in Seq(S) /\ (s # <<>> => FlattenSeq(s) = f[Len(s)])
    BY <1>1, <1>2, <1>3, <1>4, FlattensTyped, EmptySeq
  <1>6. ASSUME NEW t \in Seq(S) PROVE FlattenSeq(Append(s, t)) = FlattenSeq(s) \o t
    <2> DEFINE n == Len(s) + 1
               last == IF s = <<>> THEN t ELSE f[Len(s)] \o t
               g == [i \in 1 .. n |-> IF i = n THEN last ELSE f[i]]
               u == Append(s, t)
    <2>1. Flattens(u, g)
      BY <1>3, FlattensMore
    <2>2. u \in Seq(Seq(S)) /\ u # <<>> /\ Len(u) = n
      BY AppendProperties
    <2>3. n \in 1 .. n
      BY <1>4
    <2>4. g[n] = last
      BY <2>3
    <2>5. FlattenSeq(u) = last
      <3> HIDE DEF u, g, last
      <3> QED
        BY <1>1, <2>1, <2>2, <2>4
    <2>6. <<>> \o t = t
      BY ConcatEmptySeq
    <2> QED
      BY <1>2, <1>5, <2>5, <2>6
  <1> QED
    BY <1>5, <1>6

(* The concatenation of the first sequences, of one more of them, and of all. *)
LEMMA FlattenPrefix ==
  ASSUME NEW S, NEW s \in Seq(Seq(S))
  PROVE  /\ FlattenSeq(SubSeq(s, 1, 0)) = <<>>
         /\ FlattenSeq(SubSeq(s, 1, Len(s))) = FlattenSeq(s)
         /\ \A n \in Nat : FlattenSeq(SubSeq(s, 1, n + 1)) =
              IF n + 1 \in 1 .. Len(s) THEN FlattenSeq(SubSeq(s, 1, n)) \o s[n + 1]
              ELSE FlattenSeq(SubSeq(s, 1, n + 1))
  <1>1. Len(s) \in Nat
    BY LenProperties
  <1>2. SubSeq(s, 1, 0) = <<>> /\ FlattenSeq(<<>>) = <<>>
    <2>1. SubSeq(s, 1, 0) = <<>>
      BY SubSeqEmpty
    <2> QED
      BY <2>1 DEF FlattenSeq
  <1>3. SubSeq(s, 1, Len(s)) = s
    BY SubSeqFull
  <1>4. ASSUME NEW n \in Nat, n + 1 \in 1 .. Len(s)
        PROVE  FlattenSeq(SubSeq(s, 1, n + 1)) = FlattenSeq(SubSeq(s, 1, n)) \o s[n + 1]
    <2>1. s[n + 1] \in Seq(S)
      BY <1>4, ElementOfSeq
    <2>2. SubSeq(s, 1, n) \in Seq(Seq(S))
      <3>1. \A i \in 1 .. n : s[i] \in Seq(S)
        BY <1>1, <1>4, ElementOfSeq
      <3> QED
        BY <3>1, SubSeqProperties
    <2>3. SubSeq(s, 1, n + 1) = Append(SubSeq(s, 1, n), s[n + 1])
      <3>1. SubSeq(s, 1, n + 1) = SubSeq(s, 1, (n + 1) - 1) \o <<s[n + 1]>>
        <4>1. 1 \in 1 .. Len(s) /\ n + 1 \in 1 .. Len(s)
          BY <1>1, <1>4
        <4>2. n + 1 \in (n + 1) .. Len(s) /\ n + 1 \in 1 .. Len(s)
          BY <1>1, <1>4
        <4> QED
          BY <4>1, SubSeqRecursiveSecond
      <3>2. (n + 1) - 1 = n
        OBVIOUS
      <3>3. Append(SubSeq(s, 1, n), s[n + 1]) = SubSeq(s, 1, n) \o <<s[n + 1]>>
        BY <2>1, <2>2, AppendIsConcat
      <3> QED
        BY <3>1, <3>2, <3>3
    <2> QED
      BY <2>1, <2>2, <2>3, FlattenOneMore
  <1> QED
    BY <1>2, <1>3, <1>4

(* If all of them but one are empty. *)
LEMMA FlattenAlone ==
  ASSUME NEW S, NEW s \in Seq(Seq(S)), NEW k \in Nat \ {0},
         \A i \in 1 .. Len(s) : i # k => s[i] = <<>>
  PROVE  FlattenSeq(s) = IF k <= Len(s) THEN s[k] ELSE <<>>
  <1> DEFINE F(n) == FlattenSeq(SubSeq(s, 1, n))
             N == {n \in Nat : n <= Len(s) => F(n) = IF k <= n THEN s[k] ELSE <<>>}
  <1>1. Len(s) \in Nat
    BY LenProperties
  <1>2. F(0) = <<>> /\ F(Len(s)) = FlattenSeq(s)
    BY FlattenPrefix
  <1>3. 0 \in N
    BY <1>2
  <1>4. ASSUME NEW n \in N PROVE n + 1 \in N
    <2> SUFFICES ASSUME n + 1 <= Len(s)
                 PROVE  F(n + 1) = IF k <= n + 1 THEN s[k] ELSE <<>>
      OBVIOUS
    <2>1. n \in Nat /\ n + 1 \in 1 .. Len(s)
      BY <1>1
    <2>2. F(n) = IF k <= n THEN s[k] ELSE <<>>
      BY <1>1, <2>1
    <2>3. F(n + 1) = F(n) \o s[n + 1]
      BY <2>1, FlattenPrefix
    <2>4. s[n + 1] \in Seq(S) /\ <<>> \in Seq(S) /\ (k <= Len(s) => s[k] \in Seq(S))
      BY <1>1, <2>1, ElementOfSeq, EmptySeq
    <2> HIDE DEF F, N
    <2>5. CASE k = n + 1
      <3>1. F(n) = <<>>
        BY <2>1, <2>2, <2>5
      <3>2. <<>> \o s[n + 1] = s[n + 1]
        BY <2>4, ConcatEmptySeq
      <3> QED
        BY <2>1, <2>3, <2>5, <3>1, <3>2
    <2>6. CASE k # n + 1
      <3>1. s[n + 1] = <<>> /\ (k <= n <=> k <= n + 1)
        BY <2>1, <2>6
      <3>2. F(n) \in Seq(S)
        BY <1>1, <2>1, <2>2, <2>4
      <3>3. F(n) \o <<>> = F(n)
        BY <3>2, ConcatEmptySeq
      <3> QED
        BY <2>2, <2>3, <3>1, <3>3
    <2> QED
      BY <2>5, <2>6
  <1>5. N = Nat
    <2>1. N \in SUBSET Nat
      OBVIOUS
    <2> HIDE DEF N
    <2> QED
      BY <1>3, <1>4, <2>1, AllNumbers
  <1>6. Len(s) \in N
    <2> HIDE DEF N
    <2> QED
      BY <1>1, <1>5
  <1> QED
    BY <1>1, <1>2, <1>6

(* If the first m of them are empty and the others have one element each. *)
LEMMA FlattenSingles ==
  ASSUME NEW S, NEW s \in Seq(Seq(S)), NEW m \in Nat, m <= Len(s),
         \A i \in 1 .. Len(s) : Len(s[i]) = IF i <= m THEN 0 ELSE 1
  PROVE  /\ Len(FlattenSeq(s)) = Len(s) - m
         /\ \A j \in 1 .. Len(s) - m : FlattenSeq(s)[j] = s[m + j][1]
  <1> DEFINE F(n) == FlattenSeq(SubSeq(s, 1, n))
             Right(n) == /\ F(n) \in Seq(S)
                         /\ Len(F(n)) = IF n <= m THEN 0 ELSE n - m
                         /\ \A j \in 1 .. Len(F(n)) : F(n)[j] = s[m + j][1]
             N == {n \in Nat : n <= Len(s) => Right(n)}
  <1>1. Len(s) \in Nat
    BY LenProperties
  <1>2. F(0) = <<>> /\ F(Len(s)) = FlattenSeq(s)
    BY FlattenPrefix
  <1> HIDE DEF Right
  <1>3. 0 \in N
    <2>1. <<>> \in Seq(S) /\ Len(<<>>) = 0
      BY EmptySeq
    <2>2. Len(F(0)) = 0 /\ F(0) \in Seq(S)
      BY <1>2, <2>1
    <2>3. 1 .. Len(F(0)) = {} /\ 0 <= m
      BY <2>2
    <2>4. Right(0)
      <3> HIDE DEF F
      <3> QED
        BY <2>2, <2>3 DEF Right
    <2> HIDE DEF F
    <2> QED
      BY <2>4
  <1>4. ASSUME NEW n \in N PROVE n + 1 \in N
    <2> SUFFICES ASSUME n + 1 <= Len(s) PROVE Right(n + 1)
      OBVIOUS
    <2>1. n \in Nat /\ n + 1 \in 1 .. Len(s)
      BY <1>1
    <2>2. Right(n)
      BY <1>1, <2>1
    <2>3. F(n + 1) = F(n) \o s[n + 1]
      BY <2>1, FlattenPrefix
    <2>4. s[n + 1] \in Seq(S) /\ Len(s[n + 1]) = IF n + 1 <= m THEN 0 ELSE 1
      BY <2>1, ElementOfSeq
    <2>5. /\ F(n) \in Seq(S)
          /\ Len(F(n)) = IF n <= m THEN 0 ELSE n - m
          /\ \A j \in 1 .. Len(F(n)) : F(n)[j] = s[m + j][1]
      BY <2>2 DEF Right
    <2> HIDE DEF F, N
    <2>6. /\ F(n + 1) \in Seq(S)
          /\ Len(F(n + 1)) = Len(F(n)) + Len(s[n + 1])
          /\ \A i \in 1 .. Len(F(n)) + Len(s[n + 1]) : F(n + 1)[i] =
                IF i <= Len(F(n)) THEN F(n)[i] ELSE s[n + 1][i - Len(F(n))]
      <3>1. \A a, b \in Seq(S) :
              /\ a \o b \in Seq(S)
              /\ Len(a \o b) = Len(a) + Len(b)
              /\ \A i \in 1 .. Len(a) + Len(b) : (a \o b)[i] =
                   IF i <= Len(a) THEN a[i] ELSE b[i - Len(a)]
        BY ConcatProperties
      <3> DEFINE a == F(n)
                 b == s[n + 1]
      <3>2. a \in Seq(S) /\ b \in Seq(S)
        BY <2>4, <2>5
      <3> HIDE DEF a, b
      <3>3. /\ a \o b \in Seq(S)
            /\ Len(a \o b) = Len(a) + Len(b)
            /\ \A i \in 1 .. Len(a) + Len(b) : (a \o b)[i] =
                 IF i <= Len(a) THEN a[i] ELSE b[i - Len(a)]
        BY <3>1, <3>2
      <3> QED
        BY <2>3, <3>3 DEF a, b
    <2>7. Len(F(n + 1)) = IF n + 1 <= m THEN 0 ELSE (n + 1) - m
      BY <2>1, <2>4, <2>5, <2>6
    <2>8. ASSUME NEW j \in 1 .. Len(F(n + 1)) PROVE F(n + 1)[j] = s[m + j][1]
      <3>1. n + 1 > m /\ Len(F(n)) = n - m /\ j \in 1 .. (n + 1) - m
        BY <2>1, <2>5, <2>7
      <3>2. CASE j <= n - m
        BY <2>1, <2>4, <2>5, <2>6, <3>1, <3>2
      <3>3. CASE j = (n + 1) - m
        <4>0. j \in 1 .. Len(F(n)) + Len(s[n + 1]) /\ ~(j <= Len(F(n)))
          BY <2>1, <2>4, <3>1, <3>3
        <4>1. F(n + 1)[j] = s[n + 1][j - Len(F(n))]
          BY <2>6, <4>0
        <4>2. j - Len(F(n)) = 1 /\ m + j = n + 1
          BY <2>1, <3>1, <3>3
        <4> QED
          BY <4>1, <4>2
      <3> QED
        BY <2>1, <3>1, <3>2, <3>3
    <2> QED
      BY <2>6, <2>7, <2>8 DEF Right, F
  <1>5. N = Nat
    <2>1. N \in SUBSET Nat
      OBVIOUS
    <2> HIDE DEF N
    <2> QED
      BY <1>3, <1>4, <2>1, AllNumbers
  <1>6. Len(s) \in N
    <2> HIDE DEF N
    <2> QED
      BY <1>1, <1>5
  <1>7. Right(Len(s))
    BY <1>1, <1>6
  <1> QED
    <2>1. /\ Len(F(Len(s))) = IF Len(s) <= m THEN 0 ELSE Len(s) - m
          /\ \A j \in 1 .. Len(F(Len(s))) : F(Len(s))[j] = s[m + j][1]
      BY <1>7 DEF Right
    <2> HIDE DEF F
    <2>2. Len(F(Len(s))) = Len(s) - m
      BY <1>1, <2>1
    <2> QED
      BY <1>2, <2>1, <2>2

-----------------------------------------------------------------------------
(* What the lines of texts are, and how texts are joined.                   *)

(* A sequence of lines is a text. *)
LEMMA TextOf ==
  ASSUME NEW S, NEW t \in Seq(S)
  PROVE  IsSeq(t)
  BY SeqOfRange DEF IsSeq

(* Texts that are put in sequence have their lines in one set. *)
LEMMA TextsTyped ==
  ASSUME NEW T, NEW s \in Seq(T), \A i \in 1 .. Len(s) : IsSeq(s[i])
  PROVE  \E S : s \in Seq(Seq(S))
  <1> DEFINE S == UNION {Range(s[i]) : i \in 1 .. Len(s)}
  <1>1. Len(s) \in Nat /\ s \in [1 .. Len(s) -> T]
    BY LenProperties
  <1>2. ASSUME NEW i \in 1 .. Len(s) PROVE s[i] \in Seq(S)
    <2>1. Range(s[i]) \subseteq S
      OBVIOUS
    <2>2. s[i] \in Seq(Range(s[i]))
      BY DEF IsSeq
    <2> HIDE DEF S
    <2> QED
      BY <2>1, <2>2, SeqMonotonic
  <1> HIDE DEF S
  <1>3. s \in [1 .. Len(s) -> Seq(S)]
    BY <1>1, <1>2
  <1>4. s \in Seq(Seq(S))
    BY <1>1, <1>3
  <1> QED
    BY <1>4

(* Two texts have their lines in one set. *)
LEMMA TextsJoined ==
  ASSUME NEW t, NEW u, IsSeq(t), IsSeq(u)
  PROVE  \E S : t \in Seq(S) /\ u \in Seq(S)
  <1> DEFINE S == Range(t) \cup Range(u)
  <1>1. Range(t) \subseteq S /\ Range(u) \subseteq S
    OBVIOUS
  <1> HIDE DEF S
  <1>2. t \in Seq(S) /\ u \in Seq(S)
    BY <1>1, SeqMonotonic DEF IsSeq
  <1> QED
    BY <1>2

(* What is put last is a suffix, and only the empty text is one of the empty text. *)
LEMMA SuffixOfConcat ==
  ASSUME NEW S, NEW u \in Seq(S), NEW w \in Seq(S)
  PROVE  /\ IsSuffix(w, u \o w)
         /\ w # <<>> => u \o w # <<>>
  <1> DEFINE t == u \o w
             n == Len(w)
  <1>1. n \in Nat /\ Len(u) \in Nat
    BY LenProperties
  <1>2. /\ t \in Seq(S) /\ Len(t) = Len(u) + n
        /\ \A i \in 1 .. Len(u) + n : t[i] = IF i <= Len(u) THEN u[i] ELSE w[i - Len(u)]
    BY ConcatProperties
  <1> HIDE DEF t, n
  <1>3. ASSUME NEW i \in 1 .. n PROVE t[(Len(t) - i) + 1] = w[(n - i) + 1]
    <2>1. (Len(t) - i) + 1 \in 1 .. Len(u) + n /\ ~((Len(t) - i) + 1 <= Len(u))
      BY <1>1, <1>2
    <2>2. ((Len(t) - i) + 1) - Len(u) = (n - i) + 1
      BY <1>1, <1>2
    <2> QED
      BY <1>2, <2>1, <2>2
  <1>4. Reverse(w) = [i \in 1 .. n |-> w[(n - i) + 1]]
    BY DEF Reverse, n
  <1>5. Reverse(t) = [i \in 1 .. Len(t) |-> t[(Len(t) - i) + 1]]
    BY DEF Reverse
  <1>6. Len(Reverse(w)) = n /\ Len(Reverse(t)) = Len(t) /\ n <= Len(t) /\ Len(t) \in Nat
    BY <1>1, <1>2, <1>4, <1>5
  <1>7. SubSeq(Reverse(w), 1, n) = [i \in 1 .. n |-> Reverse(w)[i]]
    BY <1>1
  <1>8. SubSeq(Reverse(t), 1, n) = [i \in 1 .. n |-> Reverse(t)[i]]
    BY <1>1
  <1>9. \A i \in 1 .. n : Reverse(w)[i] = Reverse(t)[i]
    BY <1>1, <1>3, <1>4, <1>5, <1>6
  <1>10. IsSuffix(w, t)
    BY <1>6, <1>7, <1>8, <1>9 DEF IsSuffix, IsPrefix
  <1> QED
    BY <1>10, ConcatEqualIffEmpty DEF t

(* If those after the k-th are empty, the text ends with the k-th. *)
LEMMA FlattenEnds ==
  ASSUME NEW S, NEW s \in Seq(Seq(S)), NEW k \in 1 .. Len(s),
         \A i \in 1 .. Len(s) : i > k => s[i] = <<>>
  PROVE  \E u \in Seq(S) : FlattenSeq(s) = u \o s[k]
  <1> DEFINE F(n) == FlattenSeq(SubSeq(s, 1, n))
             N == {n \in Nat : k + n <= Len(s) => F(k + n) = F(k)}
  <1>1. Len(s) \in Nat
    BY LenProperties
  <1>2. ASSUME NEW n \in Nat, n <= Len(s) PROVE F(n) \in Seq(S)
    <2>1. \A i \in 1 .. n : s[i] \in Seq(S)
      BY <1>1, <1>2, ElementOfSeq
    <2>2. SubSeq(s, 1, n) \in Seq(Seq(S))
      BY <2>1, SubSeqProperties
    <2> QED
      BY <2>2, FlattenOneMore
  <1>3. 0 \in N
    <2>1. k + 0 = k
      BY <1>1
    <2> QED
      BY <2>1
  <1>4. ASSUME NEW n \in N PROVE n + 1 \in N
    <2> SUFFICES ASSUME k + (n + 1) <= Len(s) PROVE F(k + (n + 1)) = F(k)
      OBVIOUS
    <2>1. /\ k + n \in Nat /\ k + n <= Len(s) /\ k + (n + 1) = (k + n) + 1
          /\ (k + n) + 1 \in 1 .. Len(s) /\ (k + n) + 1 > k
      BY <1>1
    <2>2. F((k + n) + 1) = F(k + n) \o s[(k + n) + 1]
      BY <2>1, FlattenPrefix
    <2>3. F(k + n) = F(k) /\ s[(k + n) + 1] = <<>>
      BY <2>1
    <2>4. F(k + n) \in Seq(S)
      BY <1>2, <2>1
    <2> HIDE DEF F
    <2>5. F(k + n) \o <<>> = F(k + n)
      BY <2>4, ConcatEmptySeq
    <2> QED
      BY <2>1, <2>2, <2>3, <2>5
  <1>5. Len(s) - k \in N
    <2>1. N \in SUBSET Nat
      OBVIOUS
    <2> HIDE DEF N
    <2>2. N = Nat
      BY <1>3, <1>4, <2>1, AllNumbers
    <2> QED
      BY <1>1, <2>2
  <1>6. F(Len(s)) = F(k)
    <2>1. k + (Len(s) - k) = Len(s)
      BY <1>1
    <2> QED
      BY <1>1, <1>5, <2>1
  <1>7. F(k) = F(k - 1) \o s[k]
    <2>1. k - 1 \in Nat /\ (k - 1) + 1 = k
      BY <1>1
    <2> QED
      BY <2>1, FlattenPrefix
  <1>8. F(k - 1) \in Seq(S)
    BY <1>1, <1>2
  <1>9. F(Len(s)) = FlattenSeq(s)
    BY FlattenPrefix
  <1> HIDE DEF F
  <1> QED
    BY <1>6, <1>7, <1>8, <1>9

-----------------------------------------------------------------------------
(* The first of a few values, and parts that may be missing.                *)

(* The least of the first three numbers. *)
LEMMA LeastOfThree ==
  ASSUME NEW S \in SUBSET {1, 2, 3}, S # {}
  PROVE  Min(S) = IF 1 \in S THEN 1 ELSE IF 2 \in S THEN 2 ELSE 3
  <1>1. \E i \in S : \A j \in S : i <= j
    <2>1. CASE 1 \in S
      <3>1. \A j \in S : 1 <= j
        OBVIOUS
      <3> QED
        BY <2>1, <3>1
    <2>2. CASE 1 \notin S /\ 2 \in S
      <3>1. \A j \in S : 2 <= j
        BY <2>2
      <3> QED
        BY <2>2, <3>1
    <2>3. CASE 1 \notin S /\ 2 \notin S
      <3>1. S = {3}
        BY <2>3
      <3> QED
        BY <3>1
    <2> QED
      BY <2>1, <2>2, <2>3
  <1>2. Min(S) \in S /\ \A j \in S : Min(S) <= j
    BY <1>1 DEF Min
  <1>3. Min(S) \in {1, 2, 3}
    BY <1>2
  <1>4. CASE 1 \in S
    BY <1>2, <1>3, <1>4
  <1>5. CASE 1 \notin S /\ 2 \in S
    BY <1>2, <1>3, <1>5
  <1>6. CASE 1 \notin S /\ 2 \notin S
    BY <1>2, <1>3, <1>6
  <1> QED
    BY <1>4, <1>5, <1>6

(* The first of two values that is not missing, *)
LEMMA FirstOfTwo ==
  ASSUME NEW a, NEW b, NEW missing, NEW otherwise
  PROVE  First(<<a, b>>, missing, otherwise) =
              IF a \notin missing THEN a ELSE IF b \notin missing THEN b ELSE otherwise
  <1> DEFINE found == {i \in DOMAIN <<a, b>> : <<a, b>>[i] \notin missing}
  <1>1. /\ found \in SUBSET {1, 2, 3} /\ 3 \notin found
        /\ (1 \in found <=> a \notin missing) /\ (2 \in found <=> b \notin missing)
    OBVIOUS
  <1>2. First(<<a, b>>, missing, otherwise) =
          IF found = {} THEN otherwise ELSE <<a, b>>[Min(found)]
    BY DEF First
  <1> HIDE DEF found
  <1> QED
    BY <1>1, <1>2, LeastOfThree

(* and of three. *)
LEMMA FirstOfThree ==
  ASSUME NEW a, NEW b, NEW c, NEW missing, NEW otherwise
  PROVE  First(<<a, b, c>>, missing, otherwise) =
              IF a \notin missing THEN a ELSE IF b \notin missing THEN b
              ELSE IF c \notin missing THEN c ELSE otherwise
  <1> DEFINE found == {i \in DOMAIN <<a, b, c>> : <<a, b, c>>[i] \notin missing}
  <1>1. /\ found \in SUBSET {1, 2, 3}
        /\ (1 \in found <=> a \notin missing) /\ (2 \in found <=> b \notin missing)
        /\ (3 \in found <=> c \notin missing)
    OBVIOUS
  <1>2. First(<<a, b, c>>, missing, otherwise) =
          IF found = {} THEN otherwise ELSE <<a, b, c>>[Min(found)]
    BY DEF First
  <1> HIDE DEF found
  <1> QED
    BY <1>1, <1>2, LeastOfThree

(* Three sequences, one after the other. *)
LEMMA ThreeInARow ==
  ASSUME NEW U, NEW x \in Seq(U), NEW y \in Seq(U), NEW z \in Seq(U)
  PROVE  /\ (x \o y) \o z \in Seq(U)
         /\ Len((x \o y) \o z) = Len(x) + Len(y) + Len(z)
         /\ \A i \in 1 .. Len(x) + Len(y) + Len(z) : ((x \o y) \o z)[i] =
              IF i <= Len(x) THEN x[i]
              ELSE IF i <= Len(x) + Len(y) THEN y[i - Len(x)]
              ELSE z[i - (Len(x) + Len(y))]
  <1>1. \A s, t \in Seq(U) :
              /\ s \o t \in Seq(U)
              /\ Len(s \o t) = Len(s) + Len(t)
              /\ \A i \in 1 .. Len(s) + Len(t) : (s \o t)[i] =
                   IF i <= Len(s) THEN s[i] ELSE t[i - Len(s)]
    BY ConcatProperties
  <1>2. Len(x) \in Nat /\ Len(y) \in Nat /\ Len(z) \in Nat
    BY LenProperties
  <1> DEFINE xy == x \o y
             p == xy \o z
  <1>3. /\ xy \in Seq(U) /\ Len(xy) = Len(x) + Len(y)
        /\ \A i \in 1 .. Len(x) + Len(y) : xy[i] =
             IF i <= Len(x) THEN x[i] ELSE y[i - Len(x)]
    BY <1>1
  <1> HIDE DEF xy
  <1>4. /\ p \in Seq(U) /\ Len(p) = Len(xy) + Len(z)
        /\ \A i \in 1 .. Len(xy) + Len(z) : p[i] =
             IF i <= Len(xy) THEN xy[i] ELSE z[i - Len(xy)]
    BY <1>1, <1>3
  <1> HIDE DEF p
  <1>5. ASSUME NEW i \in 1 .. Len(x) + Len(y) + Len(z)
        PROVE  p[i] = IF i <= Len(x) THEN x[i]
                      ELSE IF i <= Len(x) + Len(y) THEN y[i - Len(x)]
                      ELSE z[i - (Len(x) + Len(y))]
    BY <1>2, <1>3, <1>4
  <1> QED
    BY <1>3, <1>4, <1>5 DEF p, xy

(* A part that is left out or not. *)
LEMMA OptionalPart ==
  ASSUME NEW U, NEW x \in U
  PROVE  /\ <<>> \in Seq(U) /\ Len(<<>>) = 0
         /\ <<x>> \in Seq(U) /\ Len(<<x>>) = 1 /\ <<x>>[1] = x
  BY EmptySeq

-----------------------------------------------------------------------------
(* A message: its parts, and what the handler makes of them.                *)

(* How many parts the data makes, and the data and the text together. *)
DataCount(data) == IF data = NoData THEN 0 ELSE 1
LeadCount(data, text) == DataCount(data) + IF text = NoText THEN 0 ELSE 1

(* Data and text, either of which may be missing, and what comes after them. *)
LEMMA PartsInOrder ==
  ASSUME NEW data, NEW text, NEW T, NEW z \in Seq(T)
  PROVE  LET a == DataCount(data)
             m == LeadCount(data, text)
             p == Parts(data, text, z)
             n == m + Len(z)
         IN  /\ \E U : p \in Seq(U)
             /\ DOMAIN p = 1 .. n
             /\ \A i \in 1 .. n :
                  /\ i <= a => p[i] = DataPart(data)
                  /\ a < i /\ i <= m => p[i] = TextPart(text)
                  /\ m < i => p[i] = z[i - m]
  <1> DEFINE U == {DataPart(data), TextPart(text)} \cup T
             x == IF data = NoData THEN <<>> ELSE <<DataPart(data)>>
             y == IF text = NoText THEN <<>> ELSE <<TextPart(text)>>
             a == IF data = NoData THEN 0 ELSE 1
             b == IF text = NoText THEN 0 ELSE 1
             p == Parts(data, text, z)
  <1>1. p = (x \o y) \o z
    BY DEF Parts
  <1>2. DataPart(data) \in U /\ TextPart(text) \in U /\ T \subseteq U
    OBVIOUS
  <1> HIDE DEF U
  <1>3. z \in Seq(U) /\ Len(z) \in Nat
    BY <1>2, SeqMonotonic, LenProperties
  <1>4. x \in Seq(U) /\ Len(x) = a /\ \A i \in 1 .. a : x[i] = DataPart(data)
    BY <1>2, OptionalPart
  <1>5. y \in Seq(U) /\ Len(y) = b /\ \A i \in 1 .. b : y[i] = TextPart(text)
    BY <1>2, OptionalPart
  <1>6. a \in Nat /\ b \in Nat
    OBVIOUS
  <1> HIDE DEF x, y, a, b, p
  <1>7. /\ p \in Seq(U)
        /\ Len(p) = Len(x) + Len(y) + Len(z)
        /\ \A i \in 1 .. Len(x) + Len(y) + Len(z) : p[i] =
             IF i <= Len(x) THEN x[i]
             ELSE IF i <= Len(x) + Len(y) THEN y[i - Len(x)]
             ELSE z[i - (Len(x) + Len(y))]
    <2>1. \A s, t, u \in Seq(U) :
            /\ (s \o t) \o u \in Seq(U)
            /\ Len((s \o t) \o u) = Len(s) + Len(t) + Len(u)
            /\ \A i \in 1 .. Len(s) + Len(t) + Len(u) : ((s \o t) \o u)[i] =
                 IF i <= Len(s) THEN s[i]
                 ELSE IF i <= Len(s) + Len(t) THEN t[i - Len(s)]
                 ELSE u[i - (Len(s) + Len(t))]
      BY ThreeInARow
    <2>2. x \in Seq(U) /\ y \in Seq(U) /\ z \in Seq(U)
      BY <1>3, <1>4, <1>5
    <2> QED
      BY <1>1, <2>1, <2>2
  <1> DEFINE m == a + b
             l == Len(z)
             n == m + l
  <1>8. DOMAIN p = 1 .. n
    BY <1>4, <1>5, <1>7, LenProperties
  <1>9. m \in Nat /\ l \in Nat /\ n = m + l /\ m = a + b
    BY <1>3, <1>6
  <1>10. \A i \in 1 .. n : p[i] = IF i <= a THEN x[i] ELSE IF i <= m THEN y[i - a] ELSE z[i - m]
    BY <1>4, <1>5, <1>7
  <1> HIDE DEF m, l, n
  <1>11. ASSUME NEW i \in 1 .. n
         PROVE  /\ i <= a => p[i] = DataPart(data)
                /\ a < i /\ i <= m => p[i] = TextPart(text)
                /\ m < i => p[i] = z[i - m]
    <2>1. CASE i <= a
      BY <1>4, <1>6, <1>9, <1>10, <2>1
    <2>2. CASE a < i /\ i <= m
      <3>1. i - a \in 1 .. b
        BY <1>6, <1>9, <2>2
      <3> QED
        BY <1>5, <1>6, <1>9, <1>10, <2>2, <3>1
    <2>3. CASE m < i
      BY <1>6, <1>9, <1>10, <2>3
    <2> QED
      BY <1>6, <1>9, <2>1, <2>2, <2>3
  <1> QED
    BY <1>7, <1>8, <1>11 DEF p, m, n, l, a, b, DataCount, LeadCount

(* The parts of a message: the data, the text and the files. *)
LEMMA PartsOfInput ==
  ASSUME NEW input, IsSeq(input.attachments)
  PROVE  LET a == DataCount(input.data)
             m == LeadCount(input.data, input.text)
             p == MessageParts(input)
             n == m + Len(input.attachments)
         IN  /\ DOMAIN p = 1 .. n
             /\ \A i \in 1 .. n :
                  /\ i <= a => p[i] = DataPart(input.data)
                  /\ a < i /\ i <= m => p[i] = TextPart(input.text)
                  /\ m < i => p[i] = FilePart(AttachmentToFile(input.attachments[i - m]))
  <1> DEFINE atts == input.attachments
             sent(i) == FilePart(AttachmentToFile(atts[i]))
             z == Files(atts)
             T == {sent(i) : i \in 1 .. Len(atts)}
             a == DataCount(input.data)
             m == LeadCount(input.data, input.text)
             p == MessageParts(input)
             n == m + Len(z)
  <1>1. Len(atts) \in Nat /\ DOMAIN atts = 1 .. Len(atts)
    BY LenProperties DEF IsSeq
  <1>2. z = [i \in 1 .. Len(atts) |-> sent(i)]
    BY <1>1 DEF Files
  <1>3. z \in [1 .. Len(atts) -> T]
    BY <1>2
  <1>4. m \in Nat
    BY DEF DataCount, LeadCount
  <1> HIDE DEF z, T, sent
  <1>5. z \in Seq(T) /\ Len(z) = Len(atts)
    BY <1>1, <1>3
  <1>6. /\ DOMAIN p = 1 .. n
        /\ \A i \in 1 .. n :
             /\ i <= a => p[i] = DataPart(input.data)
             /\ a < i /\ i <= m => p[i] = TextPart(input.text)
             /\ m < i => p[i] = z[i - m]
    <2>1. p = Parts(input.data, input.text, z)
      BY DEF MessageParts, z
    <2> HIDE DEF p
    <2> QED
      BY <1>5, <2>1, PartsInOrder
  <1> HIDE DEF a, m, p, n
  <1>7. ASSUME NEW i \in 1 .. n, m < i PROVE p[i] = sent(i - m)
    <2>1. i - m \in 1 .. Len(atts)
      BY <1>1, <1>4, <1>5, <1>7 DEF n
    <2> QED
      BY <1>2, <1>6, <1>7, <2>1
  <1> QED
    BY <1>5, <1>6, <1>7 DEF p, m, n, a, sent

(* What is read of them by kind. *)
LEMMA KindsOfInput ==
  ASSUME NEW input, IsSeq(input.attachments)
  PROVE  LET a == DataCount(input.data)
             m == LeadCount(input.data, input.text)
             p == MessageParts(input)
             n == m + Len(input.attachments)
         IN  /\ DOMAIN p = 1 .. n
             /\ \A i \in 1 .. n :
                  /\ i <= a => p[i].kind = "data" /\ p[i].data = input.data
                  /\ a < i /\ i <= m => p[i].kind = "text" /\ p[i].text = input.text
                  /\ m < i => /\ p[i].kind = "file"
                              /\ p[i].file = AttachmentToFile(input.attachments[i - m])
  <1> DEFINE a == DataCount(input.data)
             m == LeadCount(input.data, input.text)
             p == MessageParts(input)
             n == m + Len(input.attachments)
  <1>1. /\ DOMAIN p = 1 .. n
        /\ \A i \in 1 .. n :
             /\ i <= a => p[i] = DataPart(input.data)
             /\ a < i /\ i <= m => p[i] = TextPart(input.text)
             /\ m < i => p[i] = FilePart(AttachmentToFile(input.attachments[i - m]))
    BY PartsOfInput
  <1> HIDE DEF a, m, p, n
  <1>2. /\ DOMAIN p = 1 .. n
        /\ \A i \in 1 .. n :
             /\ i <= a => p[i].kind = "data" /\ p[i].data = input.data
             /\ a < i /\ i <= m => p[i].kind = "text" /\ p[i].text = input.text
             /\ m < i => /\ p[i].kind = "file"
                         /\ p[i].file = AttachmentToFile(input.attachments[i - m])
    BY <1>1 DEF DataPart, TextPart, FilePart
  <1> QED
    BY <1>2 DEF a, m, p, n

(* The text arrives, *)
LEMMA ContentOfInput ==
  ASSUME NEW input, IsSeq(input.text), IsSeq(input.attachments)
  PROVE  Content(MessageParts(input)) = input.text
  <1> DEFINE a == IF input.data = NoData THEN 0 ELSE 1
             b == IF input.text = NoText THEN 0 ELSE 1
             m == a + b
             p == MessageParts(input)
             n == m + Len(input.attachments)
             S == Range(input.text)
             s == [i \in DOMAIN p |-> IF p[i].kind = "text" THEN p[i].text ELSE NoText]
  <1>1. /\ DOMAIN p = 1 .. n
        /\ \A i \in 1 .. n :
             /\ i <= a => p[i].kind = "data"
             /\ a < i /\ i <= m => p[i].kind = "text" /\ p[i].text = input.text
             /\ m < i => p[i].kind = "file"
    BY KindsOfInput DEF DataCount, LeadCount
  <1>2. n \in Nat /\ m <= n
    <2>1. Len(input.attachments) \in Nat
      BY LenProperties DEF IsSeq
    <2>2. m \in Nat /\ 1 <= m + 1
      OBVIOUS
    <2>3. n = m + Len(input.attachments)
      OBVIOUS
    <2> HIDE DEF m, n
    <2> QED
      BY <2>1, <2>2, <2>3
  <1>3. a \in 0 .. 1 /\ b \in 0 .. 1 /\ m = a + b /\ (b = 0 <=> input.text = NoText)
    OBVIOUS
  <1>4. input.text \in Seq(S) /\ NoText \in Seq(S)
    BY EmptySeq DEF IsSeq, NoText
  <1>5. Content(p) = FlattenSeq(s)
    BY DEF Content
  <1> HIDE DEF a, b, m, p, n, S
  <1>6. s \in Seq(Seq(S)) /\ Len(s) = n
    <2>1. s \in [1 .. n -> Seq(S)]
      <3>1. \A i \in 1 .. n : p[i].kind = "text" => p[i].text \in Seq(S)
        BY <1>1, <1>2, <1>3, <1>4
      <3> QED
        BY <1>1, <1>4, <3>1
    <2> HIDE DEF s
    <2> QED
      BY <1>2, <2>1
  <1>7. ASSUME NEW i \in 1 .. n, i <= a \/ m < i PROVE s[i] = <<>>
    BY <1>1, <1>7 DEF NoText
  <1>8. ASSUME NEW i \in 1 .. n, a < i, i <= m PROVE s[i] = input.text
    BY <1>1, <1>8
  <1> HIDE DEF s
  <1>9. CASE b = 0
    <2>1. \A i \in 1 .. Len(s) : i # n + 1 => s[i] = <<>>
      BY <1>3, <1>6, <1>7, <1>9
    <2>2. n + 1 \in Nat \ {0} /\ ~(n + 1 <= Len(s))
      BY <1>2, <1>6
    <2>3. FlattenSeq(s) = <<>>
      BY <1>6, <2>1, <2>2, FlattenAlone
    <2> QED
      BY <1>3, <1>5, <1>9, <2>3 DEF NoText, p
  <1>10. CASE b = 1
    <2>1. \A i \in 1 .. Len(s) : i # a + 1 => s[i] = <<>>
      BY <1>2, <1>3, <1>6, <1>7, <1>10
    <2>2. a + 1 \in Nat \ {0} /\ a + 1 \in 1 .. n /\ a + 1 <= Len(s) /\ a + 1 <= m
      BY <1>2, <1>3, <1>6, <1>10
    <2>3. s[a + 1] = input.text
      BY <1>3, <1>8, <2>2
    <2>4. FlattenSeq(s) = s[a + 1]
      BY <1>6, <2>1, <2>2, FlattenAlone
    <2> QED
      BY <1>5, <2>3, <2>4 DEF p
  <1> QED
    BY <1>3, <1>9, <1>10

(* the files arrive, *)
LEMMA AttachmentsOfInput ==
  ASSUME NEW input, IsSeq(input.attachments)
  PROVE  LET atts == input.attachments
             given == Attachments(MessageParts(input))
         IN  /\ Len(given) = Len(atts)
             /\ \A i \in DOMAIN atts : given[i] = FileToAttachment(AttachmentToFile(atts[i]))
  <1> DEFINE a == IF input.data = NoData THEN 0 ELSE 1
             m == a + IF input.text = NoText THEN 0 ELSE 1
             p == MessageParts(input)
             atts == input.attachments
             n == m + Len(atts)
             got(i) == FileToAttachment(AttachmentToFile(atts[i]))
             S == {got(i) : i \in 1 .. Len(atts)}
             s == [i \in DOMAIN p |->
                     IF p[i].kind = "file" THEN <<FileToAttachment(p[i].file)>> ELSE <<>>]
  <1>1. /\ DOMAIN p = 1 .. n
        /\ \A i \in 1 .. n :
             /\ i <= a => p[i].kind = "data"
             /\ a < i /\ i <= m => p[i].kind = "text"
             /\ m < i => p[i].kind = "file" /\ p[i].file = AttachmentToFile(atts[i - m])
    BY KindsOfInput DEF DataCount, LeadCount
  <1>2. Len(atts) \in Nat /\ DOMAIN atts = 1 .. Len(atts)
    BY LenProperties DEF IsSeq
  <1>3. m \in Nat /\ a \in Nat /\ a <= m /\ n = m + Len(atts)
    OBVIOUS
  <1>4. Attachments(p) = FlattenSeq(s)
    BY DEF Attachments
  <1>5. \A i \in 1 .. Len(atts) : got(i) \in S
    OBVIOUS
  <1> HIDE DEF a, m, p, n, S
  <1>6. ASSUME NEW i \in 1 .. n, i <= m PROVE s[i] = <<>>
    BY <1>1, <1>3, <1>6
  <1>7. ASSUME NEW i \in 1 .. n, m < i PROVE s[i] = <<got(i - m)>>
    BY <1>1, <1>7
  <1>8. DOMAIN s = 1 .. n /\ s = [i \in 1 .. n |-> s[i]]
    BY <1>1
  <1> HIDE DEF s, got
  <1>9. s \in Seq(Seq(S)) /\ Len(s) = n
    <2>1. <<>> \in Seq(S) /\ \A f \in S : <<f>> \in Seq(S)
      BY OptionalPart, EmptySeq
    <2>2. ASSUME NEW i \in 1 .. n PROVE s[i] \in Seq(S)
      <3>1. CASE i <= m
        BY <1>6, <2>1, <3>1
      <3>2. CASE m < i
        <4>1. i - m \in 1 .. Len(atts)
          BY <1>2, <1>3, <3>2
        <4> QED
          BY <1>5, <1>7, <2>1, <3>2, <4>1
      <3> QED
        BY <1>3, <3>1, <3>2
    <2>3. s \in [1 .. n -> Seq(S)]
      BY <1>8, <2>2
    <2>4. n \in Nat
      BY <1>2, <1>3
    <2> QED
      BY <2>3, <2>4
  <1>10. \A i \in 1 .. Len(s) : Len(s[i]) = IF i <= m THEN 0 ELSE 1
    <2> SUFFICES ASSUME NEW i \in 1 .. n PROVE Len(s[i]) = IF i <= m THEN 0 ELSE 1
      BY <1>9
    <2>1. Len(<<>>) = 0 /\ Len(<<got(i - m)>>) = 1
      OBVIOUS
    <2>2. CASE i <= m
      BY <1>6, <2>1, <2>2
    <2>3. CASE m < i
      <3>1. s[i] = <<got(i - m)>>
        BY <1>7, <2>3
      <3>2. ~(i <= m)
        BY <1>3, <2>3
      <3> QED
        BY <2>1, <3>1, <3>2
    <2> QED
      BY <1>3, <2>2, <2>3
  <1>11. m <= Len(s) /\ Len(s) - m = Len(atts)
    BY <1>2, <1>3, <1>9
  <1>12. /\ Len(FlattenSeq(s)) = Len(s) - m
         /\ \A j \in 1 .. Len(s) - m : FlattenSeq(s)[j] = s[m + j][1]
    BY <1>3, <1>9, <1>10, <1>11, FlattenSingles
  <1>13. ASSUME NEW j \in 1 .. Len(atts) PROVE s[m + j][1] = got(j)
    <2>1. m + j \in 1 .. n /\ m < m + j /\ (m + j) - m = j
      BY <1>2, <1>3
    <2>2. s[m + j] = <<got(j)>>
      BY <1>7, <2>1
    <2> QED
      BY <2>2
  <1> QED
    BY <1>2, <1>4, <1>11, <1>12, <1>13 DEF got, p

(* and so does the data. *)
LEMMA DataOfInput ==
  ASSUME NEW input, IsSeq(input.attachments), NEW k \in DOMAIN input.data
  PROVE  LET dict == MergedData(MessageParts(input))
         IN  k \in DOMAIN dict /\ dict[k] = input.data[k]
  <1> DEFINE m == 1 + IF input.text = NoText THEN 0 ELSE 1
             p == MessageParts(input)
             n == m + Len(input.attachments)
  <1>1. input.data # NoData
    BY DEF NoData
  <1>2. /\ DOMAIN p = 1 .. n
        /\ \A i \in 1 .. n :
             /\ i <= 1 => p[i].kind = "data" /\ p[i].data = input.data
             /\ 1 < i /\ i <= m => p[i].kind = "text"
             /\ m < i => p[i].kind = "file"
    BY <1>1, KindsOfInput DEF DataCount, LeadCount
  <1>3. n \in Nat /\ m \in Nat /\ 1 \in 1 .. n
    <2>1. Len(input.attachments) \in Nat
      BY LenProperties DEF IsSeq
    <2>2. m \in Nat /\ 1 <= m
      OBVIOUS
    <2>3. n = m + Len(input.attachments)
      OBVIOUS
    <2> HIDE DEF m, n
    <2> QED
      BY <2>1, <2>2, <2>3
  <1> HIDE DEF m, p, n
  <1>4. p[1].kind = "data" /\ p[1].data = input.data
    BY <1>2, <1>3
  <1>5. ASSUME NEW i \in 1 .. n, i # 1 PROVE p[i].kind # "data"
    <2>1. 1 < i /\ (i <= m \/ m < i)
      BY <1>3, <1>5
    <2> QED
      BY <1>2, <2>1
  <1> DEFINE with == {i \in DOMAIN p : p[i].kind = "data" /\ k \in DOMAIN p[i].data}
             keys == UNION {DOMAIN p[i].data : i \in {j \in DOMAIN p : p[j].kind = "data"}}
  <1>6. with = {1} /\ k \in keys
    BY <1>2, <1>3, <1>4, <1>5
  <1>7. Max(with) = 1
    BY <1>6 DEF Max
  <1>8. k \in DOMAIN MergedData(p) /\ MergedData(p)[k] = p[Max(with)].data[k]
    BY <1>6 DEF MergedData
  <1>9. MergedData(p)[k] = input.data[k]
    BY <1>4, <1>7, <1>8
  <1> QED
    BY <1>8, <1>9 DEF p

(* What a handler is given is what the message was built from. *)
LEMMA HandlerIsGiven ==
  ASSUME NEW input, IsSeq(input.text), input.text # None, IsSeq(input.attachments),
         NEW m, m.parts = MessageParts(input), m.sender = Caller
  PROVE  Arrived(input, HandlerInput(m))
  <1> DEFINE given == HandlerInput(m)
             dict == MergedData(m.parts)
  <1>1. Content(m.parts) = input.text
    BY ContentOfInput
  <1>2. /\ DOMAIN Header(m) = Reserved
        /\ Header(m).sender_id = Caller
        /\ Header(m).prompt = TextValue(m.parts)
    BY DEF Header, Reserved
  <1>3. "sender_id" \in Filled(m) /\ Filled(m) \subseteq Reserved
    BY <1>2 DEF Filled, Reserved
  <1>4. /\ DOMAIN Payload(m) = Filled(m) \cup DOMAIN dict
        /\ \A k \in Filled(m) : Payload(m)[k] = Header(m)[k]
        /\ \A k \in DOMAIN dict \ Reserved : Payload(m)[k] = dict[k]
    BY <1>3 DEF Payload
  <1>5. /\ given.message = AgentMessage(m)
        /\ given.attachments = Attachments(m.parts)
        /\ given.payload = Aliased(Payload(m))
    BY DEF HandlerInput
  <1> HIDE DEF dict, given
  <1>6. \A k \in DOMAIN Payload(m) \ {"content"} : given.payload[k] = Payload(m)[k]
    BY <1>5 DEF Aliased
  <1>7. given.message.content = input.text /\ given.message.sender = Caller
    BY <1>1, <1>5 DEF AgentMessage
  <1>8. given.payload["sender_id"] = Caller
    <2>1. Header(m)["sender_id"] = Caller
      BY <1>2
    <2> QED
      BY <1>3, <1>4, <1>6, <2>1
  <1>9. ASSUME input.text # NoText PROVE given.payload["content"] = input.text
    <2>1. TextValue(m.parts) = input.text
      <3>1. \A x, y, z : First(<<x, y, z>>, Falsy, NoText) =
              IF x \notin Falsy THEN x ELSE IF y \notin Falsy THEN y
              ELSE IF z \notin Falsy THEN z ELSE NoText
        BY FirstOfThree
      <3>2. input.text \notin Falsy
        BY <1>9 DEF Falsy
      <3> QED
        BY <1>1, <3>1, <3>2 DEF TextValue
    <2>2. "prompt" \in Filled(m)
      BY <1>2, <1>9, <2>1 DEF Filled, Reserved
    <2>3. Header(m)["prompt"] = input.text
      BY <1>2, <2>1
    <2>4. Get(Payload(m), "prompt") = input.text /\ Payload(m)["prompt"] = input.text
      BY <1>4, <2>2, <2>3 DEF Get
    <2> QED
      BY <1>5, <2>4 DEF Aliased
  <1>10. ASSUME NEW k \in DOMAIN input.data \ Reserved PROVE given.payload[k] = input.data[k]
    <2>1. k \in DOMAIN dict /\ dict[k] = input.data[k]
      BY DataOfInput DEF dict
    <2>2. k # "content"
      BY DEF Reserved
    <2> QED
      BY <1>4, <1>6, <2>1, <2>2
  <1>11. /\ Len(given.attachments) = Len(input.attachments)
         /\ \A i \in DOMAIN input.attachments :
              given.attachments[i] = FileToAttachment(AttachmentToFile(input.attachments[i]))
    BY <1>5, AttachmentsOfInput
  <1>12. ASSUME NEW i \in DOMAIN input.attachments
         PROVE  LET att == input.attachments[i]
                IN  /\ given.attachments[i].name = att.name
                    /\ given.attachments[i].data = att.data
                    /\ att.data = None => given.attachments[i].url = att.url
    <2> DEFINE att == input.attachments[i]
    <2>1. given.attachments[i] =
            [name |-> att.name, data |-> att.data,
             url |-> IF att.data # None THEN None ELSE att.url]
      BY <1>11 DEF FileToAttachment, AttachmentToFile
    <2> HIDE DEF att
    <2>2. /\ given.attachments[i].name = att.name
          /\ given.attachments[i].data = att.data
          /\ att.data = None => given.attachments[i].url = att.url
      BY <2>1
    <2> QED
      BY <2>2 DEF att
  <1> QED
    BY <1>7, <1>8, <1>9, <1>10, <1>11, <1>12 DEF Arrived, given

-----------------------------------------------------------------------------
(* A result: its parts end with the words of the answer.                    *)

(* A text that ends with these words. *)
SaysLast(text, words) == \E S : \E u \in Seq(S) : words \in Seq(S) /\ text = u \o words

(* What is read of parts ends with the last of them that says something. *)
LEMMA PartsEndWith ==
  ASSUME NEW p, NEW n \in Nat, DOMAIN p = 1 .. n, \A i \in 1 .. n : IsSeq(PartText(p[i]))
  PROVE  /\ IsSeq(PartsText(p))
         /\ \A k \in 1 .. n : (\A i \in 1 .. n : k < i => PartText(p[i]) = NoText) =>
              SaysLast(PartsText(p), PartText(p[k]))
  <1> DEFINE T == {PartText(p[i]) : i \in 1 .. n}
             s == [i \in 1 .. n |-> PartText(p[i])]
  <1>1. PartsText(p) = FlattenSeq(s)
    BY DEF PartsText
  <1>2. s \in [1 .. n -> T] /\ \A i \in 1 .. n : s[i] = PartText(p[i])
    OBVIOUS
  <1> HIDE DEF s, T
  <1>3. s \in Seq(T) /\ Len(s) = n
    BY <1>2
  <1>4. PICK S : s \in Seq(Seq(S))
    BY <1>2, <1>3, TextsTyped
  <1>5. IsSeq(FlattenSeq(s))
    BY <1>4, FlattenOneMore, TextOf
  <1>6. ASSUME NEW k \in 1 .. n, \A i \in 1 .. n : k < i => PartText(p[i]) = NoText
        PROVE  SaysLast(FlattenSeq(s), PartText(p[k]))
    <2>1. \A i \in 1 .. Len(s) : i > k => s[i] = <<>>
      BY <1>2, <1>3, <1>6 DEF NoText
    <2>2. \E u \in Seq(S) : FlattenSeq(s) = u \o s[k]
      BY <1>3, <1>4, <2>1, FlattenEnds
    <2>3. s[k] \in Seq(S) /\ s[k] = PartText(p[k])
      BY <1>2, <1>3, <1>4, ElementOfSeq
    <2> QED
      BY <2>2, <2>3 DEF SaysLast
  <1> QED
    BY <1>1, <1>5, <1>6

(* What is read of the parts of a result. *)
LEMMA TextsOfResult ==
  ASSUME NEW out, IsSeq(out.attachments)
  PROVE  LET a == DataCount(out.data)
             m == LeadCount(out.data, out.text)
             p == ResultParts(out)
         IN  \E n \in Nat :
               /\ m <= n /\ DOMAIN p = 1 .. n
               /\ \A i \in 1 .. n :
                    /\ i <= a => PartText(p[i]) = DataText(out.data)
                    /\ a < i /\ i <= m => PartText(p[i]) = out.text
                    /\ m < i => PartText(p[i]) = NoText
  <1> DEFINE atts == out.attachments
             sent(i) == FilePart(IF atts[i] = Foreign THEN Foreign ELSE AttachmentToFile(atts[i]))
             z == [i \in DOMAIN atts |-> sent(i)]
             T == {sent(i) : i \in 1 .. Len(atts)}
             a == DataCount(out.data)
             m == LeadCount(out.data, out.text)
             q == Parts(out.data, out.text, z)
             n == m + Len(z)
             p == ResultParts(out)
  <1>1. Len(atts) \in Nat /\ DOMAIN atts = 1 .. Len(atts)
    BY LenProperties DEF IsSeq
  <1>2. z \in [1 .. Len(atts) -> T] /\ \A i \in 1 .. Len(atts) : z[i] = sent(i)
    BY <1>1
  <1>3. p = IF q = <<>> THEN <<TextPart(NoText)>> ELSE q
    BY DEF ResultParts
  <1>4. m \in Nat /\ a \in Nat /\ a <= m
    BY DEF DataCount, LeadCount
  <1>5. \A i : sent(i).kind = "file"
    BY DEF FilePart
  <1> HIDE DEF z, T, sent
  <1>6. z \in Seq(T) /\ Len(z) = Len(atts)
    BY <1>1, <1>2
  <1>7. /\ \E U : q \in Seq(U)
        /\ DOMAIN q = 1 .. n
        /\ \A i \in 1 .. n :
             /\ i <= a => q[i] = DataPart(out.data)
             /\ a < i /\ i <= m => q[i] = TextPart(out.text)
             /\ m < i => q[i] = z[i - m]
    BY <1>6, PartsInOrder
  <1> HIDE DEF a, m, q, p
  <1>8. n \in Nat /\ m <= n /\ n = m + Len(atts)
    BY <1>1, <1>4, <1>6
  <1> HIDE DEF n
  <1>9. CASE q = <<>>
    <2>1. n = 0
      BY <1>7, <1>8, <1>9
    <2>2. m = 0 /\ a = 0
      BY <1>4, <1>8, <2>1
    <2>3. DOMAIN p = 1 .. 1 /\ p[1] = TextPart(NoText)
      BY <1>3, <1>9
    <2>4. PartText(p[1]) = NoText
      BY <2>3 DEF PartText, TextPart
    <2> QED
      BY <2>2, <2>3, <2>4 DEF a, m, p
  <1>10. CASE q # <<>>
    <2>1. ASSUME NEW i \in 1 .. n
          PROVE  /\ i <= a => PartText(q[i]) = DataText(out.data)
                 /\ a < i /\ i <= m => PartText(q[i]) = out.text
                 /\ m < i => PartText(q[i]) = NoText
      <3>1. i <= a => PartText(q[i]) = DataText(out.data)
        BY <1>7 DEF PartText, DataPart
      <3>2. a < i /\ i <= m => PartText(q[i]) = out.text
        BY <1>7 DEF PartText, TextPart
      <3>3. ASSUME m < i PROVE PartText(q[i]) = NoText
        <4>1. i - m \in 1 .. Len(atts)
          BY <1>1, <1>4, <1>8, <3>3
        <4>2. q[i].kind = "file"
          BY <1>2, <1>5, <1>7, <3>3, <4>1
        <4> QED
          BY <4>2 DEF PartText
      <3> QED
        BY <3>1, <3>2, <3>3
    <2> QED
      BY <1>3, <1>7, <1>8, <1>10, <2>1 DEF a, m, p
  <1> QED
    BY <1>9, <1>10

(* The artifact of a result ends with its text, or with what its data says. *)
LEMMA ResultSays ==
  ASSUME NEW out, IsSeq(out.attachments), IsSeq(out.text),
         out.data # NoData => IsSeq(DataText(out.data))
  PROVE  LET text == PartsText(ResultParts(out))
         IN  /\ IsSeq(text)
             /\ out.text # NoText => SaysLast(text, out.text)
             /\ out.text = NoText /\ out.data # NoData => SaysLast(text, DataText(out.data))
  <1> DEFINE a == DataCount(out.data)
             m == LeadCount(out.data, out.text)
             p == ResultParts(out)
  <1>1. PICK n \in Nat :
               /\ m <= n /\ DOMAIN p = 1 .. n
               /\ \A i \in 1 .. n :
                    /\ i <= a => PartText(p[i]) = DataText(out.data)
                    /\ a < i /\ i <= m => PartText(p[i]) = out.text
                    /\ m < i => PartText(p[i]) = NoText
    BY TextsOfResult
  <1>2. /\ a \in 0 .. 1 /\ m \in a .. a + 1
        /\ (out.data # NoData <=> a = 1) /\ (out.text # NoText <=> m = a + 1)
    BY DEF DataCount, LeadCount
  <1>3. IsSeq(NoText)
    BY EmptySeq DEF IsSeq, NoText
  <1> HIDE DEF a, m, p
  <1>4. \A i \in 1 .. n : IsSeq(PartText(p[i]))
    <2> SUFFICES ASSUME NEW i \in 1 .. n PROVE IsSeq(PartText(p[i]))
      OBVIOUS
    <2>1. i <= a \/ (a < i /\ i <= m) \/ m < i
      BY <1>2
    <2>2. i <= a => a = 1
      BY <1>2
    <2> QED
      BY <1>1, <1>2, <1>3, <2>1, <2>2
  <1>5. /\ IsSeq(PartsText(p))
        /\ \A k \in 1 .. n : (\A i \in 1 .. n : k < i => PartText(p[i]) = NoText) =>
             SaysLast(PartsText(p), PartText(p[k]))
    BY <1>1, <1>4, PartsEndWith
  <1>6. ASSUME m # 0 PROVE SaysLast(PartsText(p), PartText(p[m]))
    <2>1. m \in 1 .. n /\ \A i \in 1 .. n : m < i => PartText(p[i]) = NoText
      BY <1>1, <1>2, <1>6
    <2> QED
      BY <1>5, <2>1
  <1>7. ASSUME out.text # NoText PROVE SaysLast(PartsText(p), out.text)
    <2>1. m \in 1 .. n /\ a < m /\ m # 0
      BY <1>1, <1>2, <1>7
    <2> QED
      BY <1>1, <1>6, <2>1
  <1>8. ASSUME out.text = NoText, out.data # NoData
        PROVE  SaysLast(PartsText(p), DataText(out.data))
    <2>1. m \in 1 .. n /\ m <= a /\ m # 0
      BY <1>1, <1>2, <1>8
    <2> QED
      BY <1>1, <1>6, <2>1
  <1> QED
    BY <1>5, <1>7, <1>8 DEF p

(* What ends with words has them as a suffix, and is not empty unless they are. *)
LEMMA LastIsSuffix ==
  ASSUME NEW text, NEW words, SaysLast(text, words)
  PROVE  IsSuffix(words, text) /\ (words # NoText => text # NoText)
  <1>1. PICK S : \E u \in Seq(S) : words \in Seq(S) /\ text = u \o words
    BY DEF SaysLast
  <1>2. PICK u \in Seq(S) : words \in Seq(S) /\ text = u \o words
    BY <1>1
  <1> QED
    BY <1>2, SuffixOfConcat DEF NoText

(* A dictionary is shown as a text. *)
LEMMA DataIsText ==
  ASSUME NEW dict, TextsIn(dict)
  PROVE  IsSeq(DataText(dict))
  <1> DEFINE r == Get(dict, "response")
             t == Get(dict, "text")
  <1>1. DataText(dict) = IF r \notin Untyped THEN r ELSE IF t \notin Untyped THEN t ELSE <<dict>>
    BY FirstOfTwo DEF DataText
  <1>2. (r \notin Untyped => IsSeq(r)) /\ (t \notin Untyped => IsSeq(t))
    BY DEF TextsIn, MayBeSeq, Given
  <1>3. IsSeq(<<dict>>)
    <2>1. <<dict>> \in Seq({dict})
      OBVIOUS
    <2> QED
      BY <2>1, TextOf
  <1> HIDE DEF r, t
  <1> QED
    BY <1>1, <1>2, <1>3

(* The artifact made of a handler's result ends with what the result says. *)
LEMMA CoercedSays ==
  ASSUME NEW result, TypedResult(result)
  PROVE  LET text == PartsText(ResultParts(Coerced(result)))
             words == Meant(result)
         IN  IsSeq(text) /\ IsSeq(words) /\ (words # NoText => SaysLast(text, words))
  <1> DEFINE dict == result.value
             out == Coerced(result)
  <1>1. IsSeq(NoText) /\ IsSeq(<<>>)
    BY EmptySeq DEF IsSeq, NoText
  <1>2. CASE result.form # "dict"
    <2>1. /\ out.text = Meant(result) /\ out.data = NoData /\ out.attachments = <<>>
          /\ IsSeq(out.text)
      BY <1>1, <1>2 DEF Coerced, Meant, TypedResult
    <2> QED
      BY <1>1, <2>1, ResultSays
  <1>3. CASE result.form = "dict"
    <2> DEFINE t == Get(dict, "text")
               c == Get(dict, "content")
               r == Get(dict, "response")
               d == Get(dict, "data")
               atts == Get(dict, "attachments")
               whole == {"data", "attachments"} \cap DOMAIN dict = {}
               text == First(<<t, c>>, Untyped, None)
    <2>1. text = IF t \notin Untyped THEN t ELSE IF c \notin Untyped THEN c ELSE None
      BY FirstOfTwo
    <2>2. Meant(result) = IF t \notin Untyped THEN t ELSE IF c \notin Untyped THEN c
                          ELSE IF whole /\ r \notin Untyped THEN r ELSE NoText
      <3> DEFINE w == IF whole THEN r ELSE None
      <3>1. Meant(result) = First(<<t, c, w>>, Untyped, NoText)
        BY <1>3 DEF Meant
      <3>2. First(<<t, c, w>>, Untyped, NoText) =
              IF t \notin Untyped THEN t ELSE IF c \notin Untyped THEN c
              ELSE IF w \notin Untyped THEN w ELSE NoText
        BY FirstOfThree
      <3>3. None \in Untyped
        BY DEF Untyped
      <3> HIDE DEF t, c, r, whole
      <3> QED
        BY <3>1, <3>2, <3>3
    <2>3. /\ out.text = IF text = None THEN NoText ELSE text
          /\ out.attachments = IF Given(atts) THEN atts ELSE <<>>
          /\ out.data = IF Given(d) THEN dict["data"]
                        ELSE IF text = None /\ ~Given(atts) THEN dict ELSE NoData
      BY <1>3 DEF Coerced, CoercedDict
    <2>4. /\ t \notin Untyped => IsSeq(t)
          /\ c \notin Untyped => IsSeq(c)
          /\ r \notin Untyped => IsSeq(r)
          /\ Given(atts) => IsSeq(atts)
          /\ Given(d) => TextsIn(dict["data"])
          /\ TextsIn(dict)
      BY <1>3 DEF TypedResult, TextsIn, MayBeSeq, Given
    <2>5. whole => ~Given(d) /\ ~Given(atts)
      BY DEF Get, Given, Untyped
    <2>6. r \notin Untyped => dict # NoData
      BY DEF Get, Untyped, NoData
    <2>7. None \in Untyped
      BY DEF Untyped
    <2>8. DataText(dict) = IF r \notin Untyped THEN r ELSE IF t \notin Untyped THEN t ELSE <<dict>>
      BY FirstOfTwo DEF DataText
    <2> HIDE DEF t, c, r, d, atts, whole, text, out
    <2>9. IsSeq(out.attachments) /\ IsSeq(out.text)
      BY <1>1, <2>1, <2>3, <2>4, <2>7
    <2>10. out.data # NoData => IsSeq(DataText(out.data))
      BY <2>3, <2>4, DataIsText
    <2>11. LET shown == PartsText(ResultParts(out))
           IN  /\ IsSeq(shown)
               /\ out.text # NoText => SaysLast(shown, out.text)
               /\ out.text = NoText /\ out.data # NoData => SaysLast(shown, DataText(out.data))
      BY <2>9, <2>10, ResultSays
    <2>12. CASE t \notin Untyped \/ c \notin Untyped
      <3>1. Meant(result) = text /\ text # None /\ IsSeq(text)
        BY <2>1, <2>2, <2>4, <2>7, <2>12
      <3>2. out.text = Meant(result)
        BY <2>3, <3>1
      <3> QED
        BY <2>11, <3>1, <3>2 DEF out
    <2>13. CASE t \in Untyped /\ c \in Untyped /\ whole /\ r \notin Untyped
      <3>1. Meant(result) = r /\ text = None /\ IsSeq(r)
        BY <2>1, <2>2, <2>4, <2>13
      <3>2. out.text = NoText /\ out.data = dict /\ dict # NoData /\ DataText(dict) = r
        BY <2>3, <2>5, <2>6, <2>8, <2>13, <3>1
      <3> QED
        BY <2>11, <3>1, <3>2 DEF out
    <2>14. CASE t \in Untyped /\ c \in Untyped /\ ~(whole /\ r \notin Untyped)
      <3>1. Meant(result) = NoText
        BY <2>2, <2>14
      <3> QED
        BY <1>1, <2>11, <3>1 DEF out
    <2> QED
      BY <2>12, <2>13, <2>14
  <1> QED
    BY <1>2, <1>3

-----------------------------------------------------------------------------
(* A task: what is read of it.                                              *)

(* Artifacts whose texts are texts. *)
ArtifactsOK(artifacts) ==
    IsSeq(artifacts) /\ \A i \in DOMAIN artifacts : IsSeq(PartsText(artifacts[i]))

(* One more artifact: what is read of all of them ends with what it says. *)
LEMMA OneMoreArtifact ==
  ASSUME NEW artifacts, ArtifactsOK(artifacts), NEW parts, IsSeq(PartsText(parts))
  PROVE  /\ ArtifactsOK(Append(artifacts, parts))
         /\ \A words : SaysLast(PartsText(parts), words) =>
              SaysLast(ArtifactsText(Append(artifacts, parts)), words)
  <1> DEFINE more == Append(artifacts, parts)
             T == Range(artifacts) \cup {parts}
             n == Len(artifacts) + 1
  <1>1. artifacts \in Seq(T) /\ parts \in T
    <2>1. Range(artifacts) \subseteq T
      OBVIOUS
    <2> QED
      BY <2>1, SeqMonotonic DEF ArtifactsOK, IsSeq
  <1> HIDE DEF T
  <1>2. /\ more \in Seq(T) /\ Len(more) = n /\ more[n] = parts
        /\ \A i \in 1 .. Len(artifacts) : more[i] = artifacts[i]
    BY <1>1, AppendProperties
  <1>3. Len(artifacts) \in Nat /\ DOMAIN artifacts = 1 .. Len(artifacts)
    BY <1>1, LenProperties
  <1>4. n \in Nat /\ DOMAIN more = 1 .. n /\ n \in 1 .. n
    BY <1>2, <1>3, LenProperties
  <1> HIDE DEF more
  <1>5. ASSUME NEW i \in 1 .. n PROVE IsSeq(PartsText(more[i]))
    <2>1. CASE i = n
      BY <1>2, <2>1
    <2>2. CASE i # n
      <3>1. i \in 1 .. Len(artifacts)
        BY <1>3, <2>2
      <3> QED
        BY <1>2, <1>3, <3>1 DEF ArtifactsOK
    <2> QED
      BY <2>1, <2>2
  <1>6. ArtifactsOK(more)
    BY <1>2, <1>4, <1>5, TextOf DEF ArtifactsOK
  <1> DEFINE U == {PartsText(more[i]) : i \in 1 .. n}
             s == [i \in 1 .. n |-> PartsText(more[i])]
  <1>7. ArtifactsText(more) = FlattenSeq(s)
    BY <1>4 DEF ArtifactsText
  <1>8. s \in [1 .. n -> U] /\ \A i \in 1 .. n : s[i] = PartsText(more[i])
    OBVIOUS
  <1> HIDE DEF s, U, n
  <1>9. s \in Seq(U) /\ Len(s) = n
    BY <1>4, <1>8
  <1>10. PICK S : s \in Seq(Seq(S))
    BY <1>5, <1>8, <1>9, TextsTyped
  <1>11. PICK u \in Seq(S) : FlattenSeq(s) = u \o s[n]
    <2>1. n \in 1 .. Len(s) /\ \A i \in 1 .. Len(s) : i > n => s[i] = <<>>
      BY <1>4, <1>9
    <2> QED
      BY <1>10, <2>1, FlattenEnds
  <1>12. ArtifactsText(more) = u \o PartsText(parts)
    BY <1>2, <1>4, <1>7, <1>8, <1>11
  <1>13. ASSUME NEW words, SaysLast(PartsText(parts), words)
         PROVE  SaysLast(ArtifactsText(more), words)
    <2>1. PICK V : \E v \in Seq(V) : words \in Seq(V) /\ PartsText(parts) = v \o words
      BY <1>13 DEF SaysLast
    <2>2. PICK v \in Seq(V) : words \in Seq(V) /\ PartsText(parts) = v \o words
      BY <2>1
    <2>3. u \in Seq(S \cup V) /\ v \in Seq(S \cup V) /\ words \in Seq(S \cup V)
      <3>1. S \subseteq S \cup V /\ V \subseteq S \cup V
        OBVIOUS
      <3> QED
        BY <2>2, <3>1, SeqMonotonic
    <2>4. u \o (v \o words) = (u \o v) \o words
      BY <2>3, ConcatAssociative
    <2>5. u \o v \in Seq(S \cup V)
      BY <2>3, ConcatProperties
    <2> QED
      BY <1>12, <2>2, <2>3, <2>4, <2>5 DEF SaysLast
  <1> QED
    BY <1>6, <1>13 DEF more

(* A status message says what it was given, and no artifacts say nothing. *)
LEMMA SaysText ==
  /\ \A t : IsSeq(t) => PartsText(Says(t)) = t
  /\ ArtifactsText(<<>>) = NoText
  <1>1. ASSUME NEW t, IsSeq(t) PROVE PartsText(Says(t)) = t
    <2> DEFINE s == <<t>>
    <2>1. PartsText(Says(t)) = FlattenSeq(s)
      <3>1. [i \in DOMAIN Says(t) |-> PartText(Says(t)[i])] = s
        BY DEF Says, PartText, TextPart
      <3> QED
        BY <3>1 DEF PartsText
    <2>2. s \in Seq(Seq(Range(t))) /\ Len(s) = 1 /\ s[1] = t
      BY <1>1 DEF IsSeq
    <2> HIDE DEF s
    <2>3. FlattenSeq(s) = s[1]
      BY <2>2, FlattenAlone
    <2> QED
      BY <2>1, <2>2, <2>3
  <1>2. ArtifactsText(<<>>) = NoText
    <2>1. [i \in DOMAIN <<>> |-> PartsText(<<>>[i])] = <<>>
      OBVIOUS
    <2>2. FlattenSeq(<<>>) = <<>>
      BY DEF FlattenSeq
    <2> QED
      BY <2>1, <2>2 DEF ArtifactsText, NoText
  <1> QED
    BY <1>1, <1>2

(* A task that shows these words: a completed one at the end of its artifacts, any
   other as its status. *)
Answers(t, words) ==
    /\ ArtifactsOK(t.artifacts)
    /\ IsSeq(words)
    /\ words # NoText =>
         IF t.state = "completed" THEN SaysLast(ArtifactsText(t.artifacts), words)
         ELSE t.status = Says(words)

(* A caller reads them. *)
LEMMA ReadsAnswer ==
  ASSUME NEW t, NEW words, Answers(t, words), words # NoText
  PROVE  IF t.state = "completed" THEN IsSuffix(words, TaskReply(t))
         ELSE Len(t.artifacts) = 0 => TaskReply(t) = words
  <1> DEFINE a == ArtifactsText(t.artifacts)
             b == PartsText(t.status)
             c == IF t.history = <<>> THEN NoText ELSE PartsText(Last(t.history))
  <1>1. TaskReply(t) = IF a \notin {NoText} THEN a ELSE IF b \notin {NoText} THEN b
                       ELSE IF c \notin {NoText} THEN c ELSE Nothing(t)
    BY FirstOfThree DEF TaskReply, Said
  <1>2. CASE t.state = "completed"
    <2>1. SaysLast(a, words)
      BY <1>2 DEF Answers
    <2> HIDE DEF a, b, c
    <2>2. IsSuffix(words, a) /\ a # NoText
      BY <2>1, LastIsSuffix
    <2> QED
      BY <1>1, <1>2, <2>2
  <1>3. CASE t.state # "completed"
    <2> SUFFICES ASSUME Len(t.artifacts) = 0 PROVE TaskReply(t) = words
      BY <1>3
    <2>1. t.artifacts = <<>>
      BY EmptySeq DEF Answers, ArtifactsOK, IsSeq
    <2>2. a = NoText
      BY <2>1, SaysText
    <2>3. b = words
      BY <1>3, SaysText DEF Answers
    <2> HIDE DEF a, b, c
    <2> QED
      BY <1>1, <2>2, <2>3
  <1> QED
    BY <1>2, <1>3

-----------------------------------------------------------------------------
(* The conversation: what the agent said last.                              *)

(* The task says what the agent said last. *)
TaskAnswers == Answers(task, said)

(* What is said while a task is under way, waits or fails is its status. *)
LEMMA StatusAnswers ==
  ASSUME TaskAnswers, task'.artifacts = task.artifacts, task'.state # "completed",
         \/ said' = NoText
         \/ said' \in Utterances \cup {Complaint} /\ task'.status = Says(said')
  PROVE  TaskAnswers'
  <1>1. IsSeq(said')
    BY WellTyped, EmptySeq DEF IsSeq, NoText
  <1> QED
    BY <1>1 DEF TaskAnswers, Answers

(* An agent without a task says nothing. *)
LEMMA NothingAnswers == Answers(NoTask, NoText)
  <1>1. IsSeq(NoText) /\ ArtifactsOK(<<>>)
    BY EmptySeq DEF IsSeq, NoText, ArtifactsOK
  <1> QED
    BY <1>1 DEF Answers, NoTask

(* A handler that returns says what it returned. *)
LEMMA ReturnAnswers ==
  ASSUME TalkTypeOK, TaskAnswers, NEW n \in Turns, Return(n)
  PROVE  TaskAnswers'
  <1>1. PICK returned \in deployment.results :
         LET result == Handled(returned)
             out == Coerced(result)
         IN  IF task.state \in Terminal THEN UNCHANGED <<task, said, stream>>
             ELSE IF out.data \in Refuted
             THEN /\ task' = [task EXCEPT !.state = "failed", !.status = Says(Complaint)]
                  /\ said' = Complaint
                  /\ Sends(<<StatusUpdate("failed")>>)
             ELSE /\ task' = [task EXCEPT !.state = "completed", !.status = <<>>,
                                          !.artifacts = Append(@, ResultParts(out))]
                  /\ said' = Meant(result)
                  /\ Sends(<<ArtifactUpdate, StatusUpdate("completed")>>)
    BY DEF Return
  <1> DEFINE result == Handled(returned)
             parts == ResultParts(Coerced(result))
  <1>2. DOMAIN task = {"state", "status", "artifacts", "history"}
    BY DEF TalkTypeOK
  <1>3. TypedResult(result)
    BY WellTyped DEF TalkTypeOK
  <1>4. \/ UNCHANGED <<task, said>>
        \/ /\ task' = [task EXCEPT !.state = "failed", !.status = Says(Complaint)]
           /\ said' = Complaint
        \/ /\ task' = [task EXCEPT !.state = "completed", !.status = <<>>,
                                   !.artifacts = Append(@, parts)]
           /\ said' = Meant(result)
    BY <1>1
  <1> HIDE DEF result, parts
  <1>5. CASE UNCHANGED <<task, said>>
    BY <1>5 DEF TaskAnswers
  <1>6. CASE /\ task' = [task EXCEPT !.state = "failed", !.status = Says(Complaint)]
             /\ said' = Complaint
    <2>1. /\ task'.artifacts = task.artifacts /\ task'.state = "failed"
          /\ task'.status = Says(said')
      BY <1>2, <1>6
    <2> QED
      BY <1>6, <2>1, StatusAnswers
  <1>7. CASE /\ task' = [task EXCEPT !.state = "completed", !.status = <<>>,
                                     !.artifacts = Append(@, parts)]
             /\ said' = Meant(result)
    <2>1. task'.artifacts = Append(task.artifacts, parts) /\ task'.state = "completed"
      BY <1>2, <1>7
    <2>2. /\ IsSeq(PartsText(parts)) /\ IsSeq(said')
          /\ said' # NoText => SaysLast(PartsText(parts), said')
      BY <1>3, <1>7, CoercedSays DEF parts
    <2>3. /\ ArtifactsOK(task'.artifacts)
          /\ said' # NoText => SaysLast(ArtifactsText(task'.artifacts), said')
      BY <2>1, <2>2, OneMoreArtifact DEF TaskAnswers, Answers
    <2> QED
      BY <2>1, <2>2, <2>3 DEF TaskAnswers, Answers
  <1> QED
    BY <1>4, <1>5, <1>6, <1>7

(* So does every other step of the conversation. *)
LEMMA TalkAnswers ==
  ASSUME TalkTypeOK, TaskAnswers, Conversation
  PROVE  TaskAnswers'
  <1> DEFINE Kept == UNCHANGED <<task, said>>
             Spoken == /\ task'.artifacts = task.artifacts /\ task'.state # "completed"
                       /\ \/ said' = NoText
                          \/ said' \in Utterances \cup {Complaint} /\ task'.status = Says(said')
  <1>1. DOMAIN task = {"state", "status", "artifacts", "history"}
    BY DEF TalkTypeOK
  <1>2. Kept \/ Spoken => TaskAnswers'
    <2>1. Kept => TaskAnswers'
      BY DEF TaskAnswers
    <2>2. Spoken => TaskAnswers'
      BY StatusAnswers
    <2> QED
      BY <2>1, <2>2
  <1>3. CASE \E n \in Turns : Return(n)
    BY <1>3, ReturnAnswers
  <1>4. CASE Call \/ Resolve \/ GiveUp \/ Refuse
    BY <1>2, <1>4 DEF Call, Resolve, GiveUp, Refuse, serverVars
  <1>5. CASE Respond \/ ForeignAnswer \/ Read \/ ReadChunk \/ TakeFrame \/ EndOfStream
    BY <1>2, <1>5 DEF Respond, ForeignAnswer, Read, ReadChunk, TakeFrame, EndOfStream, serverVars
  <1>6. CASE Resume
    <2>1. \/ /\ task' = [task EXCEPT !.state = "working", !.status = <<>>,
                                      !.history = Append(@, Message.parts)]
             /\ said' = NoText
          \/ /\ task' = [task EXCEPT !.state = "failed", !.status = Says(Complaint)]
             /\ said' = Complaint
      BY <1>6 DEF Resume
    <2>2. Spoken
      BY <1>1, <2>1
    <2> QED
      BY <1>2, <2>2
  <1>7. CASE Start
    <2> DEFINE valid == Validates(Payload(Message), Required)
    <2>1. /\ task' = [task EXCEPT !.state = IF valid THEN "working" ELSE "rejected",
                                  !.status = IF valid THEN <<>> ELSE Says(Complaint),
                                  !.history = Append(@, Message.parts)]
          /\ said' = IF valid THEN NoText ELSE Complaint
      BY <1>7 DEF Start
    <2> HIDE DEF valid
    <2>2. Spoken
      BY <1>1, <2>1
    <2> QED
      BY <1>2, <2>2
  <1>8. CASE \E n \in Turns : Ask(n)
    <2>1. \/ \E question \in Utterances :
               /\ task' = [task EXCEPT !.state = "input-required", !.status = Says(question)]
               /\ said' = question
          \/ /\ task' = [task EXCEPT !.state = "failed", !.status = Says(Complaint)]
             /\ said' = Complaint
      BY <1>8 DEF Ask
    <2>2. Spoken
      BY <1>1, <2>1
    <2> QED
      BY <1>2, <2>2
  <1>9. CASE \E n \in Turns : Fail(n) \/ AskTimesOut(n)
    <2>1. \/ Kept
          \/ \E reason \in Utterances \cup {Complaint} :
               /\ task' = [task EXCEPT !.state = "failed", !.status = Says(reason)]
               /\ said' = reason
      BY <1>9 DEF Fail, AskTimesOut
    <2>2. Kept \/ Spoken
      BY <1>1, <2>1
    <2> QED
      BY <1>2, <2>2
  <1> QED
    BY <1>3, <1>4, <1>5, <1>6, <1>7, <1>8, <1>9 DEF Conversation

(* The response on its way says what the agent said when it was made. *)
ResponseAnswers ==
    response # None =>
        \/ response.kind = "error"
        \/ response.kind = "task" /\ Answers(response.task, response.said)
        \/ /\ response.kind = "message"
           /\ response.said # NoText => SaysLast(PartsText(response.parts), response.said)

(* Whoever answers. *)
LEMMA TalkResponds ==
  ASSUME TalkTypeOK, TaskAnswers, ResponseAnswers, Conversation
  PROVE  ResponseAnswers'
  <1>1. CASE Respond
    <2>1. response' = Answer(task, said) \/ response' = [kind |-> "error"]
      BY <1>1 DEF Respond
    <2> QED
      BY <2>1 DEF Answer, ResponseAnswers, TaskAnswers
  <1>2. CASE ForeignAnswer
    <2>1. PICK returned \in deployment.results, bare \in BOOLEAN :
            response' =
              IF bare THEN [kind |-> "message", parts |-> ResultParts(Coerced(Handled(returned))),
                            said |-> Meant(Handled(returned))]
              ELSE Answer([NoTask EXCEPT !.state = "completed",
                                         !.artifacts = <<ResultParts(Coerced(Handled(returned)))>>],
                          Meant(Handled(returned)))
      BY <1>2 DEF ForeignAnswer
    <2> DEFINE parts == ResultParts(Coerced(Handled(returned)))
               words == Meant(Handled(returned))
               t == [NoTask EXCEPT !.state = "completed", !.artifacts = <<parts>>]
    <2>2. /\ IsSeq(PartsText(parts)) /\ IsSeq(words)
          /\ words # NoText => SaysLast(PartsText(parts), words)
      BY WellTyped, CoercedSays DEF TalkTypeOK
    <2> HIDE DEF parts, words
    <2>3. t.state = "completed" /\ t.artifacts = <<parts>>
      BY DEF NoTask
    <2>4. Answers(t, words)
      <3>1. ArtifactsOK(<<>>) /\ Append(<<>>, parts) = <<parts>>
        BY EmptySeq DEF ArtifactsOK, IsSeq
      <3>2. /\ ArtifactsOK(<<parts>>)
            /\ words # NoText => SaysLast(ArtifactsText(<<parts>>), words)
        BY <2>2, <3>1, OneMoreArtifact
      <3> QED
        BY <2>2, <2>3, <3>2 DEF Answers
    <2>5. \/ response' = [kind |-> "message", parts |-> parts, said |-> words]
          \/ response' = [kind |-> "task", task |-> t, said |-> words]
      BY <2>1 DEF Answer, parts, words
    <2> HIDE DEF t
    <2> QED
      BY <2>2, <2>4, <2>5 DEF ResponseAnswers
  <1>3. CASE Refuse
    <2>1. response' = [kind |-> "error"] \/ response' = response
      BY <1>3 DEF Refuse
    <2> QED
      BY <2>1 DEF ResponseAnswers
  <1>4. CASE Call \/ Resolve \/ GiveUp \/ Read
    <2>1. response' \in {None, response}
      BY <1>4 DEF Call, Resolve, GiveUp, Read
    <2> QED
      BY <2>1 DEF ResponseAnswers
  <1>5. CASE Resume \/ Start \/ ReadChunk \/ TakeFrame \/ EndOfStream
             \/ \E n \in Turns : Return(n) \/ Ask(n) \/ Fail(n) \/ AskTimesOut(n)
    <2>1. response' = response
      BY <1>5 DEF Resume, Start, ReadChunk, TakeFrame, EndOfStream, Return, Ask, Fail, AskTimesOut
    <2> QED
      BY <2>1 DEF ResponseAnswers
  <1> QED
    BY <1>1, <1>2, <1>3, <1>4, <1>5 DEF Conversation

(* And what a caller reads of it is that. *)
LEMMA TalkReads ==
  ASSUME ResponseAnswers, ReplyIsAnswer, Conversation
  PROVE  ReplyIsAnswer'
  <1>1. CASE Read
    <2>1. CASE response.kind = "error"
      BY <1>1, <2>1 DEF Read, Ends, Raised, ReplyIsAnswer
    <2>2. CASE response.kind # "error"
      <3> DEFINE t == IF response.kind = "task" THEN response.task ELSE Wrapped(response.parts)
      <3>1. outcome' = [kind |-> "reply", text |-> TaskReply(t), state |-> t.state,
                        artifacts |-> Len(t.artifacts), said |-> response.said]
        BY <1>1, <2>2 DEF Read, Ends
      <3>2. CASE response.kind = "task"
        <4>1. Answers(t, response.said)
          BY <1>1, <3>2 DEF Read, ResponseAnswers
        <4> HIDE DEF t
        <4>2. response.said # NoText =>
                IF t.state = "completed" THEN IsSuffix(response.said, TaskReply(t))
                ELSE Len(t.artifacts) = 0 => TaskReply(t) = response.said
          BY <4>1, ReadsAnswer
        <4> QED
          BY <3>1, <4>2 DEF ReplyIsAnswer
      <3>3. CASE response.kind # "task"
        <4>1. /\ t.state = "completed" /\ t.artifacts = <<>> /\ t.status = <<>>
              /\ t.history = <<response.parts>>
          BY <3>3 DEF Wrapped, NoTask
        <4>2. response.said # NoText => SaysLast(PartsText(response.parts), response.said)
          BY <1>1, <2>2, <3>3 DEF Read, ResponseAnswers
        <4> DEFINE b == PartsText(t.status)
                   c == PartsText(response.parts)
        <4>3. TaskReply(t) = IF b # NoText THEN b ELSE IF c # NoText THEN c ELSE Nothing(t)
          <5> HIDE DEF t
          <5>1. ArtifactsText(t.artifacts) = NoText
            BY <4>1, SaysText
          <5>2. t.history # <<>> /\ Last(t.history) = response.parts
            BY <4>1 DEF Last
          <5>3. Said(t) = <<NoText, b, c>>
            BY <5>1, <5>2 DEF Said
          <5> HIDE DEF b, c
          <5> QED
            BY <5>3, FirstOfThree DEF TaskReply
        <4>4. b = NoText
          <5>1. [i \in DOMAIN <<>> |-> PartText(<<>>[i])] = <<>>
            OBVIOUS
          <5>2. FlattenSeq(<<>>) = <<>>
            BY DEF FlattenSeq
          <5> QED
            BY <4>1, <5>1, <5>2 DEF PartsText, NoText
        <4>5. response.said # NoText => IsSuffix(response.said, c) /\ c # NoText
          BY <4>2, LastIsSuffix
        <4> HIDE DEF t, b, c
        <4> QED
          BY <3>1, <4>1, <4>3, <4>4, <4>5 DEF ReplyIsAnswer
      <3> QED
        BY <3>2, <3>3
    <2> QED
      BY <2>1, <2>2
  <1>2. CASE ~Read
    <2>1. outcome' = outcome \/ outcome' \in {None, Raised, [kind |-> "ended"]}
      <3>1. CASE Call \/ Resolve \/ GiveUp \/ Refuse \/ Resume \/ Start
        BY <3>1 DEF Call, Resolve, GiveUp, Refuse, Resume, Start, Ends
      <3>2. CASE Respond \/ ForeignAnswer \/ ReadChunk \/ TakeFrame \/ EndOfStream
        BY <3>2 DEF Respond, ForeignAnswer, ReadChunk, TakeFrame, EndOfStream, Ends
      <3>3. CASE \E n \in Turns : Return(n) \/ Ask(n) \/ Fail(n) \/ AskTimesOut(n)
        BY <3>3 DEF Return, Ask, Fail, AskTimesOut
      <3> QED
        BY <1>2, <3>1, <3>2, <3>3 DEF Conversation
    <2> QED
      BY <2>1 DEF ReplyIsAnswer, Raised
  <1> QED
    BY <1>1, <1>2

-----------------------------------------------------------------------------
(* The conversation: what was passed.                                       *)

(* What is passed in a call under way is typed. *)
CallTyped ==
    client # "idle" =>
        /\ "input" \in DOMAIN call
        /\ IsSeq(call.input.text) /\ call.input.text # None
        /\ IsSeq(call.input.attachments)

(* It stays what it was when the call was made. *)
LEMMA TalkPasses ==
  ASSUME TalkTypeOK, CallTyped, Conversation
  PROVE  CallTyped'
  <1>1. CASE Call
    <2>1. PICK c \in deployment.calls : call'.input = c.input /\ "input" \in DOMAIN call'
      BY <1>1 DEF Call
    <2> QED
      BY <2>1, WellTyped DEF TalkTypeOK, CallTyped
  <1>2. CASE Resolve
    <2>1. client # "idle" /\ "input" \in DOMAIN call
      BY <1>2 DEF Resolve, CallTyped
    <2>2. call' = call \/ \E via : call' = [call EXCEPT !.via = via]
      BY <1>2 DEF Resolve
    <2>3. call'.input = call.input /\ DOMAIN call' = DOMAIN call
      BY <2>1, <2>2
    <2> QED
      BY <2>1, <2>3 DEF CallTyped
  <1>3. CASE ~Call /\ ~Resolve
    <2>1. call' = call /\ (client' # "idle" => client # "idle")
      <3>1. CASE GiveUp \/ Refuse \/ Resume \/ Start \/ Respond \/ ForeignAnswer \/ Read
        BY <3>1 DEF GiveUp, Refuse, Resume, Start, Reached, Respond, ForeignAnswer, Read
      <3>2. CASE \E n \in Turns : Return(n) \/ Ask(n) \/ Fail(n) \/ AskTimesOut(n)
        BY <3>2 DEF Return, Ask, Fail, AskTimesOut
      <3>3. CASE ReadChunk \/ TakeFrame \/ EndOfStream
        BY <3>3 DEF ReadChunk, TakeFrame, EndOfStream
      <3> QED
        BY <1>3, <3>1, <3>2, <3>3 DEF Conversation
    <2> QED
      BY <2>1 DEF CallTyped
  <1> QED
    BY <1>1, <1>2, <1>3

(* A handler is given what its caller passed, and keeps it. *)
LEMMA TalkArrives ==
  ASSUME TalkTypeOK, CallTyped, InputArrives, Conversation
  PROVE  InputArrives'
  <1>1. Turns' = Turns
    BY DeploymentStays DEF Turns
  <1>2. ASSUME NEW n \in Turns,
               /\ client # "idle"
               /\ handler' = [handler EXCEPT ![n] = [at |-> "run", args |-> call.input,
                                                     input |-> HandlerInput(Message)]]
        PROVE  InputArrives'
    <2>1. Arrived(call.input, HandlerInput(Message))
      <3>1. Message.parts = MessageParts(call.input) /\ Message.sender = Caller
        BY DEF Message
      <3> QED
        BY <1>2, <3>1, HandlerIsGiven DEF CallTyped
    <2> DEFINE input == HandlerInput(Message)
    <2> HIDE DEF input
    <2>2. ASSUME NEW k \in Turns, handler'[k].at # "none"
          PROVE  Arrived(handler'[k].args, handler'[k].input)
      <3>1. CASE k = n
        <4>1. handler'[k].args = call.input /\ handler'[k].input = input
          BY <1>2, <3>1 DEF TalkTypeOK, input
        <4> QED
          BY <2>1, <4>1 DEF input
      <3>2. CASE k # n
        <4>1. handler'[k] = handler[k]
          BY <1>2, <3>2 DEF TalkTypeOK
        <4> QED
          BY <2>2, <4>1 DEF InputArrives
      <3> QED
        BY <3>1, <3>2
    <2> QED
      BY <1>1, <2>2 DEF InputArrives
  <1>3. ASSUME \A k \in Turns : /\ handler'[k].at # "none" => handler[k].at # "none"
                                /\ handler'[k].args = handler[k].args
                                /\ handler'[k].input = handler[k].input
        PROVE  InputArrives'
    BY <1>1, <1>3 DEF InputArrives
  <1>4. CASE handler' = handler
    BY <1>3, <1>4
  <1>5. ASSUME NEW n \in Turns, NEW at, handler[n].at # "none",
               handler' = [handler EXCEPT ![n].at = at]
        PROVE  InputArrives'
    <2>1. \A k \in Turns : DOMAIN handler[k] = {"at", "args", "input"}
      BY DEF TalkTypeOK
    <2>2. \A k \in Turns : handler'[k] = IF k = n THEN [handler[n] EXCEPT !.at = at]
                                         ELSE handler[k]
      BY <1>5 DEF TalkTypeOK
    <2> QED
      BY <1>3, <1>5, <2>1, <2>2
  <1>6. CASE Call \/ Resolve \/ GiveUp \/ Refuse
    BY <1>4, <1>6 DEF Call, Resolve, GiveUp, Refuse, serverVars
  <1>7. CASE Respond \/ ForeignAnswer \/ Read \/ ReadChunk \/ TakeFrame \/ EndOfStream
    BY <1>4, <1>7 DEF Respond, ForeignAnswer, Read, ReadChunk, TakeFrame, EndOfStream, serverVars
  <1>8. CASE Resume
    <2>1. PICK n \in Asking :
             \/ handler' = [handler EXCEPT ![n] = [at |-> "run", args |-> call.input,
                                                   input |-> HandlerInput(Message)]]
             \/ handler' = [handler EXCEPT ![n].at = "done"]
      BY <1>8 DEF Resume
    <2>2. n \in Turns /\ handler[n].at # "none" /\ client # "idle"
      BY <1>8 DEF Resume, Reached, Asking
    <2> QED
      BY <1>2, <1>5, <2>1, <2>2
  <1>9. CASE Start
    <2>1. \/ handler' = handler
          \/ handler' = [handler EXCEPT ![turn] = [at |-> "run", args |-> call.input,
                                                   input |-> HandlerInput(Message)]]
      BY <1>9 DEF Start
    <2>2. client # "idle"
      BY <1>9 DEF Start, Reached
    <2>3. CASE turn \in Turns
      BY <1>2, <1>4, <2>1, <2>2, <2>3
    <2>4. CASE turn \notin Turns
      <3>1. DOMAIN handler = Turns
        BY DEF TalkTypeOK
      <3>2. \A k \in Turns : handler'[k] = handler[k]
        BY <2>1, <2>4, <3>1
      <3> QED
        BY <1>3, <3>2
    <2> QED
      BY <2>3, <2>4
  <1>10. CASE \E n \in Turns : Return(n) \/ Ask(n) \/ Fail(n) \/ AskTimesOut(n)
    <2>1. PICK n \in Turns : Return(n) \/ Ask(n) \/ Fail(n) \/ AskTimesOut(n)
      BY <1>10
    <2>2. handler[n].at # "none" /\ \E at : handler' = [handler EXCEPT ![n].at = at]
      BY <2>1 DEF Return, Ask, Fail, AskTimesOut, Running
    <2> QED
      BY <1>5, <2>2
  <1> QED
    BY <1>6, <1>7, <1>8, <1>9, <1>10 DEF Conversation

-----------------------------------------------------------------------------
(* Both.                                                                    *)

(* What the callers and the handlers have been told. *)
WordsInv ==
    /\ CallTyped
    /\ TaskAnswers
    /\ ResponseAnswers
    /\ ReplyIsAnswer
    /\ InputArrives

(* Nothing has been said at first. *)
LEMMA InitWords ==
  ASSUME Init
  PROVE  WordsInv
  <1> USE DEF Init, ExchangeInit
  <1>1. CallTyped /\ ResponseAnswers /\ ReplyIsAnswer
    BY DEF CallTyped, ResponseAnswers, ReplyIsAnswer
  <1>2. TaskAnswers
    BY NothingAnswers DEF TaskAnswers
  <1>3. InputArrives
    BY DEF InputArrives, Idle
  <1> QED
    BY <1>1, <1>2, <1>3 DEF WordsInv

(* A process that dies takes what it was told with it. *)
LEMMA ProcessWords ==
  ASSUME AllTypeOK, WordsInv, Prepare \/ Up \/ Down
  PROVE  WordsInv'
  <1>1. UNCHANGED <<deployment, call, response>>
    <2>1. CASE Prepare
      BY <2>1 DEF Prepare, exchangeVars
    <2>2. CASE Up
      BY <2>2 DEF Up, AgentUp
    <2>3. CASE Down
      BY <2>3 DEF Down, AgentDown, exchangeVars
    <2> QED
      BY <2>1, <2>2, <2>3
  <1>2. CASE AgentDown
    <2>1. /\ client' \in {client, "idle"} /\ outcome' \in {outcome, Raised}
          /\ task' = NoTask /\ said' = NoText /\ handler' = [n \in Turns |-> Idle]
      BY <1>2 DEF AgentDown, Ends
    <2>2. TaskAnswers'
      BY <2>1, NothingAnswers DEF TaskAnswers
    <2>3. CallTyped' /\ ResponseAnswers'
      BY <1>1, <2>1 DEF WordsInv, CallTyped, ResponseAnswers
    <2>4. ReplyIsAnswer'
      BY <2>1 DEF WordsInv, ReplyIsAnswer, Raised
    <2>5. InputArrives'
      BY <1>1, <2>1 DEF InputArrives, Idle, Turns
    <2> QED
      BY <2>2, <2>3, <2>4, <2>5 DEF WordsInv
  <1>3. CASE ~AgentDown
    <2>1. UNCHANGED <<task, said, handler, client, outcome>>
      BY <1>3 DEF Prepare, Up, Down, AgentUp, exchangeVars, serverVars
    <2> QED
      BY <1>1, <2>1 DEF WordsInv, CallTyped, TaskAnswers, ResponseAnswers, ReplyIsAnswer,
                        InputArrives, Turns
  <1> QED
    BY <1>2, <1>3

(* The words are kept. *)
LEMMA WordsKept ==
  ASSUME AllTypeOK, WordsInv, [Next]_vars
  PROVE  WordsInv'
  <1>1. CASE Prepare \/ Up \/ Down
    BY <1>1, ProcessWords
  <1>2. CASE Talk
    <2>1. TalkTypeOK /\ Conversation
      BY <1>2 DEF AllTypeOK, Talk
    <2>2. CallTyped' /\ InputArrives'
      BY <2>1, TalkPasses, TalkArrives DEF WordsInv
    <2>3. TaskAnswers' /\ ResponseAnswers' /\ ReplyIsAnswer'
      BY <2>1, TalkAnswers, TalkResponds, TalkReads DEF WordsInv
    <2> QED
      BY <2>2, <2>3 DEF WordsInv
  <1>3. CASE UNCHANGED vars
    <2>1. UNCHANGED <<deployment, call, response, task, said, handler, client, outcome>>
      BY <1>3 DEF vars, exchangeVars, serverVars
    <2> QED
      BY <2>1 DEF WordsInv, CallTyped, TaskAnswers, ResponseAnswers, ReplyIsAnswer,
                  InputArrives, Turns
  <1> QED
    BY <1>1, <1>2, <1>3 DEF Next

(* What has been told stays true over restarts and for every conversation. *)
LEMMA WordsInductive == Spec => []WordsInv
  <1>1. Init => WordsInv
    BY InitWords
  <1>2. AllTypeOK /\ WordsInv /\ [Next]_vars => WordsInv'
    BY WordsKept
  <1> QED
    BY <1>1, <1>2, TypesInductive, PTL DEF Spec

(* Whatever text, files and data a caller passes, and whatever the data claims to be,
   the handler is given them, and the caller's name. *)
THEOREM InputsArrive == Spec => []InputArrives
  <1>1. WordsInv => InputArrives
    BY DEF WordsInv
  <1> QED
    BY <1>1, WordsInductive, PTL

(* Whatever a handler returns, asks or fails with, and whichever agent answers, the
   caller reads it. *)
THEOREM RepliesAreAnswers == Spec => []ReplyIsAnswer
  <1>1. WordsInv => ReplyIsAnswer
    BY DEF WordsInv
  <1> QED
    BY <1>1, WordsInductive, PTL
=================================================================================
