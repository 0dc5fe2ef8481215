---------------------------- MODULE SequenceFilter ----------------------------
(***************************************************************************)
(* Array.prototype.filter as src/ uses it: the elements of a sequence that *)
(* belong to a set, in their order.  It is SelectSeq with a set for the    *)
(* test, as a recursive function, so that proofs can unfold it.  The facts *)
(* about it hold for every sequence and rest on an induction over the      *)
(* natural numbers, which comes first.                                     *)
(***************************************************************************)
EXTENDS Naturals, Sequences, FiniteSetTheorems, FunctionTheorems, SequenceTheorems, TLAPS

Elements(s) == {s[j] : j \in DOMAIN s}

Filtered(s, T) ==
    LET kept[n \in 0..Len(s)] ==
            IF n = 0 THEN <<>>
            ELSE IF s[n] \in T THEN Append(kept[n - 1], s[n]) ELSE kept[n - 1]
    IN  kept[Len(s)]
-----------------------------------------------------------------------------

\* Induction, for a set: a set of numbers with 0 and closed under successor has
\* them all.  Without one of them, n say, the successor would map the members
\* below n one to one into themselves and miss 0.
LEMMA SetInduction ==
    ASSUME NEW S \in SUBSET Nat, 0 \in S, \A n \in S : n + 1 \in S
    PROVE  S = Nat
<1> SUFFICES ASSUME NEW n \in Nat, n \notin S PROVE FALSE
  OBVIOUS
<1> DEFINE T == {m \in S : m < n}
           f == [m \in T |-> m + 1]
<1>1. IsFiniteSet(T)
  <2>1. IsFiniteSet(0..n)
    BY FS_Interval
  <2>2. \A m \in T : m \in 0..n
    BY SMT
  <2> HIDE DEF T
  <2>3. T \subseteq 0..n
    BY <2>2
  <2>q. QED  BY <2>1, <2>3, FS_Subset
<1>2. f \in Injection(T, T)
  <2>1. \A m \in T : m + 1 \in T
    <3>1. \A m \in T : m + 1 # n
      BY SMT
    <3>q. QED  BY <3>1
  <2>2. \A a, b \in T : a + 1 = b + 1 => a = b
    BY SMT
  <2> HIDE DEF T
  <2>3. f \in [T -> T]
    BY <2>1
  <2>4. \A a, b \in T : f[a] = f[b] => a = b
    BY <2>2
  <2>q. QED  BY <2>3, <2>4 DEF Injection, IsInjective
<1>3. f \in Surjection(T, T)
  <2> HIDE DEF T, f
  <2>q. QED  BY <1>1, <1>2, FS_Injection
<1>4. 0 \in T
  OBVIOUS
<1>5. \E m \in T : f[m] = 0
  <2> HIDE DEF T, f
  <2>q. QED  BY <1>3, <1>4 DEF Surjection
<1>q. QED  BY <1>5

-----------------------------------------------------------------------------
(* Filtered unfolds along the sequence.                                    *)

Kept(s, T, n, f) ==
    f = [m \in 0..n |->
            IF m = 0 THEN <<>>
            ELSE IF s[m] \in T THEN Append(f[m - 1], s[m]) ELSE f[m - 1]]

LEMMA KeptExists ==
    ASSUME NEW s, NEW T
    PROVE  \A n \in Nat : \E f : Kept(s, T, n, f)
<1> DEFINE N == {n \in Nat : \E f : Kept(s, T, n, f)}
<1>1. 0 \in N
  <2>1. Kept(s, T, 0, [m \in 0..0 |-> <<>>])
    BY DEF Kept
  <2>q. QED  BY <2>1
<1>2. ASSUME NEW n \in N PROVE n + 1 \in N
  <2>1. PICK f : Kept(s, T, n, f)
    OBVIOUS
  <2> DEFINE last == IF s[n + 1] \in T THEN Append(f[n], s[n + 1]) ELSE f[n]
             g == [m \in 0..(n + 1) |-> IF m = n + 1 THEN last ELSE f[m]]
  <2>2. \A m \in 0..n : f[m] = IF m = 0 THEN <<>>
                               ELSE IF s[m] \in T THEN Append(f[m - 1], s[m])
                                                  ELSE f[m - 1]
    BY <2>1 DEF Kept
  <2>3. \A m \in 0..(n + 1) :
           g[m] = IF m = 0 THEN <<>>
                  ELSE IF s[m] \in T THEN Append(g[m - 1], s[m]) ELSE g[m - 1]
    BY <2>2
  <2> HIDE DEF last
  <2>4. DOMAIN g = 0..(n + 1) /\ g = [m \in 0..(n + 1) |-> g[m]]
    OBVIOUS
  <2> HIDE DEF g
  <2>5. Kept(s, T, n + 1, g)
    BY <2>3, <2>4 DEF Kept
  <2>q. QED  BY <2>5
<1> HIDE DEF N
<1>3. N = Nat
  <2>1. N \subseteq Nat
    BY DEF N
  <2>q. QED  BY <1>1, <1>2, <2>1, SetInduction
<1>q. QED  BY <1>3 DEF N

\* Two functions that unfold alike agree wherever both are defined.
LEMMA KeptAgrees ==
    ASSUME NEW s, NEW t, NEW T, NEW k \in Nat, NEW l \in Nat,
           NEW f, NEW g, Kept(s, T, k, f), Kept(t, T, l, g),
           \A j \in 1..k : j <= l => s[j] = t[j]
    PROVE  \A n \in Nat : n <= k /\ n <= l => f[n] = g[n]
<1> DEFINE N == {n \in Nat : n <= k /\ n <= l => f[n] = g[n]}
<1>f. \A m \in 0..k : f[m] = IF m = 0 THEN <<>>
                             ELSE IF s[m] \in T THEN Append(f[m - 1], s[m])
                                                ELSE f[m - 1]
  BY DEF Kept
<1>g. \A m \in 0..l : g[m] = IF m = 0 THEN <<>>
                             ELSE IF t[m] \in T THEN Append(g[m - 1], t[m])
                                                ELSE g[m - 1]
  BY DEF Kept
<1>1. 0 \in N
  BY <1>f, <1>g
<1>2. ASSUME NEW n \in N PROVE n + 1 \in N
  <2> SUFFICES ASSUME n + 1 <= k, n + 1 <= l PROVE f[n + 1] = g[n + 1]
    OBVIOUS
  <2>1. f[n] = g[n] /\ s[n + 1] = t[n + 1]
    OBVIOUS
  <2>2. /\ n + 1 \in 0..k /\ n + 1 \in 0..l /\ n + 1 # 0 /\ (n + 1) - 1 = n
    OBVIOUS
  <2> HIDE DEF N
  <2>q. QED  BY <1>f, <1>g, <2>1, <2>2
<1> HIDE DEF N
<1>3. N = Nat
  <2>1. N \subseteq Nat
    BY DEF N
  <2>q. QED  BY <1>1, <1>2, <2>1, SetInduction
<1>q. QED  BY <1>3 DEF N

LEMMA FilteredIsKept ==
    ASSUME NEW S, NEW s \in Seq(S), NEW T
    PROVE  \E f : Kept(s, T, Len(s), f) /\ Filtered(s, T) = f[Len(s)]
<1> DEFINE kept == CHOOSE f : Kept(s, T, Len(s), f)
<1>1. Kept(s, T, Len(s), kept)
  <2>1. Len(s) \in Nat
    OBVIOUS
  <2>2. \E f : Kept(s, T, Len(s), f)
    BY <2>1, KeptExists, Zenon
  <2>q. QED  BY <2>2
<1>2. Filtered(s, T) = kept[Len(s)]
  BY Zenon DEF Filtered, Kept
<1>q. QED  BY <1>1, <1>2

LEMMA FilteredEmpty ==
    ASSUME NEW T
    PROVE  Filtered(<<>>, T) = <<>>
<1>1. <<>> \in Seq({}) /\ Len(<<>>) = 0
  OBVIOUS
<1>2. PICK f : Kept(<<>>, T, 0, f) /\ Filtered(<<>>, T) = f[0]
  BY <1>1, FilteredIsKept
<1>q. QED  BY <1>2 DEF Kept

LEMMA FilteredAppend ==
    ASSUME NEW S, NEW s \in Seq(S), NEW e \in S, NEW T
    PROVE  Filtered(Append(s, e), T) =
             IF e \in T THEN Append(Filtered(s, T), e) ELSE Filtered(s, T)
<1> DEFINE t == Append(s, e)
<1>1. /\ t \in Seq(S) /\ Len(t) = Len(s) + 1 /\ t[Len(s) + 1] = e /\ Len(s) \in Nat
      /\ \A j \in 1..Len(s) : s[j] = t[j]
  OBVIOUS
<1>2. PICK f : Kept(s, T, Len(s), f) /\ Filtered(s, T) = f[Len(s)]
  BY FilteredIsKept
<1> HIDE DEF t
<1>3. PICK g : Kept(t, T, Len(s) + 1, g) /\ Filtered(t, T) = g[Len(s) + 1]
  BY <1>1, FilteredIsKept
<1> DEFINE n == Len(s)
<1>a. /\ n \in Nat /\ n + 1 \in Nat /\ n <= n /\ n <= n + 1
      /\ n + 1 \in 0..(n + 1) /\ n + 1 # 0 /\ (n + 1) - 1 = n
  BY <1>1
<1>s. Kept(s, T, n, f) /\ Kept(t, T, n + 1, g) /\ \A j \in 1..n : s[j] = t[j]
  BY <1>1, <1>2, <1>3
<1>e. t[n + 1] = e
  BY <1>1
<1> HIDE DEF n
<1>4. f[n] = g[n]
  BY <1>a, <1>s, KeptAgrees
<1>5. g[n + 1] = IF e \in T THEN Append(g[n], e) ELSE g[n]
  BY <1>a, <1>s, <1>e DEF Kept
<1>q. QED  BY <1>2, <1>3, <1>4, <1>5 DEF t, n

-----------------------------------------------------------------------------
(* Elements, and induction over sequences for a set of them.               *)

LEMMA ElementsEmpty ==
    ASSUME NEW S, NEW s \in Seq(S)
    PROVE  Elements(s) = {} <=> s = <<>>
<1>1. CASE s = <<>>
  BY <1>1 DEF Elements
<1>2. CASE s # <<>>
  <2>1. 1 \in DOMAIN s
    BY <1>2
  <2>2. s[1] \in Elements(s)
    BY <2>1, Zenon DEF Elements
  <2>q. QED  BY <1>2, <2>2
<1>q. QED  BY <1>1, <1>2

LEMMA ElementsAppend ==
    ASSUME NEW S, NEW s \in Seq(S), NEW e \in S
    PROVE  /\ Elements(s) \subseteq S
           /\ Elements(Append(s, e)) = Elements(s) \cup {e}
<1>1. /\ Append(s, e) \in Seq(S)
      /\ DOMAIN Append(s, e) = 1..(Len(s) + 1) /\ DOMAIN s = 1..Len(s)
      /\ Len(s) \in Nat /\ Append(s, e)[Len(s) + 1] = e
      /\ \A j \in 1..Len(s) : Append(s, e)[j] = s[j] /\ s[j] \in S
  OBVIOUS
<1>2. Elements(Append(s, e)) = Elements(s) \cup {e}
  <2>1. \A x : x \in Elements(Append(s, e)) => x \in Elements(s) \cup {e}
    BY <1>1 DEF Elements
  <2>2. \A x \in Elements(s) : x \in Elements(Append(s, e))
    BY <1>1 DEF Elements
  <2>3. e \in Elements(Append(s, e))
    <3>1. Len(s) + 1 \in DOMAIN Append(s, e)
      BY <1>1
    <3>q. QED  BY <1>1, <3>1, Zenon DEF Elements
  <2>q. QED  BY <2>1, <2>2, <2>3
<1>q. QED  BY <1>1, <1>2 DEF Elements

LEMMA ElementsConcat ==
    ASSUME NEW S, NEW s \in Seq(S), NEW t \in Seq(S)
    PROVE  Elements(s \o t) = Elements(s) \cup Elements(t)
<1>1. /\ DOMAIN (s \o t) = 1..(Len(s) + Len(t)) /\ Len(s) \in Nat /\ Len(t) \in Nat
      /\ DOMAIN s = 1..Len(s) /\ DOMAIN t = 1..Len(t)
      /\ \A j \in 1..(Len(s) + Len(t)) :
           (s \o t)[j] = IF j <= Len(s) THEN s[j] ELSE t[j - Len(s)]
  OBVIOUS
<1>2. ASSUME NEW x \in Elements(s \o t) PROVE x \in Elements(s) \cup Elements(t)
  <2>1. PICK j \in 1..(Len(s) + Len(t)) : x = (s \o t)[j]
    BY <1>1 DEF Elements
  <2>2. CASE j <= Len(s)
    BY <1>1, <2>1, <2>2 DEF Elements
  <2>3. CASE ~(j <= Len(s))
    <3>1. j - Len(s) \in DOMAIN t /\ x = t[j - Len(s)]
      BY <1>1, <2>1, <2>3
    <3>q. QED  BY <3>1, Zenon DEF Elements
  <2>q. QED  BY <2>2, <2>3
<1>3. ASSUME NEW x \in Elements(s) PROVE x \in Elements(s \o t)
  <2>1. PICK j \in 1..Len(s) : x = s[j]
    BY <1>1 DEF Elements
  <2>2. j \in DOMAIN (s \o t) /\ (s \o t)[j] = x
    BY <1>1, <2>1
  <2>q. QED  BY <2>2, Zenon DEF Elements
<1>4. ASSUME NEW x \in Elements(t) PROVE x \in Elements(s \o t)
  <2>1. PICK j \in 1..Len(t) : x = t[j]
    BY <1>1 DEF Elements
  <2>2. /\ Len(s) + j \in 1..(Len(s) + Len(t)) /\ ~(Len(s) + j <= Len(s))
        /\ (Len(s) + j) - Len(s) = j
    BY <1>1, <2>1
  <2>3. Len(s) + j \in DOMAIN (s \o t) /\ (s \o t)[Len(s) + j] = x
    BY <1>1, <2>1, <2>2
  <2>q. QED  BY <2>3, Zenon DEF Elements
<1>q. QED  BY <1>2, <1>3, <1>4

LEMMA SeqInduction ==
    ASSUME NEW S, NEW P \in SUBSET Seq(S),
           <<>> \in P, \A s \in P, e \in S : Append(s, e) \in P
    PROVE  P = Seq(S)
<1> DEFINE N == {n \in Nat : \A s \in Seq(S) : Len(s) = n => s \in P}
<1>1. 0 \in N
  OBVIOUS
<1>2. ASSUME NEW n \in N PROVE n + 1 \in N
  <2> SUFFICES ASSUME NEW s \in Seq(S), Len(s) = n + 1 PROVE s \in P
    OBVIOUS
  <2>1. s # <<>>
    OBVIOUS
  <2>2. PICK init \in Seq(S), last \in S : s = Append(init, last)
    BY <2>1, SequenceEmptyOrAppend
  <2>3. Len(init) = n
    BY <2>2
  <2>4. init \in P
    BY <2>3
  <2>q. QED  BY <2>2, <2>4
<1> HIDE DEF N
<1>3. N = Nat
  <2>1. N \subseteq Nat
    BY DEF N
  <2>q. QED  BY <1>1, <1>2, <2>1, SetInduction
<1>4. \A s \in Seq(S) : Len(s) \in Nat
  OBVIOUS
<1>q. QED  BY <1>3, <1>4 DEF N

-----------------------------------------------------------------------------
(* What Filtered returns.                                                  *)

LEMMA FilteredElements ==
    ASSUME NEW S, NEW s \in Seq(S), NEW T
    PROVE  /\ Filtered(s, T) \in Seq(S)
           /\ Elements(Filtered(s, T)) = Elements(s) \cap T
<1> DEFINE P == {u \in Seq(S) : /\ Filtered(u, T) \in Seq(S)
                               /\ Elements(Filtered(u, T)) = Elements(u) \cap T}
<1>1. <<>> \in P
  <2>1. <<>> \in Seq(S) /\ Filtered(<<>>, T) = <<>>
    BY FilteredEmpty
  <2>2. Elements(<<>>) = {}
    BY <2>1, ElementsEmpty
  <2>q. QED  BY <2>1, <2>2
<1>2. ASSUME NEW u \in P, NEW e \in S PROVE Append(u, e) \in P
  <2>1. /\ Append(u, e) \in Seq(S)
        /\ Filtered(Append(u, e), T) =
              IF e \in T THEN Append(Filtered(u, T), e) ELSE Filtered(u, T)
    BY FilteredAppend
  <2>2. Elements(Append(u, e)) = Elements(u) \cup {e}
    BY ElementsAppend
  <2>3. Elements(Append(Filtered(u, T), e)) = Elements(Filtered(u, T)) \cup {e}
    BY ElementsAppend
  <2>4. Append(Filtered(u, T), e) \in Seq(S)
    OBVIOUS
  <2>q. QED  BY <2>1, <2>2, <2>3, <2>4
<1> HIDE DEF P
<1>3. P = Seq(S)
  <2>1. P \subseteq Seq(S)
    BY DEF P
  <2>q. QED  BY <1>1, <1>2, <2>1, SeqInduction
<1>q. QED  BY <1>3 DEF P

\* Two elements stand in the order in which they stood before.
KeepsOrder(f, u) ==
    \A i, j \in DOMAIN f : i < j =>
        \E k, l \in DOMAIN u : k < l /\ f[i] = u[k] /\ f[j] = u[l]

LEMMA FilteredOrder ==
    ASSUME NEW S, NEW s \in Seq(S), NEW T
    PROVE  KeepsOrder(Filtered(s, T), s)
<1> DEFINE P == {u \in Seq(S) : KeepsOrder(Filtered(u, T), u)}
<1>1. <<>> \in P
  <2>1. Filtered(<<>>, T) = <<>> /\ <<>> \in Seq(S)
    BY FilteredEmpty
  <2>q. QED  BY <2>1 DEF KeepsOrder
<1>2. ASSUME NEW u \in P, NEW e \in S PROVE Append(u, e) \in P
  <2> DEFINE v == Append(u, e)
             f == Filtered(u, T)
             g == Filtered(v, T)
  <2>1. /\ v \in Seq(S) /\ Len(u) \in Nat /\ DOMAIN u = 1..Len(u) /\ DOMAIN v = 1..(Len(u) + 1)
        /\ v[Len(u) + 1] = e /\ \A k \in DOMAIN u : v[k] = u[k]
    OBVIOUS
  <2>2. f \in Seq(S) /\ g = IF e \in T THEN Append(f, e) ELSE f
    BY FilteredAppend, FilteredElements
  <2>3. KeepsOrder(f, u)
    OBVIOUS
  <2>4. ASSUME NEW i \in DOMAIN f PROVE \E k \in DOMAIN u : f[i] = u[k]
    <3>1. Elements(f) = Elements(u) \cap T
      BY FilteredElements
    <3>2. f[i] \in Elements(u)
      BY <3>1 DEF Elements
    <3>q. QED  BY <3>2 DEF Elements
  <2> HIDE DEF v, f, g
  <2>5. KeepsOrder(f, v)
    BY <2>1, <2>3 DEF KeepsOrder
  <2>6. KeepsOrder(g, v)
    <3>1. CASE e \notin T
      BY <2>2, <2>5, <3>1
    <3>2. CASE e \in T
      <4>1. /\ g = Append(f, e) /\ DOMAIN g = 1..(Len(f) + 1) /\ DOMAIN f = 1..Len(f) /\ Len(f) \in Nat
            /\ g[Len(f) + 1] = e /\ \A k \in DOMAIN f : g[k] = f[k]
        BY <2>2, <3>2
      <4> SUFFICES ASSUME NEW i \in DOMAIN g, NEW j \in DOMAIN g, i < j
                   PROVE  \E k, l \in DOMAIN v : k < l /\ g[i] = v[k] /\ g[j] = v[l]
        BY DEF KeepsOrder
      <4>2. i \in DOMAIN f
        BY <4>1
      <4>3. CASE j \in DOMAIN f
        BY <2>5, <4>1, <4>2, <4>3 DEF KeepsOrder
      <4>4. CASE j \notin DOMAIN f
        <5>1. g[j] = v[Len(u) + 1] /\ Len(u) + 1 \in DOMAIN v
          BY <2>1, <4>1, <4>4
        <5>2. PICK k \in DOMAIN u : g[i] = v[k]
          BY <2>1, <2>4, <4>1, <4>2
        <5>3. k < Len(u) + 1 /\ k \in DOMAIN v
          BY <2>1
        <5>q. QED  BY <5>1, <5>2, <5>3
      <4>q. QED  BY <4>3, <4>4
    <3>q. QED  BY <3>1, <3>2
  <2>q. QED  BY <2>1, <2>6 DEF v, g
<1> HIDE DEF P
<1>3. P = Seq(S)
  <2>1. P \subseteq Seq(S)
    BY DEF P
  <2>q. QED  BY <1>1, <1>2, <2>1, SeqInduction
<1>q. QED  BY <1>3 DEF P

\* Only what the set says of the elements matters.
LEMMA FilteredSame ==
    ASSUME NEW S, NEW s \in Seq(S), NEW T, NEW U,
           Elements(s) \cap T = Elements(s) \cap U
    PROVE  Filtered(s, T) = Filtered(s, U)
<1> DEFINE P == {u \in Seq(S) : Elements(u) \cap T = Elements(u) \cap U
                               => Filtered(u, T) = Filtered(u, U)}
<1>1. <<>> \in P
  BY FilteredEmpty
<1>2. ASSUME NEW u \in P, NEW e \in S PROVE Append(u, e) \in P
  <2>1. Append(u, e) \in Seq(S)
    OBVIOUS
  <2>2. Elements(Append(u, e)) = Elements(u) \cup {e}
    BY ElementsAppend
  <2>3. Filtered(Append(u, e), T) =
          IF e \in T THEN Append(Filtered(u, T), e) ELSE Filtered(u, T)
    BY FilteredAppend
  <2>4. Filtered(Append(u, e), U) =
          IF e \in U THEN Append(Filtered(u, U), e) ELSE Filtered(u, U)
    BY FilteredAppend
  <2>5. ASSUME Elements(Append(u, e)) \cap T = Elements(Append(u, e)) \cap U
        PROVE  Filtered(Append(u, e), T) = Filtered(Append(u, e), U)
    <3>1. e \in T <=> e \in U
      BY <2>2, <2>5
    <3>2. ASSUME NEW x \in Elements(u) PROVE x \in T <=> x \in U
      BY <2>2, <2>5
    <3>3. Filtered(u, T) = Filtered(u, U)
      BY <3>2
    <3>q. QED  BY <2>3, <2>4, <3>1, <3>3
  <2>q. QED  BY <2>1, <2>5
<1> HIDE DEF P
<1>3. P = Seq(S)
  <2>1. P \subseteq Seq(S)
    BY DEF P
  <2>q. QED  BY <1>1, <1>2, <2>1, SeqInduction
<1>q. QED  BY <1>3 DEF P

LEMMA FilteredAll ==
    ASSUME NEW S, NEW s \in Seq(S), NEW T, Elements(s) \subseteq T
    PROVE  Filtered(s, T) = s
<1> DEFINE P == {u \in Seq(S) : Elements(u) \subseteq T => Filtered(u, T) = u}
<1>1. <<>> \in P
  BY FilteredEmpty
<1>2. ASSUME NEW u \in P, NEW e \in S PROVE Append(u, e) \in P
  <2>1. Append(u, e) \in Seq(S)
    OBVIOUS
  <2>2. Elements(Append(u, e)) = Elements(u) \cup {e}
    BY ElementsAppend
  <2>3. Filtered(Append(u, e), T) =
          IF e \in T THEN Append(Filtered(u, T), e) ELSE Filtered(u, T)
    BY FilteredAppend
  <2>q. QED  BY <2>1, <2>2, <2>3
<1> HIDE DEF P
<1>3. P = Seq(S)
  <2>1. P \subseteq Seq(S)
    BY DEF P
  <2>q. QED  BY <1>1, <1>2, <2>1, SeqInduction
<1>q. QED  BY <1>3 DEF P

LEMMA FilteredNone ==
    ASSUME NEW S, NEW s \in Seq(S), NEW T, Elements(s) \cap T = {}
    PROVE  Filtered(s, T) = <<>>
<1>1. Filtered(s, T) \in Seq(S) /\ Elements(Filtered(s, T)) = {}
  BY FilteredElements
<1>q. QED  BY <1>1, ElementsEmpty

LEMMA FilteredTwice ==
    ASSUME NEW S, NEW s \in Seq(S), NEW T, NEW U
    PROVE  Filtered(Filtered(s, T), U) = Filtered(s, T \cap U)
<1> DEFINE P == {u \in Seq(S) : Filtered(Filtered(u, T), U) = Filtered(u, T \cap U)}
<1>1. <<>> \in P
  <2>1. \A V : Filtered(<<>>, V) = <<>>
    BY FilteredEmpty
  <2>q. QED  BY <2>1
<1>2. ASSUME NEW u \in P, NEW e \in S PROVE Append(u, e) \in P
  <2> DEFINE kept == Filtered(u, T)
  <2>1. Append(u, e) \in Seq(S) /\ kept \in Seq(S)
    BY FilteredElements
  <2>2. Filtered(kept, U) = Filtered(u, T \cap U)
    OBVIOUS
  <2>3. Filtered(Append(u, e), T) = IF e \in T THEN Append(kept, e) ELSE kept
    BY FilteredAppend
  <2>4. Filtered(Append(u, e), T \cap U) =
          IF e \in T \cap U THEN Append(Filtered(u, T \cap U), e)
                           ELSE Filtered(u, T \cap U)
    BY FilteredAppend
  <2> HIDE DEF kept
  <2>5. Filtered(Append(kept, e), U) =
          IF e \in U THEN Append(Filtered(kept, U), e) ELSE Filtered(kept, U)
    BY <2>1, FilteredAppend
  <2>6. Filtered(Filtered(Append(u, e), T), U) = Filtered(Append(u, e), T \cap U)
    <3>1. CASE e \in T
      <4>1. Filtered(Append(u, e), T) = Append(kept, e)
        BY <2>3, <3>1
      <4>2. Filtered(Append(u, e), T \cap U) = Filtered(Append(kept, e), U)
        BY <2>2, <2>4, <2>5, <3>1
      <4>q. QED  BY <4>1, <4>2
    <3>2. CASE e \notin T
      BY <2>2, <2>3, <2>4, <3>2
    <3>q. QED  BY <3>1, <3>2
  <2>q. QED  BY <2>1, <2>6
<1> HIDE DEF P
<1>3. P = Seq(S)
  <2>1. P \subseteq Seq(S)
    BY DEF P
  <2>q. QED  BY <1>1, <1>2, <2>1, SeqInduction
<1>q. QED  BY <1>3 DEF P
=============================================================================
