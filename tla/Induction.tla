----------------------------- MODULE Induction -----------------------------
(***************************************************************************)
(* Induction over the natural numbers, stated with sets in place of        *)
(* operators so that the provers can instantiate it: a set that holds 0    *)
(* and the successor of each of its members holds every number.  It rests  *)
(* on the library's theorem that < is well founded.                        *)
(***************************************************************************)
EXTENDS Integers, SequencesExt, FiniteSetTheorems, SequenceTheorems,
        WellFoundedInduction, TLAPS

\* A set of natural numbers that is not empty has a least member.
LEMMA LeastOf ==
  ASSUME NEW T, T \subseteq Nat, T # {}
  PROVE  \E x \in T : \A y \in T : x <= y
<1> DEFINE R == OpToRel(<, Nat)
<1>1. IsWellFoundedOn(R, Nat)
  BY NatLessThanWellFounded
<1>2. \A x, y \in Nat : y < x => <<y, x>> \in R
  BY DEF OpToRel
<1> HIDE DEF R
<1>3. PICK x \in T : \A y \in T : ~ (<<y, x>> \in R)
  BY <1>1, WFMin
<1>4. ASSUME NEW y \in T PROVE x <= y
  <2>1. x \in Nat /\ y \in Nat
    OBVIOUS
  <2>2. ~(y < x)
    BY <1>2, <1>3, <2>1
  <2> QED BY <2>1, <2>2
<1> QED BY <1>4

\* The principle of induction.
LEMMA Inductive ==
  ASSUME NEW S, 0 \in S, \A n \in Nat : n \in S => n + 1 \in S
  PROVE  \A n \in Nat : n \in S
<1> SUFFICES ASSUME Nat \ S # {} PROVE FALSE
  OBVIOUS
<1>1. PICK x \in Nat \ S : \A y \in Nat \ S : x <= y
  BY LeastOf
<1>2. x - 1 \in Nat /\ x - 1 \in S
  BY <1>1
<1> QED BY <1>1, <1>2

\* The same up to a bound.
LEMMA InductiveUpTo ==
  ASSUME NEW N \in Nat, NEW S, 0 \in S, \A n \in 0 .. N - 1 : n \in S => n + 1 \in S
  PROVE  \A n \in 0 .. N : n \in S
<1> DEFINE T == S \cup {n \in Nat : n > N}
<1>1. 0 \in T
  OBVIOUS
<1>2. ASSUME NEW n \in Nat, n \in T PROVE n + 1 \in T
  <2>1. CASE n < N
    <3>1. n \in 0 .. N - 1 /\ n \in S
      BY <1>2, <2>1
    <3> QED BY <3>1
  <2>2. CASE n >= N
    BY <2>2
  <2> QED BY <2>1, <2>2
<1> HIDE DEF T
<1>3. \A n \in Nat : n \in T
  BY <1>1, <1>2, Inductive
<1> QED BY <1>3 DEF T

\* A finite set of integers that is not empty has a greatest member.
LEMMA GreatestOf ==
  ASSUME NEW T, T \subseteq Int, IsFiniteSet(T), T # {}
  PROVE  \E x \in T : \A y \in T : y <= x
<1> DEFINE HasGreatest(U) == \E x \in U : \A y \in U : y <= x
           S == {n \in Nat : \A U \in SUBSET Int :
                   IsFiniteSet(U) /\ Cardinality(U) = n /\ U # {} => HasGreatest(U)}
<1>1. 0 \in S
  BY FS_EmptySet
<1>2. ASSUME NEW n \in Nat, n \in S PROVE n + 1 \in S
  <2> SUFFICES ASSUME NEW U \in SUBSET Int, IsFiniteSet(U), Cardinality(U) = n + 1, U # {}
               PROVE  HasGreatest(U)
    OBVIOUS
  <2>1. PICK u \in U : TRUE
    OBVIOUS
  <2>2. IsFiniteSet(U \ {u}) /\ Cardinality(U \ {u}) = n
    <3>1. IsFiniteSet(U \ {u}) /\ Cardinality(U \ {u}) = Cardinality(U) - 1
      BY FS_RemoveElement
    <3> QED BY <3>1
  <2>3. CASE U \ {u} = {}
    BY <2>1, <2>3
  <2>4. CASE U \ {u} # {}
    <3>1. PICK x \in U \ {u} : \A y \in U \ {u} : y <= x
      BY <1>2, <2>2, <2>4
    <3>2. CASE u <= x
      BY <3>1, <3>2
    <3>3. CASE ~(u <= x)
      BY <3>1, <3>3
    <3> QED BY <3>2, <3>3
  <2> QED BY <2>3, <2>4
<1> HIDE DEF S
<1>3. \A n \in Nat : n \in S
  BY <1>1, <1>2, Inductive
<1>4. Cardinality(T) \in Nat
  BY FS_CardinalityType
<1> QED BY <1>3, <1>4 DEF S

\* A function on 0..N defined by a base and a step from each value to the next.
HasRecursion(N, X, base, G) ==
  \E h \in [0 .. N -> X] :
    h[0] = base /\ \A n \in 1 .. N : h[n] = G[<<n, h[n - 1]>>]

LEMMA RecursiveFunction ==
  ASSUME NEW N \in Nat, NEW X, NEW base \in X, NEW G \in [(1 .. N) \X X -> X]
  PROVE  HasRecursion(N, X, base, G)
<1> DEFINE Upto(m) ==
             \E h \in [0 .. m -> X] :
               h[0] = base /\ \A n \in 1 .. m : h[n] = G[<<n, h[n - 1]>>]
           S == {m \in 0 .. N : Upto(m)}
<1>1. 0 \in S
  <2> DEFINE h == [n \in 0 .. 0 |-> base]
  <2>1. h \in [0 .. 0 -> X] /\ h[0] = base
    OBVIOUS
  <2>2. \A n \in 1 .. 0 : h[n] = G[<<n, h[n - 1]>>]
    OBVIOUS
  <2> HIDE DEF h
  <2>3. Upto(0)
    BY <2>1, <2>2
  <2> QED BY <2>3
<1>2. ASSUME NEW m \in 0 .. N - 1, m \in S PROVE m + 1 \in S
  <2>1. PICK g \in [0 .. m -> X] :
          g[0] = base /\ \A n \in 1 .. m : g[n] = G[<<n, g[n - 1]>>]
    BY <1>2
  <2> DEFINE next == G[<<m + 1, g[m]>>]
             h == [n \in 0 .. m + 1 |-> IF n = m + 1 THEN next ELSE g[n]]
  <2>2. next \in X
    <3>1. m + 1 \in 1 .. N /\ g[m] \in X
      OBVIOUS
    <3> QED BY <3>1
  <2> HIDE DEF next
  <2>3. h \in [0 .. m + 1 -> X]
    BY <2>2
  <2>4. ASSUME NEW n \in 1 .. m + 1 PROVE h[n] = G[<<n, h[n - 1]>>]
    <3>1. h[n - 1] = g[n - 1]
      OBVIOUS
    <3>2. CASE n = m + 1
      <4>1. h[n] = next /\ n - 1 = m
        BY <3>2
      <4> QED BY <3>1, <3>2, <4>1 DEF next
    <3>3. CASE n # m + 1
      <4>1. n \in 1 .. m /\ h[n] = g[n]
        BY <3>3
      <4> QED BY <2>1, <3>1, <4>1
    <3> QED BY <3>2, <3>3
  <2>5. h[0] = base
    BY <2>1
  <2> HIDE DEF h
  <2>6. Upto(m + 1)
    BY <2>3, <2>4, <2>5
  <2> QED BY <2>6
<1> HIDE DEF S
<1>3. N \in S
  BY <1>1, <1>2, InductiveUpTo
<1> QED BY <1>3 DEF S, HasRecursion

-----------------------------------------------------------------------------
(* Sequences, and the elements they hold.                                  *)

LEMMA ToSetAppend ==
  ASSUME NEW S, NEW seq \in Seq(S), NEW elt \in S
  PROVE  ToSet(Append(seq, elt)) = ToSet(seq) \cup {elt}
<1> DEFINE new == Append(seq, elt)
<1>1. /\ Len(seq) \in Nat /\ DOMAIN seq = 1 .. Len(seq) /\ DOMAIN new = 1 .. Len(seq) + 1
      /\ \A i \in 1 .. Len(seq) : new[i] = seq[i]
      /\ new[Len(seq) + 1] = elt
  BY AppendProperties
<1> HIDE DEF new
<1>2. ASSUME NEW x PROVE x \in ToSet(new) <=> x \in ToSet(seq) \cup {elt}
  BY <1>1 DEF ToSet
<1> QED BY <1>2 DEF new

LEMMA ToSetConcat ==
  ASSUME NEW S, NEW s \in Seq(S), NEW t \in Seq(S)
  PROVE  ToSet(s \o t) = ToSet(s) \cup ToSet(t)
<1> DEFINE new == s \o t
<1>1. /\ Len(s) \in Nat /\ DOMAIN s = 1 .. Len(s) /\ Len(t) \in Nat /\ DOMAIN t = 1 .. Len(t)
      /\ DOMAIN new = 1 .. Len(s) + Len(t)
      /\ \A i \in 1 .. Len(s) : new[i] = s[i]
      /\ \A i \in 1 .. Len(t) : new[Len(s) + i] = t[i]
  OBVIOUS
<1> HIDE DEF new
<1>2. ASSUME NEW x \in ToSet(s) PROVE x \in ToSet(new)
  BY <1>1 DEF ToSet
<1>3. ASSUME NEW x \in ToSet(t) PROVE x \in ToSet(new)
  <2>1. PICK i \in 1 .. Len(t) : x = t[i]
    BY <1>1 DEF ToSet
  <2>2. Len(s) + i \in DOMAIN new
    BY <1>1
  <2> QED BY <1>1, <2>1, <2>2 DEF ToSet
<1>4. ASSUME NEW x \in ToSet(new) PROVE x \in ToSet(s) \cup ToSet(t)
  <2>1. PICK i \in 1 .. Len(s) + Len(t) : x = new[i]
    BY <1>1 DEF ToSet
  <2>2. CASE i <= Len(s)
    BY <1>1, <2>1, <2>2 DEF ToSet
  <2>3. CASE ~(i <= Len(s))
    <3>1. i - Len(s) \in 1 .. Len(t) /\ Len(s) + (i - Len(s)) = i
      BY <1>1, <2>3
    <3> QED BY <1>1, <2>1, <3>1 DEF ToSet
  <2> QED BY <2>2, <2>3
<1> QED BY <1>2, <1>3, <1>4 DEF new

\* The first i sequences, one after the other.
Flat(seqs) ==
  CHOOSE flatten : flatten = [i \in 1 .. Len(seqs) |->
    IF i = 1 THEN seqs[i] ELSE flatten[i - 1] \o seqs[i]]

LEMMA FlatTurn ==
  ASSUME NEW S, NEW seqs \in Seq(Seq(S)), Len(seqs) > 0
  PROVE  /\ FlattenSeq(seqs) = Flat(seqs)[Len(seqs)]
         /\ Flat(seqs)[1] = seqs[1]
         /\ \A i \in 2 .. Len(seqs) : Flat(seqs)[i] = Flat(seqs)[i - 1] \o seqs[i]
<1> DEFINE N == Len(seqs)
           X == Seq(S)
           base == <<>>
           G == [p \in (1 .. N) \X X |-> p[2] \o seqs[p[1]]]
           Def(flatten) == [i \in 1 .. N |->
             IF i = 1 THEN seqs[i] ELSE flatten[i - 1] \o seqs[i]]
<1>1. N \in Nat /\ N > 0 /\ base \in X /\ \A i \in 1 .. N : seqs[i] \in X
  OBVIOUS
<1>2. G \in [(1 .. N) \X X -> X]
  <2>1. \A s, t \in X : s \o t \in X
    OBVIOUS
  <2> HIDE DEF X, N
  <2> QED BY <1>1, <2>1
<1>3. \A i \in 1 .. N, s \in X : G[<<i, s>>] = s \o seqs[i]
  OBVIOUS
<1>4. \A s \in X : base \o s = s
  OBVIOUS
<1> HIDE DEF N, G, X, base
<1>5. PICK h \in [0 .. N -> X] :
        h[0] = base /\ \A i \in 1 .. N : h[i] = G[<<i, h[i - 1]>>]
  <2>1. HasRecursion(N, X, base, G)
    BY <1>1, <1>2, RecursiveFunction
  <2> QED BY <2>1 DEF HasRecursion
<1>6. ASSUME NEW i \in 1 .. N
      PROVE  h[i] = h[i - 1] \o seqs[i] /\ h[i - 1] \in X
  <2>1. i - 1 \in 0 .. N
    BY <1>1
  <2> QED BY <1>3, <1>5, <2>1
<1>7. h[1] = seqs[1]
  <2>1. 1 \in 1 .. N /\ 1 - 1 = 0
    BY <1>1
  <2>2. h[1] = h[0] \o seqs[1]
    BY <1>6, <2>1
  <2> QED BY <1>1, <1>4, <1>5, <2>1, <2>2
<1> DEFINE g == [i \in 1 .. N |-> h[i]]
<1>8. g = Def(g)
  <2> SUFFICES ASSUME NEW i \in 1 .. N
               PROVE  h[i] = IF i = 1 THEN seqs[i] ELSE g[i - 1] \o seqs[i]
    OBVIOUS
  <2>1. CASE i = 1
    BY <1>7, <2>1
  <2>2. CASE i # 1
    <3>1. i - 1 \in 1 .. N
      BY <1>1, <2>2
    <3> QED BY <1>6, <2>2, <3>1
  <2> QED BY <2>1, <2>2
<1>9. PICK K : K = Flat(seqs)
  OBVIOUS
<1>10. K = Def(K)
  <2> HIDE DEF g
  <2> QED BY <1>8, <1>9 DEF Flat, N
<1>11. K[1] = seqs[1]
  <2>1. 1 \in 1 .. N
    BY <1>1
  <2> QED BY <1>10, <2>1
<1>12. ASSUME NEW i \in 2 .. N
       PROVE  K[i] = K[i - 1] \o seqs[i]
  <2>1. i \in 1 .. N /\ i # 1
    BY <1>1
  <2> QED BY <1>10, <2>1
<1>13. FlattenSeq(seqs) = K[N]
  <2>1. Len(seqs) # 0
    BY <1>1 DEF N
  <2> QED BY <1>9, <2>1 DEF FlattenSeq, Flat, N
<1> QED BY <1>9, <1>11, <1>12, <1>13 DEF N

\* What a flattened sequence of sequences holds.
LEMMA FlattenHolds ==
  ASSUME NEW S, NEW seqs \in Seq(Seq(S))
  PROVE  /\ FlattenSeq(seqs) \in Seq(S)
         /\ ToSet(FlattenSeq(seqs)) = UNION {ToSet(seqs[i]) : i \in DOMAIN seqs}
<1>1. PICK N \in Nat : N = Len(seqs) /\ DOMAIN seqs = 1 .. N
  OBVIOUS
<1>2. \A i \in 1 .. N : seqs[i] \in Seq(S)
  BY <1>1
<1>3. CASE N = 0
  <2>1. FlattenSeq(seqs) = seqs /\ seqs = <<>>
    BY <1>1, <1>3 DEF FlattenSeq
  <2> QED BY <2>1 DEF ToSet
<1>4. CASE N # 0
  <2>1. PICK K : K = Flat(seqs)
    OBVIOUS
  <2>2. /\ FlattenSeq(seqs) = K[N] /\ K[1] = seqs[1]
        /\ \A i \in 2 .. N : K[i] = K[i - 1] \o seqs[i]
    <3>1. Len(seqs) > 0
      BY <1>1, <1>4
    <3>2. /\ FlattenSeq(seqs) = Flat(seqs)[Len(seqs)] /\ Flat(seqs)[1] = seqs[1]
          /\ \A i \in 2 .. Len(seqs) : Flat(seqs)[i] = Flat(seqs)[i - 1] \o seqs[i]
      BY <3>1, FlatTurn
    <3> QED BY <1>1, <2>1, <3>2
  <2> DEFINE Good(i) ==
               /\ K[i] \in Seq(S)
               /\ \A x : x \in ToSet(K[i]) <=> \E j \in 1 .. i : x \in ToSet(seqs[j])
             T == {i \in 0 .. N : i = 0 \/ Good(i)}
  <2>3. 0 \in T
    OBVIOUS
  <2>4. ASSUME NEW i \in 0 .. N - 1, i \in T PROVE i + 1 \in T
    <3>1. CASE i = 0
      <4>1. 1 \in 1 .. N /\ i + 1 = 1 /\ \A j : j \in 1 .. 1 <=> j = 1
        BY <3>1
      <4>2. Good(1)
        BY <1>2, <2>2, <4>1
      <4> QED BY <4>1, <4>2
    <3>2. CASE i # 0
      <4>1. i + 1 \in 2 .. N /\ (i + 1) - 1 = i /\ i + 1 \in 1 .. N
        BY <3>2
      <4>2. K[i + 1] = K[i] \o seqs[i + 1] /\ K[i] \in Seq(S) /\ seqs[i + 1] \in Seq(S)
        BY <1>2, <2>2, <2>4, <3>2, <4>1
      <4>3. K[i + 1] \in Seq(S) /\ ToSet(K[i + 1]) = ToSet(K[i]) \cup ToSet(seqs[i + 1])
        BY <4>2, ToSetConcat, ConcatProperties
      <4>4. \A j : j \in 1 .. i + 1 <=> j \in 1 .. i \/ j = i + 1
        BY <4>1
      <4>5. \A x : x \in ToSet(K[i]) <=> \E j \in 1 .. i : x \in ToSet(seqs[j])
        BY <2>4, <3>2
      <4>6. Good(i + 1)
        BY <4>3, <4>4, <4>5
      <4> QED BY <4>1, <4>6
    <3> QED BY <3>1, <3>2
  <2> HIDE DEF T
  <2>5. N \in T
    <3>1. \A n \in 0 .. N : n \in T
      BY <2>3, <2>4, InductiveUpTo
    <3> QED BY <3>1
  <2>6. Good(N)
    BY <1>4, <2>5 DEF T
  <2> QED BY <1>1, <2>2, <2>6
<1> QED BY <1>3, <1>4
=============================================================================
