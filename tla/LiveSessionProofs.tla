-------------------------- MODULE LiveSessionProofs --------------------------
(***************************************************************************)
(* The live session by itself, whoever drives it: what each way of a sync  *)
(* has established so far, and that every step of a sync, failed ones      *)
(* included, keeps it.                                                     *)
(*                                                                         *)
(* That the rows and the logits are those of the checkpoint is not         *)
(* inductive: in the middle of a chunked prefill without a callback the    *)
(* graph runs ahead of the checkpoint.                                     *)
(*                                                                         *)
(* First, what the proofs need of the community modules' operators:        *)
(* prefixes, concatenations and sums over finite sets.  FlattenSeq and the *)
(* sums are defined by recursion and need induction.  The provers cannot   *)
(* instantiate an induction theorem that takes an operator; NatInduct is   *)
(* about a set, and follows from the well-foundedness of < on Nat.         *)
(***************************************************************************)
EXTENDS LiveSession, FiniteSetsExt, WellFoundedInduction, FiniteSetTheorems, TLAPS

-----------------------------------------------------------------------------
(* Induction.                                                              *)

(* A set of naturals with a member has a least one.                        *)
LEMMA NatHasLeast ==
    ASSUME NEW T \in SUBSET Nat, T # {}
    PROVE  \E n \in T : \A m \in T : n <= m
<1> DEFINE R == OpToRel(<, Nat)
<1>1. IsWellFoundedOn(R, Nat)
  BY NatLessThanWellFounded
<1>2. \A x, y \in Nat : <<x, y>> \in R <=> x < y
  BY DEF OpToRel
<1> HIDE DEF R
<1>3. T \subseteq Nat
  OBVIOUS
<1>4. PICK n \in T : \A m \in T : <<m, n>> \notin R
  BY <1>1, <1>3, WFMin
<1>5. ASSUME NEW m \in T PROVE n <= m
  <2>1. m \in Nat /\ n \in Nat /\ <<m, n>> \notin R
    BY <1>3, <1>4
  <2>2. ~(m < n)
    BY <1>2, <2>1, Zenon
  <2> QED BY <2>1, <2>2
<1> QED BY <1>5

(* A set that has 0, and with n also n + 1, has every natural number.      *)
LEMMA NatInduct ==
    ASSUME NEW T, 0 \in T, \A n \in Nat : n \in T => n + 1 \in T
    PROVE  \A n \in Nat : n \in T
<1> DEFINE U == {n \in Nat : n \notin T}
<1>1. SUFFICES ASSUME U # {} PROVE FALSE
  OBVIOUS
<1>2. PICK n \in U : \A m \in U : n <= m
  BY <1>1, NatHasLeast
<1>3. n \in Nat /\ n # 0
  BY <1>2
<1>4. n - 1 \in Nat /\ n - 1 \notin U
  BY <1>2, <1>3
<1>5. n - 1 \in T /\ (n - 1) + 1 = n
  BY <1>4
<1>6. n \in T
  BY <1>4, <1>5
<1> QED BY <1>2, <1>6

-----------------------------------------------------------------------------
(* Prefixes.                                                               *)

(* Equal sequences have equal elements, and the converse.                  *)
LEMMA SameSequence ==
    ASSUME NEW S, NEW s \in Seq(S), NEW t \in Seq(S), Len(s) = Len(t),
           \A i \in 1..Len(s) : s[i] = t[i]
    PROVE  s = t
BY SMTT(30)

(* A concatenation and a part of a sequence, by their elements.            *)
LEMMA ConcatIs ==
    ASSUME NEW S, NEW a \in Seq(S), NEW b \in Seq(S)
    PROVE  /\ a \o b \in Seq(S) /\ Len(a \o b) = Len(a) + Len(b)
           /\ \A i \in 1..Len(a) : (a \o b)[i] = a[i]
           /\ \A i \in 1..Len(b) : (a \o b)[Len(a) + i] = b[i]
<1>1. a \o b \in Seq(S) /\ Len(a \o b) = Len(a) + Len(b)
  OBVIOUS
<1>2. \A i \in 1..Len(a) : (a \o b)[i] = a[i]
  OBVIOUS
<1>3. \A i \in 1..Len(b) : (a \o b)[Len(a) + i] = b[i]
  OBVIOUS
<1> QED BY <1>1, <1>2, <1>3

LEMMA PartIs ==
    ASSUME NEW S, NEW s \in Seq(S), NEW m \in 1..(Len(s) + 1), NEW n \in (m - 1)..Len(s)
    PROVE  /\ SubSeq(s, m, n) \in Seq(S) /\ Len(SubSeq(s, m, n)) = n - m + 1
           /\ \A i \in 1..(n - m + 1) : SubSeq(s, m, n)[i] = s[m + i - 1]
<1>1. SubSeq(s, m, n) \in Seq(S) /\ Len(SubSeq(s, m, n)) = n - m + 1
  OBVIOUS
<1>2. ASSUME NEW i \in 1..(n - m + 1) PROVE SubSeq(s, m, n)[i] = s[m + i - 1]
  OBVIOUS
<1> QED BY <1>1, <1>2

LEMMA FrontIs ==
    ASSUME NEW S, NEW s \in Seq(S), s # <<>>
    PROVE  /\ Front(s) \in Seq(S) /\ Len(Front(s)) = Len(s) - 1
           /\ \A i \in 1..(Len(s) - 1) : Front(s)[i] = s[i]
           /\ Len(s) \in 1..Len(s) /\ s[Len(s)] \in S
<1>1. Len(s) \in Nat \ {0} /\ 1 \in 1..(Len(s) + 1) /\ Len(s) - 1 \in (1 - 1)..Len(s)
  OBVIOUS
<1> DEFINE f == SubSeq(s, 1, Len(s) - 1)
<1>2. /\ f \in Seq(S) /\ Len(f) = Len(s) - 1 - 1 + 1
      /\ \A i \in 1..(Len(s) - 1 - 1 + 1) : f[i] = s[1 + i - 1]
  BY <1>1, PartIs
<1> HIDE DEF f
<1>3. Len(s) - 1 - 1 + 1 = Len(s) - 1 /\ \A i \in 1..(Len(s) - 1) : 1 + i - 1 = i
  BY <1>1
<1>4. f \in Seq(S) /\ Len(f) = Len(s) - 1 /\ \A i \in 1..(Len(s) - 1) : f[i] = s[i]
  BY <1>2, <1>3
<1>5. f = Front(s)
  BY DEF f, Front
<1> QED BY <1>1, <1>4, <1>5

(* The front of a sequence that ends otherwise, or goes on.                *)
LEMMA FrontSame ==
    ASSUME NEW S, NEW s \in Seq(S), NEW t \in Seq(S), s # <<>>, Len(t) = Len(s),
           \A i \in 1..(Len(s) - 1) : t[i] = s[i]
    PROVE  t # <<>> /\ Front(t) = Front(s)
<1>1. t # <<>>
  <2>1. Len(s) # 0
    OBVIOUS
  <2> QED BY <2>1
<1>2. /\ Front(s) \in Seq(S) /\ Len(Front(s)) = Len(s) - 1
      /\ \A i \in 1..(Len(s) - 1) : Front(s)[i] = s[i]
  BY FrontIs
<1>3. /\ Front(t) \in Seq(S) /\ Len(Front(t)) = Len(s) - 1
      /\ \A i \in 1..(Len(s) - 1) : Front(t)[i] = t[i]
  BY <1>1, FrontIs
<1>4. \A i \in 1..Len(Front(t)) : Front(t)[i] = Front(s)[i]
  BY <1>2, <1>3
<1> QED BY <1>1, <1>2, <1>3, <1>4, SameSequence

LEMMA FrontAppend ==
    ASSUME NEW S, NEW s \in Seq(S), NEW x \in S
    PROVE  /\ Append(s, x) \in Seq(S) /\ Append(s, x) # <<>>
           /\ Len(Append(s, x)) = Len(s) + 1
           /\ Front(Append(s, x)) = s /\ Append(s, x)[Len(Append(s, x))] = x
<1> DEFINE t == Append(s, x)
<1>1. t \in Seq(S) /\ Len(t) = Len(s) + 1 /\ t[Len(s) + 1] = x
  OBVIOUS
<1>2. \A i \in 1..Len(s) : t[i] = s[i]
  OBVIOUS
<1>3. Len(s) \in Nat
  OBVIOUS
<1> HIDE DEF t
<1>4. t # <<>>
  BY <1>1, <1>3
<1>5. /\ Front(t) \in Seq(S) /\ Len(Front(t)) = Len(t) - 1
      /\ \A i \in 1..(Len(t) - 1) : Front(t)[i] = t[i]
  BY <1>1, <1>4, FrontIs
<1>6. Len(Front(t)) = Len(s) /\ \A i \in 1..Len(Front(t)) : Front(t)[i] = s[i]
  BY <1>1, <1>2, <1>3, <1>5
<1>7. Front(t) = s
  BY <1>5, <1>6, SameSequence
<1> QED BY <1>1, <1>4, <1>7 DEF t

(* Appending is concatenation with one element.                            *)
LEMMA AppendConcat ==
    ASSUME NEW S, NEW s \in Seq(S), NEW x \in S
    PROVE  Append(s, x) = s \o <<x>>
OBVIOUS

(* The two parts of a concatenation.                                       *)
LEMMA ConcatParts ==
    ASSUME NEW S, NEW a \in Seq(S), NEW b \in Seq(S)
    PROVE  /\ SubSeq(a \o b, 1, Len(a)) = a
           /\ SubSeq(a \o b, Len(a) + 1, Len(a \o b)) = b
<1> DEFINE c == a \o b
<1>1. /\ c \in Seq(S) /\ Len(c) = Len(a) + Len(b)
      /\ \A i \in 1..Len(a) : c[i] = a[i]
      /\ \A i \in 1..Len(b) : c[Len(a) + i] = b[i]
      /\ Len(a) \in Nat /\ Len(b) \in Nat
  BY ConcatIs
<1> HIDE DEF c
<1>2. SubSeq(c, 1, Len(a)) = a
  <2>1. 1 \in 1..(Len(c) + 1) /\ Len(a) \in (1 - 1)..Len(c)
    BY <1>1
  <2>2. /\ SubSeq(c, 1, Len(a)) \in Seq(S) /\ Len(SubSeq(c, 1, Len(a))) = Len(a) - 1 + 1
        /\ \A i \in 1..(Len(a) - 1 + 1) : SubSeq(c, 1, Len(a))[i] = c[1 + i - 1]
    BY <1>1, <2>1, PartIs
  <2>3. \A i \in 1..Len(a) : SubSeq(c, 1, Len(a))[i] = a[i]
    BY <1>1, <2>2
  <2>4. Len(SubSeq(c, 1, Len(a))) = Len(a)
    BY <1>1, <2>2
  <2> QED BY <2>2, <2>3, <2>4, SameSequence
<1>3. SubSeq(c, Len(a) + 1, Len(c)) = b
  <2>1. Len(a) + 1 \in 1..(Len(c) + 1) /\ Len(c) \in (Len(a) + 1 - 1)..Len(c)
    BY <1>1
  <2> DEFINE d == SubSeq(c, Len(a) + 1, Len(c))
             k == Len(c) - (Len(a) + 1) + 1
  <2>2. d \in Seq(S) /\ Len(d) = k /\ \A i \in 1..k : d[i] = c[Len(a) + 1 + i - 1]
    BY <1>1, <2>1, PartIs
  <2> HIDE DEF d
  <2>3. k = Len(b)
    BY <1>1
  <2>4. \A i \in 1..Len(b) : Len(a) + 1 + i - 1 = Len(a) + i
    BY <1>1
  <2>5. \A i \in 1..Len(b) : d[i] = b[i]
    BY <1>1, <2>2, <2>3, <2>4
  <2>6. d = b
    BY <2>2, <2>3, <2>5, SameSequence
  <2> QED BY <2>6 DEF d
<1> QED BY <1>2, <1>3 DEF c

(* Concatenation is associative; the equation has a name, because a prover *)
(* that is given it for all sequences applies it for ever.                 *)
Assoc(a, b, c) == (a \o b) \o c = a \o (b \o c)

LEMMA ConcatAssoc ==
    ASSUME NEW S, NEW a \in Seq(S), NEW b \in Seq(S), NEW c \in Seq(S)
    PROVE  Assoc(a, b, c)
BY SMTT(30) DEF Assoc

LEMMA ConcatEmpty ==
    ASSUME NEW S, NEW a \in Seq(S)
    PROVE  a \o <<>> = a /\ <<>> \o a = a
<1>1. a \o <<>> = a
  OBVIOUS
<1>2. <<>> \o a = a
  OBVIOUS
<1> QED BY <1>1, <1>2

(* A prefix by its elements.                                               *)
LEMMA PrefixIs ==
    ASSUME NEW S, NEW s \in Seq(S), NEW t \in Seq(S)
    PROVE  IsPrefix(s, t) <=> Len(s) <= Len(t) /\ \A i \in 1..Len(s) : s[i] = t[i]
<1>1. CASE Len(s) <= Len(t)
  <2>1. SubSeq(s, 1, Len(s)) = s
    BY SMTT(30)
  <2>2. SubSeq(t, 1, Len(s)) \in Seq(S) /\ Len(SubSeq(t, 1, Len(s))) = Len(s)
        /\ \A i \in 1..Len(s) : SubSeq(t, 1, Len(s))[i] = t[i]
    BY <1>1, SMTT(30)
  <2>3. IsPrefix(s, t) <=> s = SubSeq(t, 1, Len(s))
    BY <1>1, <2>1 DEF IsPrefix
  <2>4. (\A i \in 1..Len(s) : s[i] = t[i]) => s = SubSeq(t, 1, Len(s))
    <3>1. HAVE \A i \in 1..Len(s) : s[i] = t[i]
    <3>2. Len(s) = Len(SubSeq(t, 1, Len(s)))
          /\ \A i \in 1..Len(s) : s[i] = SubSeq(t, 1, Len(s))[i]
      BY <2>2, <3>1
    <3> QED BY <2>2, <3>2, SMTT(30)
  <2> QED BY <1>1, <2>2, <2>3, <2>4
<1>2. CASE ~(Len(s) <= Len(t))
  BY <1>2 DEF IsPrefix
<1> QED BY <1>1, <1>2

(* What grows keeps its prefixes.                                          *)
LEMMA PrefixKept ==
    ASSUME NEW S, NEW p \in Seq(S), NEW s \in Seq(S), NEW ts \in Seq(S), IsPrefix(p, s)
    PROVE  /\ IsPrefix(p, s \o ts)
           /\ s \o ts \in Seq(S) /\ Len(s \o ts) = Len(s) + Len(ts)
<1>1. Len(p) <= Len(s) /\ \A i \in 1..Len(p) : p[i] = s[i]
  BY PrefixIs
<1>2. s \o ts \in Seq(S) /\ Len(s \o ts) = Len(s) + Len(ts)
      /\ \A i \in 1..Len(s) : (s \o ts)[i] = s[i]
  BY SMTT(30)
<1>3. Len(p) <= Len(s \o ts) /\ \A i \in 1..Len(p) : p[i] = (s \o ts)[i]
  BY <1>1, <1>2
<1> QED BY <1>2, <1>3, PrefixIs

LEMMA PrefixReflexive ==
    ASSUME NEW S, NEW s \in Seq(S)
    PROVE  IsPrefix(s, s)
BY PrefixIs

-----------------------------------------------------------------------------
(* Concatenation.  f has, at each of the first n places, all that stands   *)
(* in s so far.                                                            *)
Flattens(f, s, n) == \A i \in 1..n : f[i] = IF i = 1 THEN s[i] ELSE f[i - 1] \o s[i]

(* f and g are the same at the first n places.                             *)
AgreeUpto(f, g, n) == \A i \in 1..n : f[i] = g[i]

(* Where two sequences agree, so do the concatenations.                    *)
LEMMA FlattensAgree ==
    ASSUME NEW s, NEW t, NEW f, NEW g, NEW n \in Nat, Flattens(f, s, n), Flattens(g, t, n),
           AgreeUpto(s, t, n)
    PROVE  AgreeUpto(f, g, n)
<1>1. \A i \in 1..n : f[i] = IF i = 1 THEN s[i] ELSE f[i - 1] \o s[i]
  BY Zenon DEF Flattens
<1>2. \A i \in 1..n : g[i] = IF i = 1 THEN t[i] ELSE g[i - 1] \o t[i]
  BY Zenon DEF Flattens
<1> DEFINE T == {k \in Nat : k \in 1..n => f[k] = g[k]}
<1>3. 0 \in T
  OBVIOUS
<1>4. ASSUME NEW k \in Nat, k \in T PROVE k + 1 \in T
  <2> SUFFICES ASSUME k + 1 \in 1..n PROVE f[k + 1] = g[k + 1]
    OBVIOUS
  <2>1. k + 1 \in 1..n /\ s[k + 1] = t[k + 1]
    BY DEF AgreeUpto
  <2>2. CASE k = 0
    BY <1>1, <1>2, <2>1, <2>2
  <2>3. CASE k # 0
    <3>1. f[k] = g[k] /\ (k + 1) - 1 = k /\ k + 1 # 1
      BY <1>4, <2>3
    <3> QED BY <1>1, <1>2, <2>1, <3>1
  <2> QED BY <2>2, <2>3
<1> HIDE DEF T
<1>5. \A k \in Nat : k \in T
  BY <1>3, <1>4, NatInduct
<1> QED BY <1>5 DEF T, AgreeUpto

(* There is such an f, made of sequences, for every s.                     *)
LEMMA FlattensExists ==
    ASSUME NEW S, NEW s \in Seq(Seq(S))
    PROVE  \E f \in [1..Len(s) -> Seq(S)] : Flattens(f, s, Len(s))
<1> DEFINE N == Len(s)
           T == {n \in Nat : n <= N => \E f \in [1..n -> Seq(S)] : Flattens(f, s, n)}
<1>1. N \in Nat /\ \A i \in 1..N : s[i] \in Seq(S)
  OBVIOUS
<1>2. 0 \in T
  <2>1. [i \in 1..0 |-> <<>>] \in [1..0 -> Seq(S)]
    OBVIOUS
  <2>2. Flattens([i \in 1..0 |-> <<>>], s, 0)
    BY DEF Flattens
  <2> QED BY <2>1, <2>2
<1>3. ASSUME NEW n \in Nat, n \in T PROVE n + 1 \in T
  <2> SUFFICES ASSUME n + 1 <= N PROVE \E f \in [1..(n + 1) -> Seq(S)] : Flattens(f, s, n + 1)
    OBVIOUS
  <2>1. PICK f \in [1..n -> Seq(S)] : Flattens(f, s, n)
    BY <1>1, <1>3
  <2> DEFINE x == IF n = 0 THEN s[1] ELSE f[n] \o s[n + 1]
             g == [i \in 1..(n + 1) |-> IF i = n + 1 THEN x ELSE f[i]]
  <2>2. x \in Seq(S)
    <3>1. s[1] \in Seq(S) /\ s[n + 1] \in Seq(S)
      BY <1>1
    <3>2. n # 0 => f[n] \in Seq(S)
      OBVIOUS
    <3> QED BY <3>1, <3>2
  <2>3. \A i \in 1..n : f[i] = IF i = 1 THEN s[i] ELSE f[i - 1] \o s[i]
    BY <2>1, Zenon DEF Flattens
  <2>4. g \in [1..(n + 1) -> Seq(S)]
    BY <2>2
  <2>5. Flattens(g, s, n + 1)
    <3> HIDE DEF x
    <3>1. g[n + 1] = x /\ \A i \in 1..n : g[i] = f[i]
      OBVIOUS
    <3> HIDE DEF g
    <3> USE DEF x
    <3>2. ASSUME NEW i \in 1..(n + 1)
          PROVE  g[i] = IF i = 1 THEN s[i] ELSE g[i - 1] \o s[i]
      <4>1. CASE i = n + 1
        <5>1. CASE n = 0
          BY <3>1, <4>1, <5>1
        <5>2. CASE n # 0
          <6>1. i # 1 /\ i - 1 = n /\ g[n] = f[n]
            BY <3>1, <4>1, <5>2
          <6> QED BY <3>1, <4>1, <5>2, <6>1
        <5> QED BY <5>1, <5>2
      <4>2. CASE i # n + 1
        <5>1. i \in 1..n /\ (i # 1 => i - 1 \in 1..n)
          BY <4>2
        <5>2. g[i] = f[i] /\ (i # 1 => g[i - 1] = f[i - 1])
          BY <3>1, <5>1
        <5> QED BY <2>3, <5>1, <5>2
      <4> QED BY <4>1, <4>2
    <3> QED BY <3>2, Zenon DEF Flattens
  <2> QED BY <2>4, <2>5
<1> HIDE DEF T
<1>4. N \in T
  BY <1>1, <1>2, <1>3, NatInduct
<1> QED BY <1>1, <1>4 DEF T
(* FlattenSeq is the last of them, and the empty sequence of none.         *)
LEMMA FlattenIs ==
    ASSUME NEW S, NEW s \in Seq(Seq(S))
    PROVE  /\ s = <<>> => FlattenSeq(s) = <<>>
           /\ s # <<>> => \E f \in [1..Len(s) -> Seq(S)] :
                            Flattens(f, s, Len(s)) /\ FlattenSeq(s) = f[Len(s)]
<1>1. s = <<>> => FlattenSeq(s) = <<>>
  BY DEF FlattenSeq
<1>2. ASSUME s # <<>>
      PROVE  \E f \in [1..Len(s) -> Seq(S)] :
                Flattens(f, s, Len(s)) /\ FlattenSeq(s) = f[Len(s)]
  <2> DEFINE Solves(f) == f = [i \in 1..Len(s) |-> IF i = 1 THEN s[i] ELSE f[i - 1] \o s[i]]
             c == CHOOSE f : Solves(f)
  <2>1. PICK f \in [1..Len(s) -> Seq(S)] : Flattens(f, s, Len(s))
    BY FlattensExists
  <2>2. f = [i \in 1..Len(s) |-> IF i = 1 THEN s[i] ELSE f[i - 1] \o s[i]]
    <3>1. f = [i \in 1..Len(s) |-> f[i]]
      OBVIOUS
    <3>2. \A i \in 1..Len(s) : f[i] = IF i = 1 THEN s[i] ELSE f[i - 1] \o s[i]
      BY <2>1, Zenon DEF Flattens
    <3> QED BY <3>1, <3>2, Zenon
  <2>3. Solves(c)
    BY <2>2, Zenon
  <2>4. FlattenSeq(s) = c[Len(s)]
    <3>1. Len(s) # 0
      BY <1>2
    <3> QED BY <3>1, Zenon DEF FlattenSeq
  <2> HIDE DEF c
  <2>5. Flattens(c, s, Len(s))
    BY <2>3, Zenon DEF Flattens
  <2>6. Len(s) \in Nat /\ Len(s) \in 1..Len(s)
    BY <1>2
  <2>7. c[Len(s)] = f[Len(s)]
    <3>1. AgreeUpto(s, s, Len(s))
      BY DEF AgreeUpto
    <3>2. AgreeUpto(c, f, Len(s))
      BY <2>1, <2>5, <2>6, <3>1, FlattensAgree
    <3> QED BY <2>6, <3>2 DEF AgreeUpto
  <2> QED BY <2>1, <2>4, <2>7
<1> QED BY <1>1, <1>2

(* One more sequence comes behind what there is.                           *)
LEMMA FlattenType ==
    ASSUME NEW S, NEW s \in Seq(Seq(S))
    PROVE  FlattenSeq(s) \in Seq(S)
<1>1. CASE s = <<>>
  <2>1. FlattenSeq(s) = <<>>
    BY <1>1, FlattenIs, Zenon
  <2> QED BY <2>1
<1>2. CASE s # <<>>
  <2>1. PICK f \in [1..Len(s) -> Seq(S)] : FlattenSeq(s) = f[Len(s)]
    BY <1>2, FlattenIs
  <2>2. Len(s) \in 1..Len(s)
    BY <1>2
  <2> QED BY <2>1, <2>2
<1> QED BY <1>1, <1>2

LEMMA FlattenAppend ==
    ASSUME NEW S, NEW s \in Seq(Seq(S)), NEW x \in Seq(S)
    PROVE  FlattenSeq(Append(s, x)) = FlattenSeq(s) \o x
<1> DEFINE t == Append(s, x)
<1>1. t \in Seq(Seq(S)) /\ Len(t) = Len(s) + 1 /\ t[Len(s) + 1] = x
  OBVIOUS
<1>2. Len(s) \in Nat
  OBVIOUS
<1>3. \A i \in 1..Len(s) : s[i] = t[i]
  OBVIOUS
<1>4. t # <<>>
  BY <1>1, <1>2
<1> HIDE DEF t
<1>5. PICK g \in [1..Len(t) -> Seq(S)] : Flattens(g, t, Len(t)) /\ FlattenSeq(t) = g[Len(t)]
  BY <1>1, <1>4, FlattenIs
<1>6. \A i \in 1..(Len(s) + 1) : g[i] = IF i = 1 THEN t[i] ELSE g[i - 1] \o t[i]
  BY <1>1, <1>5, Zenon DEF Flattens
<1>7. CASE s = <<>>
  <2>1. g[1] = x
    BY <1>1, <1>2, <1>6, <1>7
  <2>2. FlattenSeq(s) = <<>>
    BY <1>7, FlattenIs, Zenon
  <2>3. <<>> \o x = x
    OBVIOUS
  <2> QED BY <1>1, <1>5, <1>7, <2>1, <2>2, <2>3 DEF t
<1>8. CASE s # <<>>
  <2>1. PICK f \in [1..Len(s) -> Seq(S)] : Flattens(f, s, Len(s)) /\ FlattenSeq(s) = f[Len(s)]
    BY <1>8, FlattenIs
  <2>2. Flattens(g, t, Len(s))
    <3>1. ASSUME NEW i \in 1..Len(s)
          PROVE  g[i] = IF i = 1 THEN t[i] ELSE g[i - 1] \o t[i]
      <4>1. i \in 1..(Len(s) + 1)
        BY <1>2
      <4> QED BY <1>6, <4>1, Zenon
    <3> QED BY <3>1, Zenon DEF Flattens
  <2>3. Len(s) \in 1..Len(s)
    BY <1>8
  <2>4. AgreeUpto(f, g, Len(s))
    <3>1. AgreeUpto(s, t, Len(s))
      BY <1>3 DEF AgreeUpto
    <3> QED BY <1>2, <2>1, <2>2, <3>1, FlattensAgree
  <2>5. g[Len(s) + 1] = g[Len(s)] \o x
    <3>1. Len(s) + 1 \in 1..(Len(s) + 1) /\ Len(s) + 1 # 1 /\ (Len(s) + 1) - 1 = Len(s)
      BY <1>2, <2>3
    <3>2. g[Len(s) + 1] = g[(Len(s) + 1) - 1] \o t[Len(s) + 1]
      BY <1>6, <3>1, Zenon
    <3> QED BY <1>1, <3>1, <3>2
  <2>6. f[Len(s)] = g[Len(s)]
    BY <2>3, <2>4 DEF AgreeUpto
  <2> QED BY <1>1, <1>5, <2>1, <2>5, <2>6 DEF t
<1> QED BY <1>7, <1>8

-----------------------------------------------------------------------------
(* Sums.  it has, for each set of D, the sum of f over it, made up from    *)
(* the element the library's fold picks.                                   *)
Pick(s) == CHOOSE x \in s : TRUE
Adds(it, f, D) == \A s \in D : it[s] = IF s = {} THEN 0 ELSE f[Pick(s)] + it[s \ {Pick(s)}]

Small(S, n) == {s \in SUBSET S : Cardinality(s) <= n}

(* The subsets of a finite set, without an element.                        *)
LEMMA SmallerSet ==
    ASSUME NEW S, IsFiniteSet(S), NEW s \in SUBSET S, s # {}
    PROVE  /\ IsFiniteSet(s) /\ Cardinality(s) \in Nat \ {0}
           /\ Pick(s) \in s
           /\ \A x \in s : /\ s \ {x} \in SUBSET S /\ IsFiniteSet(s \ {x})
                           /\ Cardinality(s \ {x}) = Cardinality(s) - 1
<1>1. IsFiniteSet(s)
  BY FS_Subset
<1>2. Cardinality(s) \in Nat /\ Cardinality(s) # 0
  BY <1>1, FS_CardinalityType, FS_EmptySet
<1>3. Pick(s) \in s
  BY DEF Pick
<1>4. ASSUME NEW x \in s
      PROVE  IsFiniteSet(s \ {x}) /\ Cardinality(s \ {x}) = Cardinality(s) - 1
  BY <1>1, FS_RemoveElement
<1> QED BY <1>1, <1>2, <1>3, <1>4

(* There is such an it for every finite set.                               *)
LEMMA SumExists ==
    ASSUME NEW D, NEW f \in [D -> Nat], NEW S \in SUBSET D, IsFiniteSet(S)
    PROVE  \E it \in [SUBSET S -> Nat] : Adds(it, f, SUBSET S)
<1> DEFINE T == {n \in Nat : \E it \in [Small(S, n) -> Nat] : Adds(it, f, Small(S, n))}
<1>1. \A s \in SUBSET S : IsFiniteSet(s) /\ Cardinality(s) \in Nat /\ (Cardinality(s) = 0 <=> s = {})
  BY FS_Subset, FS_CardinalityType, FS_EmptySet
<1>2. 0 \in T
  <2> DEFINE it == [s \in Small(S, 0) |-> 0]
  <2>1. \A s \in Small(S, 0) : s = {}
    BY <1>1 DEF Small
  <2>2. it \in [Small(S, 0) -> Nat] /\ Adds(it, f, Small(S, 0))
    BY <2>1 DEF Adds
  <2> QED BY <2>2
<1>3. ASSUME NEW n \in Nat, n \in T PROVE n + 1 \in T
  <2>1. PICK it \in [Small(S, n) -> Nat] : Adds(it, f, Small(S, n))
    BY <1>3
  <2> DEFINE jt == [s \in Small(S, n + 1) |-> IF s = {} THEN 0 ELSE f[Pick(s)] + it[s \ {Pick(s)}]]
  <2>2. ASSUME NEW s \in Small(S, n + 1), s # {}
        PROVE  s \ {Pick(s)} \in Small(S, n) /\ f[Pick(s)] \in Nat
    <3>1. s \in SUBSET S /\ Cardinality(s) <= n + 1
      BY DEF Small
    <3>2. Cardinality(s) \in Nat /\ Pick(s) \in s
          /\ s \ {Pick(s)} \in SUBSET S /\ Cardinality(s \ {Pick(s)}) = Cardinality(s) - 1
      BY <2>2, <3>1, SmallerSet
    <3>3. Cardinality(s) - 1 <= n
      BY <3>1, <3>2
    <3> QED BY <3>1, <3>2, <3>3 DEF Small
  <2>3. jt \in [Small(S, n + 1) -> Nat]
    BY <2>2
  <2>4. \A s \in Small(S, n) : it[s] = jt[s]
    <3>1. \A s \in Small(S, n) : s \in Small(S, n + 1)
      BY <1>1 DEF Small
    <3>2. \A s \in Small(S, n) : it[s] = IF s = {} THEN 0 ELSE f[Pick(s)] + it[s \ {Pick(s)}]
      BY <2>1, Zenon DEF Adds
    <3> QED BY <3>1, <3>2
  <2>5. ASSUME NEW s \in Small(S, n + 1)
        PROVE  jt[s] = IF s = {} THEN 0 ELSE f[Pick(s)] + jt[s \ {Pick(s)}]
    BY <2>2, <2>4
  <2> HIDE DEF jt
  <2>6. Adds(jt, f, Small(S, n + 1))
    BY <2>5, Zenon DEF Adds
  <2> QED BY <2>3, <2>6
<1> HIDE DEF T
<1>4. Cardinality(S) \in T
  BY <1>1, <1>2, <1>3, NatInduct
<1>5. Small(S, Cardinality(S)) = SUBSET S
  <2>1. \A s \in SUBSET S : Cardinality(s) <= Cardinality(S)
    BY FS_Subset
  <2> QED BY <2>1 DEF Small
<1> QED BY <1>4, <1>5 DEF T

(* Two of them have the same sums.                                         *)
LEMMA SumAgrees ==
    ASSUME NEW S, NEW R, NEW f, NEW it, NEW jt, Adds(it, f, SUBSET S), Adds(jt, f, SUBSET R),
           NEW U \in SUBSET S, U \in SUBSET R, IsFiniteSet(U)
    PROVE  it[U] = jt[U]
<1> DEFINE T == {n \in Nat : \A s \in SUBSET U : Cardinality(s) <= n => it[s] = jt[s]}
<1>1. \A s \in SUBSET S : it[s] = IF s = {} THEN 0 ELSE f[Pick(s)] + it[s \ {Pick(s)}]
  BY Zenon DEF Adds
<1>2. \A s \in SUBSET R : jt[s] = IF s = {} THEN 0 ELSE f[Pick(s)] + jt[s \ {Pick(s)}]
  BY Zenon DEF Adds
<1>3. \A s \in SUBSET U : IsFiniteSet(s) /\ Cardinality(s) \in Nat /\ (Cardinality(s) = 0 <=> s = {})
  BY FS_Subset, FS_CardinalityType, FS_EmptySet
<1>4. 0 \in T
  BY <1>1, <1>2, <1>3
<1>5. ASSUME NEW n \in Nat, n \in T PROVE n + 1 \in T
  <2> SUFFICES ASSUME NEW s \in SUBSET U, Cardinality(s) <= n + 1 PROVE it[s] = jt[s]
    OBVIOUS
  <2>1. CASE s = {}
    BY <1>1, <1>2, <2>1
  <2>2. CASE s # {}
    <3> DEFINE x == Pick(s)
    <3>1. s \ {x} \in SUBSET U /\ Cardinality(s \ {x}) = Cardinality(s) - 1 /\ Cardinality(s) \in Nat
      BY <2>2, SmallerSet
    <3>2. it[s \ {x}] = jt[s \ {x}]
      <4>1. Cardinality(s \ {x}) <= n
        BY <3>1
      <4> QED BY <1>5, <3>1, <4>1
    <3>3. it[s] = f[x] + it[s \ {x}] /\ jt[s] = f[x] + jt[s \ {x}]
      BY <1>1, <1>2, <2>2
    <3> QED BY <3>2, <3>3
  <2> QED BY <2>1, <2>2
<1> HIDE DEF T
<1>6. Cardinality(U) \in T
  BY <1>3, <1>4, <1>5, NatInduct
<1> QED BY <1>3, <1>6 DEF T

(* The sum of a function's values over a finite set is one of them.        *)
Summed(f, S) ==
    \E it \in [SUBSET S -> Nat] : Adds(it, f, SUBSET S) /\ SumFunctionOnSet(f, S) = it[S]

LEMMA SumIs ==
    ASSUME NEW D, NEW f \in [D -> Nat], NEW S \in SUBSET D, IsFiniteSet(S)
    PROVE  Summed(f, S)
<1> DEFINE Solves(it) ==
             it = [s \in SUBSET S |-> IF s = {} THEN 0 ELSE f[CHOOSE x \in s : TRUE] + it[s \ {CHOOSE x \in s : TRUE}]]
           c == CHOOSE it : Solves(it)
<1>1. PICK it \in [SUBSET S -> Nat] : Adds(it, f, SUBSET S)
  BY SumExists
<1>2. Solves(it)
  <2>1. it = [s \in SUBSET S |-> it[s]]
    OBVIOUS
  <2>2. \A s \in SUBSET S : it[s] = IF s = {} THEN 0 ELSE f[CHOOSE x \in s : TRUE] + it[s \ {CHOOSE x \in s : TRUE}]
    BY <1>1, Zenon DEF Adds, Pick
  <2> QED BY <2>1, <2>2, Zenon
<1>3. Solves(c)
  BY <1>2, Zenon
<1>4. SumFunctionOnSet(f, S) = c[S]
  BY DEF SumFunctionOnSet, FoldFunctionOnSet, MapThenFoldSet
<1> HIDE DEF c
<1>5. Adds(c, f, SUBSET S)
  BY <1>3, Zenon DEF Adds, Pick
<1>6. c[S] = it[S]
  BY <1>1, <1>5, SumAgrees
<1> QED BY <1>1, <1>4, <1>6 DEF Summed
(* It is a natural number, none over the empty set, and made up from the   *)
(* element the fold picks first.                                           *)
LEMMA SumPick ==
    ASSUME NEW D, NEW f \in [D -> Nat], NEW S \in SUBSET D, IsFiniteSet(S)
    PROVE  /\ SumFunctionOnSet(f, S) \in Nat
           /\ S = {} => SumFunctionOnSet(f, S) = 0
           /\ S # {} => /\ Pick(S) \in S
                        /\ SumFunctionOnSet(f, S) = f[Pick(S)] + SumFunctionOnSet(f, S \ {Pick(S)})
<1>1. PICK it \in [SUBSET S -> Nat] : Adds(it, f, SUBSET S) /\ SumFunctionOnSet(f, S) = it[S]
  <2>1. Summed(f, S)
    BY SumIs
  <2> QED BY <2>1 DEF Summed
<1>2. S \in SUBSET S /\ it[S] = IF S = {} THEN 0 ELSE f[Pick(S)] + it[S \ {Pick(S)}]
  BY <1>1, Zenon DEF Adds
<1>3. ASSUME S # {}
      PROVE  Pick(S) \in S /\ it[S \ {Pick(S)}] = SumFunctionOnSet(f, S \ {Pick(S)})
  <2> DEFINE R == S \ {Pick(S)}
  <2>1. Pick(S) \in S /\ R \in SUBSET S /\ IsFiniteSet(R)
    <3>1. S \in SUBSET S
      OBVIOUS
    <3> QED BY <1>3, <3>1, SmallerSet
  <2> HIDE DEF R
  <2>2. PICK jt \in [SUBSET R -> Nat] : Adds(jt, f, SUBSET R) /\ SumFunctionOnSet(f, R) = jt[R]
    <3>1. R \in SUBSET D
      BY <2>1
    <3>2. Summed(f, R)
      BY <2>1, <3>1, SumIs
    <3> QED BY <3>2 DEF Summed
  <2>3. R \in SUBSET R
    OBVIOUS
  <2>4. it[R] = jt[R]
    BY <1>1, <2>1, <2>2, <2>3, SumAgrees
  <2> QED BY <2>1, <2>2, <2>4 DEF R
<1> QED BY <1>1, <1>2, <1>3

(* Every element can be taken out: the order of the fold does not matter.  *)
LEMMA SumWithout ==
    ASSUME NEW D, NEW f \in [D -> Nat], NEW S \in SUBSET D, IsFiniteSet(S), NEW x \in S
    PROVE  SumFunctionOnSet(f, S) = f[x] + SumFunctionOnSet(f, S \ {x})
<1> DEFINE Out(s) == \A y \in s : SumFunctionOnSet(f, s) = f[y] + SumFunctionOnSet(f, s \ {y})
           T == {n \in Nat : \A s \in SUBSET S : Cardinality(s) <= n => Out(s)}
<1>1. \A s \in SUBSET S : IsFiniteSet(s) /\ Cardinality(s) \in Nat /\ (Cardinality(s) = 0 <=> s = {})
  BY FS_Subset, FS_CardinalityType, FS_EmptySet
<1>2. 0 \in T
  BY <1>1
<1>3. ASSUME NEW n \in Nat, n \in T PROVE n + 1 \in T
  <2> SUFFICES ASSUME NEW s \in SUBSET S, Cardinality(s) <= n + 1, NEW y \in s
               PROVE  SumFunctionOnSet(f, s) = f[y] + SumFunctionOnSet(f, s \ {y})
    OBVIOUS
  <2> DEFINE p == Pick(s)
             a == s \ {p}
             b == s \ {y}
             c == a \ {y}
  <2>1. /\ s # {} /\ IsFiniteSet(s) /\ s \in SUBSET D /\ Cardinality(s) \in Nat /\ p \in s
        /\ a \in SUBSET S /\ IsFiniteSet(a) /\ Cardinality(a) = Cardinality(s) - 1
        /\ b \in SUBSET S /\ IsFiniteSet(b) /\ Cardinality(b) = Cardinality(s) - 1
    <3>1. s # {}
      OBVIOUS
    <3> QED BY <3>1, SmallerSet
  <2>2. SumFunctionOnSet(f, s) = f[p] + SumFunctionOnSet(f, a)
    BY <2>1, SumPick
  <2>3. CASE y = p
    BY <2>2, <2>3
  <2>4. CASE y # p
    <3>1. y \in a /\ p \in b /\ c = b \ {p}
      BY <2>1, <2>4
    <3>2. Cardinality(a) <= n /\ Cardinality(b) <= n
      BY <2>1
    <3> HIDE DEF a, b, p
    <3>3. SumFunctionOnSet(f, a) = f[y] + SumFunctionOnSet(f, c)
      BY <1>3, <2>1, <3>1, <3>2
    <3>4. SumFunctionOnSet(f, b) = f[p] + SumFunctionOnSet(f, b \ {p})
      BY <1>3, <2>1, <3>1, <3>2
    <3>5. SumFunctionOnSet(f, c) \in Nat /\ f[p] \in Nat /\ f[y] \in Nat
      <4>1. c \in SUBSET D /\ IsFiniteSet(c)
        BY <2>1, FS_RemoveElement
      <4>2. SumFunctionOnSet(f, c) \in Nat
        BY <4>1, SumPick
      <4> QED BY <2>1, <4>2
    <3> HIDE DEF c
    <3>6. SumFunctionOnSet(f, s) = f[y] + SumFunctionOnSet(f, b)
      BY <2>2, <3>1, <3>3, <3>4, <3>5
    <3> QED BY <3>6 DEF b
  <2> QED BY <2>3, <2>4
<1> HIDE DEF T
<1>4. Cardinality(S) \in T
  BY <1>1, <1>2, <1>3, NatInduct
<1>5. Out(S)
  <2>1. S \in SUBSET S /\ Cardinality(S) <= Cardinality(S)
    BY <1>1
  <2> QED BY <1>4, <2>1 DEF T
<1> QED BY <1>5

(* There is only one sum over a set.                                       *)
LEMMA SumOne ==
    ASSUME NEW S, IsFiniteSet(S), NEW f, NEW it, NEW jt, Adds(it, f, SUBSET S), Adds(jt, f, SUBSET S)
    PROVE  it[S] = jt[S]
BY SumAgrees

(* Functions that agree on a set have the same sum over it.                *)
LEMMA SumSame ==
    ASSUME NEW D, NEW f \in [D -> Nat], NEW E, NEW g \in [E -> Nat],
           NEW S \in SUBSET D, S \in SUBSET E, IsFiniteSet(S), \A x \in S : f[x] = g[x]
    PROVE  SumFunctionOnSet(f, S) = SumFunctionOnSet(g, S)
<1>1. PICK it \in [SUBSET S -> Nat] : Adds(it, f, SUBSET S) /\ SumFunctionOnSet(f, S) = it[S]
  <2>1. Summed(f, S)
    BY SumIs
  <2> QED BY <2>1 DEF Summed
<1>2. PICK jt \in [SUBSET S -> Nat] : Adds(jt, g, SUBSET S) /\ SumFunctionOnSet(g, S) = jt[S]
  <2>1. Summed(g, S)
    BY SumIs
  <2> QED BY <2>1 DEF Summed
<1>3. Adds(it, g, SUBSET S)
  <2>1. \A s \in SUBSET S : s # {} => f[Pick(s)] = g[Pick(s)]
    BY DEF Pick
  <2>2. \A s \in SUBSET S : it[s] = IF s = {} THEN 0 ELSE f[Pick(s)] + it[s \ {Pick(s)}]
    BY <1>1, Zenon DEF Adds
  <2>3. ASSUME NEW s \in SUBSET S
        PROVE  it[s] = IF s = {} THEN 0 ELSE g[Pick(s)] + it[s \ {Pick(s)}]
    <3>1. it[s] = IF s = {} THEN 0 ELSE f[Pick(s)] + it[s \ {Pick(s)}]
      BY <2>2, Zenon
    <3>2. s # {} => f[Pick(s)] = g[Pick(s)]
      BY <2>1, Zenon
    <3> QED BY <3>1, <3>2
  <2> QED BY <2>3, Zenon DEF Adds
<1>4. it[S] = jt[S]
  BY <1>2, <1>3, SumOne
<1> QED BY <1>1, <1>2, <1>4

-----------------------------------------------------------------------------
(* What is known during a sync.                                            *)
Exact == valid => graph = checkpoint /\ logits = checkpoint

SyncPath ==
    /\ Syncing => Fits(sync.prompt)
    /\ sync.from <= sync.at /\ sync.at <= Len(sync.prompt)
    /\ sync.mode \in {"off", "whole", "tokens"} => Exact
    /\ sync.mode = "tokens" => valid /\ IsPrefix(checkpoint, sync.prompt)
    /\ sync.mode = "chunks" =>
        /\ sync.at > 0 => graph = Upto(sync.prompt, sync.at)
        /\ sync.at = sync.from => Exact
        /\ sync.at > sync.from /\ progress >= 0 => valid /\ Exact

SessionInv == SessionTypeOK /\ SyncPath

-----------------------------------------------------------------------------
(* Prompts and their initial parts.                                        *)

(* The first n tokens.                                                     *)
LEMMA UptoIs ==
    ASSUME NEW S, NEW p \in Seq(S), NEW n \in 0..Len(p)
    PROVE  /\ Upto(p, n) \in Seq(S) /\ Len(Upto(p, n)) = n
           /\ \A i \in 1..n : Upto(p, n)[i] = p[i]
           /\ n = Len(p) => Upto(p, n) = p
<1>1. SubSeq(p, 1, n) \in Seq(S) /\ Len(SubSeq(p, 1, n)) = n
      /\ \A i \in 1..n : SubSeq(p, 1, n)[i] = p[i]
  BY SMTT(30)
<1>2. SubSeq(p, 1, Len(p)) = p
  BY SMTT(30)
<1> QED BY <1>1, <1>2 DEF Upto

(* A chunk behind the tokens there are reaches its own end.                *)
LEMMA UptoGrows ==
    ASSUME NEW S, NEW p \in Seq(S), NEW m \in 0..Len(p), NEW n \in m..Len(p)
    PROVE  /\ Upto(p, m) \o SubSeq(p, m + 1, n) = Upto(p, n)
           /\ <<>> \o SubSeq(p, 1, n) = Upto(p, n)
<1> DEFINE a == Upto(p, m)
           b == SubSeq(p, m + 1, n)
           c == Upto(p, n)
<1>1. a \in Seq(S) /\ Len(a) = m /\ \A i \in 1..m : a[i] = p[i]
  BY UptoIs
<1>2. b \in Seq(S) /\ Len(b) = n - m /\ \A i \in 1..(n - m) : b[i] = p[m + i]
  BY SMTT(30)
<1>3. c \in Seq(S) /\ Len(c) = n /\ \A i \in 1..n : c[i] = p[i]
  BY UptoIs
<1>4. a \o b = c
  <2> HIDE DEF a, b, c
  <2>1. /\ a \o b \in Seq(S) /\ Len(a \o b) = m + (n - m)
        /\ \A i \in 1..m : (a \o b)[i] = a[i]
        /\ \A i \in 1..(n - m) : (a \o b)[m + i] = b[i]
    BY <1>1, <1>2, ConcatIs
  <2>2. ASSUME NEW i \in 1..n PROVE (a \o b)[i] = c[i]
    <3>1. CASE i <= m
      BY <1>1, <1>3, <2>1, <3>1
    <3>2. CASE ~(i <= m)
      <4>1. i - m \in 1..(n - m) /\ m + (i - m) = i
        BY <3>2
      <4>2. (a \o b)[i] = b[i - m] /\ b[i - m] = p[i]
        BY <1>2, <2>1, <4>1
      <4> QED BY <1>3, <4>2
    <3> QED BY <3>1, <3>2
  <2>3. Len(a \o b) = Len(c) /\ \A i \in 1..Len(a \o b) : (a \o b)[i] = c[i]
    BY <1>3, <2>1, <2>2
  <2> QED BY <1>3, <2>1, <2>3, SameSequence
<1>5. <<>> \o SubSeq(p, 1, n) = c
  <2>1. c = SubSeq(p, 1, n)
    BY DEF Upto
  <2> QED BY <1>3, <2>1, ConcatEmpty
<1> QED BY <1>4, <1>5

(* A prefix is an initial part, and what goes on with the next token of    *)
(* the whole is again one.                                                 *)
LEMMA PrefixGrows ==
    ASSUME NEW S, NEW s \in Seq(S), NEW p \in Seq(S), IsPrefix(s, p)
    PROVE  /\ Len(s) <= Len(p)
           /\ s = Upto(p, Len(s))
           /\ Len(s) = Len(p) => s = p
           /\ Len(s) < Len(p) =>
                 /\ p[Len(s) + 1] \in S
                 /\ Append(s, p[Len(s) + 1]) \in Seq(S)
                 /\ IsPrefix(Append(s, p[Len(s) + 1]), p)
<1>1. Len(s) <= Len(p) /\ \A i \in 1..Len(s) : s[i] = p[i]
  BY PrefixIs
<1>2. Len(s) \in 0..Len(p)
  BY <1>1
<1>3. s = Upto(p, Len(s))
  <2>1. /\ Upto(p, Len(s)) \in Seq(S) /\ Len(Upto(p, Len(s))) = Len(s)
        /\ \A i \in 1..Len(s) : Upto(p, Len(s))[i] = p[i]
    BY <1>2, UptoIs
  <2> QED BY <1>1, <2>1, SameSequence
<1>4. Len(s) = Len(p) => s = p
  BY <1>1, SameSequence
<1>5. ASSUME Len(s) < Len(p)
      PROVE  /\ p[Len(s) + 1] \in S
             /\ Append(s, p[Len(s) + 1]) \in Seq(S)
             /\ IsPrefix(Append(s, p[Len(s) + 1]), p)
  <2>1. p[Len(s) + 1] \in S
    BY <1>5
  <2> DEFINE t == Append(s, p[Len(s) + 1])
  <2>2. t \in Seq(S) /\ Len(t) = Len(s) + 1
        /\ \A i \in 1..(Len(s) + 1) : t[i] = IF i <= Len(s) THEN s[i] ELSE p[Len(s) + 1]
    BY <2>1, SMTT(30)
  <2> HIDE DEF t
  <2>3. Len(t) <= Len(p) /\ \A i \in 1..Len(t) : t[i] = p[i]
    BY <1>1, <1>5, <2>2
  <2>4. IsPrefix(t, p)
    BY <2>2, <2>3, PrefixIs
  <2> QED BY <2>1, <2>2, <2>4 DEF t
<1> QED BY <1>1, <1>3, <1>4, <1>5

(* The initial part of a prompt is a token sequence.                       *)
LEMMA UptoTokens ==
    ASSUME NEW p \in Tokens, NEW n \in 0..Len(p)
    PROVE  Upto(p, n) \in Tokens /\ Len(Upto(p, n)) = n
BY UptoIs DEF Tokens

-----------------------------------------------------------------------------
(* A sync begins: every way starts from what is known of the session.      *)
LEMMA StartKeeps ==
    ASSUME SessionInv, ~Syncing, NEW p \in Tokens, Start(p),
           UNCHANGED <<config, checkpoint, valid, graph, logits>>
    PROVE  /\ sync' \in Sync
           /\ SyncPath'
           /\ Syncing' => sync'.prompt = p /\ sync'.at = sync'.from
           /\ ~Syncing' => ~sync'.ok
<1>1. /\ checkpoint \in Seq(Token) /\ p \in Seq(Token) /\ valid \in BOOLEAN
      /\ Len(checkpoint) \in Nat /\ Len(p) \in Nat
  BY DEF SessionInv, SessionTypeOK, Tokens
<1>2. Exact
  BY DEF SessionInv, SyncPath, Syncing
<1>3. CASE ~Fits(p)
  <2>1. sync' = [mode |-> "off", prompt |-> <<>>, from |-> 0, at |-> 0, ok |-> FALSE]
    BY <1>3 DEF Start, Synced
  <2>2. <<>> \in Tokens /\ Len(<<>>) = 0
    BY DEF Tokens
  <2> QED BY <1>2, <2>1, <2>2 DEF SyncPath, Exact, Syncing, Sync, Modes
<1>4. CASE Fits(p)
  <2> DEFINE n == IF Extends(p) THEN Len(checkpoint) ELSE 0
  <2>1. /\ Extends(p) => valid /\ IsPrefix(checkpoint, p) /\ Len(checkpoint) <= Len(p)
                          /\ checkpoint = Upto(p, Len(checkpoint))
    BY <1>1, PrefixGrows DEF Extends
  <2>2. n \in Nat /\ n <= Len(p)
    BY <1>1, <2>1
  <2>3. sync' = [mode |-> Way(p), prompt |-> p, from |-> n, at |-> n, ok |-> FALSE]
    BY <1>4 DEF Start
  <2>4. /\ Way(p) \in {"chunks", "tokens", "whole"}
        /\ Way(p) = "tokens" => Extends(p)
    BY DEF Way
  <2>5. sync' \in Sync
    BY <2>2, <2>3, <2>4 DEF Sync, Modes
  <2>6. n > 0 => valid /\ checkpoint = Upto(p, n)
    BY <2>1
  <2> HIDE DEF n
  <2>7. SyncPath'
    <3>1. sync'.mode = Way(p) /\ sync'.prompt = p /\ sync'.from = n /\ sync'.at = n
      BY <2>3
    <3>2. Exact' /\ Fits(p)'
      BY <1>2, <1>4 DEF Exact, Fits
    <3>3. sync'.at > 0 => graph' = Upto(p, n)
      BY <1>2, <2>6, <3>1 DEF Exact
    <3>4. Way(p) = "tokens" => valid' /\ IsPrefix(checkpoint', p)
      BY <2>1, <2>4
    <3> QED BY <2>2, <3>1, <3>2, <3>3, <3>4 DEF SyncPath
  <2> QED BY <2>3, <2>4, <2>5, <2>7 DEF Syncing
<1> QED BY <1>3, <1>4

(* A chunk ends behind its start and not behind the prompt.  A resumed one *)
(* does not cross a multiple of the prefill cap.                           *)
LEMMA ChunkEndIs ==
    ASSUME SessionInv, sync.at < Len(sync.prompt)
    PROVE  /\ ChunkEnd \in Nat /\ sync.at < ChunkEnd /\ ChunkEnd <= Len(sync.prompt)
           /\ sync.from # 0 => ChunkEnd <= sync.at + (config.cap - (sync.at % config.cap))
<1>1. /\ sync.at \in Nat /\ sync.from \in Nat /\ Len(sync.prompt) \in Nat
      /\ config.cap \in Nat \ {0} /\ config.raw \in Nat \ {0}
  BY ConfigAssumption DEF SessionInv, SessionTypeOK, Sync, Tokens
<1> DEFINE cap   == IF sync.from = 0 THEN config.cap ELSE Least(config.cap, config.raw)
           mod   == sync.at % config.cap
           local == IF sync.from = 0 \/ mod = 0 THEN cap ELSE Least(cap, config.cap - mod)
<1>2. cap \in Nat \ {0} /\ (sync.from # 0 => cap <= config.cap)
  BY <1>1 DEF Least
<1>3. mod \in 0..(config.cap - 1)
  BY <1>1
<1> HIDE DEF cap, mod
<1>4. local \in Nat \ {0} /\ (sync.from # 0 => local <= config.cap - mod)
  BY <1>1, <1>2, <1>3 DEF Least
<1>5. ChunkEnd = Least(sync.at + local, Len(sync.prompt))
  BY DEF ChunkEnd, cap, mod
<1> HIDE DEF local
<1>6. /\ ChunkEnd \in Nat /\ sync.at < ChunkEnd /\ ChunkEnd <= Len(sync.prompt)
      /\ ChunkEnd <= sync.at + local
  BY <1>1, <1>4, <1>5 DEF Least
<1>7. sync.from # 0 => ChunkEnd <= sync.at + (config.cap - mod)
  BY <1>1, <1>3, <1>4, <1>6
<1> QED BY <1>6, <1>7 DEF mod

(* One chunk.                                                              *)
LEMMA ChunkKeeps ==
    ASSUME SessionInv, Chunk
    PROVE  /\ SessionTypeOK' /\ SyncPath'
           /\ Syncing' /\ sync'.mode = "chunks" /\ sync'.prompt = sync.prompt
           /\ progress' = progress /\ config' = config
<1> DEFINE p == sync.prompt
<1>1. /\ sync \in Sync /\ p \in Seq(Token) /\ Len(p) \in Nat /\ sync.at \in Nat /\ sync.from \in Nat
      /\ config \in Configs /\ checkpoint \in Tokens /\ valid \in BOOLEAN
      /\ logits \in Rows /\ progress \in Nat \cup {-1}
  BY DEF SessionInv, SessionTypeOK, Sync, Tokens
<1>2. sync.mode = "chunks" /\ sync.at < Len(p)
  BY DEF Chunk
<1>3. ChunkEnd \in Nat /\ sync.at < ChunkEnd /\ ChunkEnd <= Len(p)
  BY <1>2, ChunkEndIs
<1>4. Upto(p, ChunkEnd) \in Seq(Token)
  BY <1>1, <1>3, UptoIs
<1>5. ChunkRows = Upto(p, ChunkEnd)
  <2>1. sync.at > 0 => graph = Upto(p, sync.at)
    BY <1>2 DEF SessionInv, SyncPath
  <2>2. /\ Upto(p, sync.at) \o SubSeq(p, sync.at + 1, ChunkEnd) = Upto(p, ChunkEnd)
        /\ <<>> \o SubSeq(p, 1, ChunkEnd) = Upto(p, ChunkEnd)
    <3>1. sync.at \in 0..Len(p) /\ ChunkEnd \in sync.at..Len(p)
      BY <1>1, <1>2, <1>3
    <3> QED BY <1>1, <3>1, UptoGrows
  <2>3. CASE sync.at = 0
    BY <2>2, <2>3 DEF ChunkRows
  <2>4. CASE sync.at # 0
    <3>1. sync.at > 0
      BY <1>1, <2>4
    <3>2. ChunkRows = Upto(p, sync.at) \o SubSeq(p, sync.at + 1, ChunkEnd)
      BY <2>1, <2>4, <3>1, Zenon DEF ChunkRows
    <3> QED BY <2>2, <3>2
  <2> QED BY <2>3, <2>4
<1>6. /\ sync'.mode = "chunks" /\ sync'.prompt = p /\ sync'.at = ChunkEnd /\ sync'.from = sync.from
      /\ sync' \in Sync /\ graph' = Upto(p, ChunkEnd)
      /\ config' = config /\ progress' = progress
  BY <1>1, <1>3, <1>5 DEF Chunk, Sync
<1>7. CASE progress >= 0
  <2>1. logits' = Upto(p, ChunkEnd) /\ checkpoint' = Upto(p, ChunkEnd) /\ valid' = TRUE
    BY <1>5, <1>7 DEF Chunk
  <2>2. SessionTypeOK'
    BY <1>1, <1>4, <1>6, <2>1 DEF SessionTypeOK, Tokens, Rows
  <2>3. Exact'
    BY <1>6, <2>1 DEF Exact
  <2>4. SyncPath'
    BY <1>1, <1>2, <1>3, <1>6, <2>1, <2>3 DEF SyncPath, SessionInv, Fits, Syncing
  <2> QED BY <1>6, <2>2, <2>4 DEF Syncing
<1>8. CASE ~(progress >= 0)
  <2>1. logits' = logits /\ checkpoint' = checkpoint /\ valid' = valid
    BY <1>8 DEF Chunk
  <2>2. SessionTypeOK'
    BY <1>1, <1>4, <1>6, <2>1 DEF SessionTypeOK, Tokens, Rows
  <2>3. SyncPath'
    BY <1>1, <1>2, <1>3, <1>6, <1>8, <2>1 DEF SyncPath, SessionInv, Fits, Syncing
  <2> QED BY <1>6, <2>2, <2>3 DEF Syncing
<1> QED BY <1>7, <1>8

(* The other steps of a sync; the last one of a successful sync leaves the *)
(* whole prompt.                                                           *)
LEMMA SyncStepKeeps ==
    ASSUME SessionInv, WholePrefill \/ ChunksDone \/ EvalToken \/ TokensDone \/ SyncFails
    PROVE  /\ SessionTypeOK' /\ SyncPath'
           /\ Syncing /\ Fits(sync.prompt) /\ config' = config
           /\ Syncing' => sync' = sync
           /\ ~Syncing' /\ sync'.ok =>
                 valid' /\ checkpoint' = sync.prompt /\ Len(sync.prompt) <= config.ctx
<1> DEFINE p == sync.prompt
<1>1. /\ sync \in Sync /\ p \in Seq(Token) /\ Len(p) \in Nat /\ sync.at \in Nat /\ sync.from \in Nat
      /\ config \in Configs /\ checkpoint \in Seq(Token) /\ valid \in BOOLEAN
      /\ logits \in Rows /\ graph \in Rows /\ progress \in Nat \cup {-1}
      /\ config.ctx \in Nat
  BY ConfigAssumption DEF SessionInv, SessionTypeOK, Sync, Tokens
<1>2. Syncing
  BY DEF WholePrefill, ChunksDone, EvalToken, TokensDone, SyncFails, Syncing
<1>3. Fits(p) /\ Len(p) <= config.ctx
  BY <1>1, <1>2 DEF SessionInv, SyncPath, Fits
<1>4. <<>> \in Tokens /\ Len(<<>>) = 0
  BY DEF Tokens
<1>5. \A ok \in BOOLEAN : /\ Synced(ok) \in Sync /\ Synced(ok).mode = "off" /\ Synced(ok).ok = ok
                          /\ Synced(ok).from = 0 /\ Synced(ok).at = 0 /\ Len(Synced(ok).prompt) = 0
  BY <1>4 DEF Synced, Sync, Modes
<1>6. ASSUME NEW rows, Finished(rows), rows = p
      PROVE  SessionTypeOK' /\ SyncPath' /\ ~Syncing' /\ config' = config /\ valid' /\ checkpoint' = p
  <2>1. /\ graph' = p /\ logits' = p /\ checkpoint' = p /\ valid' = TRUE /\ sync' = Synced(TRUE)
        /\ config' = config /\ progress' = progress
    BY <1>6 DEF Finished
  <2>2. SessionTypeOK'
    BY <1>1, <1>5, <2>1 DEF SessionTypeOK, Tokens, Rows
  <2>3. Exact' /\ sync'.mode = "off" /\ sync'.from = 0 /\ sync'.at = 0 /\ Len(sync'.prompt) = 0
    BY <1>5, <2>1 DEF Exact
  <2>4. SyncPath' /\ ~Syncing'
    BY <2>3 DEF SyncPath, Syncing
  <2> QED BY <2>1, <2>2, <2>4
<1>7. CASE WholePrefill
  BY <1>2, <1>3, <1>6, <1>7 DEF WholePrefill
<1>8. CASE ChunksDone
  <2>1. sync.mode = "chunks" /\ sync.at = Len(p) /\ Finished(graph)
    BY <1>8 DEF ChunksDone
  <2>2. Len(p) > 0
    BY <1>3 DEF Fits
  <2>3. graph = Upto(p, Len(p))
    BY <2>1, <2>2 DEF SessionInv, SyncPath
  <2>4. graph = p
    BY <1>1, <2>3, UptoIs
  <2> QED BY <1>2, <1>3, <1>6, <2>1, <2>4
<1>9. CASE EvalToken
  <2> DEFINE c == Append(checkpoint, p[Len(checkpoint) + 1])
  <2>1. sync.mode = "tokens" /\ Len(checkpoint) < Len(p)
    BY <1>9 DEF EvalToken
  <2>2. valid /\ graph = checkpoint /\ IsPrefix(checkpoint, p)
    BY <2>1 DEF SessionInv, SyncPath, Exact
  <2>3. c \in Seq(Token) /\ IsPrefix(c, p)
    BY <1>1, <2>1, <2>2, PrefixGrows
  <2> HIDE DEF c
  <2>4. /\ checkpoint' = c /\ graph' = c /\ logits' = c /\ sync' = sync
        /\ config' = config /\ progress' = progress /\ valid' = valid
    BY <1>9, <2>2 DEF EvalToken, c
  <2>5. SessionTypeOK'
    BY <1>1, <2>3, <2>4 DEF SessionTypeOK, Tokens, Rows
  <2>6. SyncPath'
    BY <1>2, <1>3, <2>1, <2>2, <2>3, <2>4 DEF SyncPath, SessionInv, Fits, Exact, Syncing
  <2> QED BY <1>2, <1>3, <2>4, <2>5, <2>6 DEF Syncing
<1>10. CASE TokensDone
  <2>1. /\ sync.mode = "tokens" /\ Len(checkpoint) = Len(p) /\ sync' = Synced(TRUE)
        /\ UNCHANGED <<config, checkpoint, valid, graph, logits, progress>>
    BY <1>10 DEF TokensDone
  <2>2. valid /\ IsPrefix(checkpoint, p) /\ Exact
    BY <2>1 DEF SessionInv, SyncPath
  <2>3. checkpoint = p
    BY <1>1, <2>1, <2>2, PrefixGrows
  <2>4. SessionTypeOK'
    BY <1>1, <1>5, <2>1 DEF SessionTypeOK, Tokens, Rows
  <2>5. Exact' /\ sync'.mode = "off" /\ sync'.from = 0 /\ sync'.at = 0 /\ Len(sync'.prompt) = 0
    BY <1>5, <2>1, <2>2 DEF Exact
  <2>6. SyncPath' /\ ~Syncing'
    BY <2>5 DEF SyncPath, Syncing
  <2> QED BY <1>2, <1>3, <2>1, <2>2, <2>3, <2>4, <2>6
<1>11. CASE SyncFails
  <2>1. /\ graph' = Mixed /\ logits' = Mixed /\ valid' = FALSE /\ sync' = Synced(FALSE)
        /\ UNCHANGED <<config, checkpoint, progress>>
    BY <1>11 DEF SyncFails, Broken
  <2>2. SessionTypeOK'
    BY <1>1, <1>5, <2>1 DEF SessionTypeOK, Tokens, Rows
  <2>3. Exact' /\ sync'.mode = "off" /\ sync'.from = 0 /\ sync'.at = 0 /\ Len(sync'.prompt) = 0
        /\ ~sync'.ok
    BY <1>5, <2>1 DEF Exact
  <2>4. SyncPath' /\ ~Syncing'
    BY <2>3 DEF SyncPath, Syncing
  <2> QED BY <1>2, <1>3, <2>1, <2>2, <2>3, <2>4
<1> QED BY <1>7, <1>8, <1>9, <1>10, <1>11


(* The session changes while no sync runs, or anew.                        *)
LEMMA Settles ==
    ASSUME config' \in Configs, checkpoint' \in Tokens, valid' \in BOOLEAN,
           graph' \in Rows, logits' \in Rows, progress' \in Nat \cup {-1}, Exact',
           \/ SessionInv /\ ~Syncing /\ sync' = sync
           \/ \E ok \in BOOLEAN : sync' = Synced(ok)
    PROVE  SessionInv' /\ ~Syncing'
<1>1. /\ sync' \in Sync /\ sync'.mode = "off"
      /\ sync'.from <= sync'.at /\ sync'.at <= Len(sync'.prompt)
  <2>1. CASE SessionInv /\ ~Syncing /\ sync' = sync
    BY <2>1 DEF SessionInv, SessionTypeOK, SyncPath, Syncing
  <2>2. ASSUME NEW ok \in BOOLEAN, sync' = Synced(ok)
        PROVE  /\ sync' \in Sync /\ sync'.mode = "off"
               /\ sync'.from <= sync'.at /\ sync'.at <= Len(sync'.prompt)
    <3>1. <<>> \in Tokens /\ Len(<<>>) = 0
      BY DEF Tokens
    <3> QED BY <2>2, <3>1 DEF Synced, Sync, Modes
  <2> QED BY <2>1, <2>2
<1>2. SessionTypeOK'
  BY <1>1 DEF SessionTypeOK
<1>3. SyncPath' /\ ~Syncing'
  BY <1>1 DEF SyncPath, Syncing
<1> QED BY <1>2, <1>3 DEF SessionInv

LEMMA SessionInit ==
    ASSUME InitSession
    PROVE  SessionInv /\ ~Syncing
<1>1. <<>> \in Tokens /\ Len(<<>>) = 0
  BY DEF Tokens
<1>2. /\ config \in Configs /\ checkpoint = <<>> /\ valid = FALSE /\ graph = Mixed
      /\ logits = Mixed /\ progress = -1 /\ sync = Synced(TRUE)
  BY DEF InitSession
<1>3. sync \in Sync /\ sync.mode = "off" /\ sync.from = 0 /\ sync.at = 0 /\ Len(sync.prompt) = 0
  BY <1>1, <1>2 DEF Synced, Sync, Modes
<1>4. SessionTypeOK
  BY <1>1, <1>2, <1>3 DEF SessionTypeOK, Rows
<1>5. SyncPath /\ ~Syncing
  <2>1. Exact
    BY <1>2 DEF Exact
  <2>2. sync.from <= sync.at /\ sync.at <= Len(sync.prompt)
    BY <1>3
  <2> QED BY <1>3, <2>1, <2>2 DEF SyncPath, Syncing
<1> QED BY <1>4, <1>5 DEF SessionInv
==============================================================================
