-------------------------- MODULE ToolMemoryProofs --------------------------
(***************************************************************************)
(* Proofs about the tool call memory and about the file that keeps it.     *)
(* LiveSessionProofs is extended for its lemmas about sequences and sums;  *)
(* nothing here depends on a session.                                      *)
(***************************************************************************)
EXTENDS ToolMemory, ToolMapFile, LiveSessionProofs

(* What it is for x to be in a list, and for a list not to repeat.         *)
LEMMA ListFacts ==
    ASSUME NEW S, NEW s \in Seq(S)
    PROVE  /\ \A x : x \in ToSet(s) <=> \E k \in 1..Len(s) : s[k] = x
           /\ IsInjective(s) <=> \A k, l \in 1..Len(s) : s[k] = s[l] => k = l
<1>1. DOMAIN s = 1..Len(s)
  OBVIOUS
<1> QED BY <1>1 DEF ToSet, IsInjective

(* Unlinking an element of a list without repetitions.                     *)
LEMMA UnlinkIs ==
    ASSUME NEW S, NEW s \in Seq(S), NEW x \in ToSet(s), IsInjective(s)
    PROVE  /\ Unlink(s, x) \in Seq(S)
           /\ Len(Unlink(s, x)) = Len(s) - 1
           /\ IsInjective(Unlink(s, x))
           /\ ToSet(Unlink(s, x)) = ToSet(s) \ {x}
           /\ \E p \in 1..Len(s) :
                 /\ s[p] = x
                 /\ \A k \in 1..(Len(s) - 1) :
                        Unlink(s, x)[k] = IF k < p THEN s[k] ELSE s[k + 1]
<1> DEFINE p == Position(s, x)
           a == SubSeq(s, 1, p - 1)
           b == SubSeq(s, p + 1, Len(s))
           u == Unlink(s, x)
<1>1. p \in 1..Len(s) /\ s[p] = x
  BY ListFacts DEF Position
<1> HIDE DEF p
<1>2. u = a \o b
  BY DEF Unlink, RemoveAt, p
<1>a. p \in Int /\ Len(s) \in Nat /\ 1 <= p /\ p <= Len(s)
  BY <1>1
<1>b. a \in Seq(S) /\ Len(a) = p - 1 /\ \A k \in 1..(p - 1) : a[k] = s[k]
  <2>1. p - 1 \in 1 - 1..Len(s)
    BY <1>a
  <2> QED BY <1>a, <2>1, SMTT(30)
<1>c. b \in Seq(S) /\ Len(b) = Len(s) - p /\ \A k \in 1..(Len(s) - p) : b[k] = s[k + p]
  BY <1>a, SMTT(30)
<1> HIDE DEF a, b, u
<1>3. u \in Seq(S) /\ Len(u) = Len(s) - 1
  BY <1>a, <1>b, <1>c, <1>2
<1>4. \A k \in 1..Len(u) : u[k] = IF k < p THEN s[k] ELSE s[k + 1]
  <2> SUFFICES ASSUME NEW k \in 1..Len(u) PROVE u[k] = IF k < p THEN s[k] ELSE s[k + 1]
    OBVIOUS
  <2>1. k \in 1..(Len(a) + Len(b)) /\ u[k] = IF k <= Len(a) THEN a[k] ELSE b[k - Len(a)]
    BY <1>a, <1>b, <1>c, <1>2, <1>3
  <2>2. CASE k < p
    BY <1>a, <1>b, <2>1, <2>2
  <2>3. CASE ~(k < p)
    <3>1. k - (p - 1) \in 1..(Len(s) - p) /\ (k - (p - 1)) + p = k + 1
      BY <1>a, <1>3, <2>3
    <3>2. u[k] = b[k - (p - 1)]
      BY <1>a, <1>b, <2>1, <2>3
    <3> QED BY <1>c, <3>1, <3>2, <2>3
  <2> QED BY <2>2, <2>3
<1>d. \A k, l \in 1..Len(s) : s[k] = s[l] => k = l
  BY ListFacts
<1>5. \A k, l \in 1..Len(u) : u[k] = u[l] => k = l
  BY <1>1, <1>3, <1>4, <1>d
<1>6. ASSUME NEW y PROVE (\E k \in 1..Len(u) : u[k] = y) <=> (\E k \in 1..Len(s) : s[k] = y) /\ y # x
  <2>1. ASSUME NEW k \in 1..Len(u) PROVE u[k] # x /\ \E l \in 1..Len(s) : s[l] = u[k]
    <3>1. k \in 1..Len(s) /\ k + 1 \in 1..Len(s) /\ k \in Int
      BY <1>3
    <3> QED BY <1>1, <1>4, <1>d, <3>1
  <2>2. ASSUME NEW l \in 1..Len(s), s[l] # x PROVE \E k \in 1..Len(u) : u[k] = s[l]
    <3>1. CASE l < p
      BY <1>1, <1>3, <1>4, <3>1
    <3>2. CASE l > p
      <4>1. l - 1 \in 1..Len(u) /\ ~(l - 1 < p) /\ (l - 1) + 1 = l
        BY <1>1, <1>3, <3>2
      <4> QED BY <1>4, <4>1
    <3> QED BY <1>1, <2>2, <3>1, <3>2
  <2> QED BY <2>1, <2>2
<1>7. IsInjective(u)
  BY <1>3, <1>5, ListFacts
<1>8. \A y : y \in ToSet(u) <=> y \in ToSet(s) /\ y # x
  <2>1. \A y : y \in ToSet(u) <=> \E k \in 1..Len(u) : u[k] = y
    BY <1>3, ListFacts
  <2>2. \A y : y \in ToSet(s) <=> \E k \in 1..Len(s) : s[k] = y
    BY ListFacts
  <2> QED BY <1>6, <2>1, <2>2
<1> QED BY <1>1, <1>3, <1>4, <1>7, <1>8 DEF u

(* Putting a new element at the head of a list without repetitions.        *)
LEMMA HeadPut ==
    ASSUME NEW S, NEW s \in Seq(S), NEW x \in S, x \notin ToSet(s), IsInjective(s)
    PROVE  /\ <<x>> \o s \in Seq(S)
           /\ Len(<<x>> \o s) = Len(s) + 1
           /\ IsInjective(<<x>> \o s)
           /\ ToSet(<<x>> \o s) = ToSet(s) \cup {x}
<1> DEFINE t == <<x>> \o s
<1>1. t \in Seq(S) /\ Len(t) = Len(s) + 1 /\ t[1] = x /\ Len(s) \in Nat
      /\ \A k \in 1..Len(s) : t[k + 1] = s[k]
  OBVIOUS
<1> HIDE DEF t
<1>2. \A k \in 1..Len(t) : k = 1 \/ (k - 1 \in 1..Len(s) /\ t[k] = s[k - 1])
  <2> SUFFICES ASSUME NEW k \in 1..Len(t), k # 1 PROVE k - 1 \in 1..Len(s) /\ t[k] = s[k - 1]
    OBVIOUS
  <2>1. k - 1 \in 1..Len(s) /\ (k - 1) + 1 = k
    BY <1>1
  <2> QED BY <1>1, <2>1
<1>d. /\ \A k, l \in 1..Len(s) : s[k] = s[l] => k = l
      /\ \A k \in 1..Len(s) : s[k] # x
  BY ListFacts
<1>3. \A k, l \in 1..Len(t) : t[k] = t[l] => k = l
  <2> SUFFICES ASSUME NEW k \in 1..Len(t), NEW l \in 1..Len(t), t[k] = t[l] PROVE k = l
    OBVIOUS
  <2>0. k \in Int /\ l \in Int
    BY <1>1
  <2>1. CASE k = 1 /\ l = 1
    BY <2>1
  <2>2. CASE k # 1 /\ l # 1
    <3>1. k - 1 = l - 1
      BY <1>2, <1>d, <2>2
    <3> QED BY <2>0, <3>1
  <2>3. CASE k = 1 /\ l # 1
    <3>1. l - 1 \in 1..Len(s) /\ t[l] = s[l - 1] /\ t[k] = x
      BY <1>1, <1>2, <2>3
    <3> QED BY <1>d, <3>1
  <2>4. CASE k # 1 /\ l = 1
    <3>1. k - 1 \in 1..Len(s) /\ t[k] = s[k - 1] /\ t[l] = x
      BY <1>1, <1>2, <2>4
    <3> QED BY <1>d, <3>1
  <2> QED BY <2>1, <2>2, <2>3, <2>4
<1>4. ASSUME NEW y PROVE (\E k \in 1..Len(t) : t[k] = y) <=> (\E k \in 1..Len(s) : s[k] = y) \/ y = x
  <2>1. \A k \in 1..Len(t) : t[k] = x \/ \E l \in 1..Len(s) : s[l] = t[k]
    BY <1>1, <1>2
  <2>2. \A l \in 1..Len(s) : l + 1 \in 1..Len(t) /\ t[l + 1] = s[l]
    BY <1>1
  <2>3. 1 \in 1..Len(t) /\ t[1] = x
    BY <1>1
  <2> QED BY <2>1, <2>2, <2>3
<1>7. IsInjective(t)
  BY <1>1, <1>3, ListFacts
<1>8. \A y : y \in ToSet(t) <=> y \in ToSet(s) \/ y = x
  <2>1. \A y : y \in ToSet(t) <=> \E k \in 1..Len(t) : t[k] = y
    BY <1>1, ListFacts
  <2>2. \A y : y \in ToSet(s) <=> \E k \in 1..Len(s) : s[k] = y
    BY ListFacts
  <2> QED BY <1>4, <2>1, <2>2
<1> QED BY <1>1, <1>7, <1>8 DEF t

(* Moving an element to the head, or putting it there.                     *)
LEMMA ToHeadIs ==
    ASSUME NEW S, NEW s \in Seq(S), NEW x \in S, IsInjective(s)
    PROVE  /\ ToHead(s, x) \in Seq(S)
           /\ IsInjective(ToHead(s, x))
           /\ ToSet(ToHead(s, x)) = ToSet(s) \cup {x}
           /\ Len(ToHead(s, x)) = IF x \in ToSet(s) THEN Len(s) ELSE Len(s) + 1
<1> DEFINE u == IF x \in ToSet(s) THEN Unlink(s, x) ELSE s
<1>1. /\ u \in Seq(S) /\ IsInjective(u) /\ ToSet(u) = ToSet(s) \ {x}
      /\ Len(u) = IF x \in ToSet(s) THEN Len(s) - 1 ELSE Len(s)
  BY UnlinkIs
<1>2. ToHead(s, x) = <<x>> \o u
  BY DEF ToHead
<1> HIDE DEF u
<1>3. x \notin ToSet(u)
  BY <1>1
<1>4. /\ <<x>> \o u \in Seq(S) /\ Len(<<x>> \o u) = Len(u) + 1 /\ IsInjective(<<x>> \o u)
      /\ ToSet(<<x>> \o u) = ToSet(u) \cup {x}
  BY <1>1, <1>3, HeadPut
<1>5. Len(s) \in Nat /\ Len(u) \in Nat
  BY <1>1
<1> QED BY <1>1, <1>2, <1>4, <1>5

(* The elements of such a list, by position.                               *)
LEMMA ToHeadAt ==
    ASSUME NEW S, NEW s \in Seq(S), NEW x \in S, IsInjective(s)
    PROVE  \E p \in 1..(Len(s) + 1) :
             /\ p \in 1..Len(s) => s[p] = x
             /\ x \in ToSet(s) => p \in 1..Len(s)
             /\ ToHead(s, x)[1] = x
             /\ \A k \in 1..(Len(ToHead(s, x)) - 1) :
                    ToHead(s, x)[k + 1] = IF k < p THEN s[k] ELSE s[k + 1]
<1>1. CASE x \in ToSet(s)
  <2> DEFINE u == Unlink(s, x)
             t == <<x>> \o u
  <2>1. PICK p \in 1..Len(s) : /\ s[p] = x
                               /\ \A k \in 1..(Len(s) - 1) : u[k] = IF k < p THEN s[k] ELSE s[k + 1]
    BY <1>1, UnlinkIs
  <2>2. u \in Seq(S) /\ Len(u) = Len(s) - 1 /\ Len(s) \in Nat
    BY <1>1, UnlinkIs
  <2>3. ToHead(s, x) = t
    BY <1>1 DEF ToHead
  <2> HIDE DEF u
  <2>4. t[1] = x /\ Len(t) = Len(s) /\ \A k \in 1..Len(u) : t[k + 1] = u[k]
    BY <2>2
  <2> HIDE DEF t
  <2>5. p \in 1..(Len(s) + 1)
    BY <2>2
  <2>6. \A k \in 1..(Len(t) - 1) : t[k + 1] = IF k < p THEN s[k] ELSE s[k + 1]
    BY <2>1, <2>2, <2>4
  <2> QED BY <2>1, <2>3, <2>4, <2>5, <2>6
<1>2. CASE x \notin ToSet(s)
  <2> DEFINE t == <<x>> \o s
  <2>1. ToHead(s, x) = t
    BY <1>2 DEF ToHead
  <2>2. t[1] = x /\ Len(t) = Len(s) + 1 /\ Len(s) \in Nat /\ \A k \in 1..Len(s) : t[k + 1] = s[k]
    OBVIOUS
  <2> HIDE DEF t
  <2>3. \A k \in 1..(Len(t) - 1) : t[k + 1] = IF k < Len(s) + 1 THEN s[k] ELSE s[k + 1]
    BY <2>2
  <2>4. Len(s) + 1 \in 1..(Len(s) + 1) /\ Len(s) + 1 \notin 1..Len(s)
    BY <2>2
  <2> QED BY <1>2, <2>1, <2>2, <2>3, <2>4
<1> QED BY <1>1, <1>2

(* Dropping the last of a prefix leaves a prefix.                          *)
LEMMA PrefixLosesLast ==
    ASSUME NEW S, NEW s \in Seq(S), NEW t \in Seq(S), NEW x \in ToSet(s),
           s # <<>>, x = s[Len(s)], IsInjective(s), IsPrefix(s, t)
    PROVE  IsPrefix(Unlink(s, x), t)
<1> DEFINE u == Unlink(s, x)
<1>1. /\ u \in Seq(S) /\ Len(u) = Len(s) - 1
      /\ \E p \in 1..Len(s) : /\ s[p] = x
                              /\ \A k \in 1..(Len(s) - 1) : u[k] = IF k < p THEN s[k] ELSE s[k + 1]
  BY UnlinkIs
<1> HIDE DEF u
<1>2. PICK p \in 1..Len(s) : /\ s[p] = x
                             /\ \A k \in 1..(Len(s) - 1) : u[k] = IF k < p THEN s[k] ELSE s[k + 1]
  BY <1>1
<1>3. Len(s) \in 1..Len(s) /\ Len(s) \in Nat
  OBVIOUS
<1>4. \A k, l \in 1..Len(s) : s[k] = s[l] => k = l
  BY ListFacts
<1>5. p = Len(s)
  BY <1>2, <1>3, <1>4
<1>6. Len(s) <= Len(t) /\ Len(t) \in Nat /\ \A k \in 1..Len(s) : s[k] = t[k]
  BY PrefixIs
<1>7. Len(u) <= Len(t) /\ \A k \in 1..Len(u) : u[k] = t[k]
  BY <1>1, <1>2, <1>3, <1>5, <1>6
<1>8. IsPrefix(u, t)
  BY <1>1, <1>7, PrefixIs
<1> QED BY <1>8 DEF u

(* The list of the kept ids and the list of all used ids move in step.     *)
LEMMA PrefixMoves ==
    ASSUME NEW S, NEW s \in Seq(S), NEW t \in Seq(S), NEW x \in S,
           IsInjective(s), IsInjective(t), IsPrefix(s, t)
    PROVE  IsPrefix(ToHead(s, x), ToHead(t, x))
<1> DEFINE a == ToHead(s, x)
           b == ToHead(t, x)
<1>1. /\ a \in Seq(S) /\ Len(a) = IF x \in ToSet(s) THEN Len(s) ELSE Len(s) + 1
      /\ b \in Seq(S) /\ Len(b) = IF x \in ToSet(t) THEN Len(t) ELSE Len(t) + 1
      /\ Len(s) \in Nat /\ Len(t) \in Nat
  BY ToHeadIs
<1>2. PICK p \in 1..(Len(s) + 1) :
         /\ p \in 1..Len(s) => s[p] = x
         /\ x \in ToSet(s) => p \in 1..Len(s)
         /\ a[1] = x
         /\ \A k \in 1..(Len(a) - 1) : a[k + 1] = IF k < p THEN s[k] ELSE s[k + 1]
  <2>1. \E p \in 1..(Len(s) + 1) :
             /\ p \in 1..Len(s) => s[p] = x
             /\ x \in ToSet(s) => p \in 1..Len(s)
             /\ ToHead(s, x)[1] = x
             /\ \A k \in 1..(Len(ToHead(s, x)) - 1) :
                    ToHead(s, x)[k + 1] = IF k < p THEN s[k] ELSE s[k + 1]
    BY ONLY s \in Seq(S), x \in S, IsInjective(s), ToHeadAt
  <2> QED BY <2>1
<1>3. PICK q \in 1..(Len(t) + 1) :
         /\ q \in 1..Len(t) => t[q] = x
         /\ x \in ToSet(t) => q \in 1..Len(t)
         /\ b[1] = x
         /\ \A k \in 1..(Len(b) - 1) : b[k + 1] = IF k < q THEN t[k] ELSE t[k + 1]
  <2>1. \E r \in 1..(Len(t) + 1) :
             /\ r \in 1..Len(t) => t[r] = x
             /\ x \in ToSet(t) => r \in 1..Len(t)
             /\ ToHead(t, x)[1] = x
             /\ \A k \in 1..(Len(ToHead(t, x)) - 1) :
                    ToHead(t, x)[k + 1] = IF k < r THEN t[k] ELSE t[k + 1]
    BY ONLY t \in Seq(S), x \in S, IsInjective(t), ToHeadAt
  <2> QED BY <2>1
<1> HIDE DEF a, b
<1>4. Len(s) <= Len(t) /\ \A k \in 1..Len(s) : s[k] = t[k]
  BY PrefixIs
<1>5. /\ x \in ToSet(s) <=> \E k \in 1..Len(s) : s[k] = x
      /\ x \in ToSet(t) <=> \E k \in 1..Len(t) : t[k] = x
      /\ \A k, l \in 1..Len(t) : t[k] = t[l] => k = l
  BY ListFacts
<1>6. Len(a) <= Len(b)
  <2>1. CASE x \in ToSet(s)
    BY <1>1, <1>4, <2>1
  <2>2. CASE x \notin ToSet(s) /\ x \notin ToSet(t)
    BY <1>1, <1>4, <2>2
  <2>3. CASE x \notin ToSet(s) /\ x \in ToSet(t)
    <3>1. q \in 1..Len(t) /\ t[q] = x
      BY <1>3, <2>3
    <3>2. ~(q \in 1..Len(s))
      BY <1>4, <1>5, <2>3, <3>1
    <3> QED BY <1>1, <1>4, <2>3, <3>1, <3>2
  <2> QED BY <2>1, <2>2, <2>3
<1>7. ASSUME NEW k \in 1..(Len(a) - 1) PROVE a[k + 1] = b[k + 1]
  <2>1. k \in 1..(Len(b) - 1) /\ k \in Nat
    BY <1>1, <1>6
  <2>2. CASE x \in ToSet(s)
    <3>1. p \in 1..Len(s) /\ p \in 1..Len(t) /\ t[p] = x /\ x \in ToSet(t)
      BY <1>1, <1>2, <1>4, <1>5, <2>2
    <3>2. q = p
      BY <1>3, <1>5, <3>1
    <3>3. k \in 1..Len(s) /\ k + 1 \in 1..Len(s)
      BY <1>1, <2>1, <2>2
    <3> QED BY <1>2, <1>3, <1>4, <2>1, <3>2, <3>3
  <2>3. CASE x \notin ToSet(s)
    <3>1. k \in 1..Len(s)
      BY <1>1, <2>1, <2>3
    <3>2. k < p
      BY <1>1, <1>2, <1>5, <2>3, <3>1
    <3>3. k < q
      <4>1. ~(q \in 1..Len(s))
        BY <1>3, <1>4, <1>5, <1>1, <2>3
      <4> QED BY <1>1, <1>3, <3>1, <4>1
    <3> QED BY <1>2, <1>3, <1>4, <2>1, <3>1, <3>2, <3>3
  <2> QED BY <2>2, <2>3
<1>8. ASSUME NEW k \in 1..Len(a) PROVE a[k] = b[k]
  <2>1. CASE k = 1
    BY <1>2, <1>3, <2>1
  <2>2. CASE k # 1
    <3>1. k - 1 \in 1..(Len(a) - 1) /\ (k - 1) + 1 = k
      BY <1>1, <2>2
    <3> QED BY <1>7, <3>1
  <2> QED BY <2>1, <2>2
<1> QED BY <1>1, <1>6, <1>8, PrefixIs DEF a, b

-----------------------------------------------------------------------------
(* Touching a known entry moves it in the list and changes nothing else.   *)
LEMMA TouchKeeps ==
    ASSUME NEW m \in Memory, Agree(m), NEW i \in Id, m.block[i] # None
    PROVE  /\ Touch(m, i) \in Memory
           /\ Agree(Touch(m, i))
           /\ Touch(m, i).block = m.block
           /\ Touch(m, i).lru = ToHead(m.lru, i)
<1> DEFINE s == m.lru
           u == Unlink(s, i)
           t == <<i>> \o u
<1>1. s \in Seq(Id) /\ i \in ToSet(s) /\ IsInjective(s)
  BY DEF Memory, Agree
<1>2. u \in Seq(Id) /\ Len(u) = Len(s) - 1 /\ IsInjective(u) /\ ToSet(u) = ToSet(s) \ {i}
  <2> HIDE DEF s
  <2> QED BY <1>1, UnlinkIs
<1>3. Touch(m, i) = [m EXCEPT !.lru = t]
  BY <1>1 DEF Touch, ToHead
<1>4. t \in Seq(Id) /\ Len(t) = Len(s) /\ IsInjective(t) /\ ToSet(t) = ToSet(s)
  <2> HIDE DEF s, u
  <2>1. i \notin ToSet(u)
    BY <1>2
  <2>2. t \in Seq(Id) /\ Len(t) = Len(u) + 1 /\ IsInjective(t) /\ ToSet(t) = ToSet(u) \cup {i}
    BY <1>2, <2>1, HeadPut
  <2> HIDE DEF t
  <2>3. Len(s) \in Nat
    BY <1>1
  <2> QED BY <1>1, <1>2, <2>2, <2>3
<1> HIDE DEF t
<1>5. [m EXCEPT !.lru = t] \in Memory
  BY <1>4 DEF Memory
<1>6. Agree([m EXCEPT !.lru = t])
  BY <1>4 DEF Memory, Agree
<1>7. t = ToHead(m.lru, i)
  BY <1>1 DEF ToHead, t
<1> QED BY <1>3, <1>5, <1>6, <1>7 DEF Memory

(* The ids of a block are finitely many.                                   *)
LEMMA UsersFinite ==
    ASSUME NEW m \in Memory, NEW b \in Block
    PROVE  IsFiniteSet(m.users[b])
<1>1. m.users[b] \subseteq Id
  BY DEF Memory
<1> QED BY <1>1, BlockAssumption, FS_Subset

(* Removing a known entry: it leaves every structure, and its block leaves *)
(* the block map with the last of its ids.                                 *)
LEMMA RemoveKeeps ==
    ASSUME NEW m \in Memory, Agree(m), NEW i \in Id, m.block[i] # None
    PROVE  /\ RemoveEntry(m, i) \in Memory
           /\ Agree(RemoveEntry(m, i))
           /\ RemoveEntry(m, i).block = [m.block EXCEPT ![i] = None]
           /\ RemoveEntry(m, i).lru = Unlink(m.lru, i)
<1> DEFINE b == m.block[i]
           r == RemoveEntry(m, i)
           u == Unlink(m.lru, i)
           last == m.refs[b] = 1
<1>0. b \in Block /\ i \in m.users[b] /\ None \notin Block
  BY BlockAssumption DEF Memory, Agree
<1>1. m.lru \in Seq(Id) /\ i \in ToSet(m.lru) /\ IsInjective(m.lru)
  BY DEF Memory, Agree
<1>2. u \in Seq(Id) /\ Len(u) = Len(m.lru) - 1 /\ IsInjective(u) /\ ToSet(u) = ToSet(m.lru) \ {i}
  BY <1>1, UnlinkIs
<1>3. /\ m.refs[b] = Cardinality(m.users[b])
      /\ Cardinality(m.users[b] \ {i}) = m.refs[b] - 1 /\ m.refs[b] - 1 \in Nat
      /\ last <=> m.users[b] \ {i} = {}
  <2>1. IsFiniteSet(m.users[b]) /\ m.refs[b] = Cardinality(m.users[b])
    BY <1>0, UsersFinite DEF Agree
  <2>2. Cardinality(m.users[b] \ {i}) = Cardinality(m.users[b]) - 1 /\ IsFiniteSet(m.users[b] \ {i})
    BY <1>0, <2>1, FS_RemoveElement
  <2>3. Cardinality(m.users[b] \ {i}) \in Nat
    BY <2>2, FS_CardinalityType
  <2>4. Cardinality(m.users[b] \ {i}) = 0 <=> m.users[b] \ {i} = {}
    BY <2>2, FS_EmptySet
  <2>5. m.refs[b] \in Nat
    BY <1>0 DEF Memory
  <2> QED BY <2>1, <2>2, <2>3, <2>4, <2>5
<1>4. /\ r.lru = u /\ r.block = [m.block EXCEPT ![i] = None]
      /\ r.users = [m.users EXCEPT ![b] = @ \ {i}]
      /\ r.refs = [m.refs EXCEPT ![b] = @ - 1]
      /\ r.blocks = (IF last THEN m.blocks \ {b} ELSE m.blocks)
      /\ r.entries = Minus(m.entries, 1)
      /\ r.bytes = (IF last THEN Minus(Minus(m.bytes, EntryBytes), BlockBytes[b])
                            ELSE Minus(m.bytes, EntryBytes))
      /\ r = [lru |-> r.lru, block |-> r.block, users |-> r.users,
              refs |-> r.refs, blocks |-> r.blocks, entries |-> r.entries, bytes |-> r.bytes]
  <2> HIDE DEF u
  <2> QED BY DEF RemoveEntry, u
<1>5. r \in Memory
  <2>1. r.bytes \in Nat /\ r.entries \in Nat
    BY <1>0, <1>4, SizeAssumption DEF Memory, Minus
  <2>2. r.refs \in [Block -> Nat] /\ r.users \in [Block -> SUBSET Id]
    BY <1>0, <1>3, <1>4 DEF Memory
  <2>3. r.lru \in Seq(Id) /\ r.block \in [Id -> Block \cup {None}]
        /\ r.blocks \in SUBSET Block
    BY <1>0, <1>2, <1>4 DEF Memory
  <2> HIDE DEF r
  <2> QED BY <1>4, <2>1, <2>2, <2>3 DEF Memory
<1> HIDE DEF r, u, last
<1>6. IsInjective(r.lru) /\ r.entries = Len(r.lru)
  BY <1>1, <1>2, <1>4 DEF Memory, Agree, Minus
<1>7. ToSet(r.lru) = {j \in Id : r.block[j] # None}
  BY <1>0, <1>2, <1>4 DEF Memory, Agree
<1>8. ASSUME NEW d \in Block
      PROVE  /\ r.users[d] = {j \in Id : r.block[j] = d}
             /\ r.refs[d] = Cardinality(r.users[d])
             /\ d \in r.blocks <=> r.users[d] # {}
  <2>0. /\ m.users[d] = {j \in Id : m.block[j] = d}
        /\ m.refs[d] = Cardinality(m.users[d])
        /\ d \in m.blocks <=> m.users[d] # {}
    BY DEF Agree
  <2>1. CASE d = b
    <3>1. r.users[d] = m.users[d] \ {i}
      BY <1>0, <1>4, <2>1 DEF Memory
    <3>2. r.users[d] = {j \in Id : r.block[j] = d}
      BY <1>0, <1>4, <2>0, <3>1 DEF Memory
    <3>3. r.refs[d] = m.refs[d] - 1
      BY <1>0, <1>4, <2>1 DEF Memory
    <3>4. d \in r.blocks <=> ~last
      BY <1>0, <1>4, <2>0, <2>1
    <3> QED BY <1>3, <2>1, <3>1, <3>2, <3>3, <3>4
  <2>2. CASE d # b
    <3>1. r.users[d] = m.users[d] /\ r.refs[d] = m.refs[d] /\ (d \in r.blocks <=> d \in m.blocks)
      BY <1>0, <1>4, <2>2 DEF Memory
    <3>2. m.users[d] = {j \in Id : r.block[j] = d}
      BY <1>0, <1>4, <2>0, <2>2 DEF Memory
    <3> QED BY <2>0, <3>1, <3>2
  <2> QED BY <2>1, <2>2
<1>9. Agree(r)
  BY <1>6, <1>7, <1>8 DEF Agree
<1> QED BY <1>4, <1>5, <1>9 DEF r, u

(* Inserting an unknown id at the head of the list.                        *)
LEMMA InsertKeeps ==
    ASSUME NEW m \in Memory, Agree(m), NEW i \in Id, m.block[i] = None,
           NEW b \in Block
    PROVE  /\ Insert(m, i, b) \in Memory
           /\ Agree(Insert(m, i, b))
           /\ Insert(m, i, b).block = [m.block EXCEPT ![i] = b]
           /\ Insert(m, i, b).lru = <<i>> \o m.lru
<1> DEFINE r == Insert(m, i, b)
           t == <<i>> \o m.lru
<1>0. None \notin Block
  BY BlockAssumption
<1>1. m.lru \in Seq(Id) /\ i \notin ToSet(m.lru) /\ IsInjective(m.lru)
  BY DEF Memory, Agree
<1>2. t \in Seq(Id) /\ Len(t) = Len(m.lru) + 1 /\ IsInjective(t) /\ ToSet(t) = ToSet(m.lru) \cup {i}
  BY <1>1, HeadPut
<1>3. Cardinality(m.users[b] \cup {i}) = m.refs[b] + 1
  <2>1. IsFiniteSet(m.users[b]) /\ m.refs[b] = Cardinality(m.users[b]) /\ i \notin m.users[b]
    BY <1>0, UsersFinite DEF Agree
  <2> QED BY <2>1, FS_AddElement
<1>4. /\ r.lru = t /\ r.block = [m.block EXCEPT ![i] = b]
      /\ r.users = [m.users EXCEPT ![b] = @ \cup {i}]
      /\ r.refs = [m.refs EXCEPT ![b] = @ + 1]
      /\ r.blocks = m.blocks \cup {b}
      /\ r.entries = m.entries + 1
      /\ r.bytes = (m.bytes + EntryBytes) + (IF b \in m.blocks THEN 0 ELSE BlockBytes[b])
      /\ r = [lru |-> r.lru, block |-> r.block, users |-> r.users,
              refs |-> r.refs, blocks |-> r.blocks, entries |-> r.entries, bytes |-> r.bytes]
  <2> HIDE DEF t
  <2> QED BY DEF Insert, t
<1> HIDE DEF r, t
<1>5. r \in Memory
  <2>1. r.bytes \in Nat /\ r.entries \in Nat
    BY <1>4, SizeAssumption DEF Memory
  <2>2. r.refs \in [Block -> Nat] /\ r.users \in [Block -> SUBSET Id]
    BY <1>4 DEF Memory
  <2>3. r.lru \in Seq(Id) /\ r.block \in [Id -> Block \cup {None}]
        /\ r.blocks \in SUBSET Block
    BY <1>2, <1>4 DEF Memory
  <2> QED BY <1>4, <2>1, <2>2, <2>3 DEF Memory
<1>6. IsInjective(r.lru) /\ r.entries = Len(r.lru)
  BY <1>1, <1>2, <1>4 DEF Memory, Agree
<1>7. ToSet(r.lru) = {j \in Id : r.block[j] # None}
  BY <1>0, <1>2, <1>4 DEF Memory, Agree
<1>8. ASSUME NEW d \in Block
      PROVE  /\ r.users[d] = {j \in Id : r.block[j] = d}
             /\ r.refs[d] = Cardinality(r.users[d])
             /\ d \in r.blocks <=> r.users[d] # {}
  <2>0. /\ m.users[d] = {j \in Id : m.block[j] = d}
        /\ m.refs[d] = Cardinality(m.users[d])
        /\ d \in m.blocks <=> m.users[d] # {}
    BY DEF Agree
  <2>1. CASE d = b
    <3>1. r.users[d] = m.users[d] \cup {i}
      BY <1>4, <2>1 DEF Memory
    <3>2. r.users[d] = {j \in Id : r.block[j] = d}
      BY <1>4, <2>0, <2>1, <3>1 DEF Memory
    <3>3. r.refs[d] = m.refs[d] + 1 /\ d \in r.blocks
      BY <1>4, <2>1 DEF Memory
    <3> QED BY <1>3, <2>1, <3>1, <3>2, <3>3
  <2>2. CASE d # b
    <3>1. r.users[d] = m.users[d] /\ r.refs[d] = m.refs[d] /\ (d \in r.blocks <=> d \in m.blocks)
      BY <1>4, <2>2 DEF Memory
    <3>2. m.users[d] = {j \in Id : r.block[j] = d}
      BY <1>0, <1>4, <2>0, <2>2 DEF Memory
    <3> QED BY <2>0, <3>1, <3>2
  <2> QED BY <2>1, <2>2
<1>9. Agree(r)
  BY <1>6, <1>7, <1>8 DEF Agree
<1> QED BY <1>4, <1>5, <1>9 DEF r, t

(* A put, whichever of its three cases it takes, maps i to b and moves it  *)
(* to the head of the list.                                                *)
Maps(m, i, b, n) == n.block = [m.block EXCEPT ![i] = b]

LEMMA PutKeeps ==
    ASSUME NEW m \in Memory, Agree(m), NEW i \in Id, NEW b \in Block
    PROVE  /\ Put(m, i, b) \in Memory
           /\ Agree(Put(m, i, b))
           /\ Maps(m, i, b, Put(m, i, b))
           /\ Put(m, i, b).lru = ToHead(m.lru, i)
<1>0. None \notin Block /\ m.block \in [Id -> Block \cup {None}]
  BY BlockAssumption DEF Memory
<1>1. CASE m.block[i] = b
  <2>1. Put(m, i, b) = Touch(m, i)
    BY <1>1 DEF Put
  <2>2. /\ Touch(m, i) \in Memory /\ Agree(Touch(m, i))
        /\ Touch(m, i).block = m.block /\ Touch(m, i).lru = ToHead(m.lru, i)
    BY <1>0, <1>1, TouchKeeps
  <2>3. [m.block EXCEPT ![i] = b] = m.block
    BY <1>0, <1>1
  <2> QED BY <2>1, <2>2, <2>3 DEF Maps
<1>2. CASE m.block[i] = None
  <2>1. Put(m, i, b) = Insert(m, i, b)
    BY <1>0, <1>2 DEF Put
  <2>2. ToHead(m.lru, i) = <<i>> \o m.lru
    BY <1>2 DEF ToHead, Agree
  <2>3. /\ Insert(m, i, b) \in Memory /\ Agree(Insert(m, i, b))
        /\ Insert(m, i, b).block = [m.block EXCEPT ![i] = b]
        /\ Insert(m, i, b).lru = <<i>> \o m.lru
    BY <1>2, InsertKeeps
  <2> QED BY <2>1, <2>2, <2>3 DEF Maps
<1>3. CASE m.block[i] # b /\ m.block[i] # None
  <2> DEFINE n == RemoveEntry(m, i)
  <2>1. n \in Memory /\ Agree(n) /\ n.block = [m.block EXCEPT ![i] = None]
        /\ n.lru = Unlink(m.lru, i)
    BY <1>3, RemoveKeeps
  <2>2. Put(m, i, b) = Insert(n, i, b)
    BY <1>3 DEF Put
  <2> HIDE DEF n
  <2>3. n.block[i] = None
    BY <1>0, <2>1
  <2>4. /\ Insert(n, i, b) \in Memory /\ Agree(Insert(n, i, b))
        /\ Insert(n, i, b).block = [n.block EXCEPT ![i] = b]
        /\ Insert(n, i, b).lru = <<i>> \o n.lru
    <3>1. ASSUME NEW q \in Memory, Agree(q), q.block[i] = None
          PROVE  /\ Insert(q, i, b) \in Memory /\ Agree(Insert(q, i, b))
                 /\ Insert(q, i, b).block = [q.block EXCEPT ![i] = b]
                 /\ Insert(q, i, b).lru = <<i>> \o q.lru
      BY <3>1, InsertKeeps
    <3> QED BY <2>1, <2>3, <3>1
  <2>5. [n.block EXCEPT ![i] = b] = [m.block EXCEPT ![i] = b]
    BY <1>0, <2>1
  <2>6. ToHead(m.lru, i) = <<i>> \o n.lru
    BY <1>0, <1>3, <2>1 DEF ToHead, Agree
  <2> QED BY <2>2, <2>4, <2>5, <2>6 DEF Maps
<1> QED BY <1>1, <1>2, <1>3

-----------------------------------------------------------------------------
(* The two tuples of variables that actions leave alone together.          *)
USE DEF parse, past

(* The inductive invariant.  Genuine: every mapping, in memory, on disk or *)
(* being put, is the one the id was issued for, or the id has gone astray. *)
(* AttachSound: what the thread inside attach has found out about the      *)
(* calls it has looked up.                                                 *)
Good(i, b) == sampled[i] = b \/ i \in astray

Genuine ==
    /\ \A i \in Id : mem.block[i] = None \/ Good(i, mem.block[i])
    /\ \A i \in Id, b \in Block : <<i, b>> \in disk => Good(i, b)
    /\ op.kind = "put" => /\ op.block \in Block
                          /\ \A k \in 1..Len(op.todo) : Good(op.todo[k], op.block)

AttachSound ==
    /\ op.kind = "none" <=> op.who = None
    /\ \A c \in Client : pc[c] = "attach" <=> (op.kind = "attach" /\ op.who = c)
    /\ op.kind = "attach" =>
          /\ op.who \in Client
          /\ Len(op.todo) <= Len(msg[op.who])
          /\ \A k \in 1..Len(op.todo) :
                 op.todo[k] = msg[op.who][(Len(msg[op.who]) - Len(op.todo)) + k]
          /\ op.exact => \A k \in 1..(Len(msg[op.who]) - Len(op.todo)) :
                 op.block # None /\ Good(msg[op.who][k], op.block)

(* Recent: the history of uses has no repetitions and extends the list.    *)
Recent == IsInjective(recency) /\ KeepsMostRecent

IInv == TypeOK /\ IndexesAgree /\ Genuine /\ AttachSound /\ ReplayIsVerbatim /\ Recent

(* The empty memory is consistent.                                         *)
LEMMA EmptyMemory == NoMem \in Memory /\ Agree(NoMem)
<1>1. NoMem \in Memory
  <2>1. <<>> \in Seq(Id)
    OBVIOUS
  <2> QED BY <2>1 DEF NoMem, Memory
<1>2. IsInjective(NoMem.lru) /\ NoMem.lru = <<>>
  BY DEF NoMem, IsInjective
<1>3. ToSet(NoMem.lru) = {}
  BY <1>2 DEF ToSet
<1>4. \A b \in Block : /\ NoMem.users[b] = {} /\ NoMem.refs[b] = 0 /\ b \notin NoMem.blocks
                       /\ {i \in Id : NoMem.block[i] = b} = {}
  BY BlockAssumption DEF NoMem
<1>5. {i \in Id : NoMem.block[i] # None} = {} /\ NoMem.entries = 0
  BY DEF NoMem
<1>6. Cardinality({}) = 0
  BY FS_EmptySet
<1> QED BY <1>1, <1>2, <1>3, <1>4, <1>5, <1>6 DEF Agree

-----------------------------------------------------------------------------
(* Every action keeps the inductive invariant.                             *)

(* Fresh ids get their block; no mapping of an older id changes.           *)
LEMMA RememberKeeps ==
    ASSUME IInv, NEW ids \in Calls, NEW b \in Block, Remember(ids, b)
    PROVE  IInv'
<1>1. TypeOK'
  <2>1. ids \in Seq(Id)
    BY DEF Calls
  <2>2. op' \in [who : Thread \cup {None}, kind : {"none", "put", "attach"}, todo : Seq(Id),
                 block : Block \cup {None}, exact : BOOLEAN]
    BY <2>1 DEF Remember, BeginPut, Free, Thread
  <2>3. sampled' \in [Id -> Block \cup {None}]
    BY DEF Remember, IInv, TypeOK
  <2> QED BY <2>2, <2>3 DEF Remember, IInv, TypeOK
<1>2. IndexesAgree'
  BY DEF IInv, IndexesAgree, Remember
<1>a. \A i \in Id, d \in Block : Good(i, d) => Good(i, d)'
  <2>1. \A i \in Id : sampled[i] # None => sampled'[i] = sampled[i]
    BY DEF Remember
  <2>2. astray' = astray
    BY DEF Remember
  <2> QED BY <2>1, <2>2, BlockAssumption DEF Good
<1>3. Genuine'
  <2>1. ids \in Seq(Id) /\ DOMAIN ids = 1..Len(ids)
    BY DEF Calls
  <2>2. op'.kind = "put" /\ op'.block = b /\ op'.todo = ids
    BY DEF Remember, BeginPut, Free
  <2>3. \A k \in 1..Len(ids) : Good(ids[k], b)'
    <3>1. \A k \in 1..Len(ids) : sampled'[ids[k]] = b
      BY <2>1 DEF Remember
    <3> QED BY <3>1 DEF Good
  <2>4. \A i \in Id : mem.block[i] = None \/ mem.block[i] \in Block
    BY DEF IInv, TypeOK, Memory
  <2>5. mem' = mem /\ disk' = disk
    BY DEF Remember
  <2>6. \A i \in Id : mem'.block[i] = None \/ Good(i, mem.block[i])'
    BY <1>a, <2>4, <2>5 DEF IInv, Genuine
  <2>7. \A i \in Id, d \in Block : <<i, d>> \in disk' => Good(i, d)'
    BY <1>a, <2>5 DEF IInv, Genuine
  <2> QED BY <2>2, <2>3, <2>5, <2>6, <2>7 DEF Genuine
<1>4. AttachSound'
  <2>1. op'.kind = "put" /\ op'.who = Worker /\ op.who = None
    BY DEF Remember, BeginPut, Free, LockFree
  <2> QED BY <2>1, ThreadAssumption DEF Remember, IInv, TypeOK, AttachSound
<1>5. ReplayIsVerbatim'
  <2>1. ASSUME NEW c \in Client, reply[c] # None, NEW k \in DOMAIN msg[c]
        PROVE  sampled'[msg[c][k]] = reply[c] \/ msg[c][k] \in astray'
    <3>1. msg[c][k] \in Id /\ Good(msg[c][k], reply[c]) /\ reply[c] \in Block
      BY <2>1 DEF IInv, TypeOK, ReplayIsVerbatim, Good
    <3>2. Good(msg[c][k], reply[c])'
      BY <1>a, <3>1 DEF Good, Remember
    <3> QED BY <3>2 DEF Good, Remember
  <2> QED BY <2>1 DEF Remember, ReplayIsVerbatim
<1>6. Recent'
  BY DEF IInv, Recent, KeepsMostRecent, Remember
<1> QED BY <1>1, <1>2, <1>3, <1>4, <1>5, <1>6 DEF IInv

(* A record on disk names a block that is good for its id.                 *)
LEMMA WorkerLoadsKeeps ==
    ASSUME IInv, NEW i \in Id, NEW b \in Block, WorkerLoads(i, b)
    PROVE  IInv'
<1>1. TypeOK'
  <2>1. op' \in [who : Thread \cup {None}, kind : {"none", "put", "attach"}, todo : Seq(Id),
                 block : Block \cup {None}, exact : BOOLEAN]
    <3>1. <<i>> \in Seq(Id)
      OBVIOUS
    <3> QED BY <3>1 DEF WorkerLoads, BeginPut, Free, Thread
  <2> QED BY <2>1 DEF WorkerLoads, IInv, TypeOK
<1>2. IndexesAgree'
  BY DEF IInv, IndexesAgree, WorkerLoads
<1>3. Genuine'
  <2>1. Good(i, b) /\ UNCHANGED <<mem, disk, sampled, astray>>
    BY DEF WorkerLoads, IInv, Genuine
  <2>2. op'.kind = "put" /\ op'.block = b /\ op'.todo = <<i>>
    BY DEF WorkerLoads, BeginPut, Free
  <2>3. \A k \in 1..Len(<<i>>) : <<i>>[k] = i
    OBVIOUS
  <2> QED BY <2>1, <2>2, <2>3 DEF IInv, Genuine, Good
<1>4. AttachSound'
  <2>1. op'.kind = "put" /\ op'.who = Worker /\ op.who = None
    BY DEF WorkerLoads, BeginPut, Free, LockFree
  <2> QED BY <2>1, ThreadAssumption DEF WorkerLoads, IInv, TypeOK, AttachSound
<1>5. ReplayIsVerbatim'
  BY DEF IInv, TypeOK, ReplayIsVerbatim, WorkerLoads
<1>6. Recent'
  BY DEF IInv, Recent, KeepsMostRecent, WorkerLoads
<1> QED BY <1>1, <1>2, <1>3, <1>4, <1>5, <1>6 DEF IInv

(* One put maps the next id to a block that is good for it.                *)
LEMMA PutStepKeeps ==
    ASSUME IInv, PutStep
    PROVE  IInv'
<1>a. /\ Head(op.todo) \in Id /\ op.block \in Block
      /\ Good(Head(op.todo), op.block)
  <2>1. op.todo \in Seq(Id) /\ op.todo # <<>>
    BY DEF PutStep, IInv, TypeOK
  <2>2. Head(op.todo) \in Id /\ 1 \in 1..Len(op.todo) /\ Head(op.todo) = op.todo[1]
    BY <2>1
  <2> QED BY <2>1, <2>2 DEF PutStep, IInv, Genuine
<1>1. TypeOK'
  <2>1. Head(op.todo) \in Id /\ op.block \in Block
    BY <1>a
  <2>2. mem' \in Memory
    BY <2>1, PutKeeps DEF PutStep, IInv, TypeOK, IndexesAgree
  <2>3. op' \in [who : Thread \cup {None}, kind : {"none", "put", "attach"}, todo : Seq(Id),
                 block : Block \cup {None}, exact : BOOLEAN]
    <3>1. Tail(op.todo) \in Seq(Id)
      BY DEF PutStep, IInv, TypeOK
    <3> QED BY <3>1 DEF PutStep, IInv, TypeOK
  <2>4. recency' \in Seq(Id)
    <3>1. recency \in Seq(Id) /\ Used(Head(op.todo))
      BY DEF PutStep, IInv, TypeOK
    <3> QED BY <2>1, <3>1, ToHeadIs DEF Used, IInv, Recent
  <2> QED BY <2>2, <2>3, <2>4 DEF PutStep, IInv, TypeOK
<1>2. IndexesAgree'
  BY <1>a, PutKeeps DEF PutStep, IInv, TypeOK, IndexesAgree
<1>3. Genuine'
  <2>1. mem'.block = [mem.block EXCEPT ![Head(op.todo)] = op.block]
    <3>1. mem \in Memory /\ Agree(mem)
      BY DEF IInv, TypeOK, IndexesAgree
    <3>2. Maps(mem, Head(op.todo), op.block, Put(mem, Head(op.todo), op.block))
      BY <1>a, <3>1, PutKeeps
    <3> QED BY <3>2 DEF Maps, PutStep
  <2>2. mem.block \in [Id -> Block \cup {None}]
    BY DEF IInv, TypeOK, Memory
  <2>a. UNCHANGED <<disk, sampled, astray>>
    BY DEF PutStep
  <2>3. \A j \in Id : mem'.block[j] = None \/ Good(j, mem'.block[j])
    BY <1>a, <2>1, <2>2 DEF IInv, Genuine
  <2>4. op'.kind = "put" /\ op'.block = op.block /\ op'.todo = Tail(op.todo)
    BY DEF PutStep, IInv, TypeOK
  <2>5. \A k \in 1..Len(Tail(op.todo)) : k + 1 \in 1..Len(op.todo) /\ Tail(op.todo)[k] = op.todo[k + 1]
    BY DEF PutStep, IInv, TypeOK
  <2>6. \A k \in 1..Len(op'.todo) : Good(op'.todo[k], op'.block)
    BY <2>4, <2>5 DEF PutStep, IInv, Genuine
  <2> QED BY <1>a, <2>a, <2>3, <2>4, <2>6 DEF IInv, Genuine, Good
<1>4. AttachSound'
  <2>1. op'.kind = "put" /\ op'.who = op.who /\ op.kind = "put"
    BY DEF PutStep, IInv, TypeOK
  <2> QED BY <2>1 DEF PutStep, IInv, AttachSound
<1>5. ReplayIsVerbatim'
  BY DEF IInv, TypeOK, ReplayIsVerbatim, PutStep
<1>6. Recent'
  <2>1. mem.lru \in Seq(Id) /\ recency \in Seq(Id) /\ IsInjective(mem.lru) /\ IsInjective(recency)
        /\ IsPrefix(mem.lru, recency) /\ mem \in Memory /\ Agree(mem)
    BY DEF IInv, TypeOK, Memory, IndexesAgree, Agree, Recent, KeepsMostRecent
  <2>2. mem'.lru = ToHead(mem.lru, Head(op.todo)) /\ recency' = ToHead(recency, Head(op.todo))
    <3>1. Put(mem, Head(op.todo), op.block).lru = ToHead(mem.lru, Head(op.todo))
      BY <1>a, <2>1, PutKeeps
    <3> QED BY <3>1 DEF PutStep, Used
  <2> QED BY <1>a, <2>1, <2>2, PrefixMoves, ToHeadIs DEF Recent, KeepsMostRecent
<1> QED BY <1>1, <1>2, <1>3, <1>4, <1>5, <1>6 DEF IInv

(* An eviction takes the last entry of the list.                           *)
LEMMA PruneStepKeeps ==
    ASSUME IInv, PruneStep
    PROVE  IInv'
<1>a. mem.lru[Len(mem.lru)] \in Id /\ mem.block[mem.lru[Len(mem.lru)]] # None
  <2>1. mem.lru \in Seq(Id) /\ mem.lru # <<>>
    BY DEF PruneStep, Over, IInv, TypeOK, Memory
  <2>2. Len(mem.lru) \in 1..Len(mem.lru)
    BY <2>1
  <2>3. mem.lru[Len(mem.lru)] \in ToSet(mem.lru)
    BY <2>1, <2>2, ListFacts
  <2> QED BY <2>3 DEF IInv, IndexesAgree, Agree
<1>1. TypeOK'
  <2>1. mem' \in Memory
    BY <1>a, RemoveKeeps DEF PruneStep, IInv, TypeOK, IndexesAgree
  <2> QED BY <2>1 DEF PruneStep, IInv, TypeOK
<1>2. IndexesAgree'
  BY <1>a, RemoveKeeps DEF PruneStep, IInv, TypeOK, IndexesAgree
<1>3. Genuine'
  <2>1. mem'.block = [mem.block EXCEPT ![mem.lru[Len(mem.lru)]] = None]
    BY <1>a, RemoveKeeps DEF PruneStep, IInv, TypeOK, IndexesAgree
  <2>2. mem.block \in [Id -> Block \cup {None}]
    BY DEF IInv, TypeOK, Memory
  <2>3. \A j \in Id : mem'.block[j] = None \/ Good(j, mem'.block[j])
    BY <2>1, <2>2 DEF IInv, Genuine
  <2>4. UNCHANGED <<op, disk, sampled, astray>>
    BY DEF PruneStep
  <2> QED BY <2>3, <2>4 DEF IInv, Genuine, Good
<1>4. AttachSound'
  BY DEF IInv, TypeOK, AttachSound, PruneStep
<1>5. ReplayIsVerbatim'
  BY DEF IInv, TypeOK, ReplayIsVerbatim, PruneStep
<1>6. Recent'
  <2> DEFINE s == mem.lru
             x == s[Len(s)]
  <2>1. s \in Seq(Id) /\ recency \in Seq(Id) /\ IsInjective(s) /\ IsInjective(recency)
        /\ IsPrefix(s, recency) /\ mem \in Memory /\ Agree(mem) /\ s # <<>>
    BY DEF PruneStep, Over, IInv, TypeOK, Memory, IndexesAgree, Agree, Recent, KeepsMostRecent
  <2>2. mem'.lru = Unlink(s, x) /\ recency' = recency
    BY <1>a, <2>1, RemoveKeeps DEF PruneStep
  <2> HIDE DEF s
  <2>3. Len(s) \in 1..Len(s)
    BY <2>1
  <2> SUFFICES ASSUME NEW y, y = x PROVE IsPrefix(Unlink(s, y), recency)
    BY <2>1, <2>2 DEF Recent, KeepsMostRecent
  <2> HIDE DEF x
  <2>4. y \in ToSet(s) /\ y = s[Len(s)]
    BY <2>1, <2>3, ListFacts DEF x
  <2> QED BY <2>1, <2>4, PrefixLosesLast
<1> QED BY <1>1, <1>2, <1>3, <1>4, <1>5, <1>6 DEF IInv

(* Releasing tool_mu.                                                      *)
LEMMA PutDoneKeeps ==
    ASSUME IInv, PutDone
    PROVE  IInv'
<1>1. TypeOK'
  BY DEF PutDone, Free, IInv, TypeOK
<1>2. IndexesAgree'
  BY DEF IInv, IndexesAgree, PutDone
<1>3. Genuine'
  BY DEF PutDone, Free, IInv, Genuine, Good
<1>4. AttachSound'
  <2>1. op.kind = "put" /\ op'.kind = "none" /\ op'.who = None
    BY DEF PutDone, Free
  <2> QED BY <2>1, ThreadAssumption DEF PutDone, IInv, TypeOK, AttachSound
<1>5. ReplayIsVerbatim'
  BY DEF IInv, TypeOK, ReplayIsVerbatim, PutDone
<1>6. Recent'
  BY DEF IInv, Recent, KeepsMostRecent, PutDone
<1> QED BY <1>1, <1>2, <1>3, <1>4, <1>5, <1>6 DEF IInv

(* A client thread with a new request is not inside attach.                *)
LEMMA ParseKeeps ==
    ASSUME IInv, NEW c \in Client, NEW ids \in Calls, Parse(c, ids)
    PROVE  IInv'
<1>1. TypeOK'
  <2>1. ids \in Seq(Id) /\ {ids[k] : k \in DOMAIN ids} \subseteq Id
    BY DEF Calls
  <2> QED BY <2>1 DEF Parse, IInv, TypeOK
<1>2. IndexesAgree'
  BY DEF IInv, IndexesAgree, Parse
<1>3. Genuine'
  BY DEF IInv, TypeOK, Genuine, Parse, Good
<1>4. AttachSound'
  BY DEF IInv, TypeOK, AttachSound, Parse, Good
<1>5. ReplayIsVerbatim'
  BY DEF IInv, TypeOK, ReplayIsVerbatim, Parse
<1>6. Recent'
  BY DEF IInv, Recent, KeepsMostRecent, Parse
<1> QED BY <1>1, <1>2, <1>3, <1>4, <1>5, <1>6 DEF IInv

(* What a client puts is good for the id: the record on disk was, or a     *)
(* read gone astray has just made it so.                                   *)
ClientPuts(c, i, b) ==
    /\ BeginPut(c, <<i>>, b)
    /\ want' \in {want, [want EXCEPT ![c] = @ \ {i}]}
    /\ Good(i, b)'
    /\ astray \subseteq astray' /\ astray' \subseteq Id
    /\ UNCHANGED <<mem, disk, pc, msg, overlaps, reply, sampled, recency>>

LEMMA ClientPutsKeeps ==
    ASSUME IInv, NEW c \in Client, NEW i \in Id, NEW b \in Block, ClientPuts(c, i, b)
    PROVE  IInv'
<1>0. /\ UNCHANGED <<mem, disk, pc, msg, overlaps, reply, sampled, recency>>
      /\ astray \subseteq astray' /\ astray' \subseteq Id /\ Good(i, b)'
  BY DEF ClientPuts
<1>1. TypeOK'
  <2>1. op' \in [who : Thread \cup {None}, kind : {"none", "put", "attach"}, todo : Seq(Id),
                 block : Block \cup {None}, exact : BOOLEAN]
    <3>1. <<i>> \in Seq(Id)
      OBVIOUS
    <3>2. op' = [who |-> c, kind |-> "put", todo |-> <<i>>, block |-> b, exact |-> TRUE]
      BY DEF ClientPuts, BeginPut, Free
    <3>3. c \in Thread
      BY DEF Thread
    <3> QED BY <3>1, <3>2, <3>3
  <2>2. want' \in [Client -> SUBSET Id]
    <3>1. want \in [Client -> SUBSET Id]
      BY DEF IInv, TypeOK
    <3>2. want' = want \/ want' = [want EXCEPT ![c] = want[c] \ {i}]
      BY DEF ClientPuts
    <3>3. [want EXCEPT ![c] = want[c] \ {i}] \in [Client -> SUBSET Id]
      BY <3>1
    <3> QED BY <3>1, <3>2, <3>3
  <2> QED BY <1>0, <2>1, <2>2 DEF IInv, TypeOK
<1>2. IndexesAgree'
  BY <1>0 DEF IInv, IndexesAgree
<1>a. \A j, d : Good(j, d) => Good(j, d)'
  BY <1>0 DEF Good
<1>3. Genuine'
  <2>1. op'.kind = "put" /\ op'.block = b /\ op'.todo = <<i>>
    BY DEF ClientPuts, BeginPut, Free
  <2>2. \A k \in 1..Len(<<i>>) : <<i>>[k] = i
    OBVIOUS
  <2>3. \A k \in 1..Len(<<i>>) : Good(<<i>>[k], b)'
    BY <1>0, <2>2 DEF Good
  <2>4. \A j \in Id : mem'.block[j] = None \/ Good(j, mem.block[j])'
    BY <1>0, <1>a DEF IInv, Genuine
  <2>5. \A j \in Id, d \in Block : <<j, d>> \in disk' => Good(j, d)'
    BY <1>0, <1>a DEF IInv, Genuine
  <2> QED BY <1>0, <2>1, <2>3, <2>4, <2>5 DEF Genuine, Good
<1>4. AttachSound'
  <2>1. op'.kind = "put" /\ op'.who = c /\ op.who = None
    BY DEF ClientPuts, BeginPut, Free, LockFree
  <2> QED BY <1>0, <2>1, ThreadAssumption DEF IInv, TypeOK, AttachSound
<1>5. ReplayIsVerbatim'
  BY <1>0 DEF IInv, ReplayIsVerbatim
<1>6. Recent'
  BY <1>0 DEF IInv, Recent, KeepsMostRecent
<1> QED BY <1>1, <1>2, <1>3, <1>4, <1>5, <1>6 DEF IInv

LEMMA RestoreFoundKeeps ==
    ASSUME IInv, NEW c \in Client, NEW i \in Id, NEW b \in Block, RestoreFound(c, i, b)
    PROVE  IInv'
<1>1. Good(i, b)'
  BY DEF RestoreFound, IInv, Genuine, Good
<1>2. astray \subseteq astray' /\ astray' \subseteq Id
  BY DEF RestoreFound, IInv, TypeOK
<1>3. ClientPuts(c, i, b)
  BY <1>1, <1>2 DEF RestoreFound, ClientPuts
<1> QED BY <1>3, ClientPutsKeeps

LEMMA RestoreTornKeeps ==
    ASSUME IInv, NEW c \in Client, NEW i \in Id, NEW b \in Block, RestoreTorn(c, i, b)
    PROVE  IInv'
<1>1. Good(i, b)'
  BY DEF RestoreTorn, Good
<1>2. astray \subseteq astray' /\ astray' \subseteq Id
  BY DEF RestoreTorn, IInv, TypeOK
<1>3. ClientPuts(c, i, b)
  BY <1>1, <1>2 DEF RestoreTorn, ClientPuts
<1> QED BY <1>3, ClientPutsKeeps

(* Nothing on disk, nothing put.                                           *)
LEMMA RestoreMissingKeeps ==
    ASSUME IInv, NEW c \in Client, NEW i \in Id, RestoreMissing(c, i)
    PROVE  IInv'
<1>1. TypeOK'
  BY DEF IInv, TypeOK, Thread, RestoreMissing
<1>2. IndexesAgree'
  BY DEF IInv, IndexesAgree, RestoreMissing
<1>3. Genuine'
  BY DEF IInv, TypeOK, Genuine, RestoreMissing, Good
<1>4. AttachSound'
  BY DEF IInv, TypeOK, AttachSound, RestoreMissing, Good
<1>5. ReplayIsVerbatim'
  BY DEF IInv, TypeOK, ReplayIsVerbatim, RestoreMissing
<1>6. Recent'
  BY DEF IInv, Recent, KeepsMostRecent, RestoreMissing
<1> QED BY <1>1, <1>2, <1>3, <1>4, <1>5, <1>6 DEF IInv

(* Entering attach: no call has been looked up yet.                        *)
LEMMA BeginAttachKeeps ==
    ASSUME IInv, NEW c \in Client, BeginAttach(c)
    PROVE  IInv'
<1>1. TypeOK'
  <2>1. op' \in [who : Thread \cup {None}, kind : {"none", "put", "attach"}, todo : Seq(Id),
                 block : Block \cup {None}, exact : BOOLEAN]
    BY DEF BeginAttach, Free, Thread, IInv, TypeOK
  <2> QED BY <2>1 DEF BeginAttach, IInv, TypeOK
<1>2. IndexesAgree'
  BY DEF IInv, IndexesAgree, BeginAttach
<1>3. Genuine'
  BY DEF BeginAttach, Free, IInv, Genuine, Good
<1>4. AttachSound'
  <2>1. op'.kind = "attach" /\ op'.who = c /\ op'.todo = msg[c] /\ op.who = None
    BY DEF BeginAttach, Free, LockFree
  <2>2. msg[c] \in Seq(Id) /\ Len(msg[c]) \in Nat
    BY DEF IInv, TypeOK
  <2>3. \A d \in Client : pc'[d] = "attach" <=> d = c
    BY <2>1, ThreadAssumption DEF BeginAttach, IInv, TypeOK, AttachSound
  <2>4. \A k \in 1..Len(msg[c]) : (Len(msg[c]) - Len(msg[c])) + k = k
    BY <2>2
  <2>5. 1..(Len(msg[c]) - Len(msg[c])) = {}
    BY <2>2
  <2>6. Len(msg[c]) <= Len(msg[c])
    BY <2>2
  <2>7. msg' = msg
    BY DEF BeginAttach
  <2>8. c # None
    BY ThreadAssumption
  <2> QED BY <2>1, <2>3, <2>4, <2>5, <2>6, <2>7, <2>8 DEF AttachSound
<1>5. ReplayIsVerbatim'
  BY DEF IInv, TypeOK, ReplayIsVerbatim, BeginAttach
<1>6. Recent'
  BY DEF IInv, Recent, KeepsMostRecent, BeginAttach
<1> QED BY <1>1, <1>2, <1>3, <1>4, <1>5, <1>6 DEF IInv

(* A lookup that keeps exact true found the one block of the calls so far. *)
LEMMA LookupStepKeeps ==
    ASSUME IInv, LookupStep
    PROVE  IInv'
<1> DEFINE i == Head(op.todo)
<1>a. i \in Id /\ i = op.todo[1]
  BY DEF LookupStep, IInv, TypeOK
<1>b. mem' \in Memory /\ Agree(mem') /\ mem'.block = mem.block
  BY <1>a, TouchKeeps DEF LookupStep, IInv, TypeOK, IndexesAgree
<1>c. mem.block[i] \in Block \cup {None}
  BY <1>a DEF IInv, TypeOK, Memory
<1> HIDE DEF i
<1>d. /\ op'.todo = Tail(op.todo) /\ op'.who = op.who /\ op'.kind = op.kind
      /\ op'.exact \in BOOLEAN
      /\ op'.exact => /\ mem.block[i] # None /\ op.exact
                      /\ op.block \in {None, mem.block[i]} /\ op'.block = mem.block[i]
      /\ op'.block \in Block \cup {None}
      /\ op' = [who |-> op'.who, kind |-> op'.kind, todo |-> op'.todo, block |-> op'.block,
                exact |-> op'.exact]
  <2>0. op \in [who : Thread \cup {None}, kind : {"none", "put", "attach"}, todo : Seq(Id),
                block : Block \cup {None}, exact : BOOLEAN]
    BY DEF IInv, TypeOK
  <2>1. CASE mem.block[i] = None
    <3>1. op' = [op EXCEPT !.todo = Tail(@), !.exact = FALSE]
      BY <2>1 DEF LookupStep, i
    <3> QED BY <2>0, <3>1
  <2>2. CASE mem.block[i] # None
    <3>1. op' = [op EXCEPT !.todo = Tail(@),
                          !.block = IF @ = None THEN mem.block[i] ELSE @,
                          !.exact = @ /\ op.block \in {None, mem.block[i]}]
      BY <2>2 DEF LookupStep, i
    <3>2. /\ op'.todo = Tail(op.todo) /\ op'.who = op.who /\ op'.kind = op.kind
          /\ op'.block = (IF op.block = None THEN mem.block[i] ELSE op.block)
          /\ op'.exact = (op.exact /\ op.block \in {None, mem.block[i]})
          /\ op' = [who |-> op'.who, kind |-> op'.kind, todo |-> op'.todo, block |-> op'.block,
                    exact |-> op'.exact]
      BY <2>0, <3>1
    <3>3. op'.exact \in BOOLEAN
      BY <2>0, <3>2, Zenon
    <3>4. op'.exact => op.exact /\ op.block \in {None, mem.block[i]}
      BY <3>2, Zenon
    <3> QED BY <1>c, <2>0, <2>2, <3>2, <3>3, <3>4
  <2> QED BY <2>1, <2>2
<1>1. TypeOK'
  <2>1. mem' \in Memory
    BY <1>b DEF IInv, TypeOK
  <2>2. op' \in [who : Thread \cup {None}, kind : {"none", "put", "attach"}, todo : Seq(Id),
                 block : Block \cup {None}, exact : BOOLEAN]
    <3>1. Tail(op.todo) \in Seq(Id)
      BY DEF LookupStep, IInv, TypeOK
    <3>2. op'.who \in Thread \cup {None} /\ op'.kind \in {"none", "put", "attach"}
      BY <1>d DEF IInv, TypeOK
    <3> QED BY <1>d, <3>1, <3>2
  <2>3. recency' \in Seq(Id)
    <3>1. recency \in Seq(Id)
      BY DEF IInv, TypeOK
    <3>2. recency' = recency \/ Used(i)
      BY DEF LookupStep, i
    <3> QED BY <1>a, <3>1, <3>2, ToHeadIs DEF Used, IInv, Recent
  <2> QED BY <2>1, <2>2, <2>3 DEF LookupStep, IInv, TypeOK
<1>2. IndexesAgree'
  BY <1>b DEF IndexesAgree
<1>3. Genuine'
  BY <1>b, <1>c, <1>d DEF LookupStep, IInv, Genuine, Good
<1>4. AttachSound'
  <2> DEFINE ids == msg[op.who]
             n   == Len(ids) - Len(op.todo)
  <2>1. /\ op.who \in Client /\ ids \in Seq(Id) /\ Len(ids) \in Nat /\ Len(op.todo) \in Nat \ {0}
        /\ n \in Nat
        /\ \A k \in 1..Len(op.todo) : op.todo[k] = ids[n + k]
        /\ op.exact => \A k \in 1..n : op.block # None /\ Good(ids[k], op.block)
    <3>1. op.who \in Client /\ Len(op.todo) <= Len(ids)
      BY DEF LookupStep, IInv, AttachSound
    <3>2. ids \in Seq(Id) /\ op.todo \in Seq(Id) /\ op.todo # <<>>
      BY <3>1 DEF LookupStep, IInv, TypeOK
    <3>3. Len(ids) \in Nat /\ Len(op.todo) \in Nat \ {0} /\ n \in Nat
      BY <3>1, <3>2
    <3> QED BY <3>1, <3>2, <3>3 DEF LookupStep, IInv, AttachSound
  <2> HIDE DEF ids, n
  <2>2. /\ Len(op'.todo) = Len(op.todo) - 1
        /\ \A k \in 1..Len(op'.todo) : op'.todo[k] = ids[(n + 1) + k]
    <3>1. op.todo \in Seq(Id) /\ op.todo # <<>>
      BY DEF LookupStep, IInv, TypeOK
    <3>2. /\ Len(Tail(op.todo)) = Len(op.todo) - 1
          /\ \A k \in 1..Len(Tail(op.todo)) : Tail(op.todo)[k] = op.todo[k + 1]
      BY <3>1
    <3>3. ASSUME NEW k \in 1..(Len(op.todo) - 1) PROVE op.todo[k + 1] = ids[(n + 1) + k]
      <4>1. k + 1 \in 1..Len(op.todo) /\ n + (k + 1) = (n + 1) + k
        BY <2>1
      <4> QED BY <2>1, <4>1
    <3> QED BY <1>d, <3>2, <3>3
  <2>3. i = ids[n + 1]
    <3>1. 1 \in 1..Len(op.todo) /\ i = op.todo[1]
      BY <1>a, <2>1
    <3> QED BY <2>1, <3>1
  <2>4. op'.exact => \A k \in 1..(n + 1) : op'.block # None /\ Good(ids[k], op'.block)
    <3> SUFFICES ASSUME op'.exact, NEW k \in 1..(n + 1)
                 PROVE  op'.block # None /\ Good(ids[k], op'.block)
      OBVIOUS
    <3>1. /\ mem.block[i] # None /\ op.exact /\ op.block \in {None, mem.block[i]}
          /\ op'.block = mem.block[i]
      BY <1>d
    <3>2. Good(i, mem.block[i])
      BY <1>a, <3>1 DEF IInv, Genuine
    <3>3. CASE k = n + 1
      BY <2>3, <3>1, <3>2, <3>3
    <3>4. CASE k # n + 1
      <4>1. k \in 1..n
        BY <2>1, <3>4
      <4> QED BY <2>1, <3>1, <4>1
    <3> QED BY <3>3, <3>4
  <2>5. n + 1 = Len(ids) - Len(op'.todo) /\ Len(op'.todo) <= Len(ids)
    BY <2>1, <2>2 DEF n
  <2>6. op'.kind = op.kind /\ op'.who = op.who /\ pc' = pc /\ msg' = msg /\ sampled' = sampled
        /\ astray' = astray /\ op.kind = "attach"
    BY <1>d DEF LookupStep
  <2>7. \A d \in Client : pc'[d] = "attach" <=> (op'.kind = "attach" /\ op'.who = d)
    BY <2>6 DEF IInv, AttachSound
  <2>8. op'.kind = "none" <=> op'.who = None
    BY <2>6 DEF IInv, AttachSound
  <2>9. ids = msg'[op'.who]
    BY <2>6 DEF ids
  <2> QED BY <2>1, <2>2, <2>4, <2>5, <2>6, <2>7, <2>8, <2>9 DEF AttachSound, Good
<1>5. ReplayIsVerbatim'
  BY DEF IInv, TypeOK, ReplayIsVerbatim, LookupStep
<1>6. Recent'
  <2>1. mem.lru \in Seq(Id) /\ recency \in Seq(Id) /\ IsInjective(mem.lru) /\ IsInjective(recency)
        /\ IsPrefix(mem.lru, recency) /\ mem \in Memory /\ Agree(mem)
    BY DEF IInv, TypeOK, Memory, IndexesAgree, Agree, Recent, KeepsMostRecent
  <2>2. \/ mem' = mem /\ recency' = recency
        \/ /\ mem.block[i] # None
           /\ mem' = Touch(mem, i) /\ recency' = ToHead(recency, i)
    BY DEF LookupStep, Used, i
  <2>3. CASE mem' = mem /\ recency' = recency
    BY <2>1, <2>3 DEF Recent, KeepsMostRecent
  <2>4. CASE /\ mem.block[i] # None
             /\ mem' = Touch(mem, i) /\ recency' = ToHead(recency, i)
    <3>1. mem'.lru = ToHead(mem.lru, i)
      BY <1>a, <2>1, <2>4, TouchKeeps
    <3> QED BY <1>a, <2>1, <2>4, <3>1, PrefixMoves, ToHeadIs DEF Recent, KeepsMostRecent
  <2> QED BY <2>2, <2>3, <2>4
<1> QED BY <1>1, <1>2, <1>3, <1>4, <1>5, <1>6 DEF IInv

(* The reply is the one block of all the calls, or nothing.                *)
LEMMA AttachDoneKeeps ==
    ASSUME IInv, NEW c \in Client, AttachDone(c)
    PROVE  IInv'
<1>1. TypeOK'
  BY DEF AttachDone, Free, IInv, TypeOK
<1>2. IndexesAgree'
  BY DEF IInv, IndexesAgree, AttachDone
<1>3. Genuine'
  BY DEF AttachDone, Free, IInv, Genuine, Good
<1>4. AttachSound'
  <2>1. op'.kind = "none" /\ op'.who = None /\ pc'[c] = "done" /\ op.who = c /\ op.kind = "attach"
    BY DEF AttachDone, Free, IInv, TypeOK
  <2> QED BY <2>1, ThreadAssumption DEF AttachDone, IInv, TypeOK, AttachSound
<1>5. ReplayIsVerbatim'
  <2>1. op.todo = <<>> /\ msg[c] \in Seq(Id) /\ msg' = msg /\ sampled' = sampled
        /\ astray' = astray
    BY DEF AttachDone, IInv, TypeOK
  <2>2. ASSUME op.exact, NEW k \in DOMAIN msg[c] PROVE Good(msg[c][k], op.block)
    <3>1. Len(msg[c]) - Len(op.todo) = Len(msg[c]) /\ DOMAIN msg[c] = 1..Len(msg[c])
      BY <2>1
    <3> QED BY <2>2, <3>1 DEF AttachDone, IInv, AttachSound
  <2>3. ASSUME NEW d \in Client, reply'[d] # None, NEW k \in DOMAIN msg[d]
        PROVE  Good(msg[d][k], reply'[d])
    <3>1. CASE d = c
      BY <2>2, <2>3, <3>1 DEF AttachDone, IInv, TypeOK
    <3>2. CASE d # c
      BY <2>3, <3>2 DEF AttachDone, IInv, TypeOK, ReplayIsVerbatim, Good
    <3> QED BY <3>1, <3>2
  <2> QED BY <2>1, <2>3 DEF ReplayIsVerbatim, Good
<1>6. Recent'
  BY DEF IInv, Recent, KeepsMostRecent, AttachDone
<1> QED BY <1>1, <1>2, <1>3, <1>4, <1>5, <1>6 DEF IInv

(* The client thread takes up its next request.                            *)
LEMMA AnsweredKeeps ==
    ASSUME IInv, NEW c \in Client, Answered(c)
    PROVE  IInv'
<1>1. TypeOK'
  BY DEF Answered, IInv, TypeOK
<1>2. IndexesAgree'
  BY DEF IInv, IndexesAgree, Answered
<1>3. Genuine'
  BY DEF IInv, TypeOK, Genuine, Answered, Good
<1>4. AttachSound'
  BY DEF IInv, TypeOK, AttachSound, Answered, Good
<1>5. ReplayIsVerbatim'
  BY DEF IInv, TypeOK, ReplayIsVerbatim, Answered
<1>6. Recent'
  BY DEF IInv, Recent, KeepsMostRecent, Answered
<1> QED BY <1>1, <1>2, <1>3, <1>4, <1>5, <1>6 DEF IInv

(* Overlaps are marked for clients only.                                   *)
LEMMA MayOverlapTypes ==
    ASSUME TypeOK, MayOverlap
    PROVE  overlaps' \in [Client -> BOOLEAN]
<1>1. overlaps \in [Client -> BOOLEAN]
  BY DEF TypeOK
<1>2. [c \in Client |-> overlaps[c] \/ pc[c] = "restore"] \in [Client -> BOOLEAN]
  OBVIOUS
<1> QED BY <1>1, <1>2 DEF MayOverlap

(* What is written to disk comes from the memory.                          *)
LEMMA StoreMapKeeps ==
    ASSUME IInv, NEW bs \in SUBSET mem.blocks, StoreMap(bs)
    PROVE  IInv'
<1>0. bs \subseteq Block
  BY DEF IInv, TypeOK, Memory
<1>1. TypeOK'
  <2>1. \A b \in Block : mem.users[b] \subseteq Id
    BY DEF IInv, TypeOK, Memory
  <2>2. UNION {mem.users[b] \X {b} : b \in bs} \subseteq Id \X Block
    BY <1>0, <2>1
  <2>3. overlaps' \in [Client -> BOOLEAN]
    BY MayOverlapTypes DEF StoreMap, IInv
  <2> QED BY <2>2, <2>3 DEF StoreMap, IInv, TypeOK
<1>2. IndexesAgree'
  BY DEF IInv, IndexesAgree, StoreMap
<1>3. Genuine'
  <2>1. ASSUME NEW b \in Block, NEW i \in mem.users[b] PROVE Good(i, b)
    <3>1. i \in Id /\ mem.block[i] = b
      BY DEF IInv, TypeOK, Memory, IndexesAgree, Agree
    <3> QED BY <3>1, BlockAssumption DEF IInv, Genuine
  <2>2. \A i \in Id, b \in Block : <<i, b>> \in disk' => Good(i, b)
    BY <1>0, <2>1 DEF StoreMap, IInv, Genuine
  <2>3. UNCHANGED <<mem, op, sampled, astray>>
    BY DEF StoreMap
  <2> QED BY <2>2, <2>3 DEF IInv, Genuine, Good
<1>4. AttachSound'
  BY DEF IInv, TypeOK, AttachSound, StoreMap, Good
<1>5. ReplayIsVerbatim'
  BY DEF IInv, TypeOK, ReplayIsVerbatim, StoreMap
<1>6. Recent'
  BY DEF IInv, Recent, KeepsMostRecent, StoreMap
<1> QED BY <1>1, <1>2, <1>3, <1>4, <1>5, <1>6 DEF IInv

(* Losing a record loses nothing that is true of the others.               *)
LEMMA RecordLostKeeps ==
    ASSUME IInv, NEW i \in Id, NEW b \in Block, RecordLost(i, b)
    PROVE  IInv'
<1>1. TypeOK'
  <2>1. overlaps' \in [Client -> BOOLEAN]
    BY MayOverlapTypes DEF RecordLost, IInv
  <2> QED BY <2>1 DEF IInv, TypeOK, RecordLost
<1>2. IndexesAgree'
  BY DEF IInv, IndexesAgree, RecordLost
<1>3. Genuine'
  <2>1. UNCHANGED <<mem, op, sampled, astray>> /\ disk' \subseteq disk
    BY DEF RecordLost
  <2> QED BY <2>1 DEF IInv, Genuine, Good
<1>4. AttachSound'
  BY DEF IInv, TypeOK, AttachSound, RecordLost, Good
<1>5. ReplayIsVerbatim'
  BY DEF IInv, TypeOK, ReplayIsVerbatim, RecordLost
<1>6. Recent'
  BY DEF IInv, Recent, KeepsMostRecent, RecordLost
<1> QED BY <1>1, <1>2, <1>3, <1>4, <1>5, <1>6 DEF IInv

(* A fresh memory and the old files.                                       *)
LEMMA RestartKeeps ==
    ASSUME IInv, Restart
    PROVE  IInv'
<1>1. TypeOK'
  BY EmptyMemory DEF Restart, Free, IInv, TypeOK
<1>2. IndexesAgree'
  BY EmptyMemory DEF Restart, IndexesAgree
<1>3. Genuine'
  BY DEF Restart, NoMem, Free, IInv, TypeOK, Genuine, Good
<1>4. AttachSound'
  BY ThreadAssumption DEF Restart, Free, AttachSound
<1>5. ReplayIsVerbatim'
  BY DEF Restart, ReplayIsVerbatim
<1>6. Recent'
  <2>1. mem'.lru = <<>> /\ recency' = <<>>
    BY DEF Restart, NoMem
  <2> QED BY <2>1 DEF Recent, KeepsMostRecent, IsPrefix, IsInjective
<1> QED BY <1>1, <1>2, <1>3, <1>4, <1>5, <1>6 DEF IInv

(* So does a step that changes nothing.                                    *)
LEMMA StutterKeeps ==
    ASSUME IInv, UNCHANGED vars
    PROVE  IInv'
<1>1. TypeOK'
  BY DEF IInv, TypeOK, vars
<1>2. IndexesAgree'
  BY DEF IInv, IndexesAgree, Agree, vars
<1>3. Genuine'
  BY DEF IInv, Genuine, vars, Good
<1>4. AttachSound'
  BY DEF IInv, AttachSound, vars, Good
<1>5. ReplayIsVerbatim'
  BY DEF IInv, ReplayIsVerbatim, vars
<1>6. Recent'
  BY DEF IInv, Recent, KeepsMostRecent, vars
<1> QED BY <1>1, <1>2, <1>3, <1>4, <1>5, <1>6 DEF IInv

LEMMA InitIInv == Init => IInv
<1> SUFFICES ASSUME Init PROVE IInv
  OBVIOUS
<1>1. TypeOK
  BY EmptyMemory DEF Init, Free, TypeOK
<1>2. IndexesAgree
  BY EmptyMemory DEF Init, IndexesAgree
<1>3. Genuine
  BY DEF Init, NoMem, Free, Genuine
<1>4. AttachSound
  BY ThreadAssumption DEF Init, Free, AttachSound
<1>5. ReplayIsVerbatim
  BY DEF Init, ReplayIsVerbatim
<1>6. Recent
  <2>1. mem.lru = <<>> /\ recency = <<>>
    BY DEF Init, NoMem
  <2> QED BY <2>1 DEF Recent, KeepsMostRecent, IsPrefix, IsInjective
<1> QED BY <1>1, <1>2, <1>3, <1>4, <1>5, <1>6 DEF IInv

LEMMA NextIInv == IInv /\ [Next]_vars => IInv'
<1> SUFFICES ASSUME IInv, [Next]_vars PROVE IInv'
  OBVIOUS
<1>1. ASSUME NEW ids \in Calls, NEW b \in Block, Remember(ids, b) PROVE IInv'
  BY <1>1, RememberKeeps
<1>2. ASSUME NEW i \in Id, NEW b \in Block, WorkerLoads(i, b) PROVE IInv'
  BY <1>2, WorkerLoadsKeeps
<1>3. CASE PutStep
  BY <1>3, PutStepKeeps
<1>4. CASE PruneStep
  BY <1>4, PruneStepKeeps
<1>5. CASE PutDone
  BY <1>5, PutDoneKeeps
<1>6. ASSUME NEW c \in Client, NEW ids \in Calls, Parse(c, ids) PROVE IInv'
  BY <1>6, ParseKeeps
<1>7. ASSUME NEW c \in Client, NEW i \in Id, NEW b \in Block, RestoreFound(c, i, b) PROVE IInv'
  BY <1>7, RestoreFoundKeeps
<1>17. ASSUME NEW c \in Client, NEW i \in Id, NEW b \in Block, RestoreTorn(c, i, b) PROVE IInv'
  BY <1>17, RestoreTornKeeps
<1>8. ASSUME NEW c \in Client, NEW i \in Id, RestoreMissing(c, i) PROVE IInv'
  BY <1>8, RestoreMissingKeeps
<1>9. ASSUME NEW c \in Client, BeginAttach(c) PROVE IInv'
  BY <1>9, BeginAttachKeeps
<1>10. ASSUME NEW c \in Client, AttachDone(c) PROVE IInv'
  BY <1>10, AttachDoneKeeps
<1>11. ASSUME NEW c \in Client, Answered(c) PROVE IInv'
  BY <1>11, AnsweredKeeps
<1>12. CASE LookupStep
  BY <1>12, LookupStepKeeps
<1>13. ASSUME NEW bs \in SUBSET mem.blocks, StoreMap(bs) PROVE IInv'
  BY <1>13, StoreMapKeeps
<1>14. ASSUME NEW i \in Id, NEW b \in Block, RecordLost(i, b) PROVE IInv'
  BY <1>14, RecordLostKeeps
<1>15. CASE Restart
  BY <1>15, RestartKeeps
<1>16. CASE UNCHANGED vars
  BY <1>16, StutterKeeps
<1> QED
  BY <1>1, <1>2, <1>3, <1>4, <1>5, <1>6, <1>7, <1>8, <1>9, <1>10, <1>11, <1>12,
     <1>13, <1>14, <1>15, <1>16, <1>17 DEF Next

LEMMA Invariance == Spec => []IInv
  BY InitIInv, NextIInv, PTL DEF Spec

-----------------------------------------------------------------------------
(* Every variable keeps its type, for any number of clients, ids, blocks   *)
(* and any budgets.                                                        *)
THEOREM TypeCorrectness == Spec => []TypeOK
<1>1. IInv => TypeOK
  BY DEF IInv
<1> QED BY <1>1, Invariance, PTL

(* The id map, the LRU list, the block map and the reference counts        *)
(* describe the same entries in every state, those inside a critical       *)
(* section included: no block is freed while an id refers to it, none      *)
(* outlives its last id.                                                   *)
THEOREM MapsAgree == Spec => []IndexesAgree
<1>1. IInv => IndexesAgree
  BY DEF IInv
<1> QED BY <1>1, Invariance, PTL

(* A block replayed for a message is the one the model sampled for each of *)
(* its calls, but for those a read that a rewrite overlapped has paired    *)
(* with another text.                                                      *)
THEOREM Verbatim == Spec => []ReplayIsVerbatim
<1>1. IInv => ReplayIsVerbatim
  BY DEF IInv
<1> QED BY <1>1, Invariance, PTL

(* The memory keeps a prefix of the ids by last use: no id is evicted      *)
(* while one that was used less recently stays.                            *)
THEOREM LeastRecentFirst == Spec => []KeepsMostRecent
<1>1. IInv => KeepsMostRecent
  BY DEF IInv, Recent
<1> QED BY <1>1, Invariance, PTL
-----------------------------------------------------------------------------
(* The byte count.  Charged: it is the sum it stands for, so that no       *)
(* subtraction is cut off at zero.                                         *)
Charged(m) == /\ m.bytes = Len(m.lru) * EntryBytes + SumFunctionOnSet(BlockBytes, m.blocks)
              /\ IsFiniteSet(m.blocks)

(* What there is to know about a block in the map.                         *)
LEMMA ChargedFacts ==
    ASSUME NEW m \in Memory, Charged(m)
    PROVE  /\ m.lru \in Seq(Id) /\ Len(m.lru) \in Nat /\ m.bytes \in Nat
           /\ m.blocks \in SUBSET Block /\ EntryBytes \in Nat /\ BlockBytes \in [Block -> Nat]
           /\ SumFunctionOnSet(BlockBytes, m.blocks) \in Nat
           /\ Len(m.lru) * EntryBytes \in Nat
<1>1. m.lru \in Seq(Id) /\ Len(m.lru) \in Nat /\ m.bytes \in Nat /\ m.blocks \in SUBSET Block
  BY DEF Memory
<1>2. EntryBytes \in Nat /\ BlockBytes \in [Block -> Nat]
  BY SizeAssumption
<1>3. SumFunctionOnSet(BlockBytes, m.blocks) \in Nat
  BY <1>1, <1>2, SumPick DEF Charged
<1>4. Len(m.lru) * EntryBytes \in Nat
  BY <1>1, <1>2
<1> QED BY <1>1, <1>2, <1>3, <1>4

(* The sum with a block more.                                              *)
LEMMA ChargedBlock ==
    ASSUME NEW bs \in SUBSET Block, IsFiniteSet(bs), NEW b \in Block, b \notin bs
    PROVE  /\ IsFiniteSet(bs \cup {b})
           /\ SumFunctionOnSet(BlockBytes, bs \cup {b}) = BlockBytes[b] + SumFunctionOnSet(BlockBytes, bs)
<1> DEFINE all == bs \cup {b}
<1>1. all \in SUBSET Block /\ b \in all /\ all \ {b} = bs
  OBVIOUS
<1>2. IsFiniteSet(all)
  BY FS_AddElement
<1> HIDE DEF all
<1>3. SumFunctionOnSet(BlockBytes, all) = BlockBytes[b] + SumFunctionOnSet(BlockBytes, all \ {b})
  BY <1>1, <1>2, SizeAssumption, SumWithout
<1> QED BY <1>1, <1>2, <1>3 DEF all

(* Touching an entry charges nothing.                                      *)
LEMMA TouchCharges ==
    ASSUME NEW m \in Memory, Agree(m), Charged(m), NEW i \in Id, m.block[i] # None
    PROVE  /\ Charged(Touch(m, i))
           /\ Touch(m, i).entries = m.entries /\ Touch(m, i).bytes = m.bytes
<1>1. m.lru \in Seq(Id) /\ IsInjective(m.lru) /\ i \in ToSet(m.lru)
  BY DEF Memory, Agree
<1>2. Len(ToHead(m.lru, i)) = Len(m.lru)
  BY <1>1, ToHeadIs
<1>3. /\ Touch(m, i).lru = ToHead(m.lru, i) /\ Touch(m, i).bytes = m.bytes
      /\ Touch(m, i).blocks = m.blocks /\ Touch(m, i).entries = m.entries
  BY DEF Touch, Memory
<1> QED BY <1>2, <1>3 DEF Charged

(* Removing an entry takes off its own charge, and its block's when it was *)
(* the block's last.                                                       *)
LEMMA RemoveCharges ==
    ASSUME NEW m \in Memory, Agree(m), Charged(m), NEW i \in Id, m.block[i] # None
    PROVE  Charged(RemoveEntry(m, i))
<1> DEFINE b == m.block[i]
           r == RemoveEntry(m, i)
           sum == SumFunctionOnSet(BlockBytes, m.blocks)
<1>1. /\ m.lru \in Seq(Id) /\ Len(m.lru) \in Nat /\ m.bytes \in Nat
      /\ m.blocks \in SUBSET Block /\ EntryBytes \in Nat /\ BlockBytes \in [Block -> Nat]
      /\ sum \in Nat
  BY ChargedFacts
<1>2. /\ m.lru \in Seq(Id) /\ i \in ToSet(m.lru) /\ IsInjective(m.lru)
      /\ b \in Block /\ b \in m.blocks
  BY DEF Memory, Agree
<1>3. Len(Unlink(m.lru, i)) = Len(m.lru) - 1 /\ Len(m.lru) # 0
  <2>1. Len(Unlink(m.lru, i)) = Len(m.lru) - 1 /\ Unlink(m.lru, i) \in Seq(Id)
    BY <1>2, UnlinkIs
  <2>2. Len(Unlink(m.lru, i)) \in Nat
    BY <2>1
  <2> QED BY <1>1, <2>1, <2>2
<1>4. /\ r.lru = Unlink(m.lru, i)
      /\ r.blocks = (IF m.refs[b] = 1 THEN m.blocks \ {b} ELSE m.blocks)
      /\ r.bytes = (IF m.refs[b] = 1 THEN Minus(Minus(m.bytes, EntryBytes), BlockBytes[b])
                                     ELSE Minus(m.bytes, EntryBytes))
  BY DEF RemoveEntry
<1>5. /\ IsFiniteSet(m.blocks \ {b})
      /\ SumFunctionOnSet(BlockBytes, m.blocks \ {b}) \in Nat
      /\ sum = BlockBytes[b] + SumFunctionOnSet(BlockBytes, m.blocks \ {b})
      /\ BlockBytes[b] \in Nat
  <2>1. IsFiniteSet(m.blocks) /\ IsFiniteSet(m.blocks \ {b})
    BY FS_RemoveElement DEF Charged
  <2>2. SumFunctionOnSet(BlockBytes, m.blocks \ {b}) \in Nat
    <3>1. m.blocks \ {b} \in SUBSET Block
      BY <1>1
    <3> QED BY <1>1, <2>1, <3>1, SumPick
  <2>3. sum = BlockBytes[b] + SumFunctionOnSet(BlockBytes, m.blocks \ {b})
    BY <1>1, <1>2, <2>1, SumWithout
  <2> QED BY <1>1, <1>2, <2>1, <2>2, <2>3
<1>6. m.bytes = Len(m.lru) * EntryBytes + sum
  BY DEF Charged
<1> DEFINE rest == SumFunctionOnSet(BlockBytes, m.blocks \ {b})
           n == Len(m.lru) - 1
<1>7. n \in Nat /\ n * EntryBytes \in Nat /\ Len(m.lru) * EntryBytes = n * EntryBytes + EntryBytes
  <2>1. n \in Nat /\ Len(m.lru) = n + 1
    BY <1>1, <1>3
  <2> HIDE DEF n
  <2>2. (n + 1) * EntryBytes = n * EntryBytes + EntryBytes /\ n * EntryBytes \in Nat
    BY <1>1, <2>1
  <2> QED BY <2>1, <2>2
<1>8. Minus(m.bytes, EntryBytes) = n * EntryBytes + sum
  <2> HIDE DEF n, sum
  <2> QED BY <1>1, <1>6, <1>7 DEF Minus
<1>9. Len(r.lru) = n
  BY <1>3, <1>4
<1> HIDE DEF r, n, sum
<1>10. CASE m.refs[b] = 1
  <2>1. Minus(Minus(m.bytes, EntryBytes), BlockBytes[b]) = n * EntryBytes + rest
    <3> HIDE DEF b, rest
    <3> DEFINE base == n * EntryBytes
    <3>1. rest \in Nat /\ BlockBytes[b] \in Nat /\ sum = BlockBytes[b] + rest
      BY <1>5 DEF rest
    <3>2. base \in Nat /\ Minus(m.bytes, EntryBytes) = base + sum
      BY <1>7, <1>8
    <3> HIDE DEF base
    <3>3. Minus(base + sum, BlockBytes[b]) = base + rest
      BY <3>1, <3>2 DEF Minus
    <3> QED BY <3>2, <3>3 DEF base
  <2>2. r.blocks = m.blocks \ {b} /\ r.bytes = n * EntryBytes + rest
    BY <1>4, <1>10, <2>1
  <2> QED BY <1>5, <1>9, <2>2 DEF Charged, r
<1>11. CASE m.refs[b] # 1
  <2>1. r.blocks = m.blocks /\ r.bytes = n * EntryBytes + sum
    BY <1>4, <1>8, <1>11
  <2> QED BY <1>9, <2>1 DEF Charged, r, sum
<1> QED BY <1>10, <1>11

(* Inserting one charges it, and its block when it is new.                 *)
LEMMA InsertCharges ==
    ASSUME NEW m \in Memory, Charged(m), NEW i \in Id, NEW b \in Block
    PROVE  Charged(Insert(m, i, b))
<1> DEFINE r == Insert(m, i, b)
           sum == SumFunctionOnSet(BlockBytes, m.blocks)
           n == Len(m.lru)
<1>1. /\ m.lru \in Seq(Id) /\ n \in Nat /\ m.bytes \in Nat
      /\ m.blocks \in SUBSET Block /\ EntryBytes \in Nat /\ BlockBytes \in [Block -> Nat]
      /\ sum \in Nat /\ n * EntryBytes \in Nat
  BY ChargedFacts
<1>2. /\ r.lru = <<i>> \o m.lru /\ r.blocks = m.blocks \cup {b}
      /\ r.bytes = (m.bytes + EntryBytes) + (IF b \in m.blocks THEN 0 ELSE BlockBytes[b])
  BY DEF Insert
<1>3. Len(r.lru) = n + 1
  BY <1>1, <1>2
<1>4. m.bytes = n * EntryBytes + sum /\ IsFiniteSet(m.blocks) /\ BlockBytes[b] \in Nat
  BY <1>1 DEF Charged
<1> HIDE DEF r, n
<1>5. (n + 1) * EntryBytes = n * EntryBytes + EntryBytes
  BY <1>1
<1> DEFINE base == n * EntryBytes
<1>b. base \in Nat /\ (n + 1) * EntryBytes = base + EntryBytes /\ m.bytes = base + sum
  BY <1>1, <1>4, <1>5
<1> HIDE DEF base, sum
<1>6. CASE b \in m.blocks
  <2>1. r.blocks = m.blocks
    BY <1>2, <1>6
  <2>2. r.bytes = (base + sum) + EntryBytes
    BY <1>1, <1>2, <1>6, <1>b
  <2>3. r.bytes = (n + 1) * EntryBytes + sum
    BY <1>1, <1>b, <2>2
  <2> QED BY <1>3, <1>4, <2>1, <2>3 DEF Charged, r, sum
<1>7. CASE b \notin m.blocks
  <2>1. /\ IsFiniteSet(r.blocks)
        /\ SumFunctionOnSet(BlockBytes, r.blocks) = BlockBytes[b] + sum
    BY <1>1, <1>2, <1>4, <1>7, ChargedBlock DEF sum
  <2> DEFINE own == BlockBytes[b]
  <2>2. r.bytes = ((base + sum) + EntryBytes) + own /\ own \in Nat
    BY <1>1, <1>2, <1>4, <1>7, <1>b
  <2> HIDE DEF own
  <2>3. ((base + sum) + EntryBytes) + own = (base + EntryBytes) + (own + sum)
    BY <1>1, <1>b, <2>2
  <2>4. r.bytes = (n + 1) * EntryBytes + (own + sum)
    BY <1>b, <2>2, <2>3
  <2> QED BY <1>3, <2>1, <2>4 DEF Charged, r, own
<1> QED BY <1>6, <1>7

(* A put keeps the count exact, whichever of its three cases it takes.     *)
LEMMA PutCharges ==
    ASSUME NEW m \in Memory, Agree(m), Charged(m),
           NEW i \in Id, NEW b \in Block
    PROVE  Charged(Put(m, i, b))
<1>1. CASE m.block[i] = b
  <2>1. Put(m, i, b) = Touch(m, i) /\ m.block[i] # None
    BY <1>1, BlockAssumption DEF Put
  <2> QED BY <2>1, TouchCharges
<1>2. CASE m.block[i] # b /\ m.block[i] = None
  <2>1. Put(m, i, b) = Insert(m, i, b)
    BY <1>2 DEF Put
  <2> QED BY <2>1, InsertCharges
<1>3. CASE m.block[i] # b /\ m.block[i] # None
  <2> DEFINE n == RemoveEntry(m, i)
  <2>1. Put(m, i, b) = Insert(n, i, b)
    BY <1>3 DEF Put
  <2>2. n \in Memory
    BY <1>3, RemoveKeeps
  <2>3. Charged(n)
    BY <1>3, RemoveCharges
  <2> HIDE DEF n
  <2>4. Charged(Insert(n, i, b))
    BY <2>2, <2>3, InsertCharges
  <2> QED BY <2>1, <2>4
<1> QED BY <1>1, <1>2, <1>3

(* An empty list leaves nothing to charge.                                 *)
LEMMA EmptyIsFree ==
    ASSUME NEW m \in Memory, Agree(m), Charged(m), m.lru = <<>>
    PROVE  m.entries = 0 /\ m.bytes = 0
<1>1. ToSet(m.lru) = {} /\ Len(m.lru) = 0
  BY DEF ToSet
<1>2. m.blocks = {}
  <2>1. \A b \in Block : m.users[b] = {}
    BY <1>1, BlockAssumption DEF Agree
  <2> QED BY <2>1 DEF Agree, Memory
<1>3. SumFunctionOnSet(BlockBytes, m.blocks) = 0
  BY <1>2, ChargedFacts, SumPick DEF Charged
<1>4. 0 * EntryBytes = 0
  BY SizeAssumption
<1> QED BY <1>1, <1>3, <1>4 DEF Agree, Charged

(* Both budgets hold, unless a put is not through with them.               *)
InBudget == mem.entries <= MaxEntries /\ mem.bytes <= MaxBytes
Budget == Charged(mem) /\ (op.kind # "put" => InBudget)

LEMMA EmptyCharges == Charged(NoMem) /\ NoMem.entries = 0 /\ NoMem.bytes = 0
<1>1. NoMem.lru = <<>> /\ NoMem.blocks = {} /\ NoMem.bytes = 0 /\ NoMem.entries = 0
  BY DEF NoMem
<1>2. Charged(NoMem)
  <2>1. IsFiniteSet({}) /\ {} \in SUBSET Block
    BY FS_EmptySet
  <2>2. SumFunctionOnSet(BlockBytes, {}) = 0
    BY <2>1, SizeAssumption, SumPick
  <2>3. Len(<<>>) * EntryBytes = 0
    BY SizeAssumption
  <2> QED BY <1>1, <2>1, <2>2, <2>3 DEF Charged
<1> QED BY <1>1, <1>2

(* Every action keeps the count exact, and the budgets with it.            *)
LEMMA NextBudget ==
    ASSUME IInv, IInv', Budget, [Next]_vars
    PROVE  Budget'
<1>0. mem \in Memory /\ Agree(mem) /\ Charged(mem)
  BY DEF IInv, TypeOK, IndexesAgree, Budget
<1>1. ASSUME NEW ids \in Calls, NEW b \in Block, Remember(ids, b) PROVE Budget'
  BY <1>1 DEF Remember, BeginPut, Free, Budget
<1>2. ASSUME NEW i \in Id, NEW b \in Block, WorkerLoads(i, b) PROVE Budget'
  BY <1>2 DEF WorkerLoads, BeginPut, Free, Budget
<1>3. CASE PutStep
  <2>1. Head(op.todo) \in Id /\ op.block \in Block
    <3>1. op.todo \in Seq(Id) /\ op.todo # <<>>
      BY <1>3 DEF PutStep, IInv, TypeOK
    <3>2. Head(op.todo) \in Id
      BY <3>1
    <3> QED BY <1>3, <3>1, <3>2 DEF PutStep, IInv, Genuine
  <2>2. Charged(mem')
    <3>1. Charged(Put(mem, Head(op.todo), op.block))
      BY <1>0, <2>1, PutCharges
    <3> QED BY <1>3, <3>1 DEF PutStep
  <2>3. op'.kind = "put"
    BY <1>3 DEF PutStep, IInv, TypeOK
  <2> QED BY <2>2, <2>3 DEF Budget, Charged
<1>4. CASE PruneStep
  <2> DEFINE i == mem.lru[Len(mem.lru)]
  <2>1. i \in Id /\ mem.block[i] # None
    <3>1. mem.lru \in Seq(Id) /\ mem.lru # <<>>
      BY <1>4 DEF PruneStep, Over, IInv, TypeOK, Memory
    <3>2. Len(mem.lru) \in 1..Len(mem.lru)
      BY <3>1
    <3>3. i \in ToSet(mem.lru)
      BY <3>1, <3>2, ListFacts
    <3> QED BY <3>3 DEF IInv, IndexesAgree, Agree
  <2>2. mem' = RemoveEntry(mem, i) /\ op' = op /\ op.kind = "put"
    BY <1>4 DEF PruneStep
  <2> HIDE DEF i
  <2>3. Charged(RemoveEntry(mem, i))
    BY <1>0, <2>1, RemoveCharges
  <2> QED BY <2>2, <2>3 DEF Budget, Charged
<1>5. CASE PutDone
  <2>1. InBudget
    <3>1. ~Over(mem)
      BY <1>5 DEF PutDone
    <3>2. CASE mem.lru = <<>>
      BY <1>0, <3>2, EmptyIsFree, SizeAssumption DEF InBudget
    <3>3. CASE mem.lru # <<>>
      BY <1>0, <3>1, <3>3, SizeAssumption DEF Over, InBudget, Memory
    <3> QED BY <3>2, <3>3
  <2> QED BY <1>0, <1>5, <2>1 DEF PutDone, Budget, InBudget, Charged
<1>6. CASE LookupStep
  <2> DEFINE i == Head(op.todo)
  <2>1. i \in Id
    BY <1>6 DEF LookupStep, IInv, TypeOK
  <2>2. op.kind = "attach" /\ InBudget
    BY <1>6 DEF LookupStep, Budget
  <2>3. mem' = mem \/ (mem.block[i] # None /\ mem' = Touch(mem, i))
    BY <1>6 DEF LookupStep
  <2> HIDE DEF i
  <2>4. CASE mem' = mem
    BY <1>0, <2>2, <2>4 DEF Budget, InBudget, Charged
  <2>5. CASE mem.block[i] # None /\ mem' = Touch(mem, i)
    <3>1. Charged(Touch(mem, i)) /\ Touch(mem, i).entries = mem.entries /\ Touch(mem, i).bytes = mem.bytes
      BY <1>0, <2>1, <2>5, TouchCharges
    <3> QED BY <2>2, <2>5, <3>1 DEF Budget, InBudget, Charged
  <2> QED BY <2>3, <2>4, <2>5
<1>7. ASSUME NEW c \in Client, NEW ids \in Calls, Parse(c, ids) PROVE Budget'
  BY <1>7 DEF Parse, Budget, InBudget, Charged
<1>8. ASSUME NEW c \in Client, NEW i \in Id, NEW b \in Block, RestoreFound(c, i, b) PROVE Budget'
  BY <1>8 DEF RestoreFound, BeginPut, Free, Budget, Charged
<1>17. ASSUME NEW c \in Client, NEW i \in Id, NEW b \in Block, RestoreTorn(c, i, b) PROVE Budget'
  BY <1>17 DEF RestoreTorn, BeginPut, Free, Budget, Charged
<1>9. ASSUME NEW c \in Client, NEW i \in Id, RestoreMissing(c, i) PROVE Budget'
  BY <1>9 DEF RestoreMissing, Budget, InBudget, Charged
<1>10. ASSUME NEW c \in Client, BeginAttach(c) PROVE Budget'
  <2>1. op.kind # "put"
    BY <1>10 DEF BeginAttach, LockFree, IInv, AttachSound
  <2> QED BY <1>10, <2>1 DEF BeginAttach, Budget, InBudget, Charged
<1>11. ASSUME NEW c \in Client, AttachDone(c) PROVE Budget'
  BY <1>11 DEF AttachDone, Budget, InBudget, Charged
<1>12. ASSUME NEW c \in Client, Answered(c) PROVE Budget'
  BY <1>12 DEF Answered, Budget, InBudget, Charged
<1>13. ASSUME NEW bs \in SUBSET mem.blocks, StoreMap(bs) PROVE Budget'
  BY <1>13 DEF StoreMap, Budget, InBudget, Charged
<1>14. ASSUME NEW i \in Id, NEW b \in Block, RecordLost(i, b) PROVE Budget'
  BY <1>14 DEF RecordLost, Budget, InBudget, Charged
<1>15. CASE Restart
  <2>1. mem' = NoMem /\ op'.kind = "none"
    BY <1>15 DEF Restart, Free
  <2>2. Charged(NoMem) /\ NoMem.entries = 0 /\ NoMem.bytes = 0
    BY EmptyCharges
  <2> QED BY <2>1, <2>2, SizeAssumption DEF Budget, InBudget, Charged
<1>16. CASE UNCHANGED vars
  BY <1>16 DEF vars, Budget, InBudget, Charged
<1> QED BY <1>1, <1>2, <1>3, <1>4, <1>5, <1>6, <1>7, <1>8, <1>9, <1>10, <1>11, <1>12, <1>13,
           <1>14, <1>15, <1>16, <1>17 DEF Next

(* Whenever tool_mu is free the memory is within both its budgets, and in  *)
(* every state the byte count prune goes by is the sum it stands for,      *)
(* every block text charged once however many ids share it.                *)
THEOREM BudgetsHold == Spec => []WithinBudget
<1>1. Init => Budget
  BY EmptyCharges, SizeAssumption DEF Init, Budget, InBudget
<1>2. IInv /\ IInv' /\ Budget /\ [Next]_vars => Budget'
  BY NextBudget
<1>3. IInv /\ Budget => WithinBudget
  BY DEF IInv, AttachSound, Budget, Charged, InBudget, WithinBudget, BytesExact, LockFree
<1> QED BY <1>1, <1>2, <1>3, Invariance, PTL DEF Spec
-----------------------------------------------------------------------------
(* What the lookups of a message have established about its first n ids    *)
(* (o is the state of the attach): nothing yet, that all of them map to    *)
(* one block, or that no block is theirs.                                  *)
Seen(m, ids, n, o) ==
    /\ n = 0 => o.exact /\ o.block = None
    /\ o.exact => \A k \in 1..n : m.block[ids[k]] = o.block /\ o.block # None
    /\ ~o.exact => \A d \in Block : \E k \in 1..n : m.block[ids[k]] # d

Looking ==
    /\ \A c \in Client : pc[c] \in {"restore", "attach"} => msg[c] # <<>>
    /\ op.kind = "attach" =>
          Seen(mem, msg[op.who], Len(msg[op.who]) - Len(op.todo), op)

(* One more id, i, whose lookup turns o into p.                            *)
LooksUp(m, i, o, p) ==
    /\ o.exact \in BOOLEAN /\ o.block \in Block \cup {None} /\ p.exact \in BOOLEAN
    /\ p.exact <=> o.exact /\ m.block[i] # None /\ o.block \in {None, m.block[i]}
    /\ p.exact => p.block = m.block[i]

LEMMA SeenNext ==
    ASSUME NEW m \in Memory, NEW ids \in Seq(Id), NEW n \in Nat, n + 1 \in 1..Len(ids),
           NEW o, Seen(m, ids, n, o), NEW p, LooksUp(m, ids[n + 1], o, p)
    PROVE  Seen(m, ids, n + 1, p)
<1>0. /\ o.exact \in BOOLEAN /\ o.block \in Block \cup {None} /\ p.exact \in BOOLEAN
      /\ p.exact <=> o.exact /\ m.block[ids[n + 1]] # None /\ o.block \in {None, m.block[ids[n + 1]]}
      /\ p.exact => p.block = m.block[ids[n + 1]]
  BY DEF LooksUp
<1>1. m.block[ids[n + 1]] \in Block \cup {None} /\ None \notin Block
  BY BlockAssumption DEF Memory
<1>2. \A k \in 1..(n + 1) : k \in 1..n \/ k = n + 1
  OBVIOUS
<1>3. n + 1 \in 1..(n + 1) /\ 1..n \subseteq 1..(n + 1) /\ n + 1 # 0
  OBVIOUS
<1>4. ASSUME p.exact, NEW k \in 1..(n + 1) PROVE m.block[ids[k]] = p.block /\ p.block # None
  <2>1. CASE k = n + 1
    BY <1>0, <1>4, <2>1
  <2>2. CASE k \in 1..n
    BY <1>0, <1>4, <2>2 DEF Seen
  <2> QED BY <1>2, <2>1, <2>2
<1>5. ASSUME ~p.exact, NEW d \in Block PROVE \E k \in 1..(n + 1) : m.block[ids[k]] # d
  <2>1. CASE m.block[ids[n + 1]] = d
    <3>1. CASE o.exact
      <4>1. o.block # d /\ o.block # None
        BY <1>0, <1>1, <1>5, <2>1, <3>1
      <4>2. n # 0
        BY <4>1 DEF Seen
      <4>3. n \in 1..n
        BY <4>2
      <4>4. m.block[ids[n]] = o.block
        BY <3>1, <4>3 DEF Seen
      <4> QED BY <1>3, <4>1, <4>3, <4>4
    <3>2. CASE ~o.exact
      BY <1>3, <3>2 DEF Seen
    <3> QED BY <3>1, <3>2
  <2>2. CASE m.block[ids[n + 1]] # d
    BY <1>3, <2>2
  <2> QED BY <2>1, <2>2
<1> QED BY <1>3, <1>4, <1>5 DEF Seen

(* The lookup of a message goes on with its next id, in the memory that    *)
(* was there when it began.                                                *)
LEMMA LookupSees ==
    ASSUME IInv, Looking, LookupStep
    PROVE  Looking'
<1> DEFINE ids == msg[op.who]
           n   == Len(ids) - Len(op.todo)
           i   == Head(op.todo)
<1>1. /\ op.who \in Client /\ ids \in Seq(Id) /\ op.todo \in Seq(Id) /\ op.todo # <<>>
      /\ Len(op.todo) <= Len(ids) /\ \A k \in 1..Len(op.todo) : op.todo[k] = ids[n + k]
      /\ op.exact \in BOOLEAN /\ op.block \in Block \cup {None} /\ op.kind = "attach"
  <2>1. op.who \in Client /\ op.kind = "attach" /\ op.todo # <<>>
    BY DEF LookupStep, IInv, AttachSound
  <2>2. msg \in [Client -> Seq(Id)] /\ op.todo \in Seq(Id) /\ op.exact \in BOOLEAN
        /\ op.block \in Block \cup {None}
    BY DEF IInv, TypeOK
  <2> QED BY <2>1, <2>2 DEF IInv, AttachSound
<1>2. Seen(mem, ids, n, op) /\ mem \in Memory /\ Agree(mem)
  BY <1>1 DEF Looking, IInv, TypeOK, IndexesAgree
<1> HIDE DEF ids, n
<1>3. n \in Nat /\ n + 1 \in 1..Len(ids) /\ Len(op.todo) \in Nat \ {0}
      /\ n = Len(ids) - Len(op.todo) /\ Len(ids) \in Nat
  <2>1. Len(op.todo) \in Nat \ {0} /\ Len(ids) \in Nat
    BY <1>1
  <2> QED BY <1>1, <2>1 DEF n
<1>4. i = ids[n + 1] /\ i \in Id /\ Len(Tail(op.todo)) = Len(op.todo) - 1
  <2>1. i = op.todo[1] /\ i \in Id /\ 1 \in 1..Len(op.todo) /\ Len(Tail(op.todo)) = Len(op.todo) - 1
    BY <1>1, <1>3
  <2> QED BY <1>1, <2>1
<1> HIDE DEF i
<1>5. /\ op'.kind = op.kind /\ op'.who = op.who /\ op'.todo = Tail(op.todo)
      /\ op'.exact \in BOOLEAN
      /\ op'.exact <=> op.exact /\ mem.block[i] # None /\ op.block \in {None, mem.block[i]}
      /\ op'.exact => op'.block = mem.block[i]
  <2>0. op \in [who : Thread \cup {None}, kind : {"none", "put", "attach"}, todo : Seq(Id),
                block : Block \cup {None}, exact : BOOLEAN]
    BY DEF IInv, TypeOK
  <2>1. CASE mem.block[i] = None
    <3>1. op' = [op EXCEPT !.todo = Tail(@), !.exact = FALSE]
      BY <2>1 DEF LookupStep, i
    <3> QED BY <2>0, <2>1, <3>1
  <2>2. CASE mem.block[i] # None
    <3>1. op' = [op EXCEPT !.todo = Tail(@),
                          !.block = IF @ = None THEN mem.block[i] ELSE @,
                          !.exact = @ /\ op.block \in {None, mem.block[i]}]
      BY <2>2 DEF LookupStep, i
    <3>2. /\ op'.todo = Tail(op.todo) /\ op'.who = op.who /\ op'.kind = op.kind
          /\ op'.block = (IF op.block = None THEN mem.block[i] ELSE op.block)
          /\ op'.exact = (op.exact /\ op.block \in {None, mem.block[i]})
      BY <2>0, <3>1
    <3>3. op'.exact \in BOOLEAN
      BY <2>0, <3>2, Zenon
    <3>4. op'.exact <=> op.exact /\ op.block \in {None, mem.block[i]}
      BY <3>2, Zenon
    <3>5. op'.exact => op'.block = mem.block[i]
      BY <3>2, <3>4, Zenon
    <3> QED BY <2>2, <3>2, <3>3, <3>4, <3>5, Zenon
  <2> QED BY <2>1, <2>2
<1>6. Seen(mem, ids, n + 1, op')
  <2>1. LooksUp(mem, ids[n + 1], op, op')
    BY <1>1, <1>4, <1>5 DEF LooksUp
  <2> QED BY <1>1, <1>2, <1>3, <2>1, SeenNext
<1>7. mem'.block = mem.block
  <2>1. mem' = mem \/ (mem.block[i] # None /\ mem' = Touch(mem, i))
    BY DEF LookupStep, i
  <2> QED BY <1>2, <1>4, <2>1, TouchKeeps
<1>8. Seen(mem', ids, n + 1, op')
  BY <1>6, <1>7 DEF Seen
<1>9. msg' = msg /\ pc' = pc
  BY DEF LookupStep
<1>10. msg'[op'.who] = ids /\ Len(ids) - Len(op'.todo) = n + 1
  <2>1. msg'[op'.who] = ids
    BY <1>5, <1>9 DEF ids
  <2> DEFINE l == Len(op.todo)
             w == Len(ids)
  <2>2. Len(op'.todo) = l - 1
    BY <1>4, <1>5
  <2>3. w \in Nat /\ l \in Nat \ {0} /\ n = w - l
    BY <1>3
  <2> HIDE DEF l, w
  <2>4. w - (l - 1) = n + 1
    BY <2>3
  <2> QED BY <2>1, <2>2, <2>4 DEF w
<1>11. \A c \in Client : pc'[c] \in {"restore", "attach"} => msg'[c] # <<>>
  BY <1>9 DEF Looking
<1> QED BY <1>8, <1>10, <1>11 DEF Looking

(* Nobody else changes what the thread inside attach has seen.             *)
LEMMA NextLooking ==
    ASSUME IInv, Looking, [Next]_vars
    PROVE  Looking'
<1>0. pc \in [Client -> {"idle", "restore", "attach", "done"}] /\ msg \in [Client -> Seq(Id)]
  BY DEF IInv, TypeOK
<1>a. op.kind = "none" <=> op.who = None
  BY DEF IInv, AttachSound
<1>1. ASSUME NEW ids \in Calls, NEW b \in Block, Remember(ids, b) PROVE Looking'
  BY <1>1 DEF Remember, BeginPut, Free, Looking
<1>2. ASSUME NEW i \in Id, NEW b \in Block, WorkerLoads(i, b) PROVE Looking'
  BY <1>2 DEF WorkerLoads, BeginPut, Free, Looking
<1>3. CASE PutStep
  <2>1. op'.kind = "put" /\ pc' = pc /\ msg' = msg
    BY <1>3 DEF PutStep, IInv, TypeOK
  <2> QED BY <2>1 DEF Looking
<1>4. CASE PruneStep
  BY <1>4 DEF PruneStep, Looking
<1>5. CASE PutDone
  BY <1>5 DEF PutDone, Free, Looking
<1>6. CASE LookupStep
  BY <1>6, LookupSees
<1>7. ASSUME NEW c \in Client, NEW ids \in Calls, Parse(c, ids) PROVE Looking'
  <2>1. ids # <<>>
    BY DEF Calls
  <2>2. op.kind = "attach" => op.who # c
    BY <1>7 DEF Parse, IInv, AttachSound
  <2>3. op.kind = "attach" => op.who \in Client /\ msg'[op.who] = msg[op.who]
    BY <1>0, <1>7, <2>2 DEF Parse, IInv, AttachSound
  <2>4. \A d \in Client : pc'[d] \in {"restore", "attach"} => msg'[d] # <<>>
    BY <1>0, <1>7, <2>1 DEF Parse, Looking
  <2>5. op' = op /\ mem' = mem
    BY <1>7 DEF Parse
  <2>6. op.kind = "attach" => Seen(mem, msg'[op.who], Len(msg'[op.who]) - Len(op.todo), op)
    BY <2>3 DEF Looking
  <2> QED BY <2>4, <2>5, <2>6 DEF Looking, Seen
<1>8. ASSUME NEW c \in Client, NEW i \in Id, NEW b \in Block, RestoreFound(c, i, b) PROVE Looking'
  BY <1>8 DEF RestoreFound, BeginPut, Free, Looking
<1>17. ASSUME NEW c \in Client, NEW i \in Id, NEW b \in Block, RestoreTorn(c, i, b) PROVE Looking'
  BY <1>17 DEF RestoreTorn, BeginPut, Free, Looking
<1>9. ASSUME NEW c \in Client, NEW i \in Id, RestoreMissing(c, i) PROVE Looking'
  BY <1>9 DEF RestoreMissing, Looking, Seen
<1>10. ASSUME NEW c \in Client, BeginAttach(c) PROVE Looking'
  <2>1. /\ op'.kind = "attach" /\ op'.who = c /\ op'.todo = msg[c] /\ op'.exact = TRUE
        /\ op'.block = None /\ msg' = msg /\ pc[c] = "restore"
    BY <1>10 DEF BeginAttach, Free
  <2>2. \A d \in Client : pc'[d] \in {"restore", "attach"} => msg'[d] # <<>>
    BY <1>0, <1>10, <2>1 DEF BeginAttach, Looking
  <2>3. Len(msg[c]) - Len(msg[c]) = 0
    BY <1>0
  <2>4. Seen(mem', msg[c], 0, op')
    BY <2>1 DEF Seen
  <2> QED BY <2>1, <2>2, <2>3, <2>4 DEF Looking
<1>11. ASSUME NEW c \in Client, AttachDone(c) PROVE Looking'
  BY <1>0, <1>11 DEF AttachDone, Free, Looking
<1>12. ASSUME NEW c \in Client, Answered(c) PROVE Looking'
  <2>1. op.kind = "attach" => op.who # c
    BY <1>12 DEF Answered, IInv, AttachSound
  <2>2. op.kind = "attach" => op.who \in Client /\ msg'[op.who] = msg[op.who]
    BY <1>0, <1>12, <2>1 DEF Answered, IInv, AttachSound
  <2>3. \A d \in Client : pc'[d] \in {"restore", "attach"} => msg'[d] # <<>>
    BY <1>0, <1>12 DEF Answered, Looking
  <2>4. op' = op /\ mem' = mem
    BY <1>12 DEF Answered
  <2>5. op.kind = "attach" => Seen(mem, msg'[op.who], Len(msg'[op.who]) - Len(op.todo), op)
    BY <2>2 DEF Looking
  <2> QED BY <2>3, <2>4, <2>5 DEF Looking, Seen
<1>13. ASSUME NEW bs \in SUBSET mem.blocks, StoreMap(bs) PROVE Looking'
  BY <1>13 DEF StoreMap, Looking, Seen
<1>14. ASSUME NEW i \in Id, NEW b \in Block, RecordLost(i, b) PROVE Looking'
  BY <1>14 DEF RecordLost, Looking, Seen
<1>15. CASE Restart
  BY <1>15 DEF Restart, Free, Looking
<1>16. CASE UNCHANGED vars
  BY <1>16 DEF vars, Looking, Seen
<1> QED BY <1>1, <1>2, <1>3, <1>4, <1>5, <1>6, <1>7, <1>8, <1>9, <1>10, <1>11, <1>12, <1>13,
           <1>14, <1>15, <1>16, <1>17 DEF Next

(* A client is answered when its last id has been looked up.               *)
LEMMA AttachEnds ==
    ASSUME IInv, Looking, [Next]_vars, NEW c \in Client, pc[c] = "attach", pc'[c] = "done"
    PROVE  AttachDone(c)
<1>1. pc \in [Client -> {"idle", "restore", "attach", "done"}] /\ pc' # pc
  BY DEF IInv, TypeOK
<1>2. CASE \E d \in Client : \/ \E ids \in Calls : Parse(d, ids)
                             \/ \E i \in Id : RestoreMissing(d, i)
                             \/ \E i \in Id, b \in Block : RestoreFound(d, i, b) \/ RestoreTorn(d, i, b)
                             \/ BeginAttach(d) \/ Answered(d)
  BY <1>1, <1>2 DEF Parse, RestoreFound, RestoreTorn, RestoreMissing, BeginAttach, Answered
<1>3. CASE \E d \in Client : AttachDone(d)
  BY <1>1, <1>3 DEF AttachDone
<1>4. CASE Restart
  BY <1>4 DEF Restart
<1>5. CASE \/ \E ids \in Calls, b \in Block : Remember(ids, b)
           \/ \E i \in Id, b \in Block : WorkerLoads(i, b) \/ RecordLost(i, b)
           \/ PutStep \/ PruneStep \/ PutDone \/ LookupStep
           \/ \E bs \in SUBSET mem.blocks : StoreMap(bs)
           \/ UNCHANGED vars
  BY <1>1, <1>5 DEF Remember, WorkerLoads, PutStep, PruneStep, PutDone, LookupStep, StoreMap,
     RecordLost, vars
<1> QED BY <1>2, <1>3, <1>4, <1>5 DEF Next

(* A message is replayed exactly when the memory, as it was when the       *)
(* critical section of attach began, maps all its ids to one block: the    *)
(* lookup of one call never costs another its entry, and neither the order *)
(* of the ids nor repeated ones matter.                                    *)
THEOREM AttachDecides == Spec => AttachAnswers
<1> DEFINE Answers ==
             \A c \in Client : (pc[c] = "attach" /\ pc'[c] = "done") =>
                (reply'[c] # None <=>
                    \E b \in Block : \A k \in DOMAIN msg[c] : mem.block[msg[c][k]] = b)
<1>1. Init => Looking
  BY DEF Init, Looking, Free
<1>2. IInv /\ Looking /\ [Next]_vars => Looking'
  BY NextLooking
<1>3. ASSUME IInv, Looking, [Next]_vars PROVE Answers
  <2> SUFFICES ASSUME NEW c \in Client, pc[c] = "attach", pc'[c] = "done"
               PROVE  reply'[c] # None <=>
                         \E b \in Block : \A k \in DOMAIN msg[c] : mem.block[msg[c][k]] = b
    BY DEF Answers
  <2>1. AttachDone(c)
    BY <1>3, AttachEnds
  <2>2. /\ op.kind = "attach" /\ op.who = c /\ op.todo = <<>> /\ msg[c] \in Seq(Id)
        /\ reply'[c] = (IF op.exact THEN op.block ELSE None) /\ msg[c] # <<>>
    BY <1>3, <2>1 DEF AttachDone, IInv, TypeOK, Looking
  <2> DEFINE n == Len(msg[c])
  <2>3. n \in Nat \ {0} /\ n - 0 = n /\ DOMAIN msg[c] = 1..n /\ 1 \in 1..n
    BY <2>2
  <2>4. Seen(mem, msg[c], n, op)
    BY <1>3, <2>2, <2>3 DEF Looking
  <2>5. op.block \in Block \cup {None}
    BY <1>3 DEF IInv, TypeOK
  <2> HIDE DEF n
  <2>6. CASE op.exact
    <3>1. reply'[c] = op.block /\ \A k \in 1..n : mem.block[msg[c][k]] = op.block /\ op.block # None
      BY <2>2, <2>4, <2>6 DEF Seen
    <3>2. op.block # None
      BY <2>3, <3>1
    <3> QED BY <2>3, <2>5, <3>1, <3>2
  <2>7. CASE ~op.exact
    <3>1. reply'[c] = None
      BY <2>2, <2>7
    <3>2. \A d \in Block : \E k \in 1..n : mem.block[msg[c][k]] # d
      BY <2>4, <2>7 DEF Seen
    <3> QED BY <2>3, <3>1, <3>2
  <2> QED BY <2>6, <2>7
<1>4. IInv /\ Looking /\ [Next]_vars => [Answers]_vars
  BY <1>3
<1> QED BY <1>1, <1>2, <1>4, Invariance, PTL DEF Spec, AttachAnswers
-----------------------------------------------------------------------------
(***************************************************************************)
(* The map of the tool memory in a KV file: what is read back is genuine.  *)
(***************************************************************************)

(* The cells c of the first n records of s: two for each.                  *)
CellsOf(c, s, n) ==
    /\ Len(c) = 2 * n
    /\ \A k \in 1..n : c[(2 * k) - 1] = s[k][1] /\ c[2 * k] = s[k][2]

(* A record more gives two cells more.                                     *)
LEMMA CellsGrow ==
    ASSUME NEW S, NEW c \in Seq(S), NEW s, NEW n \in Nat, CellsOf(c, s, n),
           NEW x \in S, NEW y \in S, s[n + 1] = <<x, y>>
    PROVE  CellsOf(c \o s[n + 1], s, n + 1)
<1> DEFINE d == c \o <<x, y>>
<1>1. Len(c) = 2 * n
  BY DEF CellsOf
<1>2. Len(d) = 2 * (n + 1)
  BY <1>1
<1>3. ASSUME NEW k \in 1..(n + 1)
      PROVE  d[(2 * k) - 1] = s[k][1] /\ d[2 * k] = s[k][2]
  <2>1. CASE k = n + 1
    <3>1. (2 * k) - 1 = Len(c) + 1 /\ 2 * k = Len(c) + 2
      BY <1>1, <2>1
    <3>2. d[Len(c) + 1] = x /\ d[Len(c) + 2] = y
      OBVIOUS
    <3>3. s[k][1] = x /\ s[k][2] = y
      BY <2>1
    <3> QED BY <3>1, <3>2, <3>3
  <2>2. CASE k # n + 1
    <3>1. k \in 1..n /\ (2 * k) - 1 \in 1..Len(c) /\ 2 * k \in 1..Len(c)
      BY <1>1, <2>2
    <3>2. c[(2 * k) - 1] = s[k][1] /\ c[2 * k] = s[k][2]
      BY <3>1 DEF CellsOf
    <3>3. d[(2 * k) - 1] = c[(2 * k) - 1] /\ d[2 * k] = c[2 * k]
      BY <3>1
    <3> QED BY <3>2, <3>3
  <2> QED BY <2>1, <2>2
<1> HIDE DEF d
<1>4. CellsOf(d, s, n + 1)
  BY <1>2, <1>3 DEF CellsOf
<1> QED BY <1>4 DEF d

(* The cells of a sequence of records.                                     *)
LEMMA CellsOfRecords ==
    ASSUME NEW A, NEW B, NEW s \in Seq(A \X B)
    PROVE  LET c == FlattenSeq([k \in DOMAIN s |-> s[k]]) IN
           c \in Seq(A \cup B) /\ CellsOf(c, s, Len(s))
<1> DEFINE S == A \cup B
           t == [k \in DOMAIN s |-> s[k]]
           N == Len(s)
<1>1. t = s /\ N \in Nat
  OBVIOUS
<1>2. ASSUME NEW k \in 1..N
      PROVE  \E x \in S, y \in S : s[k] = <<x, y>>
  <2>1. s[k] \in A \X B
    OBVIOUS
  <2> QED BY <2>1
<1>3. s \in Seq(Seq(S))
  <2>1. ASSUME NEW x \in S, NEW y \in S PROVE <<x, y>> \in Seq(S)
    OBVIOUS
  <2>2. ASSUME NEW k \in 1..N PROVE s[k] \in Seq(S)
    <3>1. PICK x \in S, y \in S : s[k] = <<x, y>>
      BY <1>2
    <3>2. <<x, y>> \in Seq(S)
      BY <2>1
    <3> QED BY <3>1, <3>2, Zenon
  <2> DEFINE Q == Seq(S)
  <2>3. \A k \in 1..N : s[k] \in Q
    BY <2>2
  <2> HIDE DEF Q
  <2>4. s \in Seq(Q)
    BY <2>3
  <2> QED BY <2>4 DEF Q
<1>4. CASE s = <<>>
  <2>1. FlattenSeq(s) = <<>>
    BY <1>3, <1>4, FlattenIs, Zenon
  <2>2. N = 0
    BY <1>4
  <2>3. CellsOf(<<>>, s, 0) /\ <<>> \in Seq(S)
    BY DEF CellsOf
  <2> QED BY <1>1, <2>1, <2>2, <2>3, Zenon
<1>5. CASE s # <<>>
  <2>1. PICK f \in [1..N -> Seq(S)] : Flattens(f, s, N) /\ FlattenSeq(s) = f[N]
    BY <1>3, <1>5, FlattenIs
  <2>2. \A i \in 1..N : f[i] = IF i = 1 THEN s[i] ELSE f[i - 1] \o s[i]
    BY <2>1, Zenon DEF Flattens
  <2> DEFINE T == {i \in Nat : i \in 1..N => CellsOf(f[i], s, i)}
  <2>3. 0 \in T
    OBVIOUS
  <2>4. ASSUME NEW i \in Nat, i \in T PROVE i + 1 \in T
    <3> SUFFICES ASSUME i + 1 \in 1..N PROVE CellsOf(f[i + 1], s, i + 1)
      OBVIOUS
    <3>1. PICK x \in S, y \in S : s[i + 1] = <<x, y>>
      BY <1>2
    <3>2. CASE i = 0
      <4>1. CellsOf(<<>>, s, 0)
        BY DEF CellsOf
      <4>2. <<>> \in Seq(S) /\ 0 \in Nat /\ s[0 + 1] = <<x, y>>
        BY <3>1, <3>2
      <4>3. CellsOf(<<>> \o s[0 + 1], s, 0 + 1)
        BY <4>1, <4>2, CellsGrow, Zenon
      <4>4. <<>> \o <<x, y>> = <<x, y>>
        OBVIOUS
      <4>5. f[1] = s[1] /\ 0 + 1 = 1
        <5>1. 1 \in 1..N /\ 0 + 1 = 1
          BY <3>2
        <5> QED BY <2>2, <5>1, Zenon
      <4>6. f[1] = <<>> \o s[0 + 1]
        BY <3>2, <4>2, <4>4, <4>5, Zenon
      <4>7. CellsOf(f[1], s, 1)
        BY <4>3, <4>5, <4>6, Zenon
      <4>8. i + 1 = 1
        BY <3>2
      <4> QED BY <4>7, <4>8, Zenon
    <3>3. CASE i # 0
      <4>1. f[i + 1] = f[i] \o s[i + 1] /\ i \in 1..N
        <5>1. i \in 1..N /\ (i + 1) - 1 = i /\ i + 1 # 1
          BY <1>1, <3>3
        <5> QED BY <2>2, <5>1, Zenon
      <4>2. CellsOf(f[i], s, i) /\ f[i] \in Seq(S)
        BY <2>4, <4>1
      <4> QED BY <3>1, <4>1, <4>2, CellsGrow, Zenon
    <3> QED BY <3>2, <3>3
  <2> HIDE DEF T
  <2>5. N \in T
    BY <1>1, <2>3, <2>4, NatInduct
  <2>6. N \in 1..N
    BY <1>1, <1>5
  <2>7. CellsOf(f[N], s, N)
    BY <2>5, <2>6 DEF T
  <2> QED BY <1>1, <2>1, <2>6, <2>7
<1> QED BY <1>4, <1>5

-----------------------------------------------------------------------------
(* The inductive invariant.                                                *)

(* Cells that pair every id with the block it was issued for, unless it    *)
(* has been torn; a record cut in two at the end says nothing yet.       *)
GenuineCell(id, b) == id \in CallId /\ b \in Blocks /\ (b = issued[id] \/ id \in torn)
GenuineCells(c) ==
    /\ c \in Seq(CallId \cup Blocks)
    /\ \A k \in Nat \ {0} : 2 * k <= Len(c) => GenuineCell(c[(2 * k) - 1], c[2 * k])

(* The tool memory keeps an id under a block that is genuine for it.       *)
UsersIssued ==
    /\ issued \in [CallId -> Blocks \cup {NoBlock}]
    /\ users \in [Blocks -> Seq(CallId)]
    /\ \A b \in Blocks : \A k \in 1..Len(users[b]) : GenuineCell(users[b][k], b)

(* The file is genuine with what the worker has still to write; a map that *)
(* is being written again is empty until its first piece.                  *)
FileGenuine ==
    /\ file = [flag |-> file.flag, count |-> file.count, cells |-> file.cells]
    /\ file.count \in Nat
    /\ GenuineCells(file.cells)

WorkerPath ==
    /\ worker = [pc |-> worker.pc, count |-> worker.count, cells |-> worker.cells]
    /\ worker.count \in Nat
    /\ worker.pc = "cut" => file.cells = <<>>
    /\ worker.pc = "write" /\ worker.count # 0 =>
        /\ worker.cells \in Seq(CallId \cup Blocks)
        /\ Len(file.cells) + Len(worker.cells) = 2 * worker.count
        /\ GenuineCells(file.cells \o worker.cells)

(* What a client has fetched that no rewrite overlapped: the beginning of  *)
(* the file as it is now, then genuine records.                            *)
FetchesFile ==
    /\ worker.pc = "idle"
    /\ reader.count \in Nat
    /\ \E n \in 0..Len(file.cells) : reader.cells = SubSeq(file.cells, 1, n)

HasRecords ==
    /\ reader.count \in Nat \ {0}
    /\ 2 * reader.count <= Len(reader.cells)
    /\ GenuineCells(reader.cells)

ReaderPath ==
    /\ reader = [pc |-> reader.pc, count |-> reader.count, cells |-> reader.cells,
                 overlapped |-> reader.overlapped]
    /\ reader.pc = "read" => reader.overlapped \/ FetchesFile
    /\ reader.pc = "put" => reader.overlapped \/ HasRecords

MapInv == UsersIssued /\ FileGenuine /\ WorkerPath /\ ReaderPath

(* What stays genuine while ids are only issued once.                      *)
IssuedKept == /\ issued' \in [CallId -> Blocks \cup {NoBlock}]
              /\ \A i \in CallId : issued[i] \in Blocks => issued'[i] = issued[i]
              /\ torn \subseteq torn'

(* An id that was issued for a block stays with it.                        *)
GenuineNext(id, b) == id \in CallId /\ b \in Blocks /\ (b = issued'[id] \/ id \in torn')

LEMMA RecordKept ==
    ASSUME IssuedKept, NEW i, NEW b, GenuineCell(i, b)
    PROVE  GenuineNext(i, b)
BY DEF IssuedKept, GenuineCell, GenuineNext

LEMMA CellsKept ==
    ASSUME IssuedKept, NEW c, GenuineCells(c)
    PROVE  GenuineCells(c)'
<1>1. c \in Seq(CallId \cup Blocks)
  BY DEF GenuineCells
<1>2. ASSUME NEW k \in Nat \ {0}, 2 * k <= Len(c)
      PROVE  GenuineCell(c[(2 * k) - 1], c[2 * k])'
  BY <1>2, RecordKept DEF GenuineCells, GenuineCell, GenuineNext, Blocks
<1> QED BY <1>1, <1>2 DEF GenuineCells, Blocks

(* What a short read or a short write leaves of genuine cells is genuine.  *)
LEMMA CellsPart ==
    ASSUME NEW c, GenuineCells(c), NEW n \in 0..Len(c)
    PROVE  GenuineCells(SubSeq(c, 1, n))
<1> DEFINE d == SubSeq(c, 1, n)
           S == CallId \cup Blocks
<1>1. c \in Seq(S)
  BY DEF GenuineCells
<1> HIDE DEF S
<1>2. 1 \in 1..(Len(c) + 1) /\ n \in (1 - 1)..Len(c)
  BY <1>1
<1>3. d \in Seq(S) /\ Len(d) = n - 1 + 1 /\ \A i \in 1..(n - 1 + 1) : d[i] = c[1 + i - 1]
  BY <1>1, <1>2, PartIs
<1> HIDE DEF d
<1>4. Len(d) = n /\ \A i \in 1..n : d[i] = c[i]
  BY <1>3
<1>5. ASSUME NEW k \in Nat \ {0}, 2 * k <= Len(d)
      PROVE  GenuineCell(d[(2 * k) - 1], d[2 * k])
  <2>1. (2 * k) - 1 \in 1..n /\ 2 * k \in 1..n /\ 2 * k <= Len(c)
    BY <1>1, <1>4, <1>5
  <2>2. d[(2 * k) - 1] = c[(2 * k) - 1] /\ d[2 * k] = c[2 * k]
    BY <1>4, <2>1
  <2>3. GenuineCell(c[(2 * k) - 1], c[2 * k])
    BY <2>1 DEF GenuineCells
  <2> QED BY <2>2, <2>3
<1>6. GenuineCells(d)
  BY <1>3, <1>5 DEF GenuineCells, S
<1> QED BY <1>6 DEF d

LEMMA CellsEmpty == GenuineCells(<<>>)
BY DEF GenuineCells

(* A sequence is its first n elements and the others.                      *)
LEMMA CutAt ==
    ASSUME NEW S, NEW c \in Seq(S), NEW n \in 0..Len(c)
    PROVE  /\ SubSeq(c, 1, n) \in Seq(S) /\ SubSeq(c, n + 1, Len(c)) \in Seq(S)
           /\ Len(SubSeq(c, 1, n)) = n /\ Len(SubSeq(c, n + 1, Len(c))) = Len(c) - n
           /\ SubSeq(c, 1, n) \o SubSeq(c, n + 1, Len(c)) = c
<1> DEFINE a == SubSeq(c, 1, n)
           b == SubSeq(c, n + 1, Len(c))
<1>1. 1 \in 1..(Len(c) + 1) /\ n \in (1 - 1)..Len(c)
  OBVIOUS
<1>2. n + 1 \in 1..(Len(c) + 1) /\ Len(c) \in ((n + 1) - 1)..Len(c)
  OBVIOUS
<1>3. a \in Seq(S) /\ Len(a) = n - 1 + 1 /\ \A i \in 1..(n - 1 + 1) : a[i] = c[1 + i - 1]
  BY <1>1, PartIs
<1>4. /\ b \in Seq(S) /\ Len(b) = Len(c) - (n + 1) + 1
      /\ \A i \in 1..(Len(c) - (n + 1) + 1) : b[i] = c[(n + 1) + i - 1]
  BY <1>2, PartIs
<1> HIDE DEF a, b
<1>5. Len(c) \in Nat /\ Len(a) = n /\ Len(b) = Len(c) - n
  BY <1>3, <1>4
<1>6. /\ a \o b \in Seq(S) /\ Len(a \o b) = Len(a) + Len(b)
      /\ \A i \in 1..Len(a) : (a \o b)[i] = a[i]
      /\ \A i \in 1..Len(b) : (a \o b)[Len(a) + i] = b[i]
  BY <1>3, <1>4, ConcatIs
<1> DEFINE d == a \o b
<1> HIDE DEF d
<1>7. ASSUME NEW i \in 1..Len(c) PROVE d[i] = c[i]
  <2>1. CASE i <= n
    BY <1>3, <1>5, <1>6, <2>1 DEF d
  <2>2. CASE i > n
    <3>1. i - n \in 1..Len(b) /\ Len(a) + (i - n) = i /\ (n + 1) + (i - n) - 1 = i
      BY <1>5, <2>2
    <3>2. d[Len(a) + (i - n)] = b[i - n]
      BY <1>6, <3>1 DEF d
    <3>3. b[i - n] = c[(n + 1) + (i - n) - 1]
      BY <1>4, <1>5, <3>1
    <3> QED BY <3>1, <3>2, <3>3
  <2> QED BY <2>1, <2>2
<1>8. d \in Seq(S) /\ Len(d) = Len(c)
  BY <1>5, <1>6 DEF d
<1>9. d = c
  BY <1>7, <1>8, SameSequence
<1> QED BY <1>3, <1>4, <1>5, <1>9 DEF a, b, d

(* What the worker writes is genuine: two cells for each record.           *)
LEMMA CellsWritten ==
    ASSUME UsersIssued
    PROVE  Len(Records) \in Nat /\ GenuineCells(Cells) /\ Len(Cells) = 2 * Len(Records)
<1> DEFINE G == {r \in CallId \X Blocks : GenuineCell(r[1], r[2])}
           list(b) == [k \in DOMAIN users[b] |-> <<users[b][k], b>>]
           lists == [n \in DOMAIN Text |-> list(Text[n])]
<1>1. ASSUME NEW b \in Blocks PROVE list(b) \in Seq(G)
  <2>1. users[b] \in Seq(CallId)
    BY DEF UsersIssued
  <2>2. ASSUME NEW k \in 1..Len(users[b]) PROVE <<users[b][k], b>> \in G
    <3>1. users[b][k] \in CallId /\ GenuineCell(users[b][k], b)
      BY <2>1 DEF UsersIssued
    <3> QED BY <3>1
  <2>3. DOMAIN users[b] = 1..Len(users[b]) /\ Len(users[b]) \in Nat
    BY <2>1
  <2> HIDE DEF G
  <2>4. list(b) \in [1..Len(users[b]) -> G]
    BY <2>2, <2>3
  <2> QED BY <2>3, <2>4
<1>2. lists \in Seq(Seq(G))
  <2>1. DOMAIN Text = 1..Len(Text) /\ Len(Text) \in Nat /\ \A n \in 1..Len(Text) : Text[n] \in Blocks
    BY TextAssumption DEF Blocks
  <2> DEFINE Q == Seq(G)
  <2>2. \A n \in 1..Len(Text) : list(Text[n]) \in Q
    BY <1>1, <2>1
  <2> HIDE DEF Q, list
  <2>3. lists \in [1..Len(Text) -> Q]
    BY <2>1, <2>2
  <2>4. lists \in Seq(Q)
    BY <2>1, <2>3
  <2> QED BY <2>4 DEF Q
<1>3. Records = FlattenSeq(lists)
  BY DEF Records
<1> HIDE DEF G, list, lists
<1>4. Records \in Seq(G)
  BY <1>2, <1>3, FlattenType
<1>5. Records \in Seq(CallId \X Blocks) /\ \A k \in 1..Len(Records) : Records[k] \in G
  <2>1. \A k \in 1..Len(Records) : Records[k] \in G
    BY <1>4
  <2>2. G \subseteq CallId \X Blocks
    BY DEF G
  <2> QED BY <1>4, <2>1, <2>2
<1>6. Cells \in Seq(CallId \cup Blocks) /\ CellsOf(Cells, Records, Len(Records))
  BY <1>5, CellsOfRecords DEF Cells
<1>7. Len(Records) \in Nat /\ Len(Cells) = 2 * Len(Records)
  BY <1>4, <1>6 DEF CellsOf
<1>8. ASSUME NEW k \in Nat \ {0}, 2 * k <= Len(Cells)
      PROVE  GenuineCell(Cells[(2 * k) - 1], Cells[2 * k])
  <2>1. k \in 1..Len(Records)
    BY <1>7, <1>8
  <2>2. Cells[(2 * k) - 1] = Records[k][1] /\ Cells[2 * k] = Records[k][2]
    BY <1>6, <2>1 DEF CellsOf
  <2>3. GenuineCell(Records[k][1], Records[k][2])
    BY <1>5, <2>1 DEF G
  <2> QED BY <2>2, <2>3
<1> QED BY <1>6, <1>7, <1>8 DEF GenuineCells

-----------------------------------------------------------------------------
(* The steps.                                                              *)

LEMMA MapInitInv == MapInit => MapInv
<1> SUFFICES ASSUME MapInit PROVE MapInv
  OBVIOUS
<1> USE DEF MapInit, Idle, NotReading
<1>1. UsersIssued
  BY DEF UsersIssued
<1>2. FileGenuine
  BY CellsEmpty DEF FileGenuine
<1>3. WorkerPath /\ ReaderPath
  BY DEF WorkerPath, ReaderPath
<1> QED BY <1>1, <1>2, <1>3 DEF MapInv

(* A client that does nothing keeps what it fetched, unless the worker     *)
(* begins a rewrite.                                                       *)
LEMMA ReaderKept ==
    ASSUME MapInv, IssuedKept, UNCHANGED reader \/ reader' = NotReading,
           UNCHANGED <<file, worker>> \/ worker.pc # "idle"
    PROVE  ReaderPath'
<1>1. CASE UNCHANGED reader
  <2>1. /\ reader' = [pc |-> reader'.pc, count |-> reader'.count, cells |-> reader'.cells,
                      overlapped |-> reader'.overlapped]
        /\ reader.pc = "read" => reader.overlapped \/ FetchesFile
        /\ reader.pc = "put" => reader.overlapped \/ HasRecords
    BY <1>1 DEF MapInv, ReaderPath
  <2>2. FetchesFile => FetchesFile'
    BY <1>1 DEF FetchesFile
  <2>3. HasRecords => HasRecords'
    BY <1>1, CellsKept DEF HasRecords
  <2> QED BY <1>1, <2>1, <2>2, <2>3 DEF ReaderPath
<1>2. CASE reader' = NotReading
  BY <1>2 DEF ReaderPath, NotReading
<1> QED BY <1>1, <1>2

(* What does not touch the file leaves its parts of the invariant alone    *)
(* when ids keep their blocks.                                             *)
LEMMA FileKept ==
    ASSUME MapInv, IssuedKept, UNCHANGED <<file, worker>>
    PROVE  FileGenuine' /\ WorkerPath'
<1>1. FileGenuine'
  BY CellsKept DEF MapInv, FileGenuine
<1>2. WorkerPath'
  BY CellsKept DEF MapInv, WorkerPath, Blocks
<1> QED BY <1>1, <1>2

(* The memory with i at the head of the list of b.                         *)
LEMMA UsersPut ==
    ASSUME MapInv, IssuedKept, NEW i \in CallId, NEW b \in Blocks, GenuineNext(i, b),
           users' \in [Blocks -> Seq(CallId)], users'[b] = <<i>> \o users[b],
           \A d \in Blocks \ {b} : \A k \in 1..Len(users'[d]) :
               \E m \in 1..Len(users[d]) : users'[d][k] = users[d][m]
    PROVE  UsersIssued'
<1> DEFINE u == <<i>> \o users[b]
<1>1. users \in [Blocks -> Seq(CallId)] /\ users[b] \in Seq(CallId) /\ Len(users[b]) \in Nat
  BY DEF MapInv, UsersIssued
<1>2. /\ u \in Seq(CallId) /\ Len(u) = 1 + Len(users[b]) /\ u[1] = i
      /\ \A k \in 1..Len(users[b]) : u[1 + k] = users[b][k]
  <2>1. <<i>> \in Seq(CallId) /\ Len(<<i>>) = 1 /\ <<i>>[1] = i
    OBVIOUS
  <2> QED BY <1>1, <2>1, ConcatIs
<1> HIDE DEF u
<1>3. ASSUME NEW d \in Blocks, NEW m \in 1..Len(users[d]) PROVE GenuineNext(users[d][m], d)
  <2>1. GenuineCell(users[d][m], d)
    BY DEF MapInv, UsersIssued
  <2> QED BY <2>1, RecordKept
<1>4. ASSUME NEW k \in 1..Len(u) PROVE GenuineNext(u[k], b)
  <2>1. CASE k = 1
    BY <1>2, <2>1
  <2>2. CASE k # 1
    <3>1. k - 1 \in 1..Len(users[b]) /\ 1 + (k - 1) = k
      BY <1>1, <1>2, <2>2
    <3>2. u[k] = users[b][k - 1]
      BY <1>2, <3>1
    <3> QED BY <1>3, <3>1, <3>2
  <2> QED BY <2>1, <2>2
<1>5. ASSUME NEW d \in Blocks, NEW k \in 1..Len(users'[d]) PROVE GenuineNext(users'[d][k], d)
  <2>1. CASE d = b
    <3>1. users'[d] = u
      BY <2>1 DEF u
    <3> QED BY <1>4, <1>5, <2>1, <3>1
  <2>2. CASE d # b
    <3>1. PICK m \in 1..Len(users[d]) : users'[d][k] = users[d][m]
      BY <1>5, <2>2
    <3> QED BY <1>3, <3>1
  <2> QED BY <2>1, <2>2
<1>6. issued' \in [CallId -> Blocks \cup {NoBlock}] /\ Blocks' = Blocks
  BY DEF IssuedKept, Blocks
<1> QED BY <1>5, <1>6 DEF UsersIssued, GenuineCell, GenuineNext

LEMMA IssueStep ==
    ASSUME MapInv, NEW i \in CallId, NEW b \in Blocks, Issue(i, b)
    PROVE  MapInv'
<1>0. NoBlock \notin Blocks
  BY TextAssumption DEF Blocks
<1>1. IssuedKept
  BY <1>0 DEF MapInv, UsersIssued, IssuedKept, Issue
<1>2. UsersIssued'
  <2>1. /\ users[b] \in Seq(CallId) /\ users' = [users EXCEPT ![b] = <<i>> \o users[b]]
        /\ issued'[i] = b /\ users \in [Blocks -> Seq(CallId)]
    BY DEF MapInv, UsersIssued, Issue
  <2>2. <<i>> \o users[b] \in Seq(CallId)
    BY <2>1
  <2>3. /\ users' \in [Blocks -> Seq(CallId)] /\ users'[b] = <<i>> \o users[b]
        /\ \A d \in Blocks \ {b} : users'[d] = users[d]
    BY <2>1, <2>2
  <2>4. GenuineNext(i, b)
    BY <2>1 DEF GenuineNext
  <2>5. \A d \in Blocks \ {b} : \A k \in 1..Len(users'[d]) :
           \E m \in 1..Len(users[d]) : users'[d][k] = users[d][m]
    BY <2>3
  <2> QED BY <1>1, <2>3, <2>4, <2>5, UsersPut
<1>3. FileGenuine' /\ WorkerPath' /\ ReaderPath'
  BY <1>1, FileKept, ReaderKept DEF Issue
<1> QED BY <1>2, <1>3 DEF MapInv

(* What is left when one place of a sequence is removed was there before.  *)
LEMMA RemovedAt ==
    ASSUME NEW S, NEW s \in Seq(S), NEW k \in 1..Len(s)
    PROVE  /\ RemoveAt(s, k) \in Seq(S)
           /\ \A n \in 1..Len(RemoveAt(s, k)) : \E m \in 1..Len(s) : RemoveAt(s, k)[n] = s[m]
<1> DEFINE c == SubSeq(s, 1, k - 1)
           d == SubSeq(s, k + 1, Len(s))
           u == c \o d
<1>1. u = RemoveAt(s, k)
  BY DEF RemoveAt
<1>2. Len(s) \in Nat /\ 1 \in 1..(Len(s) + 1) /\ k - 1 \in (1 - 1)..Len(s)
  OBVIOUS
<1>3. k + 1 \in 1..(Len(s) + 1) /\ Len(s) \in ((k + 1) - 1)..Len(s)
  OBVIOUS
<1>4. /\ c \in Seq(S) /\ Len(c) = (k - 1) - 1 + 1
      /\ \A n \in 1..((k - 1) - 1 + 1) : c[n] = s[1 + n - 1]
  BY <1>2, PartIs
<1>5. /\ d \in Seq(S) /\ Len(d) = Len(s) - (k + 1) + 1
      /\ \A n \in 1..(Len(s) - (k + 1) + 1) : d[n] = s[(k + 1) + n - 1]
  BY <1>3, PartIs
<1> HIDE DEF c, d
<1>6. /\ u \in Seq(S) /\ Len(u) = Len(c) + Len(d)
      /\ \A n \in 1..Len(c) : u[n] = c[n]
      /\ \A n \in 1..Len(d) : u[Len(c) + n] = d[n]
  <2>1. c \in Seq(S) /\ d \in Seq(S)
    BY <1>4, <1>5
  <2> QED BY <2>1, ConcatIs
<1> HIDE DEF u
<1> DEFINE N == Len(s)
<1> HIDE DEF N
<1>7. Len(c) = k - 1 /\ Len(d) = N - k /\ N \in Nat /\ k \in 1..N
  BY <1>2, <1>4, <1>5 DEF N
<1>8. \A n \in 1..(k - 1) : c[n] = s[n]
  BY <1>4
<1>9. ASSUME NEW n \in 1..(N - k) PROVE d[n] = s[k + n]
  <2>1. n \in 1..(Len(s) - (k + 1) + 1) /\ (k + 1) + n - 1 = k + n
    BY <1>7 DEF N
  <2> QED BY <1>5, <2>1
<1>10. ASSUME NEW n \in 1..Len(u) PROVE \E m \in 1..N : u[n] = s[m]
  <2>1. CASE n <= k - 1
    <3>1. n \in 1..Len(c) /\ n \in 1..(k - 1) /\ n \in 1..N
      BY <1>7, <2>1
    <3>2. u[n] = s[n]
      BY <1>6, <1>8, <3>1
    <3> QED BY <3>1, <3>2
  <2>2. CASE n > k - 1
    <3> DEFINE m == n - (k - 1)
    <3>1. n \in 1..((k - 1) + (N - k))
      BY <1>6, <1>7
    <3>2. m \in 1..(N - k) /\ m \in 1..Len(d) /\ Len(c) + m = n /\ k + m \in 1..N
      BY <1>7, <2>2, <3>1
    <3> HIDE DEF m
    <3>3. u[Len(c) + m] = d[m] /\ d[m] = s[k + m]
      BY <1>6, <1>9, <3>2
    <3>4. u[n] = s[k + m]
      BY <3>2, <3>3
    <3> QED BY <3>2, <3>4
  <2> QED BY <1>7, <2>1, <2>2
<1> QED BY <1>1, <1>6, <1>10 DEF N

(* A memory with fewer ids.                                                *)
LEMMA UsersFewer ==
    ASSUME MapInv, IssuedKept, users' \in [Blocks -> Seq(CallId)],
           \A d \in Blocks : \A k \in 1..Len(users'[d]) :
               \E m \in 1..Len(users[d]) : users'[d][k] = users[d][m]
    PROVE  UsersIssued'
<1>1. ASSUME NEW d \in Blocks, NEW k \in 1..Len(users'[d]) PROVE GenuineNext(users'[d][k], d)
  <2>1. PICK m \in 1..Len(users[d]) : users'[d][k] = users[d][m]
    BY <1>1
  <2>2. GenuineCell(users[d][m], d)
    BY DEF MapInv, UsersIssued
  <2> QED BY <2>1, <2>2, RecordKept
<1>2. issued' \in [CallId -> Blocks \cup {NoBlock}] /\ Blocks' = Blocks
  BY DEF IssuedKept, Blocks
<1> QED BY <1>1, <1>2 DEF UsersIssued, GenuineCell, GenuineNext

LEMMA EvictStep ==
    ASSUME MapInv, NEW i \in CallId, NEW b \in Blocks, Evict(i, b)
    PROVE  MapInv'
<1>1. IssuedKept
  BY DEF MapInv, UsersIssued, IssuedKept, Evict
<1>2. UsersIssued'
  <2>1. PICK k \in DOMAIN users[b] : users' = [users EXCEPT ![b] = RemoveAt(users[b], k)]
    BY DEF Evict
  <2>2. users \in [Blocks -> Seq(CallId)] /\ users[b] \in Seq(CallId)
    BY DEF MapInv, UsersIssued
  <2> DEFINE s == users[b]
             u == RemoveAt(s, k)
  <2>3. k \in 1..Len(s) /\ Len(s) \in Nat
    BY <2>1, <2>2
  <2>4. u \in Seq(CallId) /\ \A n \in 1..Len(u) : \E m \in 1..Len(s) : u[n] = s[m]
    BY <2>2, <2>3, RemovedAt
  <2> HIDE DEF u, s
  <2>5. users' \in [Blocks -> Seq(CallId)] /\ users'[b] = u /\ \A d \in Blocks : d # b => users'[d] = users[d]
    BY <2>1, <2>2, <2>4 DEF u, s
  <2>6. ASSUME NEW d \in Blocks, NEW n \in 1..Len(users'[d])
        PROVE  \E m \in 1..Len(users[d]) : users'[d][n] = users[d][m]
    <3>1. CASE d = b
      BY <2>4, <2>5, <2>6, <3>1 DEF s
    <3>2. CASE d # b
      BY <2>5, <2>6, <3>2
    <3> QED BY <3>1, <3>2
  <2> QED BY <1>1, <2>5, <2>6, UsersFewer
<1>3. FileGenuine' /\ WorkerPath' /\ ReaderPath'
  BY <1>1, FileKept, ReaderKept DEF Evict
<1> QED BY <1>2, <1>3 DEF MapInv

(* Steps that issue nothing keep what is said about the tool memory.       *)
LEMMA MemoryKept ==
    ASSUME MapInv, UNCHANGED <<issued, torn>>, UNCHANGED users \/ users' = [b \in Blocks |-> <<>>]
    PROVE  IssuedKept /\ UsersIssued'
<1>1. IssuedKept
  BY DEF MapInv, UsersIssued, IssuedKept
<1>2. CASE UNCHANGED users
  <2>1. users' \in [Blocks -> Seq(CallId)]
    BY <1>2 DEF MapInv, UsersIssued
  <2> QED BY <1>1, <1>2, <2>1, UsersFewer
<1>3. CASE users' = [b \in Blocks |-> <<>>]
  <2>1. users' \in [Blocks -> Seq(CallId)] /\ \A b \in Blocks : Len(users'[b]) = 0
    BY <1>3
  <2> QED BY <1>1, <2>1, UsersFewer
<1> QED BY <1>1, <1>2, <1>3

LEMMA SameIssued ==
    ASSUME UNCHANGED <<issued, torn>>, NEW c, GenuineCells(c)
    PROVE  GenuineCells(c)'
BY DEF GenuineCells, GenuineCell, Blocks

LEMMA TruncateStep ==
    ASSUME MapInv, Truncate
    PROVE  MapInv'
<1>1. UsersIssued' /\ IssuedKept /\ UNCHANGED <<issued, torn>>
  BY MemoryKept DEF Truncate
<1>2. FileGenuine'
  BY <1>1, CellsEmpty, SameIssued DEF MapInv, FileGenuine, Truncate
<1>3. WorkerPath'
  BY DEF MapInv, WorkerPath, FileGenuine, Truncate, Idle
<1>4. ReaderPath'
  <2>1. reader = [pc |-> reader.pc, count |-> reader.count, cells |-> reader.cells,
                  overlapped |-> reader.overlapped]
    BY DEF MapInv, ReaderPath
  <2>2. CASE reader.pc = "read"
    <3>1. reader' = [pc |-> "read", count |-> reader.count, cells |-> reader.cells,
                     overlapped |-> TRUE]
      BY <2>1, <2>2 DEF Truncate, Overlaps
    <3> QED BY <3>1 DEF ReaderPath
  <2>3. CASE reader.pc # "read"
    <3>1. reader' = reader
      BY <2>3 DEF Truncate, Overlaps
    <3>2. HasRecords => HasRecords'
      BY <1>1, <3>1, CellsKept DEF HasRecords
    <3> QED BY <2>1, <2>3, <3>1, <3>2 DEF MapInv, ReaderPath
  <2> QED BY <2>2, <2>3
<1> QED BY <1>1, <1>2, <1>3, <1>4 DEF MapInv

LEMMA WriteFirstStep ==
    ASSUME MapInv, NEW n, WriteFirst(n)
    PROVE  MapInv'
<1> DEFINE S == CallId \cup Blocks
<1>0. PICK a, b : a = SubSeq(Cells, 1, n) /\ b = SubSeq(Cells, n + 1, Len(Cells))
  OBVIOUS
<1>1. UsersIssued' /\ IssuedKept /\ UNCHANGED <<issued, torn>>
  BY MemoryKept DEF WriteFirst
<1>2. Len(Records) \in Nat /\ GenuineCells(Cells) /\ Len(Cells) = 2 * Len(Records) /\ Cells \in Seq(S)
  BY CellsWritten DEF MapInv, GenuineCells
<1>3. n \in 0..Len(Cells) /\ worker.pc = "cut" /\ file.cells = <<>>
  BY DEF MapInv, WorkerPath, WriteFirst
<1>4. /\ a \in Seq(S) /\ b \in Seq(S) /\ Len(a) = n /\ Len(b) = Len(Cells) - n /\ a \o b = Cells
  BY <1>0, <1>2, <1>3, CutAt
<1>5. GenuineCells(a)
  BY <1>0, <1>2, <1>3, CellsPart
<1>6. SubSeq(file.cells, n + 1, Len(file.cells)) = <<>>
  BY <1>2, <1>3
<1>7. worker' = [pc |-> "write", count |-> Len(Records), cells |-> b]
  BY <1>0 DEF WriteFirst
<1>8. IF Records = <<>> THEN file' = file
      ELSE file' = [file EXCEPT !.count = Len(Records), !.cells = a]
  <2>1. a \o SubSeq(file.cells, n + 1, Len(file.cells)) = a
    BY <1>4, <1>6, ConcatEmpty
  <2> QED BY <1>0, <2>1 DEF WriteFirst
<1> HIDE DEF S
<1>9. FileGenuine'
  BY <1>1, <1>2, <1>5, <1>8, SameIssued DEF MapInv, FileGenuine
<1>10. WorkerPath'
  <2>1. /\ worker'.pc = "write" /\ worker'.count = Len(Records) /\ worker'.cells = b
        /\ worker' = [pc |-> worker'.pc, count |-> worker'.count, cells |-> worker'.cells]
    BY <1>7
  <2>2. ASSUME Len(Records) # 0
        PROVE  /\ Len(file'.cells) + Len(b) = 2 * Len(Records)
               /\ file'.cells = a /\ GenuineCells(a \o b)'
    <3>1. file'.cells = a
      <4>1. Records # <<>>
        BY <2>2
      <4> QED BY <1>8, <4>1 DEF MapInv, FileGenuine
    <3>2. GenuineCells(a \o b)'
      <4>1. GenuineCells(a \o b)
        BY <1>2, <1>4
      <4> QED BY <1>1, <4>1, SameIssued
    <3>3. Len(a) + Len(b) = 2 * Len(Records)
      BY <1>2, <1>3, <1>4
    <3> QED BY <1>4, <3>1, <3>2, <3>3
  <2>3. b \in Seq(CallId \cup Blocks)
    BY <1>4 DEF S
  <2> QED BY <1>2, <2>1, <2>2, <2>3 DEF WorkerPath, Blocks
<1>11. ReaderPath'
  BY <1>1, ReaderKept DEF WriteFirst
<1> QED BY <1>1, <1>9, <1>10, <1>11 DEF MapInv

LEMMA WriteRestStep ==
    ASSUME MapInv, WriteRest
    PROVE  MapInv'
<1>1. UsersIssued' /\ IssuedKept /\ UNCHANGED <<issued, torn>>
  BY MemoryKept DEF WriteRest
<1>2. worker.pc = "write" /\ worker.count \in Nat
  BY DEF MapInv, WorkerPath, WriteRest
<1>3. FileGenuine'
  <2>1. CASE worker.count = 0
    BY <1>1, <2>1, SameIssued DEF MapInv, FileGenuine, WriteRest
  <2>2. CASE worker.count # 0
    <3>1. PICK a, b : a = file.cells /\ b = worker.cells
      OBVIOUS
    <3>2. /\ a \in Seq(CallId \cup Blocks) /\ b \in Seq(CallId \cup Blocks)
          /\ Len(a) + Len(b) = 2 * worker.count /\ GenuineCells(a \o b)
      BY <1>2, <2>2, <3>1 DEF MapInv, WorkerPath, FileGenuine, GenuineCells
    <3>3. (2 * worker.count) - Len(b) = Len(a)
      BY <1>2, <3>2
    <3>4. SubSeq(a, 1, Len(a)) = a
      BY <3>2
    <3>5. file' = [file EXCEPT !.cells = a \o b]
      BY <2>2, <3>1, <3>3, <3>4 DEF WriteRest
    <3>6. GenuineCells(a \o b)'
      BY <1>1, <3>2, SameIssued
    <3> QED BY <3>5, <3>6 DEF MapInv, FileGenuine
  <2> QED BY <2>1, <2>2
<1>4. WorkerPath'
  BY <1>2 DEF WorkerPath, WriteRest, Idle
<1>5. ReaderPath'
  BY <1>1, ReaderKept DEF WriteRest
<1> QED BY <1>1, <1>3, <1>4, <1>5 DEF MapInv

LEMMA SetFlagStep ==
    ASSUME MapInv, SetFlag
    PROVE  MapInv'
<1>1. UsersIssued' /\ IssuedKept /\ UNCHANGED <<issued, torn>>
  BY MemoryKept DEF SetFlag
<1>2. FileGenuine'
  BY <1>1, SameIssued DEF MapInv, FileGenuine, SetFlag
<1>3. WorkerPath'
  BY DEF WorkerPath, SetFlag, Idle
<1>4. ReaderPath'
  BY <1>1, ReaderKept DEF SetFlag
<1> QED BY <1>1, <1>2, <1>3, <1>4 DEF MapInv

(* A write that fails and a crash leave the file as it is.                 *)
LEMMA RewriteFailsStep ==
    ASSUME MapInv, RewriteFails
    PROVE  MapInv'
<1>1. UsersIssued' /\ IssuedKept /\ UNCHANGED <<issued, torn>>
  BY MemoryKept DEF RewriteFails
<1>2. FileGenuine'
  BY <1>1, SameIssued DEF MapInv, FileGenuine, RewriteFails
<1>3. WorkerPath'
  BY DEF WorkerPath, RewriteFails, Idle
<1>4. ReaderPath'
  BY <1>1, ReaderKept DEF RewriteFails
<1> QED BY <1>1, <1>2, <1>3, <1>4 DEF MapInv

LEMMA CrashStep ==
    ASSUME MapInv, Crash
    PROVE  MapInv'
<1>1. UsersIssued' /\ IssuedKept /\ UNCHANGED <<issued, torn>>
  BY MemoryKept DEF Crash
<1>2. FileGenuine'
  BY <1>1, SameIssued DEF MapInv, FileGenuine, Crash
<1>3. WorkerPath' /\ ReaderPath'
  BY DEF WorkerPath, ReaderPath, Crash, Idle, NotReading
<1> QED BY <1>1, <1>2, <1>3 DEF MapInv

LEMMA ReadFirstStep ==
    ASSUME MapInv, NEW n, ReadFirst(n)
    PROVE  MapInv'
<1>1. UsersIssued' /\ IssuedKept
  BY MemoryKept DEF ReadFirst
<1>2. FileGenuine' /\ WorkerPath'
  BY <1>1, FileKept DEF ReadFirst
<1>3. ReaderPath'
  <2>1. reader' = [pc |-> "read", count |-> file.count, cells |-> SubSeq(file.cells, 1, n),
                   overlapped |-> worker.pc # "idle"]
    BY DEF ReadFirst
  <2>2. worker.pc = "idle" => FetchesFile'
    BY <2>1 DEF MapInv, FileGenuine, ReadFirst, FetchesFile
  <2> QED BY <2>1, <2>2 DEF ReaderPath
<1> QED BY <1>1, <1>2, <1>3 DEF MapInv

(* Nothing was written between the two refills of a read that no rewrite   *)
(* overlapped, so that what it fetched is the map.                         *)
LEMMA FetchedIsFile ==
    ASSUME MapInv, FetchesFile
    PROVE  Fetched = file.cells
<1>1. PICK c : c = file.cells
  OBVIOUS
<1>2. c \in Seq(CallId \cup Blocks)
  BY <1>1 DEF MapInv, FileGenuine, GenuineCells
<1>3. PICK n \in 0..Len(c) : reader.cells = SubSeq(c, 1, n)
  BY <1>1 DEF FetchesFile
<1>4. /\ Len(SubSeq(c, 1, n)) = n
      /\ SubSeq(c, 1, n) \o SubSeq(c, n + 1, Len(c)) = c
  BY <1>2, CutAt
<1> QED BY <1>1, <1>3, <1>4 DEF Fetched

LEMMA ReadRestStep ==
    ASSUME MapInv, ReadRest
    PROVE  MapInv'
<1>1. UsersIssued' /\ IssuedKept /\ UNCHANGED <<issued, torn>>
  BY MemoryKept DEF ReadRest
<1>2. FileGenuine' /\ WorkerPath'
  BY <1>1, FileKept DEF ReadRest
<1>3. PICK c, n : c = Fetched /\ n = Min({reader.count, Len(c) \div 2})
  OBVIOUS
<1>4. reader' = IF n = 0 THEN NotReading
                ELSE [pc |-> "put", count |-> n, cells |-> c, overlapped |-> reader.overlapped]
  BY <1>3 DEF ReadRest
<1>5. ASSUME ~reader.overlapped, n # 0
      PROVE  n \in Nat \ {0} /\ 2 * n <= Len(c) /\ GenuineCells(c)
  <2>0. FetchesFile
    BY <1>5 DEF MapInv, ReaderPath, ReadRest
  <2>1. GenuineCells(c) /\ Len(c) \in Nat /\ reader.count \in Nat
    BY <1>3, <2>0, FetchedIsFile DEF MapInv, FileGenuine, GenuineCells, FetchesFile
  <2> DEFINE A == reader.count
             B == Len(c) \div 2
  <2>2. A \in Nat /\ B \in Nat /\ 2 * B <= Len(c)
    BY <2>1
  <2> HIDE DEF A, B
  <2>3. Min({A, B}) \in {A, B} /\ Min({A, B}) <= B
    <3>1. \E x \in {A, B} : \A y \in {A, B} : x <= y
      BY <2>2
    <3>2. Min({A, B}) \in {A, B} /\ \A y \in {A, B} : Min({A, B}) <= y
      BY <3>1, Zenon DEF Min
    <3> QED BY <3>2
  <2>4. n = Min({A, B})
    BY <1>3, Zenon DEF A, B
  <2>5. n \in {A, B} /\ n <= B
    BY <2>3, <2>4, Zenon
  <2> QED BY <1>5, <2>1, <2>2, <2>5
<1>6. ReaderPath'
  <2>1. CASE n = 0
    BY <1>4, <2>1 DEF ReaderPath, NotReading
  <2>2. CASE n # 0
    <3>1. reader' = [pc |-> "put", count |-> n, cells |-> c, overlapped |-> reader.overlapped]
      BY <1>4, <2>2
    <3>2. ~reader.overlapped => HasRecords'
      BY <1>1, <1>5, <2>2, <3>1, SameIssued DEF HasRecords
    <3> QED BY <3>1, <3>2 DEF ReaderPath
  <2> QED BY <2>1, <2>2
<1> QED BY <1>1, <1>2, <1>6 DEF MapInv

(* Genuine cells without their first record.                               *)
LEMMA CellsTail ==
    ASSUME NEW c, GenuineCells(c), 2 <= Len(c)
    PROVE  GenuineCells(Tail(Tail(c))) /\ Len(Tail(Tail(c))) = Len(c) - 2
<1> DEFINE S == CallId \cup Blocks
           d == Tail(Tail(c))
<1>1. c \in Seq(S) /\ Len(c) \in Nat
  BY DEF GenuineCells
<1> HIDE DEF S
<1>2. Tail(c) \in Seq(S) /\ Len(Tail(c)) = Len(c) - 1 /\ \A k \in 1..(Len(c) - 1) : Tail(c)[k] = c[k + 1]
  BY <1>1
<1>3. d \in Seq(S) /\ Len(d) = Len(c) - 2 /\ \A k \in 1..(Len(c) - 2) : d[k] = Tail(c)[k + 1]
  <2> DEFINE e == Tail(c)
  <2>1. e \in Seq(S) /\ Len(e) = Len(c) - 1 /\ Len(e) # 0
    BY <1>1, <1>2
  <2> HIDE DEF e
  <2>2. /\ Tail(e) \in Seq(S) /\ Len(Tail(e)) = Len(e) - 1
        /\ \A k \in 1..(Len(e) - 1) : Tail(e)[k] = e[k + 1]
    BY <2>1
  <2> QED BY <1>1, <2>1, <2>2 DEF e
<1>4. \A k \in 1..(Len(c) - 2) : d[k] = c[k + 2]
  BY <1>1, <1>2, <1>3
<1> HIDE DEF d
<1>5. ASSUME NEW k \in Nat \ {0}, 2 * k <= Len(d)
      PROVE  GenuineCell(d[(2 * k) - 1], d[2 * k])
  <2>1. /\ (2 * k) - 1 \in 1..(Len(c) - 2) /\ 2 * k \in 1..(Len(c) - 2) /\ k + 1 \in Nat \ {0}
        /\ 2 * (k + 1) <= Len(c) /\ ((2 * k) - 1) + 2 = (2 * (k + 1)) - 1 /\ (2 * k) + 2 = 2 * (k + 1)
    BY <1>1, <1>3, <1>5
  <2>2. d[(2 * k) - 1] = c[(2 * (k + 1)) - 1] /\ d[2 * k] = c[2 * (k + 1)]
    BY <1>4, <2>1
  <2>3. GenuineCell(c[(2 * (k + 1)) - 1], c[2 * (k + 1)])
    BY <2>1 DEF GenuineCells
  <2> QED BY <2>2, <2>3
<1>6. GenuineCells(d)
  BY <1>3, <1>5 DEF GenuineCells, S
<1> QED BY <1>3, <1>6 DEF d

(* A list without one id.                                                  *)
LEMMA WithoutIs ==
    ASSUME NEW S, NEW s \in Seq(S), NEW i
    PROVE  /\ Without(s, i) \in Seq(S)
           /\ \A n \in 1..Len(Without(s, i)) : \E m \in 1..Len(s) : Without(s, i)[n] = s[m]
<1>1. CASE i \in ToSet(s)
  <2>1. PICK k : k = CHOOSE n \in DOMAIN s : s[n] = i
    OBVIOUS
  <2>2. k \in 1..Len(s)
    BY <1>1, <2>1 DEF ToSet
  <2>3. Without(s, i) = RemoveAt(s, k)
    BY <1>1, <2>1 DEF Without
  <2> QED BY <2>2, <2>3, RemovedAt
<1>2. CASE i \notin ToSet(s)
  <2>1. Without(s, i) = s
    BY <1>2 DEF Without
  <2> QED BY <2>1
<1> QED BY <1>1, <1>2

(* One record fetched from the file goes into the memory.                  *)
LEMMA PutRecordStep ==
    ASSUME MapInv, PutRecord
    PROVE  MapInv'
<1>0. PICK i, b : i = reader.cells[1] /\ b = reader.cells[2]
  OBVIOUS
<1>1. IssuedKept
  BY DEF MapInv, UsersIssued, IssuedKept, PutRecord
<1>2. ~reader.overlapped => HasRecords
  BY DEF MapInv, ReaderPath, PutRecord
<1>3. ~reader.overlapped => GenuineCell(i, b)
  <2> SUFFICES ASSUME ~reader.overlapped PROVE GenuineCell(i, b)
    OBVIOUS
  <2>1. GenuineCells(reader.cells) /\ 2 * reader.count <= Len(reader.cells) /\ reader.count \in Nat \ {0}
    BY <1>2 DEF HasRecords
  <2>2. Len(reader.cells) \in Nat
    BY <2>1 DEF GenuineCells
  <2>3. 1 \in Nat \ {0} /\ 2 * 1 <= Len(reader.cells) /\ (2 * 1) - 1 = 1 /\ 2 * 1 = 2
    BY <2>1, <2>2
  <2>4. GenuineCell(reader.cells[(2 * 1) - 1], reader.cells[2 * 1])
    BY <2>1, <2>3 DEF GenuineCells
  <2> QED BY <1>0, <2>3, <2>4
<1>4. UsersIssued'
  <2>0. users \in [Blocks -> Seq(CallId)]
    BY DEF MapInv, UsersIssued
  <2>1. CASE users' = users
    BY <1>1, <2>0, <2>1, UsersFewer
  <2>2. CASE /\ i \in CallId /\ users' = PutIn(i, b) /\ users' # users
             /\ torn' = IF reader.overlapped /\ b # issued[i] THEN torn \cup {i} ELSE torn
    <3>1. users' = [d \in Blocks |-> IF d = b THEN <<i>> \o users[d] ELSE Without(users[d], i)]
      BY <2>2 DEF PutIn
    <3>2. ASSUME NEW d \in Blocks, d # b
          PROVE  /\ users'[d] \in Seq(CallId)
                 /\ \A k \in 1..Len(users'[d]) : \E m \in 1..Len(users[d]) : users'[d][k] = users[d][m]
      <4>1. users'[d] = Without(users[d], i) /\ users[d] \in Seq(CallId)
        BY <2>0, <3>1, <3>2
      <4> QED BY <4>1, WithoutIs
    <3>3. CASE b \in Blocks
      <4>1. users[b] \in Seq(CallId) /\ users'[b] = <<i>> \o users[b]
        BY <2>0, <3>1, <3>3
      <4>2. users'[b] \in Seq(CallId)
        BY <2>2, <4>1
      <4>3. \A d \in Blocks : users'[d] \in Seq(CallId)
        BY <3>2, <4>2
      <4>4. users' \in [Blocks -> Seq(CallId)]
        BY <3>1, <4>3
      <4>5. GenuineNext(i, b)
        <5>1. CASE reader.overlapped /\ b # issued[i]
          BY <2>2, <3>3, <5>1 DEF GenuineNext
        <5>2. CASE b = issued[i]
          BY <2>2, <3>3, <5>2 DEF GenuineNext, PutRecord
        <5>3. CASE ~reader.overlapped
          BY <1>1, <1>3, <5>3, RecordKept
        <5> QED BY <5>1, <5>2, <5>3
      <4> QED BY <1>1, <2>2, <3>2, <3>3, <4>1, <4>4, <4>5, UsersPut
    <3>4. CASE b \notin Blocks
      <4>1. \A d \in Blocks : users'[d] \in Seq(CallId)
        BY <3>2, <3>4
      <4>2. users' \in [Blocks -> Seq(CallId)]
        BY <3>1, <4>1
      <4> QED BY <1>1, <3>2, <3>4, <4>2, UsersFewer
    <3> QED BY <3>3, <3>4
  <2> QED BY <1>0, <2>1, <2>2 DEF PutRecord
<1>5. FileGenuine' /\ WorkerPath'
  BY <1>1, FileKept DEF PutRecord
<1>6. ReaderPath'
  <2>1. CASE reader.count = 1
    BY <2>1 DEF PutRecord, ReaderPath, NotReading
  <2>2. CASE reader.count # 1
    <3>0. PICK c, n, o : c = reader.cells /\ n = reader.count /\ o = reader.overlapped
      OBVIOUS
    <3>1. reader = [pc |-> "put", count |-> n, cells |-> c, overlapped |-> o]
      BY <3>0 DEF MapInv, ReaderPath, PutRecord
    <3>2. reader' = [pc |-> "put", count |-> n - 1, cells |-> Tail(Tail(c)), overlapped |-> o]
      BY <2>2, <3>0, <3>1 DEF PutRecord
    <3>3. ASSUME ~o PROVE HasRecords'
      <4>1. n \in Nat \ {0} /\ n # 1 /\ 2 * n <= Len(c) /\ GenuineCells(c) /\ Len(c) \in Nat
        BY <1>2, <2>2, <3>0, <3>3 DEF HasRecords, GenuineCells
      <4>2. GenuineCells(Tail(Tail(c))) /\ Len(Tail(Tail(c))) = Len(c) - 2
        BY <4>1, CellsTail
      <4>3. n - 1 \in Nat \ {0} /\ 2 * (n - 1) <= Len(Tail(Tail(c)))
        BY <4>1, <4>2
      <4>4. GenuineCells(Tail(Tail(c)))'
        BY <1>1, <4>2, CellsKept
      <4> QED BY <3>2, <4>3, <4>4 DEF HasRecords
    <3> QED BY <3>2, <3>3 DEF ReaderPath
  <2> QED BY <2>1, <2>2
<1> QED BY <1>4, <1>5, <1>6 DEF MapInv

LEMMA MapInvKept ==
    ASSUME MapInv, [MapNext]_mapVars
    PROVE  MapInv'
<1>1. CASE UNCHANGED mapVars
  BY <1>1 DEF mapVars, MapInv, UsersIssued, FileGenuine, WorkerPath, ReaderPath, FetchesFile,
              HasRecords, GenuineCells, GenuineCell, Blocks
<1>2. CASE MapNext
  BY <1>2, IssueStep, EvictStep, TruncateStep, WriteFirstStep, WriteRestStep, SetFlagStep,
     RewriteFailsStep, CrashStep, ReadFirstStep, ReadRestStep, PutRecordStep DEF MapNext
<1> QED BY <1>1, <1>2

(* The memory pairs every id with the block the model sampled for it, or   *)
(* the id has gone torn in a read that a rewrite overlapped: evictions,  *)
(* failed writes and crashes never lead to another pairing, wherever they  *)
(* cut the map and however often it goes through the file, and neither     *)
(* does a read that no rewrite overlaps.                                   *)
THEOREM RestoredGenuine == MapSpec => []RestoredIsGenuine
<1>1. MapInit => MapInv
  BY MapInitInv
<1>2. MapInv /\ [MapNext]_mapVars => MapInv'
  BY MapInvKept
<1>3. MapInv => RestoredIsGenuine
  <2> SUFFICES ASSUME MapInv, NEW b \in Blocks, NEW i \in ToSet(users[b])
               PROVE  issued[i] = b \/ i \in torn
    BY DEF RestoredIsGenuine
  <2>1. users[b] \in Seq(CallId)
    BY DEF MapInv, UsersIssued
  <2>2. PICK k \in 1..Len(users[b]) : users[b][k] = i
    BY <2>1 DEF ToSet
  <2>3. GenuineCell(i, b)
    BY <2>2 DEF MapInv, UsersIssued
  <2> QED BY <2>3 DEF GenuineCell
<1> QED BY <1>1, <1>2, <1>3, PTL DEF MapSpec
=============================================================================
