-------------------------- MODULE GoSessionProofs ---------------------------
(***************************************************************************)
(* Proofs about a session of the Go port, for any layers, ratios, window,  *)
(* contexts and prompts: the cursors of its KV rings are always in range,  *)
(* and attention sees the rows of the session's own tokens.                *)
(*                                                                         *)
(* From small to large: quotients and remainders, one ring, the rows of a  *)
(* history, one compressor, a whole cache, the steps of the session.       *)
(* TypeInv needs no exactness; ExactInv says that the cache of an          *)
(* untainted session, and the one that was saved, hold their histories.    *)
(***************************************************************************)
EXTENDS GoSession, TLAPS

-----------------------------------------------------------------------------
(* Equal sequences have equal elements, and the converse.                  *)
LEMMA SameSequence ==
    ASSUME NEW S, NEW s \in Seq(S), NEW t \in Seq(S), Len(s) = Len(t),
           \A i \in 1..Len(s) : s[i] = t[i]
    PROVE  s = t
BY SMTT(30)

-----------------------------------------------------------------------------
(* Arithmetic.  Quotient and remainder, and what one more does to them.    *)
LEMMA Times ==
    ASSUME NEW x \in Nat, NEW y \in Nat, NEW z \in Nat, x <= y
    PROVE  x * z \in Nat /\ y * z \in Nat /\ x * z <= y * z
<1> DEFINE d == y - x
<1>1. d \in Nat /\ y = x + d
  OBVIOUS
<1>2. d * z \in Nat /\ x * z \in Nat /\ y * z \in Nat
  BY <1>1
<1> HIDE DEF d
<1>3. y * z = x * z + d * z
  BY <1>1, SMT
<1> QED BY <1>2, <1>3

LEMMA DivMod ==
    ASSUME NEW n \in Nat, NEW R \in Nat \ {0}
    PROVE  n \div R \in Nat /\ n % R \in 0..(R - 1) /\ n = (n \div R) * R + (n % R)
<1>1. n % R \in 0..(R - 1) /\ n = R * (n \div R) + (n % R)
  BY SMT
<1>2. n \div R \in Nat
  BY SMT
<1>3. R * (n \div R) = (n \div R) * R
  BY <1>2, SMT
<1> QED BY <1>1, <1>2, <1>3

LEMMA Quotient ==
    ASSUME NEW n \in Nat, NEW R \in Nat \ {0}, NEW q \in Nat, NEW r \in 0..(R - 1), n = q * R + r
    PROVE  n \div R = q /\ n % R = r
<1> DEFINE a == n \div R
           b == n % R
<1>1. a \in Nat /\ b \in 0..(R - 1) /\ n = a * R + b
  BY DivMod
<1>2. a * R \in Nat /\ q * R \in Nat
  BY <1>1, Times
<1> HIDE DEF a, b
<1>3. ASSUME a + 1 <= q PROVE FALSE
  <2>1. a + 1 <= q
    BY <1>3
  <2>2. (a + 1) * R <= q * R
    BY <1>1, <2>1, Times
  <2>3. (a + 1) * R = a * R + R
    BY <1>1, SMT
  <2> QED BY <1>1, <1>2, <2>2, <2>3
<1>4. ASSUME q + 1 <= a PROVE FALSE
  <2>1. q + 1 <= a
    BY <1>4
  <2>2. (q + 1) * R <= a * R
    BY <1>1, <2>1, Times
  <2>3. (q + 1) * R = q * R + R
    BY SMT
  <2> QED BY <1>1, <1>2, <2>2, <2>3
<1>5. a = q
  BY <1>1, <1>3, <1>4
<1>6. b = r
  BY <1>1, <1>2, <1>5
<1> QED BY <1>5, <1>6 DEF a, b

LEMMA OneMore ==
    ASSUME NEW n \in Nat, NEW R \in Nat \ {0}
    PROVE  IF (n % R) = R - 1
           THEN (n + 1) \div R = n \div R + 1 /\ (n + 1) % R = 0
           ELSE (n + 1) \div R = n \div R /\ (n + 1) % R = (n % R) + 1
<1> DEFINE q == n \div R
           r == n % R
<1>0. q \in Nat /\ r \in 0..(R - 1) /\ n = q * R + r
  BY DivMod
<1> HIDE DEF q, r
<1>1. q \in Nat /\ r \in 0..(R - 1) /\ n = q * R + r /\ q * R \in Nat
  BY <1>0, Times
<1>2. CASE r = R - 1
  <2>1. (q + 1) * R = q * R + R
    BY <1>1, SMT
  <2> DEFINE P == q * R
             Q == (q + 1) * R
  <2>2. P \in Nat /\ n = P + r
    BY <1>1
  <2>5. Q = P + R
    BY <2>1
  <2> HIDE DEF P, Q
  <2>4. n + 1 = Q + 0 /\ 0 \in 0..(R - 1) /\ q + 1 \in Nat /\ n + 1 \in Nat
    BY <1>1, <1>2, <2>2, <2>5
  <2>3. (n + 1) \div R = q + 1 /\ (n + 1) % R = 0
    BY <2>4, Quotient DEF Q
  <2> QED BY <1>2, <2>3 DEF q, r
<1>3. CASE r # R - 1
  <2>1. n + 1 = q * R + (r + 1) /\ r + 1 \in 0..(R - 1)
    BY <1>1, <1>3
  <2>2. (n + 1) \div R = q /\ (n + 1) % R = r + 1
    BY <1>1, <2>1, Quotient
  <2> QED BY <1>3, <2>2 DEF q, r
<1> QED BY <1>2, <1>3

(* The same with names for the quotient, the remainder and the product.    *)
Divides(n, R, q, r, m) ==
    /\ q \in Nat /\ r \in 0..(R - 1) /\ m \in Nat
    /\ n \div R = q /\ n % R = r /\ n = m + r
    /\ q * R = m /\ (q + 1) * R = m + R

LEMMA Divided ==
    ASSUME NEW n \in Nat, NEW R \in Nat \ {0}
    PROVE  \E q, r, m : Divides(n, R, q, r, m)
<1> DEFINE q == n \div R
           r == n % R
           m == q * R
<1>1. q \in Nat /\ r \in 0..(R - 1) /\ n = m + r
  BY DivMod
<1> HIDE DEF q, r
<1>2. m \in Nat
  BY <1>1, Times
<1>3. (q + 1) * R = m + R
  BY <1>1, SMT
<1>4. n \div R = q /\ n % R = r
  BY DEF q, r
<1> HIDE DEF m
<1>5. q * R = m
  BY DEF m
<1>6. Divides(n, R, q, r, m)
  BY <1>1, <1>2, <1>3, <1>4, <1>5, Zenon DEF Divides
<1> QED BY <1>6

LEMMA ProductBelow ==
    ASSUME NEW n, NEW R \in Nat \ {0}, NEW q, NEW r, NEW m, Divides(n, R, q, r, m),
           NEW k \in 0..(q - 1)
    PROVE  (k + 1) * R \in R..m
<1>1. q \in Nat /\ m = q * R
  BY Zenon DEF Divides
<1>2. k + 1 \in Nat /\ 1 <= k + 1 /\ k + 1 <= q /\ 1 \in Nat
  BY <1>1
<1>3. (k + 1) * R \in Nat /\ q * R \in Nat /\ (k + 1) * R <= q * R
  BY <1>1, <1>2, Times
<1>4. 1 * R <= (k + 1) * R
  BY <1>2, Times
<1>5. R <= (k + 1) * R
  BY <1>4
<1> DEFINE a == (k + 1) * R
           b == q * R
<1> HIDE DEF a, b
<1>6. a \in Nat /\ b \in Nat /\ a <= b /\ R <= a
  BY <1>3, <1>5, Zenon DEF a, b
<1>7. a \in R..b
  BY <1>6
<1> QED BY <1>1, <1>7 DEF a, b

-----------------------------------------------------------------------------
(* Rings.  A ring shows the newest of the first many rows of f.            *)
Shows(ring, cap, f, many) ==
    /\ ring.n = Least(many, cap)
    /\ \A i \in 1..ring.n : ring.slot[SlotOf(ring, cap, i - 1)] = f[many - ring.n + i - 1]

Newest(cap, f, many) ==
    [i \in 1..Least(many, cap) |-> f[many - Least(many, cap) + i - 1]]

LEMMA ShowsWindow ==
    ASSUME NEW cap \in Nat \ {0}, NEW ring, RingOK(ring, cap), NEW f, NEW many \in Nat,
           Shows(ring, cap, f, many)
    PROVE  Window(ring, cap) = Newest(cap, f, many)
BY DEF Shows, Window, Newest

LEMMA ShowsNothing ==
    ASSUME NEW cap \in Nat \ {0}, NEW none, NEW f
    PROVE  RingOK(Fresh(cap, none), cap) /\ Shows(Fresh(cap, none), cap, f, 0)
BY DEF Fresh, RingOK, Shows, Least

LEMMA PushOK ==
    ASSUME NEW cap \in Nat \ {0}, NEW ring, RingOK(ring, cap), NEW row
    PROVE  RingOK(Push(ring, cap, row), cap)
BY DEF RingOK, Push

(* A push moves no row that stays.                                         *)
LEMMA PushSlots ==
    ASSUME NEW cap \in Nat \ {0}, NEW ring, NEW next,
           ring.n \in 0..cap, ring.write \in 0..(cap - 1),
           next.n = IF ring.n < cap THEN ring.n + 1 ELSE ring.n,
           next.write = IF ring.write + 1 >= cap THEN 0 ELSE ring.write + 1
    PROVE  /\ SlotOf(next, cap, next.n - 1) = ring.write
           /\ \A i \in 1..(next.n - 1) :
                LET j == IF ring.n < cap THEN i ELSE i + 1 IN
                /\ j \in 1..ring.n
                /\ SlotOf(next, cap, i - 1) = SlotOf(ring, cap, j - 1)
                /\ SlotOf(ring, cap, j - 1) \in 0..(cap - 1) \ {ring.write}
<1> DEFINE n == ring.n
           w == ring.write
           m == next.n
           v == next.write
<1>1. /\ n \in 0..cap /\ w \in 0..(cap - 1) /\ cap \in Nat \ {0}
      /\ m = IF n < cap THEN n + 1 ELSE n
      /\ v = IF w + 1 >= cap THEN 0 ELSE w + 1
  OBVIOUS
<1>2. /\ Start(ring, cap) = IF w < n THEN w - n + cap ELSE w - n
      /\ Start(next, cap) = IF v < m THEN v - m + cap ELSE v - m
  BY DEF Start
<1> HIDE DEF n, w, m, v
<1>3. SlotOf(next, cap, m - 1) = w
  BY <1>1, <1>2 DEF SlotOf
<1>4. ASSUME NEW i \in 1..(m - 1)
      PROVE  LET j == IF n < cap THEN i ELSE i + 1 IN
             /\ j \in 1..n
             /\ SlotOf(next, cap, i - 1) = SlotOf(ring, cap, j - 1)
             /\ SlotOf(ring, cap, j - 1) \in 0..(cap - 1) \ {w}
  <2>1. CASE n < cap
    BY <1>1, <1>2, <2>1 DEF SlotOf
  <2>2. CASE ~(n < cap)
    BY <1>1, <1>2, <2>2 DEF SlotOf
  <2> QED BY <2>1, <2>2
<1> QED BY <1>3, <1>4 DEF n, w, m

LEMMA ShowsMore ==
    ASSUME NEW cap \in Nat \ {0}, NEW ring, RingOK(ring, cap), NEW f, NEW g, NEW many \in Nat,
           Shows(ring, cap, f, many), \A k \in 0..(many - 1) : g[k] = f[k]
    PROVE  Shows(Push(ring, cap, g[many]), cap, g, many + 1)
<1> DEFINE row  == g[many]
           next == Push(ring, cap, row)
<1>1. /\ DOMAIN ring.slot = 0..(cap - 1) /\ ring.n \in 0..cap /\ ring.write \in 0..(cap - 1)
      /\ ring.n = Least(many, cap)
  BY DEF RingOK, Shows
<1>2. /\ next.n = IF ring.n < cap THEN ring.n + 1 ELSE ring.n
      /\ next.write = IF ring.write + 1 >= cap THEN 0 ELSE ring.write + 1
      /\ \A k \in 0..(cap - 1) : next.slot[k] = IF k = ring.write THEN row ELSE ring.slot[k]
  BY <1>1 DEF Push
<1>3. next.n = Least(many + 1, cap)
  BY <1>1, <1>2 DEF Least
<1> HIDE DEF next
<1>4. ASSUME NEW i \in 1..next.n
      PROVE  next.slot[SlotOf(next, cap, i - 1)] = g[(many + 1) - next.n + i - 1]
  <2>1. CASE i = next.n
    <3>1. SlotOf(next, cap, i - 1) = ring.write
      BY <1>1, <1>2, <2>1, PushSlots
    <3>2. (many + 1) - next.n + i - 1 = many
      BY <1>3, <2>1 DEF Least
    <3> QED BY <1>1, <1>2, <3>1, <3>2
  <2>2. CASE i # next.n
    <3> DEFINE j == IF ring.n < cap THEN i ELSE i + 1
    <3>1. i \in 1..(next.n - 1)
      BY <1>1, <1>2, <2>2
    <3>2. /\ j \in 1..ring.n
          /\ SlotOf(next, cap, i - 1) = SlotOf(ring, cap, j - 1)
          /\ SlotOf(ring, cap, j - 1) \in 0..(cap - 1)
          /\ SlotOf(ring, cap, j - 1) # ring.write
      <4>1. /\ j \in 1..ring.n
            /\ SlotOf(next, cap, i - 1) = SlotOf(ring, cap, j - 1)
            /\ SlotOf(ring, cap, j - 1) \in 0..(cap - 1) \ {ring.write}
        BY <1>1, <1>2, <3>1, PushSlots, Zenon
      <4> HIDE DEF j
      <4> QED BY <4>1
    <3>3. /\ (many + 1) - next.n + i - 1 = many - ring.n + j - 1
          /\ many - ring.n + j - 1 \in 0..(many - 1)
      <4>1. i \in 1..(next.n - 1) /\ next.n \in Nat /\ ring.n \in 0..cap /\ cap \in Nat /\ many \in Nat
        BY <1>1, <1>2, <3>1
      <4>2. CASE ring.n < cap
        <5>1. next.n = ring.n + 1 /\ ring.n = many /\ j = i
          BY <1>1, <1>2, <4>2 DEF Least
        <5> HIDE DEF j
        <5> QED BY <4>1, <5>1
      <4>3. CASE ~(ring.n < cap)
        <5>1. next.n = ring.n /\ ring.n = cap /\ cap <= many /\ j = i + 1
          BY <1>1, <1>2, <4>3 DEF Least
        <5> HIDE DEF j
        <5> QED BY <4>1, <5>1
      <4> QED BY <4>2, <4>3
    <3>4. ring.slot[SlotOf(ring, cap, j - 1)] = f[many - ring.n + j - 1]
      BY <3>2 DEF Shows
    <3> QED BY <1>2, <3>2, <3>3, <3>4
  <2> QED BY <2>1, <2>2
<1>5. Shows(next, cap, g, many + 1)
  BY <1>3, <1>4 DEF Shows
<1> QED BY <1>5 DEF next

(* What is filled from slot 0.                                             *)
LEMMA ShowsLinear ==
    ASSUME NEW cap \in Nat \ {0}, NEW ring, NEW f, NEW many \in Nat,
           DOMAIN ring.slot = 0..(cap - 1),
           ring.n = Least(many, cap), ring.write = ring.n % cap,
           \A s \in 0..(ring.n - 1) : ring.slot[s] = f[many - ring.n + s]
    PROVE  RingOK(ring, cap) /\ Shows(ring, cap, f, many)
<1>1. ring.n \in 0..cap
  BY DEF Least
<1>2. ring.write = IF ring.n = cap THEN 0 ELSE ring.n
  <2>1. CASE ring.n = cap
    <3>1. cap = 1 * cap + 0
      BY SMT
    <3> QED BY <2>1, <3>1, Quotient
  <2>2. CASE ring.n # cap
    <3>1. ring.n = 0 * cap + ring.n /\ ring.n \in 0..(cap - 1)
      BY <1>1, <2>2, SMT
    <3> QED BY <1>1, <2>2, <3>1, Quotient
  <2> QED BY <2>1, <2>2
<1>3. ASSUME NEW i \in 1..ring.n
      PROVE  SlotOf(ring, cap, i - 1) = i - 1 /\ i - 1 \in 0..(ring.n - 1)
             /\ many - ring.n + (i - 1) = many - ring.n + i - 1
  <2>1. Start(ring, cap) = 0
    BY <1>1, <1>2 DEF Start
  <2>2. SlotOf(ring, cap, i - 1) = i - 1
    BY <1>1, <2>1 DEF SlotOf
  <2> QED BY <1>1, <2>2
<1>4. RingOK(ring, cap)
  BY <1>1, <1>2 DEF RingOK
<1>5. \A i \in 1..ring.n : ring.slot[SlotOf(ring, cap, i - 1)] = f[many - ring.n + i - 1]
  BY <1>3
<1> QED BY <1>4, <1>5, Zenon DEF Shows

LEMMA ShowsReadBack ==
    ASSUME NEW cap \in Nat \ {0}, NEW ring, NEW f, NEW S, NEW rows \in Seq(S),
           \A i \in 1..Len(rows) : rows[i] = f[i - 1]
    PROVE  /\ RingOK(ReadBack(ring, cap, rows), cap)
           /\ Shows(ReadBack(ring, cap, rows), cap, f, Len(rows))
<1> DEFINE back == ReadBack(ring, cap, rows)
           n    == Least(Len(rows), cap)
<1>1. /\ DOMAIN back.slot = 0..(cap - 1) /\ back.n = n /\ back.write = n % cap
      /\ \A s \in 0..(cap - 1) : s < n => back.slot[s] = rows[Len(rows) - n + s + 1]
  BY DEF ReadBack
<1>2. n \in 0..cap /\ n <= Len(rows) /\ Len(rows) \in Nat
  BY DEF Least
<1> HIDE DEF back, n
<1>3. \A s \in 0..(n - 1) : back.slot[s] = f[Len(rows) - n + s]
  <2> TAKE s \in 0..(n - 1)
  <2>1. Len(rows) - n + s + 1 \in 1..Len(rows) /\ (Len(rows) - n + s + 1) - 1 = Len(rows) - n + s
    BY <1>2
  <2>2. s \in 0..(cap - 1) /\ s < n
    BY <1>2
  <2> QED BY <1>1, <2>1, <2>2
<1>4. RingOK(back, cap) /\ Shows(back, cap, f, Len(rows))
  BY <1>1, <1>2, <1>3, ShowsLinear DEF n
<1> QED BY <1>4 DEF back

LEMMA LinearOK ==
    ASSUME NEW cap \in Nat \ {0}, NEW ring, RingOK(ring, cap)
    PROVE  RingOK(Linear(ring, cap), cap)
<1>1. ring.n \in Nat
  BY DEF RingOK
<1>2. ring.n % cap \in 0..(cap - 1)
  BY <1>1, DivMod
<1> QED BY <1>2 DEF Linear, RingOK

LEMMA LinearShows ==
    ASSUME NEW cap \in Nat \ {0}, NEW ring, RingOK(ring, cap), NEW f, NEW many \in Nat,
           Shows(ring, cap, f, many)
    PROVE  Shows(Linear(ring, cap), cap, f, many)
<1> DEFINE next == Linear(ring, cap)
<1>1. ring.n \in 0..cap /\ ring.n = Least(many, cap)
  BY DEF RingOK, Shows
<1>2. /\ DOMAIN next.slot = 0..(cap - 1) /\ next.n = ring.n /\ next.write = ring.n % cap
      /\ \A s \in 0..(cap - 1) : s < ring.n => next.slot[s] = Window(ring, cap)[s + 1]
  BY DEF Linear
<1> HIDE DEF next
<1>3. ASSUME NEW s \in 0..(next.n - 1) PROVE next.slot[s] = f[many - next.n + s]
  <2>1. s \in 0..(cap - 1) /\ s < ring.n /\ s + 1 \in 1..ring.n
        /\ many - ring.n + (s + 1) - 1 = many - ring.n + s
    BY <1>1, <1>2
  <2>2. Window(ring, cap)[s + 1] = f[many - ring.n + (s + 1) - 1]
    BY <2>1 DEF Window, Shows
  <2> QED BY <1>2, <2>1, <2>2
<1>4. Shows(next, cap, f, many)
  BY <1>1, <1>2, <1>3, ShowsLinear
<1> QED BY <1>4 DEF next

-----------------------------------------------------------------------------
(* The rows of a history.                                                  *)
Rows(s)        == [k \in Nat |-> RowOf(s, k)]
CompRows(l, s) == [k \in Nat |-> CompRowOf(l, s, k)]

(* Two histories have the same first n rows.                               *)
SameRows(s, u, n) == \A q \in 0..(n - 1) : RowOf(s, q) = RowOf(u, q)

LEMMA RowsKept ==
    ASSUME NEW S, NEW s \in Seq(S), NEW t \in S
    PROVE  /\ Append(s, t) \in Seq(S) /\ Len(Append(s, t)) = Len(s) + 1
           /\ SameRows(s, Append(s, t), Len(s))
           /\ RowOf(Append(s, t), Len(s)) = <<Len(s), Append(s, t)>>
<1> DEFINE u == Append(s, t)
<1>1. u \in Seq(S) /\ Len(u) = Len(s) + 1 /\ Len(s) \in Nat /\ \A i \in 1..Len(s) : u[i] = s[i]
  OBVIOUS
<1> HIDE DEF u
<1>2. ASSUME NEW q \in 0..(Len(s) - 1) PROVE RowOf(s, q) = RowOf(u, q)
  <2>1. q + 1 \in 0..Len(s) /\ q + 1 \in 0..Len(u)
    BY <1>1
  <2>2. /\ SubSeq(s, 1, q + 1) \in Seq(S) /\ Len(SubSeq(s, 1, q + 1)) = q + 1
        /\ \A i \in 1..(q + 1) : SubSeq(s, 1, q + 1)[i] = s[i]
    BY <2>1
  <2>3. /\ SubSeq(u, 1, q + 1) \in Seq(S) /\ Len(SubSeq(u, 1, q + 1)) = q + 1
        /\ \A i \in 1..(q + 1) : SubSeq(u, 1, q + 1)[i] = u[i]
    BY <1>1, <2>1
  <2>4. \A i \in 1..(q + 1) : s[i] = u[i]
    BY <1>1, <2>1
  <2>5. SubSeq(s, 1, q + 1) = SubSeq(u, 1, q + 1)
    BY <2>2, <2>3, <2>4, SameSequence
  <2> QED BY <2>5 DEF RowOf, Upto
<1>3. RowOf(u, Len(s)) = <<Len(s), u>>
  <2>1. SubSeq(u, 1, Len(u)) = u
    BY <1>1
  <2> QED BY <1>1, <2>1 DEF RowOf, Upto
<1>4. SameRows(s, u, Len(s))
  BY <1>2 DEF SameRows
<1> QED BY <1>1, <1>3, <1>4 DEF u

-----------------------------------------------------------------------------
(* The layers.                                                             *)
LEMMA LayerFacts ==
    /\ CapRaw \in Nat \ {0}
    /\ \A l \in Compressed : l \in Layer /\ Ratio[l] \in Nat \ {0, 1}
                             /\ StateRows(l) \in Nat \ {0} /\ StateRows(l) >= Ratio[l]
    /\ \A l \in Dual : l \in Compressed /\ Ratio[l] = 4 /\ StateRows(l) = 8
    /\ \A l \in Compressed \ Dual : StateRows(l) = Ratio[l]
<1>1. CapRaw \in Nat \ {0} /\ Ratio \in [Layer -> Nat \ {1}]
  BY SessionAssumption
<1>2. \A l \in Compressed : l \in Layer /\ Ratio[l] \in Nat \ {0, 1}
  BY <1>1 DEF Compressed
<1>3. \A l \in Dual : l \in Compressed /\ Ratio[l] = 4 /\ StateRows(l) = 8
  BY <1>1 DEF Compressed, Dual, StateRows
<1>4. \A l \in Compressed \ Dual : StateRows(l) = Ratio[l]
  BY DEF StateRows
<1> QED BY <1>1, <1>2, <1>3, <1>4

LEMMA CompCapIs ==
    ASSUME NEW l \in Compressed, NEW c \in Nat
    PROVE  CompCap(l, c) \in Nat \ {0} /\ CompCap(l, c) = (c \div Ratio[l]) + 2
<1>1. c \div Ratio[l] \in Nat
  BY LayerFacts, DivMod
<1> QED BY <1>1 DEF CompCap

(* What a compressor's state shows of the history s: the window that is    *)
(* being filled, and for ratio 4 the one before.                           *)
Previous(l, s, r) ==
    IF Len(s) < 4 THEN NoRow ELSE RowOf(s, Len(s) - (Len(s) % Ratio[l]) - 4 + r)

StateShows(state, l, s) ==
    LET filled == Len(s) % Ratio[l] IN
    IF l \in Dual
    THEN /\ \A r \in 0..3 : state[r] = Previous(l, s, r)
         /\ \A r \in 0..(filled - 1) : state[4 + r] = RowOf(s, Len(s) - filled + r)
    ELSE \A r \in 0..(filled - 1) : state[r] = RowOf(s, Len(s) - filled + r)

(* The state that is pooled at position p depends on the rows up to p.     *)
LEMMA StateOfKept ==
    ASSUME NEW l \in Compressed, NEW s, NEW u, NEW p \in Nat, SameRows(s, u, p + 1)
    PROVE  StateOf(l, s, p) = StateOf(l, u, p)
<1>1. \A q \in 0..p : RowOf(s, q) = RowOf(u, q)
  BY DEF SameRows
<1>2. CASE l \in Dual
  <2>1. p % 4 \in 0..3
    BY DivMod
  <2>2. \A r \in 0..7 :
          LET q == p - (p % 4) + r - 4 IN
            (IF q < 0 \/ q > p THEN NoRow ELSE RowOf(s, q)) = (IF q < 0 \/ q > p THEN NoRow ELSE RowOf(u, q))
    BY <1>1, <2>1
  <2> QED BY <1>2, <2>2 DEF StateOf
<1>3. CASE l \notin Dual
  <2>1. Ratio[l] \in Nat \ {0} /\ p % Ratio[l] \in 0..(Ratio[l] - 1) /\ p - (p % Ratio[l]) >= 0
    <3>1. Ratio[l] \in Nat \ {0}
      BY LayerFacts
    <3>2. PICK q, r, m : Divides(p, Ratio[l], q, r, m)
      BY <3>1, Divided
    <3>3. r \in 0..(Ratio[l] - 1) /\ m \in Nat /\ p = m + r
      BY <3>2, Zenon DEF Divides
    <3>4. r \in 0..(Ratio[l] - 1) /\ p - r >= 0
      BY <3>1, <3>3
    <3>5. p % Ratio[l] = r
      BY <3>2, Zenon DEF Divides
    <3> QED BY <3>1, <3>4, <3>5, Zenon
  <2>2. \A r \in 0..(Ratio[l] - 1) :
          LET q == p - (p % Ratio[l]) + r IN
            (IF q > p THEN NoRow ELSE RowOf(s, q)) = (IF q > p THEN NoRow ELSE RowOf(u, q))
    BY <1>1, <2>1
  <2> QED BY <1>3, <2>2 DEF StateOf
<1> QED BY <1>2, <1>3

LEMMA CompRowKept ==
    ASSUME NEW l \in Compressed, NEW s, NEW u, NEW n \in Nat, SameRows(s, u, n),
           NEW k \in 0..((n \div Ratio[l]) - 1)
    PROVE  CompRowOf(l, s, k) = CompRowOf(l, u, k)
<1> DEFINE R == Ratio[l]
           p == (k + 1) * R - 1
<1>1. R \in Nat \ {0}
  BY LayerFacts
<1>2. PICK q, r, m : Divides(n, R, q, r, m)
  BY <1>1, Divided
<1>3. k \in 0..(q - 1) /\ m \in Nat /\ r \in Nat /\ n = m + r
  BY <1>2 DEF Divides
<1>4. (k + 1) * R \in R..m
  BY <1>1, <1>2, <1>3, ProductBelow
<1>5. ASSUME NEW a \in R..m PROVE a - 1 \in Nat /\ (a - 1) + 1 <= n
  BY <1>1, <1>3
<1>6. p \in Nat /\ p + 1 <= n
  BY <1>4, <1>5
<1> HIDE DEF p
<1>7. SameRows(s, u, p + 1)
  BY <1>6 DEF SameRows
<1>8. StateOf(l, s, p) = StateOf(l, u, p)
  BY <1>6, <1>7, StateOfKept
<1> QED BY <1>8 DEF CompRowOf, p

-----------------------------------------------------------------------------
(* One token through a compressor.                                         *)
Place(l, p) == IF l \in Dual THEN 4 + (p % 4) ELSE p % Ratio[l]

IsStored(st, l, state, p, row) ==
    /\ DOMAIN st = 0..(StateRows(l) - 1)
    /\ \A r \in 0..(StateRows(l) - 1) : st[r] = IF r = Place(l, p) THEN row ELSE state[r]

LEMMA StoredIs ==
    ASSUME NEW l \in Compressed, NEW state, DOMAIN state = 0..(StateRows(l) - 1),
           NEW p \in Nat, NEW row
    PROVE  IsStored(Stored(l, state, p, row), l, state, p, row)
BY LayerFacts DEF Stored, Place, IsStored

(* What is pooled at the end of a window is the window's own rows.         *)
LEMMA PooledIs ==
    ASSUME NEW l \in Compressed, NEW state, DOMAIN state = 0..(StateRows(l) - 1),
           NEW S, NEW s \in Seq(S), NEW t \in S, StateShows(state, l, s), Closes(l, Len(s))
    PROVE  Pooled(l, state, Len(s), RowOf(Append(s, t), Len(s)))
              = CompRowOf(l, Append(s, t), Len(s) \div Ratio[l])
<1> DEFINE R   == Ratio[l]
           p   == Len(s)
           u   == Append(s, t)
           row == RowOf(u, p)
           st  == Stored(l, state, p, row)
<1>1. /\ p \in Nat /\ R \in Nat \ {0, 1} /\ (l \in Dual => R = 4)
      /\ StateRows(l) = IF l \in Dual THEN 8 ELSE R
  BY LayerFacts DEF StateRows
<1> HIDE DEF R, p
<1>0. PICK k, rest, m : Divides(p, R, k, rest, m)
  BY <1>1, Divided
<1>2. p % R = R - 1
  <2>1. p % R \in 0..(R - 1)
    BY <1>1, DivMod
  <2>2. (p + 1) % R = 0
    BY DEF Closes, R, p
  <2>3. p % R # R - 1 => (p + 1) % R = (p % R) + 1
    BY <1>1, OneMore
  <2> DEFINE a == p % R
             b == (p + 1) % R
  <2> HIDE DEF a, b
  <2>4. a \in Nat /\ b = 0 /\ (a # R - 1 => b = a + 1)
    BY <2>1, <2>2, <2>3 DEF a, b
  <2>5. a = R - 1
    BY <1>1, <2>4
  <2> QED BY <2>5 DEF a
<1>3. k = p \div R /\ k \in Nat /\ (k + 1) * R - 1 = p /\ p + 1 - R = k * R /\ p >= R - 1
  <2>1. k = p \div R /\ k \in Nat /\ k * R = m /\ (k + 1) * R = m + R
    BY <1>0, Zenon DEF Divides
  <2>2. m \in Nat /\ p = m + (R - 1)
    BY <1>0, <1>2, Zenon DEF Divides
  <2>3. (m + R) - 1 = p /\ p + 1 - R = m /\ p >= R - 1
    BY <1>1, <2>2
  <2> QED BY <2>1, <2>3, Zenon
<1>4. SameRows(s, u, p)
  BY RowsKept DEF u, p
<1>5. /\ DOMAIN st = 0..(StateRows(l) - 1)
      /\ \A r \in 0..(StateRows(l) - 1) : st[r] = IF r = Place(l, p) THEN row ELSE state[r]
      /\ Place(l, p) = IF l \in Dual THEN 4 + (p % 4) ELSE p % R
  <2>1. p \in Nat
    BY <1>1
  <2>2. IsStored(st, l, state, p, row)
    <3> HIDE DEF p, row
    <3> QED BY <2>1, StoredIs, Zenon DEF st
  <2> QED BY <2>2, Zenon DEF Place, R, IsStored
<1>6. StateShows(state, l, s)
  OBVIOUS
<1> HIDE DEF st, row, u
<1>7. st = StateOf(l, u, p)
  <2>1. CASE l \in Dual
    <3>0. R = 4
      BY <1>1, <2>1
    <3>1. /\ p % 4 = 3
          /\ \A r \in 0..3 : state[r] = IF p < 4 THEN NoRow ELSE RowOf(s, p - 3 - 4 + r)
          /\ \A r \in 0..2 : state[4 + r] = RowOf(s, p - 3 + r)
      <4>1. p % 4 = 3
        BY <1>2, <3>0
      <4>2. /\ \A i \in 0..3 : state[i] = IF p < 4 THEN NoRow ELSE RowOf(s, p - (p % R) - 4 + i)
            /\ \A i \in 0..((p % R) - 1) : state[4 + i] = RowOf(s, p - (p % R) + i)
        BY <1>6, <2>1, Zenon DEF StateShows, Previous, R, p
      <4>3. (p % R) - 1 = 2 /\ p % R = 3
        BY <3>0, <4>1
      <4> QED BY <4>1, <4>2, <4>3
    <3>2. \A q \in 0..(p - 1) : RowOf(s, q) = RowOf(u, q)
      BY <1>4 DEF SameRows
    <3>6. DOMAIN st = 0..7 /\ \A r \in 0..7 : st[r] = IF r = 7 THEN row ELSE state[r]
      <4>1. StateRows(l) - 1 = 7 /\ Place(l, p) = 7
        BY <1>1, <1>5, <2>1, <3>1
      <4> QED BY <1>5, <4>1
    <3>3. ASSUME NEW r \in 0..7
          PROVE  st[r] = LET q == p - (p % 4) + r - 4 IN
                           IF q < 0 \/ q > p THEN NoRow ELSE RowOf(u, q)
      <4>1. CASE r \in 0..3
        <5>1. st[r] = state[r]
          BY <3>6, <4>1
        <5>2. CASE p < 4
          BY <1>1, <3>1, <4>1, <5>1, <5>2
        <5>3. CASE p >= 4
          <6>1. p - 3 - 4 + r \in 0..(p - 1)
            <7>1. p >= 7
              BY <1>1, <3>1, <5>3
            <7> QED BY <1>1, <4>1, <7>1
          <6>2. st[r] = RowOf(s, p - 3 - 4 + r)
            <7>1. ~(p < 4) /\ state[r] = IF p < 4 THEN NoRow ELSE RowOf(s, p - 3 - 4 + r)
              BY <1>1, <3>1, <4>1, <5>3
            <7> QED BY <5>1, <7>1, Zenon
          <6>3. RowOf(s, p - 3 - 4 + r) = RowOf(u, p - 3 - 4 + r)
            BY <3>2, <6>1
          <6>4. /\ p - (p % 4) + r - 4 = p - 3 - 4 + r
                /\ ~(p - 3 - 4 + r < 0) /\ ~(p - 3 - 4 + r > p)
            BY <1>1, <3>1, <6>1
          <6> QED BY <6>2, <6>3, <6>4, Zenon
        <5> QED BY <1>1, <5>2, <5>3
      <4>2. CASE r \in 4..6
        <5>1. p >= 3
          BY <1>1, <3>1
        <5>2. st[r] = state[4 + (r - 4)] /\ r - 4 \in 0..2
          BY <3>6, <4>2
        <5>3. state[4 + (r - 4)] = RowOf(s, p - 3 + (r - 4)) /\ p - 3 + (r - 4) \in 0..(p - 1)
          BY <1>1, <3>1, <4>2, <5>1, <5>2
        <5>4. st[r] = RowOf(u, p - 3 + (r - 4))
          BY <3>2, <5>2, <5>3
        <5> QED BY <1>1, <3>1, <4>2, <5>1, <5>4
      <4>3. CASE r = 7
        <5>1. st[r] = row
          BY <3>6, <4>3
        <5>2. p - (p % 4) + r - 4 = p
          BY <1>1, <3>1, <4>3
        <5> QED BY <1>1, <5>1, <5>2 DEF row
      <4> QED BY <4>1, <4>2, <4>3
    <3>5. st = [r \in 0..7 |-> st[r]]
      BY <3>6 DEF st, Stored
    <3> QED BY <2>1, <3>3, <3>5 DEF StateOf
  <2>2. CASE l \notin Dual
    <3>1. \A r \in 0..(R - 2) : state[r] = RowOf(s, p - (R - 1) + r)
      BY <1>1, <1>2, <1>6, <2>2 DEF StateShows, R, p
    <3>2. \A q \in 0..(p - 1) : RowOf(s, q) = RowOf(u, q)
      BY <1>4 DEF SameRows
    <3>3. p - (R - 1) \in Nat
      BY <1>1, <1>2
    <3>4. ASSUME NEW r \in 0..(R - 1)
          PROVE  st[r] = LET q == p - (p % R) + r IN IF q > p THEN NoRow ELSE RowOf(u, q)
      <4>1. CASE r \in 0..(R - 2)
        <5>1. st[r] = state[r]
          BY <1>1, <1>2, <1>5, <2>2, <4>1
        <5>2. p - (R - 1) + r \in 0..(p - 1)
          BY <1>1, <3>3, <4>1
        <5>3. st[r] = RowOf(u, p - (R - 1) + r)
          BY <3>1, <3>2, <4>1, <5>1, <5>2
        <5> QED BY <1>1, <1>2, <5>2, <5>3
      <4>2. CASE r = R - 1
        <5>1. st[r] = row
          BY <1>1, <1>2, <1>5, <2>2, <4>2
        <5>2. p - (p % R) + r = p
          BY <1>1, <1>2, <4>2
        <5> QED BY <1>1, <5>1, <5>2 DEF row
      <4> QED BY <1>1, <4>1, <4>2
    <3>5. st = [r \in 0..(R - 1) |-> st[r]]
      BY <1>1, <1>5, <2>2 DEF st, Stored
    <3> QED BY <2>2, <3>4, <3>5 DEF StateOf, R
  <2> QED BY <2>1, <2>2
<1>8. Pooled(l, state, p, row) = <<k * R, st>>
  BY <1>3 DEF Pooled, st, R
<1>9. CompRowOf(l, u, k) = <<k * R, StateOf(l, u, p)>>
  BY <1>3 DEF CompRowOf, R
<1> QED BY <1>3, <1>7, <1>8, <1>9 DEF p, u, row, R

(* The state after the token shows the longer history.                     *)
LEMMA ShiftedShows ==
    ASSUME NEW l \in Compressed, NEW state, DOMAIN state = 0..(StateRows(l) - 1),
           NEW S, NEW s \in Seq(S), NEW t \in S, StateShows(state, l, s)
    PROVE  StateShows(Shifted(l, state, Len(s), RowOf(Append(s, t), Len(s))), l, Append(s, t))
<1> DEFINE R    == Ratio[l]
           p    == Len(s)
           u    == Append(s, t)
           row  == RowOf(u, p)
           st   == Stored(l, state, p, row)
           next == Shifted(l, state, p, row)
           f    == p % R
<1>1. /\ p \in Nat /\ R \in Nat \ {0, 1} /\ (l \in Dual => R = 4)
      /\ StateRows(l) = IF l \in Dual THEN 8 ELSE R
  BY LayerFacts DEF StateRows
<1>2. Len(u) = p + 1 /\ \A q \in 0..(p - 1) : RowOf(s, q) = RowOf(u, q)
  BY RowsKept, Zenon DEF SameRows, u, p
<1>3. /\ \A r \in 0..(StateRows(l) - 1) : st[r] = IF r = Place(l, p) THEN row ELSE state[r]
      /\ Place(l, p) = IF l \in Dual THEN 4 + (p % 4) ELSE p % R
  <2>1. p \in Nat
    BY <1>1
  <2>2. IsStored(st, l, state, p, row)
    <3> HIDE DEF p, row
    <3> QED BY <2>1, StoredIs, Zenon DEF st
  <2> QED BY <2>2, Zenon DEF Place, R, IsStored
<1>4. next = IF l \in Dual /\ (p + 1) % R = 0 THEN [r \in 0..7 |-> st[4 + (r % 4)]] ELSE st
  BY Zenon DEF Shifted, Closes, next, st, R
<1>5. f \in 0..(R - 1) /\ p - f >= 0
  <2> HIDE DEF R
  <2>1. PICK q, r, m : Divides(p, R, q, r, m)
    BY <1>1, Divided
  <2>2. r \in 0..(R - 1) /\ m \in Nat /\ p = m + r
    BY <2>1, Zenon DEF Divides
  <2>3. r \in 0..(R - 1) /\ p - r >= 0
    BY <1>1, <2>2
  <2>4. f = r
    BY <2>1, Zenon DEF Divides
  <2> QED BY <2>3, <2>4, Zenon
<1>6. (p + 1) % R = IF f = R - 1 THEN 0 ELSE f + 1
  BY <1>1, OneMore
<1>7. IF l \in Dual
      THEN /\ \A r \in 0..3 : state[r] = IF p < 4 THEN NoRow ELSE RowOf(s, p - f - 4 + r)
           /\ \A r \in 0..(f - 1) : state[4 + r] = RowOf(s, p - f + r)
      ELSE \A r \in 0..(f - 1) : state[r] = RowOf(s, p - f + r)
  BY Zenon DEF StateShows, Previous, f, p, R
<1> HIDE DEF st, next, row, u
<1>8. CASE l \in Dual
  <2>1. R = 4 /\ p % 4 = f /\ f \in 0..3
    BY <1>1, <1>5, <1>8
  <2>2. f <= p /\ (p >= 4 => p - f >= 4)
    BY <1>1, <2>1
  <2> DEFINE g == (p + 1) % 4
  <2>3. g = IF f = 3 THEN 0 ELSE f + 1
    BY <1>6, <2>1
  <2>4. \A r \in 0..7 : st[r] = IF r = 4 + f THEN row ELSE state[r]
    BY <1>1, <1>3, <1>8, <2>1
  <2>5. /\ \A r \in 0..3 : state[r] = IF p < 4 THEN NoRow ELSE RowOf(s, p - f - 4 + r)
        /\ \A r \in 0..(f - 1) : state[4 + r] = RowOf(s, p - f + r)
    BY <1>7, <1>8
  <2> HIDE DEF R, f, g
  <2>6. /\ \A r \in 0..3 : next[r] = IF p + 1 < 4 THEN NoRow ELSE RowOf(u, (p + 1) - g - 4 + r)
        /\ \A r \in 0..(g - 1) : next[4 + r] = RowOf(u, (p + 1) - g + r)
    <3>1. CASE f = 3
      <4>1. g = 0 /\ p >= 3
        BY <2>2, <2>3, <3>1
      <4>2. next = [r \in 0..7 |-> st[4 + (r % 4)]]
        BY <1>4, <1>8, <2>1, <4>1 DEF g
      <4>3. ASSUME NEW r \in 0..3 PROVE next[r] = RowOf(u, (p + 1) - g - 4 + r)
        <5>1. next[r] = st[4 + r] /\ 4 + r \in 0..7
          <6>1. r = 0 * 4 + r
            OBVIOUS
          <6>2. r % 4 = r
            BY <6>1, Quotient
          <6>3. next[r] = st[4 + (r % 4)]
            BY <4>2
          <6> QED BY <6>2, <6>3
        <5>2. (p + 1) - g - 4 + r = p - 3 + r
          BY <1>1, <4>1
        <5>3. CASE r = 3
          <6>1. next[r] = row /\ p - 3 + r = p
            BY <1>1, <2>4, <3>1, <5>1, <5>3
          <6> QED BY <5>2, <6>1, Zenon DEF row
        <5>4. CASE r # 3
          <6>1. next[r] = state[4 + r] /\ r \in 0..(f - 1)
            BY <2>4, <3>1, <5>1, <5>4
          <6>2. p - f + r = p - 3 + r /\ p - 3 + r \in 0..(p - 1)
            BY <1>1, <3>1, <4>1, <5>4
          <6> QED BY <1>2, <2>5, <5>2, <6>1, <6>2
        <5> QED BY <5>3, <5>4
      <4> QED BY <1>1, <4>1, <4>3
    <3>2. CASE f # 3
      <4>1. g = f + 1 /\ next = st
        BY <1>4, <1>8, <2>1, <2>3, <3>2 DEF g
      <4>2. ASSUME NEW r \in 0..3
            PROVE  next[r] = IF p + 1 < 4 THEN NoRow ELSE RowOf(u, (p + 1) - g - 4 + r)
        <5>1. next[r] = state[r]
          BY <2>1, <2>4, <4>1
        <5>2. CASE p < 4
          <6>1. p + 1 < 4
            BY <1>1, <2>1, <3>2, <5>2
          <6> QED BY <2>5, <5>1, <5>2, <6>1
        <5>3. CASE ~(p < 4)
          <6>1. ~(p + 1 < 4) /\ (p + 1) - g - 4 + r = p - f - 4 + r /\ p - f - 4 + r \in 0..(p - 1)
            BY <1>1, <2>1, <2>2, <4>1, <5>3
          <6> QED BY <1>2, <2>5, <5>1, <5>3, <6>1
        <5> QED BY <5>2, <5>3
      <4>3. ASSUME NEW r \in 0..(g - 1) PROVE next[4 + r] = RowOf(u, (p + 1) - g + r)
        <5>1. (p + 1) - g + r = p - f + r /\ 4 + r \in 0..7 /\ r \in 0..f
          BY <1>1, <2>1, <3>2, <4>1
        <5>2. CASE r = f
          <6>1. next[4 + r] = row /\ p - f + r = p
            BY <1>1, <2>1, <2>4, <4>1, <5>1, <5>2
          <6> QED BY <5>1, <6>1, Zenon DEF row
        <5>3. CASE r # f
          <6>1. next[4 + r] = state[4 + r] /\ r \in 0..(f - 1)
            BY <2>1, <2>4, <4>1, <5>1, <5>3
          <6>2. p - f + r \in 0..(p - 1)
            BY <1>1, <2>1, <2>2, <6>1
          <6> QED BY <1>2, <2>5, <5>1, <6>1, <6>2
        <5> QED BY <5>2, <5>3
      <4> QED BY <4>2, <4>3
    <3> QED BY <3>1, <3>2
  <2>7. Ratio[l] = 4
    BY <2>1 DEF R
  <2> QED BY <1>2, <1>8, <2>6, <2>7, Zenon DEF StateShows, Previous, g, next, u, row, p
<1>9. CASE l \notin Dual
  <2> DEFINE g == (p + 1) % R
  <2>1. next = st /\ g = IF f = R - 1 THEN 0 ELSE f + 1
    BY <1>4, <1>6, <1>9
  <2>2. \A r \in 0..(R - 1) : st[r] = IF r = f THEN row ELSE state[r]
    BY <1>1, <1>3, <1>9
  <2>3. \A r \in 0..(f - 1) : state[r] = RowOf(s, p - f + r)
    BY <1>7, <1>9
  <2> HIDE DEF R, f, g
  <2>4. ASSUME NEW r \in 0..(g - 1) PROVE next[r] = RowOf(u, (p + 1) - g + r)
    <3>1. g = f + 1
      BY <1>1, <1>5, <2>1
    <3>2. (p + 1) - g + r = p - f + r /\ r \in 0..(R - 1) /\ r \in 0..f
      BY <1>1, <1>5, <2>1, <3>1
    <3>3. CASE r = f
      <4>1. next[r] = row /\ p - f + r = p
        BY <1>1, <1>5, <2>1, <2>2, <3>2, <3>3
      <4> QED BY <3>2, <4>1, Zenon DEF row
    <3>4. CASE r # f
      <4>1. next[r] = state[r] /\ r \in 0..(f - 1)
        BY <1>1, <1>5, <2>1, <2>2, <3>2, <3>4
      <4>2. p - f + r \in 0..(p - 1)
        BY <1>1, <1>5, <4>1
      <4> QED BY <1>2, <2>3, <3>2, <4>1, <4>2
    <3> QED BY <3>3, <3>4
  <2> QED BY <1>2, <1>9, <2>4, Zenon DEF StateShows, g, next, u, row, p, R
<1> QED BY <1>8, <1>9

LEMMA ShiftedOK ==
    ASSUME NEW l \in Compressed, NEW state, DOMAIN state = 0..(StateRows(l) - 1),
           NEW p \in Nat, NEW row
    PROVE  DOMAIN Shifted(l, state, p, row) = 0..(StateRows(l) - 1)
<1>0. IsStored(Stored(l, state, p, row), l, state, p, row)
  BY StoredIs
<1>1. DOMAIN Stored(l, state, p, row) = 0..(StateRows(l) - 1)
  BY <1>0, Zenon DEF IsStored
<1> DEFINE st == Stored(l, state, p, row)
           next == Shifted(l, state, p, row)
<1>2. next = IF l \in Dual /\ Closes(l, p) THEN [r \in 0..7 |-> st[4 + (r % 4)]] ELSE st
  BY Zenon DEF Shifted
<1>3. DOMAIN st = 0..(StateRows(l) - 1)
  BY <1>1
<1> HIDE DEF st, next
<1>4. CASE l \in Dual /\ Closes(l, p)
  <2>1. StateRows(l) - 1 = 7
    BY <1>4, LayerFacts
  <2>2. next = [r \in 0..7 |-> st[4 + (r % 4)]]
    BY <1>2, <1>4, Zenon
  <2>3. DOMAIN next = 0..7
    BY <2>2, Zenon
  <2> QED BY <2>1, <2>3 DEF next
<1>5. CASE ~(l \in Dual /\ Closes(l, p))
  BY <1>2, <1>3, <1>5, Zenon DEF next
<1> QED BY <1>4, <1>5

LEMMA ShowsSame ==
    ASSUME NEW cap \in Nat \ {0}, NEW ring, RingOK(ring, cap), NEW f, NEW g, NEW many \in Nat,
           Shows(ring, cap, f, many), \A k \in 0..(many - 1) : g[k] = f[k]
    PROVE  Shows(ring, cap, g, many)
<1>1. ring.n \in 0..cap /\ ring.n = Least(many, cap)
  BY DEF RingOK, Shows
<1>2. \A i \in 1..ring.n : many - ring.n + i - 1 \in 0..(many - 1)
  BY <1>1 DEF Least
<1> QED BY <1>2 DEF Shows

(* One token through a ring of compressed rows.                            *)
LEMMA CompShows ==
    ASSUME NEW l \in Compressed, NEW cap \in Nat \ {0}, NEW ring, RingOK(ring, cap),
           NEW state, DOMAIN state = 0..(StateRows(l) - 1),
           NEW S, NEW s \in Seq(S), NEW t \in S, StateShows(state, l, s),
           Shows(ring, cap, CompRows(l, s), Len(s) \div Ratio[l])
    PROVE  LET u   == Append(s, t)
               row == RowOf(u, Len(s))
           IN  Shows(IF Closes(l, Len(s)) THEN Push(ring, cap, Pooled(l, state, Len(s), row)) ELSE ring,
                     cap, CompRows(l, u), Len(u) \div Ratio[l])
<1> DEFINE R    == Ratio[l]
           p    == Len(s)
           u    == Append(s, t)
           row  == RowOf(u, p)
           many == p \div R
           f    == CompRows(l, s)
           g    == CompRows(l, u)
<1>1. p \in Nat /\ R \in Nat \ {0} /\ many \in Nat
  <2>1. p \in Nat /\ R \in Nat \ {0}
    BY LayerFacts
  <2> QED BY <2>1, DivMod
<1>2. Len(u) = p + 1 /\ SameRows(s, u, p)
  BY RowsKept
<1>3. Shows(ring, cap, f, many)
  OBVIOUS
<1>4. \A k \in 0..(many - 1) : g[k] = f[k]
  <2> TAKE k \in 0..(many - 1)
  <2>1. CompRowOf(l, s, k) = CompRowOf(l, u, k)
    BY <1>1, <1>2, CompRowKept
  <2>2. k \in Nat
    BY <1>1
  <2> QED BY <2>1, <2>2 DEF CompRows
<1>5. (p + 1) \div R = (IF (p + 1) % R = 0 THEN many + 1 ELSE many)
  <2> HIDE DEF R, p
  <2> DEFINE a == p % R
             b == (p + 1) % R
             c == (p + 1) \div R
  <2>1. a \in 0..(R - 1)
    BY <1>1, DivMod
  <2>2. IF a = R - 1 THEN c = many + 1 /\ b = 0 ELSE c = many /\ b = a + 1
    BY <1>1, OneMore
  <2> HIDE DEF a, b, c, many
  <2>3. c = IF b = 0 THEN many + 1 ELSE many
    BY <1>1, <2>1, <2>2
  <2> QED BY <2>3 DEF b, c
<1>6. CASE Closes(l, p)
  <2>1. Pooled(l, state, p, row) = g[many]
    <3>1. Pooled(l, state, p, row) = CompRowOf(l, u, many)
      BY <1>6, PooledIs
    <3> QED BY <1>1, <3>1, Zenon DEF CompRows
  <2>2. (p + 1) \div R = many + 1
    BY <1>5, <1>6, Zenon DEF Closes
  <2> HIDE DEF f, g, many, R, p, u, row
  <2>3. Shows(Push(ring, cap, g[many]), cap, g, many + 1)
    BY <1>1, <1>3, <1>4, ShowsMore
  <2> QED BY <1>2, <1>6, <2>1, <2>2, <2>3, Zenon DEF g, R, p, u, row
<1>7. CASE ~Closes(l, p)
  <2>1. (p + 1) \div R = many
    BY <1>5, <1>7, Zenon DEF Closes
  <2> HIDE DEF f, g, many, R, p, u, row
  <2>2. Shows(ring, cap, g, many)
    BY <1>1, <1>3, <1>4, ShowsSame
  <2> QED BY <1>2, <1>7, <2>1, <2>2, Zenon DEF g, R, p, u
<1> QED BY <1>6, <1>7

-----------------------------------------------------------------------------
(* A cache is well formed for context c; the rings of the index are        *)
(* records, because one way to load a cache changes a field of them.       *)
IsRecord(ring) == ring = [slot |-> ring.slot, n |-> ring.n, write |-> ring.write]

CompOK(ring, state, l, c) ==
    RingOK(ring, CompCap(l, c)) /\ DOMAIN state = 0..(StateRows(l) - 1)

CacheOK(x, c) ==
    /\ \A l \in Layer : RingOK(x.raw[l], CapRaw)
    /\ \A l \in Compressed : CompOK(x.comp[l], x.state[l], l, c)
    /\ \A l \in Dual : CompOK(x.index[l], x.indexState[l], l, c) /\ IsRecord(x.index[l])

(* It shows attention the history s.                                       *)
CompHolds(ring, state, l, c, s) ==
    /\ Shows(ring, CompCap(l, c), CompRows(l, s), Len(s) \div Ratio[l])
    /\ StateShows(state, l, s)

Holds(x, c, s) ==
    /\ \A l \in Layer : Shows(x.raw[l], CapRaw, Rows(s), Len(s))
    /\ \A l \in Compressed : CompHolds(x.comp[l], x.state[l], l, c, s)
    /\ \A l \in Dual : CompHolds(x.index[l], x.indexState[l], l, c, s)

(* The empty cache.                                                        *)
LEMMA FreshComp ==
    ASSUME NEW l \in Compressed, NEW c \in Nat
    PROVE  LET ring  == Fresh(CompCap(l, c), NoRow)
               state == [r \in 0..(StateRows(l) - 1) |-> NoRow]
           IN  CompOK(ring, state, l, c) /\ IsRecord(ring) /\ CompHolds(ring, state, l, c, <<>>)
<1> DEFINE cap   == CompCap(l, c)
           ring  == Fresh(cap, NoRow)
           state == [r \in 0..(StateRows(l) - 1) |-> NoRow]
           f     == CompRows(l, <<>>)
<1>1. cap \in Nat \ {0} /\ Ratio[l] \in Nat \ {0} /\ (l \in Dual => StateRows(l) = 8)
  BY CompCapIs, LayerFacts
<1>2. 0 \div Ratio[l] = 0 /\ 0 % Ratio[l] = 0
  <2>1. 0 = 0 * Ratio[l] + 0 /\ 0 \in 0..(Ratio[l] - 1)
    BY <1>1
  <2> QED BY <1>1, <2>1, Quotient
<1>3. RingOK(ring, cap) /\ Shows(ring, cap, f, 0)
  <2> HIDE DEF cap, f
  <2> QED BY <1>1, ShowsNothing DEF ring
<1>4. Len(<<>>) = 0
  OBVIOUS
<1>5. StateShows(state, l, <<>>)
  BY <1>1, <1>2, <1>4 DEF StateShows, Previous
<1>6. IsRecord(ring)
  BY DEF IsRecord, Fresh
<1>7. DOMAIN state = 0..(StateRows(l) - 1)
  OBVIOUS
<1>8. Shows(ring, cap, f, Len(<<>>) \div Ratio[l])
  BY <1>2, <1>3, <1>4, Zenon
<1> QED BY <1>3, <1>5, <1>6, <1>7, <1>8, Zenon DEF CompOK, CompHolds, cap, ring, state, f

LEMMA NewCacheHolds ==
    ASSUME NEW c \in Nat
    PROVE  CacheOK(NewCache(c), c) /\ Holds(NewCache(c), c, <<>>)
<1> DEFINE x == NewCache(c)
<1>1. /\ \A l \in Layer : x.raw[l] = Fresh(CapRaw, NoRow)
      /\ \A l \in Compressed : /\ x.comp[l] = Fresh(CompCap(l, c), NoRow)
                               /\ x.state[l] = [r \in 0..(StateRows(l) - 1) |-> NoRow]
      /\ \A l \in Dual : /\ x.index[l] = Fresh(CompCap(l, c), NoRow)
                         /\ x.indexState[l] = [r \in 0..(StateRows(l) - 1) |-> NoRow]
  BY DEF NewCache
<1> HIDE DEF x
<1>2. \A l \in Dual : l \in Compressed
  BY LayerFacts
<1>3. Len(<<>>) = 0 /\ CapRaw \in Nat \ {0}
  BY LayerFacts
<1>4. ASSUME NEW l \in Layer
      PROVE  RingOK(x.raw[l], CapRaw) /\ Shows(x.raw[l], CapRaw, Rows(<<>>), Len(<<>>))
  BY <1>1, <1>3, ShowsNothing
<1>5. ASSUME NEW l \in Compressed
      PROVE  /\ CompOK(x.comp[l], x.state[l], l, c)
             /\ CompHolds(x.comp[l], x.state[l], l, c, <<>>)
  BY <1>1, FreshComp, Zenon
<1>6. ASSUME NEW l \in Dual
      PROVE  /\ CompOK(x.index[l], x.indexState[l], l, c) /\ IsRecord(x.index[l])
             /\ CompHolds(x.index[l], x.indexState[l], l, c, <<>>)
  <2>1. l \in Compressed
    BY <1>2
  <2>2. x.index[l] = Fresh(CompCap(l, c), NoRow)
    BY <1>1
  <2>3. x.indexState[l] = [r \in 0..(StateRows(l) - 1) |-> NoRow]
    BY <1>1
  <2> QED BY <2>1, <2>2, <2>3, FreshComp, Zenon
<1>7. CacheOK(x, c) /\ Holds(x, c, <<>>)
  BY <1>4, <1>5, <1>6, Zenon DEF CacheOK, Holds
<1> QED BY <1>7 DEF x

-----------------------------------------------------------------------------
(* One token through the cache.                                            *)
LEMMA ForwardIs ==
    ASSUME NEW x, NEW row
    PROVE  LET y == Forward(x, row)
               ring(old, state, l) ==
                 IF Closes(l, pos) THEN Push(old, CompCap(l, ctx), Pooled(l, state, pos, row)) ELSE old
           IN /\ \A l \in Layer : y.raw[l] = Push(x.raw[l], CapRaw, row)
              /\ \A l \in Compressed : /\ y.comp[l] = ring(x.comp[l], x.state[l], l)
                                       /\ y.state[l] = Shifted(l, x.state[l], pos, row)
              /\ \A l \in Dual : /\ y.index[l] = ring(x.index[l], x.indexState[l], l)
                                 /\ y.indexState[l] = Shifted(l, x.indexState[l], pos, row)
BY DEF Forward

LEMMA ForwardOK ==
    ASSUME NEW x, NEW row, ctx \in Nat, pos \in Nat, CacheOK(x, ctx)
    PROVE  CacheOK(Forward(x, row), ctx)
<1> DEFINE y == Forward(x, row)
           After(old, state, l) ==
             IF Closes(l, pos) THEN Push(old, CompCap(l, ctx), Pooled(l, state, pos, row)) ELSE old
<1>1. \A l \in Layer : y.raw[l] = Push(x.raw[l], CapRaw, row)
  BY ForwardIs
<1>2. \A l \in Compressed : /\ y.comp[l] = After(x.comp[l], x.state[l], l)
                            /\ y.state[l] = Shifted(l, x.state[l], pos, row)
  BY ForwardIs
<1>3. \A l \in Dual : /\ y.index[l] = After(x.index[l], x.indexState[l], l)
                      /\ y.indexState[l] = Shifted(l, x.indexState[l], pos, row)
  BY ForwardIs
<1> HIDE DEF y
<1>4. ASSUME NEW l \in Compressed, NEW old, NEW state, CompOK(old, state, l, ctx)
      PROVE  CompOK(After(old, state, l), Shifted(l, state, pos, row), l, ctx)
  <2>1. CompCap(l, ctx) \in Nat \ {0} /\ RingOK(old, CompCap(l, ctx))
    BY <1>4, CompCapIs DEF CompOK
  <2>2. RingOK(After(old, state, l), CompCap(l, ctx))
    BY <2>1, PushOK
  <2>3. DOMAIN Shifted(l, state, pos, row) = 0..(StateRows(l) - 1)
    BY <1>4, ShiftedOK DEF CompOK
  <2> QED BY <2>2, <2>3 DEF CompOK
<1>5. ASSUME NEW l \in Compressed, NEW old, NEW state, IsRecord(old)
      PROVE  IsRecord(After(old, state, l))
  BY <1>5 DEF IsRecord, Push
<1> HIDE DEF After
<1>6. \A l \in Layer : RingOK(y.raw[l], CapRaw)
  BY <1>1, LayerFacts, PushOK DEF CacheOK
<1>7. ASSUME NEW l \in Compressed PROVE CompOK(y.comp[l], y.state[l], l, ctx)
  BY <1>2, <1>4 DEF CacheOK
<1>8. ASSUME NEW l \in Dual
      PROVE  CompOK(y.index[l], y.indexState[l], l, ctx) /\ IsRecord(y.index[l])
  BY <1>3, <1>4, <1>5, LayerFacts DEF CacheOK
<1>9. CacheOK(y, ctx)
  BY <1>6, <1>7, <1>8, Zenon DEF CacheOK
<1> QED BY <1>9 DEF y

LEMMA ForwardHolds ==
    ASSUME NEW x, ctx \in Nat, CacheOK(x, ctx), NEW S, NEW s \in Seq(S), NEW t \in S,
           pos = Len(s), Holds(x, ctx, s)
    PROVE  Holds(Forward(x, <<pos, Append(s, t)>>), ctx, Append(s, t))
<1> DEFINE u   == Append(s, t)
           row == <<pos, u>>
           y   == Forward(x, row)
           After(old, state, l) ==
             IF Closes(l, pos) THEN Push(old, CompCap(l, ctx), Pooled(l, state, pos, row)) ELSE old
<1>1. \A l \in Layer : y.raw[l] = Push(x.raw[l], CapRaw, row)
  BY ForwardIs
<1>2. \A l \in Compressed : /\ y.comp[l] = After(x.comp[l], x.state[l], l)
                            /\ y.state[l] = Shifted(l, x.state[l], pos, row)
  BY ForwardIs
<1>3. \A l \in Dual : /\ y.index[l] = After(x.index[l], x.indexState[l], l)
                      /\ y.indexState[l] = Shifted(l, x.indexState[l], pos, row)
  BY ForwardIs
<1>4. /\ Len(u) = pos + 1 /\ pos \in Nat /\ SameRows(s, u, pos)
      /\ row = RowOf(u, pos)
  BY RowsKept
<1> HIDE DEF y, row, u
<1>5. ASSUME NEW l \in Layer PROVE Shows(y.raw[l], CapRaw, Rows(u), Len(u))
  <2> DEFINE f == Rows(s)
             g == Rows(u)
  <2>1. RingOK(x.raw[l], CapRaw) /\ Shows(x.raw[l], CapRaw, f, pos)
    BY DEF CacheOK, Holds
  <2>2. g[pos] = row
    BY <1>4, Zenon DEF Rows
  <2>3. \A k \in 0..(pos - 1) : g[k] = f[k]
    BY <1>4 DEF SameRows, Rows
  <2>4. CapRaw \in Nat \ {0}
    BY LayerFacts
  <2> HIDE DEF f, g
  <2>5. Shows(Push(x.raw[l], CapRaw, g[pos]), CapRaw, g, pos + 1)
    BY <1>4, <2>1, <2>3, <2>4, ShowsMore
  <2> QED BY <1>1, <1>4, <2>2, <2>5, Zenon DEF g
<1>6. ASSUME NEW l \in Compressed, NEW old, NEW state, CompOK(old, state, l, ctx),
             CompHolds(old, state, l, ctx, s)
      PROVE  CompHolds(After(old, state, l), Shifted(l, state, pos, row), l, ctx, u)
  <2>1. /\ CompCap(l, ctx) \in Nat \ {0} /\ RingOK(old, CompCap(l, ctx))
        /\ DOMAIN state = 0..(StateRows(l) - 1)
    BY <1>6, CompCapIs DEF CompOK
  <2>2. /\ Shows(old, CompCap(l, ctx), CompRows(l, s), Len(s) \div Ratio[l])
        /\ StateShows(state, l, s)
    BY <1>6, Zenon DEF CompHolds
  <2>3. StateShows(Shifted(l, state, pos, row), l, u)
    <3>1. StateShows(Shifted(l, state, Len(s), RowOf(Append(s, t), Len(s))), l, Append(s, t))
      BY <2>1, <2>2, ShiftedShows
    <3> QED BY <1>4, <3>1, Zenon DEF u
  <2>4. Shows(After(old, state, l), CompCap(l, ctx), CompRows(l, u), Len(u) \div Ratio[l])
    <3>1. Shows(IF Closes(l, Len(s))
                THEN Push(old, CompCap(l, ctx), Pooled(l, state, Len(s), RowOf(Append(s, t), Len(s))))
                ELSE old, CompCap(l, ctx), CompRows(l, Append(s, t)), Len(Append(s, t)) \div Ratio[l])
      BY <2>1, <2>2, CompShows
    <3> QED BY <1>4, <3>1, Zenon DEF u, After
  <2> QED BY <2>3, <2>4, Zenon DEF CompHolds
<1> HIDE DEF After
<1>7. ASSUME NEW l \in Compressed PROVE CompHolds(y.comp[l], y.state[l], l, ctx, u)
  BY <1>2, <1>6 DEF CacheOK, Holds
<1>8. ASSUME NEW l \in Dual PROVE CompHolds(y.index[l], y.indexState[l], l, ctx, u)
  BY <1>3, <1>6, LayerFacts DEF CacheOK, Holds
<1>9. Holds(y, ctx, u)
  BY <1>5, <1>7, <1>8, Zenon DEF Holds
<1> QED BY <1>9 DEF y, u, row

-----------------------------------------------------------------------------
(* A prompt through the whole-prompt graph.                                *)
LEMMA GraphStateShows ==
    ASSUME NEW l \in Compressed, NEW S, NEW p \in Seq(S), Dual = {} \/ Aligned(p)
    PROVE  StateShows(GraphState(l, p), l, p)
<1> DEFINE state == GraphState(l, p)
           n     == Len(p)
           R     == Ratio[l]
<1>1. n \in Nat /\ R \in Nat \ {0}
  BY LayerFacts
<1>2. CASE l \in Dual
  <2>1. StateRows(l) = 8 /\ R = 4 /\ Aligned(p)
    BY <1>2, LayerFacts
  <2>2. \A r \in 0..7 : state[r] =
          LET at == IF n < 4 THEN r - 4 ELSE IF r < 4 THEN n - 4 + r ELSE n
          IN IF at < 0 \/ at >= n THEN NoRow ELSE RowOf(p, at)
    BY <1>2, <2>1 DEF GraphState
  <2> HIDE DEF state
  <2>3. CASE n < 4
    <3>1. n % R = n
      BY <1>1, <2>1, <2>3
    <3>2. \A r \in 0..3 : state[r] = Previous(l, p, r)
      BY <2>2, <2>3 DEF Previous
    <3>3. \A r \in 0..(n - 1) : 4 + r \in 0..7 /\ n - n + r = r /\ (4 + r) - 4 = r /\ ~(r < 0) /\ ~(r >= n)
      BY <1>1, <2>3
    <3>4. \A r \in 0..(n - 1) : state[4 + r] = RowOf(p, n - n + r)
      BY <1>1, <2>2, <2>3, <3>3
    <3> HIDE DEF n, R
    <3>5. \A r \in 0..((n % R) - 1) : state[4 + r] = RowOf(p, n - (n % R) + r)
      BY <3>1, <3>4, Zenon
    <3> QED BY <1>2, <3>2, <3>5, Zenon DEF StateShows, state, n, R
  <2>4. CASE ~(n < 4)
    <3>1. n % R = 0
      BY <2>1, <2>4 DEF Aligned
    <3>2. \A r \in 0..3 : n - 4 + r >= 0 /\ n - 4 + r < n /\ n - 0 - 4 + r = n - 4 + r
      BY <1>1, <2>4
    <3>3. \A r \in 0..3 : state[r] = RowOf(p, n - 0 - 4 + r)
      <4> TAKE r \in 0..3
      <4>1. r \in 0..7 /\ r < 4
        OBVIOUS
      <4>2. state[r] = LET at == n - 4 + r IN IF at < 0 \/ at >= n THEN NoRow ELSE RowOf(p, at)
        BY <2>2, <2>4, <4>1, Zenon
      <4>3. ~(n - 4 + r < 0) /\ ~(n - 4 + r >= n) /\ n - 0 - 4 + r = n - 4 + r
        BY <1>1, <3>2
      <4> QED BY <4>2, <4>3, Zenon
    <3>4. \A r \in 0..(0 - 1) : state[4 + r] = RowOf(p, n - 0 + r)
      OBVIOUS
    <3> HIDE DEF n, R
    <3>5. \A r \in 0..3 : state[r] = Previous(l, p, r)
      BY <2>4, <3>1, <3>3, SMT DEF Previous, n, R
    <3>6. \A r \in 0..((n % R) - 1) : state[4 + r] = RowOf(p, n - (n % R) + r)
      BY <3>1, <3>4, Zenon
    <3> QED BY <1>2, <3>5, <3>6, Zenon DEF StateShows, state, n, R
  <2> QED BY <2>3, <2>4 DEF state
<1>3. CASE l \notin Dual
  <2>1. StateRows(l) = R
    BY <1>3, LayerFacts
  <2>2. PICK q, f, m : Divides(n, R, q, f, m)
    BY <1>1, Divided
  <2>3. f \in 0..(R - 1) /\ m \in Nat /\ n = m + f
    BY <2>2, Zenon DEF Divides
  <2>4. n % R = f
    BY <2>2, Zenon DEF Divides
  <2>5. \A r \in 0..(R - 1) : state[r] =
          LET at == n - (n % R) + r IN IF at < 0 \/ at >= n THEN NoRow ELSE RowOf(p, at)
    BY <1>3, <2>1, Zenon DEF GraphState
  <2> HIDE DEF state, n, R
  <2>6. \A r \in 0..(f - 1) : state[r] = RowOf(p, n - f + r)
    <3> TAKE r \in 0..(f - 1)
    <3>1. r \in 0..(R - 1) /\ ~(n - f + r < 0) /\ ~(n - f + r >= n)
      BY <1>1, <2>3
    <3> QED BY <2>4, <2>5, <3>1, Zenon
  <2>7. \A r \in 0..((n % R) - 1) : state[r] = RowOf(p, n - (n % R) + r)
    BY <2>4, <2>6, Zenon
  <2> QED BY <1>3, <2>7, Zenon DEF StateShows, state, n, R
<1> QED BY <1>2, <1>3

LEMMA GraphCompShows ==
    ASSUME NEW l \in Compressed, NEW S, NEW p \in Seq(S), NEW cap \in Nat \ {0}, NEW ring
    PROVE  LET rows == [k \in 1..WindowsOf(l, p) |-> CompRowOf(l, p, k - 1)] IN
           /\ RingOK(ReadBack(ring, cap, rows), cap)
           /\ Shows(ReadBack(ring, cap, rows), cap, CompRows(l, p), Len(p) \div Ratio[l])
<1> DEFINE n    == WindowsOf(l, p)
           rows == [k \in 1..n |-> CompRowOf(l, p, k - 1)]
           f    == CompRows(l, p)
<1>1. n \in Nat /\ n = Len(p) \div Ratio[l]
  <2>1. Len(p) \in Nat /\ Ratio[l] \in Nat \ {0}
    BY LayerFacts
  <2> QED BY <2>1, DivMod DEF WindowsOf
<1> HIDE DEF n
<1> DEFINE T == {CompRowOf(l, p, k - 1) : k \in 1..n}
<1>2. rows \in Seq(T) /\ Len(rows) = n
  <2>1. \A k \in 1..n : CompRowOf(l, p, k - 1) \in T
    BY Zenon
  <2> HIDE DEF T
  <2>2. rows \in [1..n -> T]
    BY <2>1, Zenon
  <2> HIDE DEF rows
  <2> QED BY <1>1, <2>2
<1>3. \A i \in 1..Len(rows) : rows[i] = f[i - 1]
  BY <1>1, <1>2 DEF CompRows
<1> HIDE DEF rows, f, T
<1>4. /\ RingOK(ReadBack(ring, cap, rows), cap)
      /\ Shows(ReadBack(ring, cap, rows), cap, f, Len(rows))
  BY <1>2, <1>3, ShowsReadBack
<1> QED BY <1>1, <1>2, <1>4, Zenon DEF n, rows, f

LEMMA GraphRawShows ==
    ASSUME NEW S, NEW p \in Seq(S), NEW cap \in Nat \ {0}, NEW ring
    PROVE  LET rows == [i \in 1..Len(p) |-> RowOf(p, i - 1)] IN
           /\ RingOK(ReadBack(ring, cap, rows), cap)
           /\ Shows(ReadBack(ring, cap, rows), cap, Rows(p), Len(p))
<1> DEFINE n    == Len(p)
           rows == [i \in 1..n |-> RowOf(p, i - 1)]
           f    == Rows(p)
<1>1. n \in Nat
  OBVIOUS
<1> HIDE DEF n
<1> DEFINE T == {RowOf(p, i - 1) : i \in 1..n}
<1>2. rows \in Seq(T) /\ Len(rows) = n
  <2>1. \A i \in 1..n : RowOf(p, i - 1) \in T
    BY Zenon
  <2> HIDE DEF T
  <2>2. rows \in [1..n -> T]
    BY <2>1, Zenon
  <2> HIDE DEF rows
  <2> QED BY <1>1, <2>2
<1>3. \A i \in 1..Len(rows) : rows[i] = f[i - 1]
  BY <1>1, <1>2 DEF Rows
<1> HIDE DEF rows, f, T
<1>4. /\ RingOK(ReadBack(ring, cap, rows), cap)
      /\ Shows(ReadBack(ring, cap, rows), cap, f, Len(rows))
  BY <1>2, <1>3, ShowsReadBack
<1> QED BY <1>2, <1>4, Zenon DEF n, rows, f

LEMMA GraphIs ==
    ASSUME NEW p
    PROVE  LET y == GraphCache(p)
               raws == [i \in 1..Len(p) |-> RowOf(p, i - 1)]
               rows(l) == [k \in 1..WindowsOf(l, p) |-> CompRowOf(l, p, k - 1)]
           IN /\ \A l \in Layer : y.raw[l] = ReadBack(cache.raw[l], CapRaw, raws)
              /\ \A l \in Compressed : /\ y.comp[l] = ReadBack(cache.comp[l], CompCap(l, ctx), rows(l))
                                       /\ y.state[l] = GraphState(l, p)
              /\ \A l \in Dual : /\ y.index[l] = ReadBack(cache.index[l], CompCap(l, ctx), rows(l))
                                 /\ y.indexState[l] = GraphState(l, p)
BY Zenon DEF GraphCache

LEMMA GraphOK ==
    ASSUME ctx \in Nat, NEW S, NEW p \in Seq(S)
    PROVE  /\ CacheOK(GraphCache(p), ctx)
           /\ Dual = {} \/ Aligned(p) => Holds(GraphCache(p), ctx, p)
<1> DEFINE y == GraphCache(p)
           raws == [i \in 1..Len(p) |-> RowOf(p, i - 1)]
           rows(l) == [k \in 1..WindowsOf(l, p) |-> CompRowOf(l, p, k - 1)]
<1>1. /\ \A l \in Layer : y.raw[l] = ReadBack(cache.raw[l], CapRaw, raws)
      /\ \A l \in Compressed : /\ y.comp[l] = ReadBack(cache.comp[l], CompCap(l, ctx), rows(l))
                               /\ y.state[l] = GraphState(l, p)
      /\ \A l \in Dual : /\ y.index[l] = ReadBack(cache.index[l], CompCap(l, ctx), rows(l))
                         /\ y.indexState[l] = GraphState(l, p)
  BY GraphIs
<1>2. CapRaw \in Nat \ {0} /\ \A l \in Dual : l \in Compressed
  BY LayerFacts
<1>3. ASSUME NEW ring
      PROVE  /\ RingOK(ReadBack(ring, CapRaw, raws), CapRaw)
             /\ Shows(ReadBack(ring, CapRaw, raws), CapRaw, Rows(p), Len(p))
  BY <1>2, GraphRawShows, Zenon
<1>4. ASSUME NEW l \in Compressed, NEW ring
      PROVE  /\ CompOK(ReadBack(ring, CompCap(l, ctx), rows(l)), GraphState(l, p), l, ctx)
             /\ IsRecord(ReadBack(ring, CompCap(l, ctx), rows(l)))
             /\ Dual = {} \/ Aligned(p) =>
                  CompHolds(ReadBack(ring, CompCap(l, ctx), rows(l)), GraphState(l, p), l, ctx, p)
  <2>1. CompCap(l, ctx) \in Nat \ {0}
    BY CompCapIs
  <2>2. /\ RingOK(ReadBack(ring, CompCap(l, ctx), rows(l)), CompCap(l, ctx))
        /\ Shows(ReadBack(ring, CompCap(l, ctx), rows(l)), CompCap(l, ctx),
                 CompRows(l, p), Len(p) \div Ratio[l])
    BY <2>1, GraphCompShows, Zenon
  <2>3. DOMAIN GraphState(l, p) = 0..(StateRows(l) - 1)
    BY Zenon DEF GraphState
  <2>4. Dual = {} \/ Aligned(p) => StateShows(GraphState(l, p), l, p)
    BY GraphStateShows, Zenon
  <2>5. IsRecord(ReadBack(ring, CompCap(l, ctx), rows(l)))
    BY DEF IsRecord, ReadBack
  <2> QED BY <2>2, <2>3, <2>4, <2>5, Zenon DEF CompOK, CompHolds
<1> HIDE DEF y, raws, rows
<1>5. CacheOK(y, ctx)
  BY <1>1, <1>2, <1>3, <1>4, Zenon DEF CacheOK
<1>6. ASSUME Dual = {} \/ Aligned(p) PROVE Holds(y, ctx, p)
  <2>1. \A l \in Layer : Shows(y.raw[l], CapRaw, Rows(p), Len(p))
    BY <1>1, <1>3, Zenon
  <2>2. \A l \in Compressed : CompHolds(y.comp[l], y.state[l], l, ctx, p)
    BY <1>1, <1>4, <1>6, Zenon
  <2>3. \A l \in Dual : CompHolds(y.index[l], y.indexState[l], l, ctx, p)
    BY <1>1, <1>2, <1>4, <1>6, Zenon
  <2> QED BY <2>1, <2>2, <2>3, Zenon DEF Holds
<1> QED BY <1>5, <1>6, Zenon DEF y

-----------------------------------------------------------------------------
(* A transfer that stops half way.                                         *)
LEMMA HalfRingOK ==
    ASSUME NEW cap, NEW old, NEW new, RingOK(old, cap), RingOK(new, cap), NEW fields
    PROVE  RingOK(HalfRing(old, new, fields), cap) /\ IsRecord(HalfRing(old, new, fields))
BY DEF RingOK, HalfRing, IsRecord

LEMMA HalfOK ==
    ASSUME NEW c, NEW x, NEW y, CacheOK(x, c), CacheOK(y, c), NEW k, NEW fields
    PROVE  CacheOK(Half(x, y, k, fields), c)
<1> DEFINE z == Half(x, y, k, fields)
           Got(l) == IF l < k THEN LayerFields ELSE IF l = k THEN fields ELSE 0
           State(old, new, l, at) == IF Got(l) >= at THEN new ELSE old
<1>1. /\ \A l \in Layer : z.raw[l] = HalfRing(x.raw[l], y.raw[l], Got(l))
      /\ \A l \in Compressed : /\ z.comp[l] = HalfRing(x.comp[l], y.comp[l], Got(l) - 3)
                               /\ z.state[l] = State(x.state[l], y.state[l], l, 7)
      /\ \A l \in Dual : /\ z.index[l] = HalfRing(x.index[l], y.index[l], Got(l) - 7)
                         /\ z.indexState[l] = State(x.indexState[l], y.indexState[l], l, 11)
  BY DEF Half
<1>2. ASSUME NEW old, NEW new, NEW l, NEW at
      PROVE  State(old, new, l, at) \in {old, new}
  BY Zenon
<1> HIDE DEF z, Got, State
<1>3. \A l \in Layer : RingOK(z.raw[l], CapRaw)
  BY <1>1, HalfRingOK DEF CacheOK
<1>4. ASSUME NEW l \in Compressed PROVE CompOK(z.comp[l], z.state[l], l, c)
  <2>1. CompOK(x.comp[l], x.state[l], l, c) /\ CompOK(y.comp[l], y.state[l], l, c)
    BY Zenon DEF CacheOK
  <2>2. z.state[l] \in {x.state[l], y.state[l]}
    BY <1>1, <1>2
  <2>3. DOMAIN z.state[l] = 0..(StateRows(l) - 1)
    BY <2>1, <2>2 DEF CompOK
  <2>4. RingOK(z.comp[l], CompCap(l, c))
    BY <1>1, <2>1, HalfRingOK DEF CompOK
  <2> QED BY <2>3, <2>4, Zenon DEF CompOK
<1>5. ASSUME NEW l \in Dual
      PROVE  CompOK(z.index[l], z.indexState[l], l, c) /\ IsRecord(z.index[l])
  <2>1. CompOK(x.index[l], x.indexState[l], l, c) /\ CompOK(y.index[l], y.indexState[l], l, c)
    BY Zenon DEF CacheOK
  <2>2. z.indexState[l] \in {x.indexState[l], y.indexState[l]}
    BY <1>1, <1>2
  <2>3. DOMAIN z.indexState[l] = 0..(StateRows(l) - 1)
    BY <2>1, <2>2 DEF CompOK
  <2>4. RingOK(z.index[l], CompCap(l, c)) /\ IsRecord(z.index[l])
    BY <1>1, <2>1, HalfRingOK DEF CompOK
  <2> QED BY <2>3, <2>4, Zenon DEF CompOK
<1>6. CacheOK(z, c)
  BY <1>3, <1>4, <1>5, Zenon DEF CacheOK
<1> QED BY <1>6 DEF z

-----------------------------------------------------------------------------
(* Reading a payload back.  It is read over the cache of the session, or   *)
(* over an empty one.                                                      *)
LEMMA BaseOK ==
    ASSUME file.ctx \in Nat, CacheOK(cache, ctx)
    PROVE  CacheOK(Base, file.ctx)
<1>1. CASE ctx = file.ctx
  BY <1>1, Zenon DEF Base
<1>2. CASE ctx # file.ctx
  <2>1. Base = NewCache(file.ctx)
    BY <1>2, Zenon DEF Base
  <2> QED BY <2>1, NewCacheHolds, Zenon
<1> QED BY <1>1, <1>2

LEMMA ReadIs ==
    ASSUME NEW v \in Nat
    PROVE  LET f == file.cache
               y == ReadCache(v)
               comp(ring, l) == IF v < 4 THEN Linear(ring, CompCap(l, file.ctx)) ELSE ring
           IN /\ \A l \in Layer : y.raw[l] = IF v < 3 THEN Linear(f.raw[l], CapRaw) ELSE f.raw[l]
              /\ \A l \in Compressed : y.comp[l] = comp(f.comp[l], l) /\ y.state[l] = f.state[l]
              /\ v # 1 => \A l \in Dual : /\ y.index[l] = comp(f.index[l], l)
                                          /\ y.indexState[l] = f.indexState[l]
              /\ v = 1 => \A l \in Dual : /\ y.index[l] = [Base.index[l] EXCEPT !.n = 0]
                                          /\ y.indexState[l] = Base.indexState[l]
<1>1. v = 1 \/ v # 1
  OBVIOUS
<1> QED BY <1>1 DEF ReadCache

LEMMA ClearedOK ==
    ASSUME NEW cap \in Nat \ {0}, NEW ring, RingOK(ring, cap), IsRecord(ring)
    PROVE  RingOK([ring EXCEPT !.n = 0], cap) /\ IsRecord([ring EXCEPT !.n = 0])
<1>1. [ring EXCEPT !.n = 0] = [slot |-> ring.slot, n |-> 0, write |-> ring.write]
  BY DEF IsRecord
<1> QED BY <1>1 DEF RingOK, IsRecord

LEMMA ReadOK ==
    ASSUME NEW v \in Nat, file.ctx \in Nat, CacheOK(cache, ctx), CacheOK(file.cache, file.ctx)
    PROVE  CacheOK(ReadCache(v), file.ctx)
<1> DEFINE f == file.cache
           c == file.ctx
           y == ReadCache(v)
           Comp(ring, l) == IF v < 4 THEN Linear(ring, CompCap(l, c)) ELSE ring
           Raw(ring) == IF v < 3 THEN Linear(ring, CapRaw) ELSE ring
<1>1. /\ \A l \in Layer : y.raw[l] = Raw(f.raw[l])
      /\ \A l \in Compressed : y.comp[l] = Comp(f.comp[l], l) /\ y.state[l] = f.state[l]
      /\ v # 1 => \A l \in Dual : /\ y.index[l] = Comp(f.index[l], l)
                                  /\ y.indexState[l] = f.indexState[l]
      /\ v = 1 => \A l \in Dual : /\ y.index[l] = [Base.index[l] EXCEPT !.n = 0]
                                  /\ y.indexState[l] = Base.indexState[l]
  BY ReadIs
<1>2. CapRaw \in Nat \ {0} /\ (\A l \in Dual : l \in Compressed) /\ c \in Nat
  BY LayerFacts
<1>3. CacheOK(f, c) /\ CacheOK(Base, c)
  BY BaseOK
<1>4. ASSUME NEW l \in Compressed, NEW ring, NEW state, CompOK(ring, state, l, c)
      PROVE  CompOK(Comp(ring, l), state, l, c) /\ (IsRecord(ring) => IsRecord(Comp(ring, l)))
  <2>1. CompCap(l, c) \in Nat \ {0} /\ RingOK(ring, CompCap(l, c))
    BY <1>2, <1>4, CompCapIs DEF CompOK
  <2>2. RingOK(Linear(ring, CompCap(l, c)), CompCap(l, c))
    BY <2>1, LinearOK
  <2>3. IsRecord(Linear(ring, CompCap(l, c)))
    BY DEF IsRecord, Linear
  <2>4. DOMAIN state = 0..(StateRows(l) - 1)
    BY <1>4, Zenon DEF CompOK
  <2> QED BY <2>1, <2>2, <2>3, <2>4, Zenon DEF CompOK
<1>5. ASSUME NEW ring, RingOK(ring, CapRaw) PROVE RingOK(Raw(ring), CapRaw)
  BY <1>2, <1>5, LinearOK
<1> HIDE DEF y, f, c, Comp, Raw
<1>6. \A l \in Layer : RingOK(y.raw[l], CapRaw)
  BY <1>1, <1>3, <1>5 DEF CacheOK
<1>7. ASSUME NEW l \in Compressed PROVE CompOK(y.comp[l], y.state[l], l, c)
  BY <1>1, <1>3, <1>4 DEF CacheOK
<1>8. ASSUME NEW l \in Dual
      PROVE  CompOK(y.index[l], y.indexState[l], l, c) /\ IsRecord(y.index[l])
  <2>1. /\ CompOK(f.index[l], f.indexState[l], l, c) /\ IsRecord(f.index[l])
        /\ CompOK(Base.index[l], Base.indexState[l], l, c) /\ IsRecord(Base.index[l])
        /\ l \in Compressed
    BY <1>2, <1>3, Zenon DEF CacheOK
  <2>2. CASE v # 1
    BY <1>1, <1>4, <2>1, <2>2
  <2>3. CASE v = 1
    <3>1. y.index[l] = [Base.index[l] EXCEPT !.n = 0] /\ y.indexState[l] = Base.indexState[l]
      BY <1>1, <2>3
    <3>2. CompCap(l, c) \in Nat \ {0} /\ RingOK(Base.index[l], CompCap(l, c))
      BY <1>2, <2>1, CompCapIs DEF CompOK
    <3>3. RingOK(y.index[l], CompCap(l, c)) /\ IsRecord(y.index[l])
      BY <2>1, <3>1, <3>2, ClearedOK
    <3> QED BY <2>1, <3>1, <3>3 DEF CompOK
  <2> QED BY <2>2, <2>3
<1>9. CacheOK(y, c)
  BY <1>6, <1>7, <1>8, Zenon DEF CacheOK
<1> QED BY <1>9 DEF y, c

(* Every version but the first gives back the history that was saved; so   *)
(* does the first, where no layer has an index.                            *)
LEMMA ReadHolds ==
    ASSUME NEW v \in Nat, v # 1 \/ Dual = {}, file.ctx \in Nat, CacheOK(file.cache, file.ctx),
           NEW S, NEW s \in Seq(S), Holds(file.cache, file.ctx, s)
    PROVE  Holds(ReadCache(v), file.ctx, s)
<1> DEFINE f == file.cache
           c == file.ctx
           y == ReadCache(v)
           Comp(ring, l) == IF v < 4 THEN Linear(ring, CompCap(l, c)) ELSE ring
           Raw(ring) == IF v < 3 THEN Linear(ring, CapRaw) ELSE ring
<1>1. /\ \A l \in Layer : y.raw[l] = Raw(f.raw[l])
      /\ \A l \in Compressed : y.comp[l] = Comp(f.comp[l], l) /\ y.state[l] = f.state[l]
      /\ \A l \in Dual : y.index[l] = Comp(f.index[l], l) /\ y.indexState[l] = f.indexState[l]
  BY ReadIs
<1>2. CapRaw \in Nat \ {0} /\ (\A l \in Dual : l \in Compressed) /\ c \in Nat /\ Len(s) \in Nat
  BY LayerFacts
<1>3. CacheOK(f, c) /\ Holds(f, c, s)
  OBVIOUS
<1>4. ASSUME NEW l \in Compressed, NEW ring, NEW state, CompOK(ring, state, l, c),
             CompHolds(ring, state, l, c, s)
      PROVE  CompHolds(Comp(ring, l), state, l, c, s)
  <2>1. CompCap(l, c) \in Nat \ {0} /\ RingOK(ring, CompCap(l, c))
    BY <1>2, <1>4, CompCapIs DEF CompOK
  <2>2. Len(s) \div Ratio[l] \in Nat
    BY <1>2, LayerFacts, DivMod
  <2>3. Shows(ring, CompCap(l, c), CompRows(l, s), Len(s) \div Ratio[l]) /\ StateShows(state, l, s)
    BY <1>4, Zenon DEF CompHolds
  <2> DEFINE many == Len(s) \div Ratio[l]
             cap  == CompCap(l, c)
             rows == CompRows(l, s)
  <2> HIDE DEF many, cap, rows
  <2>4. Shows(Linear(ring, cap), cap, rows, many)
    BY <2>1, <2>2, <2>3, LinearShows DEF many, cap, rows
  <2>5. Shows(Comp(ring, l), CompCap(l, c), CompRows(l, s), Len(s) \div Ratio[l])
    BY <2>3, <2>4, Zenon DEF many, cap, rows
  <2> QED BY <2>3, <2>5, Zenon DEF CompHolds
<1>5. ASSUME NEW l \in Layer PROVE Shows(Raw(f.raw[l]), CapRaw, Rows(s), Len(s))
  <2>1. RingOK(f.raw[l], CapRaw) /\ Shows(f.raw[l], CapRaw, Rows(s), Len(s))
    BY <1>3, Zenon DEF CacheOK, Holds
  <2>2. Shows(Linear(f.raw[l], CapRaw), CapRaw, Rows(s), Len(s))
    BY <1>2, <2>1, LinearShows
  <2> QED BY <2>1, <2>2, Zenon
<1> HIDE DEF y, f, c, Comp, Raw
<1>6. \A l \in Layer : Shows(y.raw[l], CapRaw, Rows(s), Len(s))
  BY <1>1, <1>5
<1>7. \A l \in Compressed : CompHolds(y.comp[l], y.state[l], l, c, s)
  BY <1>1, <1>3, <1>4 DEF CacheOK, Holds
<1>8. \A l \in Dual : CompHolds(y.index[l], y.indexState[l], l, c, s)
  BY <1>1, <1>2, <1>3, <1>4 DEF CacheOK, Holds
<1>9. Holds(y, c, s)
  BY <1>6, <1>7, <1>8, Zenon DEF Holds
<1> QED BY <1>9 DEF y, c

-----------------------------------------------------------------------------
(* The types, and those of the payload.                                    *)
SessionOK(c, p, s, x) ==
    c \in Ctxs /\ p \in Nat /\ s \in Seq(Token) /\ Len(s) <= MaxLen /\ CacheOK(x, c)

FileOK(f) == SessionOK(f.ctx, f.pos, f.tokens, f.cache) /\ f.taint = "none"

TypeInv ==
    /\ SessionOK(ctx, pos, tokens, cache)
    /\ scratch \in Ctxs /\ todo \in Seq(Token)
    /\ taint \in {"none", "rewind", "load", "graph", "window"}
    /\ file # NoFile => FileOK(file)

LEMMA Assumed ==
    /\ \A c \in Ctxs : c \in Nat
    /\ \A t \in Sampled : t \in Token
    /\ \A p \in Prompts : p \in Seq(Token)
    /\ MaxLen \in Nat /\ MaxTainted \in 0..MaxLen /\ Room <= MaxLen /\ Room \in Nat
    /\ \A v \in Versions : v \in Nat
<1>1. /\ Ctxs \subseteq Nat /\ Prompts \subseteq Seq(Token) /\ MaxLen \in Nat
      /\ MaxTainted \in 0..MaxLen /\ Versions \subseteq 1..5
  BY Zenon, SessionAssumption
<1>2. \A t \in Sampled : t \in Token
  BY DEF Token
<1>3. Room <= MaxLen /\ Room \in Nat
  BY <1>1 DEF Room
<1> QED BY <1>1, <1>2, <1>3

LEMMA EmptyOK ==
    ASSUME NEW c \in Ctxs
    PROVE  SessionOK(c, 0, <<>>, NewCache(c))
<1>1. CacheOK(NewCache(c), c)
  BY Assumed, NewCacheHolds
<1> QED BY <1>1, Assumed DEF SessionOK

LEMMA InitTypes == Init => TypeInv
<1> SUFFICES ASSUME Init PROVE TypeInv
  OBVIOUS
<1>1. SessionOK(ctx, pos, tokens, cache)
  BY EmptyOK, Zenon DEF Init
<1> QED BY <1>1 DEF Init, TypeInv

LEMMA EvalTypes ==
    ASSUME TypeInv, NEW t \in Token, EvalToken(t)
    PROVE  SessionOK(ctx', pos', tokens', cache')
<1>1. /\ ctx \in Ctxs /\ ctx \in Nat /\ pos \in Nat /\ tokens \in Seq(Token)
      /\ Len(tokens) <= MaxLen /\ CacheOK(cache, ctx)
  BY Assumed DEF TypeInv, SessionOK
<1>2. /\ Len(tokens) < Room /\ tokens' = Append(tokens, t) /\ pos' = pos + 1
      /\ cache' = Forward(cache, <<pos, tokens'>>) /\ ctx' = ctx
  BY DEF EvalToken
<1>3. tokens' \in Seq(Token) /\ Len(tokens') <= MaxLen
  BY <1>1, <1>2, Assumed
<1>4. CacheOK(cache', ctx)
  BY <1>1, <1>2, ForwardOK
<1> QED BY <1>1, <1>2, <1>3, <1>4 DEF SessionOK

LEMMA TypeStep ==
    ASSUME TypeInv, [Next]_vars
    PROVE  TypeInv'
<1>1. /\ SessionOK(ctx, pos, tokens, cache)
      /\ scratch \in Ctxs /\ todo \in Seq(Token)
      /\ taint \in {"none", "rewind", "load", "graph", "window"}
      /\ file # NoFile => FileOK(file)
  BY DEF TypeInv
<1>2. ctx \in Ctxs /\ pos \in Nat /\ tokens \in Seq(Token) /\ Len(tokens) <= MaxLen /\ CacheOK(cache, ctx)
  BY <1>1, Zenon DEF SessionOK
<1>3. ctx \in Nat /\ Len(tokens) \in Nat
  BY <1>2, Assumed
<1> USE DEF Idle, Tainted
<1>4. ASSUME NEW c \in Ctxs, NewSession(c) PROVE TypeInv'
  <2>1. SessionOK(ctx', pos', tokens', cache')
    BY <1>4, EmptyOK, Zenon DEF NewSession, Open
  <2> QED BY <1>1, <1>4, <2>1 DEF NewSession, Open, TypeInv
<1>5. ASSUME NEW p \in Prompts, Prefill(p) PROVE TypeInv'
  BY <1>1, <1>5, Assumed DEF Prefill, TypeInv
<1>6. ASSUME NEW p \in Prompts, PrefillByGraph(p) PROVE TypeInv'
  <2>1. /\ Len(tokens) + Len(p) <= Room /\ tokens' = tokens \o p /\ pos' = pos + Len(p)
        /\ cache' = GraphCache(p) /\ ctx' = ctx /\ UNCHANGED <<scratch, todo, file>>
        /\ taint' \in {taint, "window"}
    BY <1>6 DEF PrefillByGraph
  <2>2. p \in Seq(Token) /\ tokens' \in Seq(Token) /\ Len(tokens') = Len(tokens) + Len(p) /\ pos' \in Nat
    BY <1>2, <2>1, Assumed
  <2>3. Len(tokens') <= MaxLen
    BY <1>3, <2>1, <2>2, Assumed
  <2>4. CacheOK(cache', ctx')
    BY <1>3, <2>1, <2>2, GraphOK
  <2>5. SessionOK(ctx', pos', tokens', cache')
    BY <1>2, <2>1, <2>2, <2>3, <2>4 DEF SessionOK
  <2> QED BY <1>1, <2>1, <2>5 DEF TypeInv
<1>7. ASSUME NEW p \in Prompts, GraphFails(p) PROVE TypeInv'
  <2>1. PICK k \in Layer, fields \in Cuts : cache' = Half(cache, GraphCache(p), k, fields)
    BY <1>7 DEF GraphFails
  <2>2. p \in Seq(Token)
    BY Assumed
  <2>3. CacheOK(GraphCache(p), ctx)
    BY <1>3, <2>2, GraphOK
  <2>4. CacheOK(cache', ctx)
    BY <1>2, <2>1, <2>3, HalfOK
  <2>5. /\ UNCHANGED <<ctx, pos, tokens, scratch, file>> /\ todo' = p /\ taint' \in {taint, "graph"}
    BY <1>7 DEF GraphFails
  <2>6. SessionOK(ctx', pos', tokens', cache')
    BY <1>2, <2>4, <2>5 DEF SessionOK
  <2> QED BY <1>1, <2>2, <2>5, <2>6 DEF TypeInv
<1>8. CASE PrefillStep
  <2>1. todo # <<>> /\ EvalToken(Head(todo)) /\ todo' = Tail(todo)
    BY <1>8 DEF PrefillStep
  <2>2. Head(todo) \in Token /\ todo' \in Seq(Token)
    BY <1>1, <2>1
  <2>3. SessionOK(ctx', pos', tokens', cache')
    BY <2>1, <2>2, EvalTypes
  <2> QED BY <1>1, <2>1, <2>2, <2>3 DEF TypeInv, EvalToken
<1>9. ASSUME NEW t \in Sampled, Eval(t) PROVE TypeInv'
  <2>1. SessionOK(ctx', pos', tokens', cache')
    BY <1>9, Assumed, EvalTypes DEF Eval
  <2> QED BY <1>1, <1>9, <2>1 DEF TypeInv, EvalToken, Eval
<1>10. ASSUME NEW p \in 0..MaxLen, Rewind(p) PROVE TypeInv'
  <2>1. /\ p \in Nat /\ p <= Len(tokens) /\ pos' = p /\ tokens' = SubSeq(tokens, 1, p)
        /\ UNCHANGED <<ctx, cache, scratch, todo, file>> /\ taint' \in {taint, "rewind"}
    BY <1>10, Assumed DEF Rewind, Upto
  <2>2. tokens' \in Seq(Token) /\ Len(tokens') = p
    BY <1>2, <2>1
  <2>3. SessionOK(ctx', pos', tokens', cache')
    BY <1>2, <1>3, <2>1, <2>2, Assumed DEF SessionOK
  <2> QED BY <1>1, <2>1, <2>3 DEF TypeInv
<1>11. CASE Invalidate
  <2>1. SessionOK(ctx', pos', tokens', cache')
    BY <1>2, <1>11, EmptyOK, Zenon DEF Invalidate
  <2> QED BY <1>1, <1>11, <2>1 DEF TypeInv, Invalidate
<1>12. CASE Save
  <2>1. PICK whole \in BOOLEAN : file' = Payload(whole)
    BY <1>12 DEF Save
  <2>2. /\ UNCHANGED <<ctx, pos, tokens, cache, scratch, todo, taint>> /\ taint = "none"
    BY <1>12 DEF Save
  <2>3. /\ file'.ctx = ctx /\ file'.pos = pos /\ file'.tokens = tokens
        /\ file'.cache = cache /\ file'.taint = taint
    BY <2>1 DEF Payload
  <2>4. FileOK(file')
    BY <1>1, <2>2, <2>3 DEF FileOK
  <2> QED BY <1>1, <2>2, <2>4 DEF TypeInv
<1>13. ASSUME NEW v \in Versions, Load(v) PROVE TypeInv'
  <2>1. /\ file # NoFile /\ ctx' = file.ctx /\ pos' = file.pos /\ tokens' = file.tokens
        /\ cache' = ReadCache(v) /\ taint' = file.taint /\ UNCHANGED <<scratch, todo, file>>
    BY <1>13 DEF Load
  <2>2. SessionOK(file.ctx, file.pos, file.tokens, file.cache) /\ taint' = "none"
    BY <1>1, <2>1 DEF FileOK
  <2>3. CacheOK(file.cache, file.ctx) /\ file.ctx \in Nat /\ v \in Nat
    BY <2>2, Assumed DEF SessionOK
  <2>4. CacheOK(cache', ctx')
    BY <1>2, <2>1, <2>3, ReadOK
  <2>5. SessionOK(ctx', pos', tokens', cache')
    BY <2>1, <2>2, <2>4, Zenon DEF SessionOK
  <2> QED BY <1>1, <2>1, <2>2, <2>5 DEF TypeInv
<1>14. ASSUME NEW v \in Versions, LoadFails(v) PROVE TypeInv'
  <2>1. /\ file # NoFile /\ ctx' = file.ctx /\ pos' = file.pos /\ tokens' = tokens
        /\ UNCHANGED <<scratch, todo, file>> /\ taint' \in {taint, "load"}
    BY <1>14 DEF LoadFails
  <2>2. PICK k \in Layer, fields \in Cuts : cache' = Half(Base, ReadCache(v), k, fields)
    BY <1>14 DEF LoadFails
  <2>3. SessionOK(file.ctx, file.pos, file.tokens, file.cache)
    BY <1>1, <2>1 DEF FileOK
  <2>4. CacheOK(file.cache, file.ctx) /\ file.ctx \in Nat /\ v \in Nat
    BY <2>3, Assumed DEF SessionOK
  <2>5. CacheOK(Base, file.ctx) /\ CacheOK(ReadCache(v), file.ctx)
    BY <1>2, <2>4, BaseOK, ReadOK
  <2>6. CacheOK(cache', ctx')
    BY <2>1, <2>2, <2>5, HalfOK
  <2>7. SessionOK(ctx', pos', tokens', cache')
    BY <1>2, <2>1, <2>3, <2>6 DEF SessionOK
  <2> QED BY <1>1, <2>1, <2>7 DEF TypeInv
<1>15. CASE UNCHANGED vars
  BY <1>1, <1>15 DEF TypeInv, vars
<1> QED BY <1>4, <1>5, <1>6, <1>7, <1>8, <1>9, <1>10, <1>11, <1>12, <1>13, <1>14, <1>15, Zenon DEF Next

(* As stated in the runs.                                                  *)
LEMMA TypesHold ==
    ASSUME TypeInv
    PROVE  TypeOK
<1>1. /\ ctx \in Ctxs /\ pos \in Nat /\ tokens \in Seq(Token) /\ Len(tokens) <= MaxLen
      /\ CacheOK(cache, ctx)
  BY Zenon DEF TypeInv, SessionOK
<1>2. Len(tokens) \in 0..MaxLen
  BY <1>1, Assumed
<1>3. scratch \in Ctxs /\ taint \in {"none", "rewind", "load", "graph", "window"}
  BY Zenon DEF TypeInv
<1>4. /\ \A l \in Layer : RingOK(cache.raw[l], CapRaw)
      /\ \A l \in Compressed : CompOK(cache.comp[l], cache.state[l], l, ctx)
      /\ \A l \in Dual : CompOK(cache.index[l], cache.indexState[l], l, ctx)
  BY <1>1, Zenon DEF CacheOK
<1> QED BY <1>1, <1>2, <1>3, <1>4, Zenon DEF TypeOK, CompOK

(* Sizes and cursors of every ring of the cache are within its capacity,   *)
(* whatever was loaded, rewound or left half done, for every payload       *)
(* version (kvcache.go, session.go).                                       *)
THEOREM TypeCorrect == Spec => []TypeOK
<1>1. Init => TypeInv
  BY InitTypes
<1>2. TypeInv /\ [Next]_vars => TypeInv'
  BY TypeStep
<1>3. TypeInv => TypeOK
  BY TypesHold
<1> QED BY <1>1, <1>2, <1>3, PTL DEF Spec

-----------------------------------------------------------------------------
(* An untainted session, and the payload, show attention their own tokens. *)
IsExact(c, p, s, x) == p = Len(s) /\ Holds(x, c, s)

(* Only a payload of version 1 leaves rows behind, those of the index of   *)
(* the layers of ratio 4.                                                  *)
IndexIsSaved == Dual = {} \/ 1 \notin Versions

ExactInv ==
    /\ taint = "none" => IsExact(ctx, pos, tokens, cache)
    /\ file # NoFile => IsExact(file.ctx, file.pos, file.tokens, file.cache)

LEMMA EmptyExact ==
    ASSUME NEW c \in Ctxs
    PROVE  IsExact(c, 0, <<>>, NewCache(c))
<1>1. Holds(NewCache(c), c, <<>>)
  BY Assumed, NewCacheHolds
<1>2. Len(<<>>) = 0
  OBVIOUS
<1> QED BY <1>1, <1>2, Zenon DEF IsExact

LEMMA EvalExact ==
    ASSUME TypeInv, ExactInv, NEW t \in Token, EvalToken(t), taint = "none"
    PROVE  IsExact(ctx', pos', tokens', cache')
<1>1. /\ ctx \in Nat /\ pos \in Nat /\ tokens \in Seq(Token) /\ CacheOK(cache, ctx)
      /\ pos = Len(tokens) /\ Holds(cache, ctx, tokens)
  BY Assumed DEF TypeInv, SessionOK, ExactInv, IsExact
<1>2. /\ tokens' = Append(tokens, t) /\ pos' = pos + 1
      /\ cache' = Forward(cache, <<pos, tokens'>>) /\ ctx' = ctx
  BY DEF EvalToken
<1>3. Holds(Forward(cache, <<pos, Append(tokens, t)>>), ctx, Append(tokens, t))
  BY <1>1, ForwardHolds
<1>4. pos' = Len(tokens')
  BY <1>1, <1>2
<1> QED BY <1>2, <1>3, <1>4 DEF IsExact

LEMMA ExactStep ==
    ASSUME TypeInv, ExactInv, [Next]_vars, IndexIsSaved
    PROVE  ExactInv'
<1>1. /\ taint = "none" => IsExact(ctx, pos, tokens, cache)
      /\ file # NoFile => IsExact(file.ctx, file.pos, file.tokens, file.cache)
      /\ file # NoFile => FileOK(file)
  BY DEF ExactInv, TypeInv
<1>2. ctx \in Nat /\ ctx \in Ctxs /\ pos \in Nat /\ tokens \in Seq(Token)
  BY Assumed DEF TypeInv, SessionOK
<1> USE DEF Idle, Tainted
<1>3. ASSUME NEW c \in Ctxs, NewSession(c) PROVE ExactInv'
  <2>1. IsExact(ctx', pos', tokens', cache')
    BY <1>3, EmptyExact, Zenon DEF NewSession, Open
  <2> QED BY <1>1, <1>3, <2>1 DEF NewSession, ExactInv
<1>4. ASSUME NEW p \in Prompts, Prefill(p) PROVE ExactInv'
  BY <1>1, <1>4 DEF Prefill, ExactInv
<1>5. ASSUME NEW p \in Prompts, PrefillByGraph(p) PROVE ExactInv'
  <2>1. /\ pos = 0 /\ tokens' = tokens \o p /\ pos' = pos + Len(p)
        /\ cache' = GraphCache(p) /\ ctx' = ctx /\ file' = file
        /\ taint' = IF Dual = {} \/ Aligned(p) THEN taint
                    ELSE IF taint = "none" THEN "window" ELSE taint
    BY <1>5 DEF PrefillByGraph, GraphTakes
  <2>2. ASSUME taint' = "none" PROVE IsExact(ctx', pos', tokens', cache')
    <3>1. taint = "none" /\ (Dual = {} \/ Aligned(p))
      BY <2>1, <2>2
    <3>2. pos = Len(tokens)
      BY <1>1, <3>1 DEF IsExact
    <3>3. p \in Seq(Token) /\ tokens' = p /\ pos' = Len(p)
      BY <1>2, <2>1, <3>2, Assumed
    <3>4. Holds(GraphCache(p), ctx, p)
      BY <1>2, <3>1, <3>3, GraphOK
    <3> QED BY <2>1, <3>3, <3>4 DEF IsExact
  <2> QED BY <1>1, <2>1, <2>2 DEF ExactInv
<1>6. ASSUME NEW p \in Prompts, GraphFails(p) PROVE ExactInv'
  <2>1. /\ taint = "none" /\ UNCHANGED <<ctx, pos, tokens, file>>
        /\ taint' = IF cache' = cache THEN taint ELSE "graph"
    BY <1>6 DEF GraphFails
  <2>2. taint' = "none" => cache' = cache
    BY <2>1
  <2> QED BY <1>1, <2>1, <2>2 DEF ExactInv
<1>7. CASE PrefillStep
  <2>1. todo # <<>> /\ EvalToken(Head(todo)) /\ todo \in Seq(Token)
    BY <1>7 DEF PrefillStep, TypeInv
  <2>2. Head(todo) \in Token /\ taint' = taint /\ file' = file
    BY <2>1 DEF EvalToken
  <2>3. taint = "none" => IsExact(ctx', pos', tokens', cache')
    BY <2>1, <2>2, EvalExact
  <2> QED BY <1>1, <2>2, <2>3 DEF ExactInv
<1>8. ASSUME NEW t \in Sampled, Eval(t) PROVE ExactInv'
  <2>1. EvalToken(t) /\ t \in Token /\ taint' = taint /\ file' = file
    BY <1>8, Assumed DEF Eval, EvalToken
  <2>2. taint = "none" => IsExact(ctx', pos', tokens', cache')
    BY <2>1, EvalExact
  <2> QED BY <1>1, <2>1, <2>2 DEF ExactInv
<1>9. ASSUME NEW p \in 0..MaxLen, Rewind(p) PROVE ExactInv'
  BY <1>1, <1>9 DEF Rewind, ExactInv
<1>10. CASE Invalidate
  <2>1. IsExact(ctx', pos', tokens', cache')
    BY <1>2, <1>10, EmptyExact, Zenon DEF Invalidate
  <2> QED BY <1>1, <1>10, <2>1 DEF Invalidate, ExactInv
<1>11. CASE Save
  <2>1. PICK whole \in BOOLEAN : file' = Payload(whole)
    BY <1>11 DEF Save
  <2>2. UNCHANGED <<ctx, pos, tokens, cache, taint>> /\ taint = "none"
    BY <1>11 DEF Save
  <2>3. file'.ctx = ctx /\ file'.pos = pos /\ file'.tokens = tokens /\ file'.cache = cache
    BY <2>1 DEF Payload
  <2> QED BY <1>1, <2>2, <2>3 DEF ExactInv
<1>12. ASSUME NEW v \in Versions, Load(v) PROVE ExactInv'
  <2>1. /\ file # NoFile /\ ctx' = file.ctx /\ pos' = file.pos /\ tokens' = file.tokens
        /\ cache' = ReadCache(v) /\ file' = file
    BY <1>12 DEF Load
  <2>2. /\ file.ctx \in Nat /\ file.tokens \in Seq(Token) /\ CacheOK(file.cache, file.ctx)
        /\ v \in Nat /\ (v # 1 \/ Dual = {})
    BY <1>1, <2>1, Assumed DEF FileOK, SessionOK, IndexIsSaved
  <2>3. file.pos = Len(file.tokens) /\ Holds(file.cache, file.ctx, file.tokens)
    BY <1>1, <2>1 DEF IsExact
  <2>4. Holds(ReadCache(v), file.ctx, file.tokens)
    BY <2>2, <2>3, ReadHolds
  <2> QED BY <1>1, <2>1, <2>3, <2>4 DEF ExactInv, IsExact
<1>13. ASSUME NEW v \in Versions, LoadFails(v) PROVE ExactInv'
  <2>1. taint' = "load" /\ file' = file
    BY <1>13 DEF LoadFails
  <2> QED BY <1>1, <2>1 DEF ExactInv
<1>14. CASE UNCHANGED vars
  BY <1>1, <1>14 DEF ExactInv, vars
<1> QED BY <1>3, <1>4, <1>5, <1>6, <1>7, <1>8, <1>9, <1>10, <1>11, <1>12, <1>13, <1>14, Zenon DEF Next

LEMMA InitExact == Init => ExactInv
<1> SUFFICES ASSUME Init PROVE ExactInv
  OBVIOUS
<1>1. IsExact(ctx, pos, tokens, cache)
  BY EmptyExact, Zenon DEF Init
<1> QED BY <1>1 DEF Init, ExactInv

-----------------------------------------------------------------------------
(* A smaller number over a larger divisor.                                 *)
LEMMA QuotientBelow ==
    ASSUME NEW a \in Nat, NEW b \in Nat, a <= b,
           NEW R \in Nat \ {0}, NEW Q \in Nat \ {0}, Q <= R
    PROVE  a \div R \in Nat /\ b \div Q \in Nat /\ a \div R <= b \div Q
<1>1. PICK x, s, m : Divides(a, R, x, s, m)
  BY Divided
<1>2. PICK y, t, n : Divides(b, Q, y, t, n)
  BY Divided
<1>3. /\ x \in Nat /\ a = m + s /\ s \in 0..(R - 1) /\ m \in Nat /\ x * R = m /\ a \div R = x
      /\ y \in Nat /\ b = n + t /\ t \in 0..(Q - 1) /\ n \in Nat /\ (y + 1) * Q = n + Q /\ b \div Q = y
  BY <1>1, <1>2, Zenon DEF Divides
<1>4. ASSUME y + 1 <= x PROVE FALSE
  <2>1. (y + 1) * Q <= x * Q /\ x * Q \in Nat
    BY <1>3, <1>4, Times
  <2>2. Q * x \in Nat /\ R * x \in Nat /\ Q * x <= R * x
    BY <1>3, Times
  <2>3. x * Q = Q * x /\ x * R = R * x
    BY <1>3, SMT
  <2>4. n + Q <= m
    <3> DEFINE v == x * Q
               w == Q * x
               u == R * x
    <3>1. n + Q <= v /\ v \in Nat /\ v = w /\ w \in Nat /\ u \in Nat /\ w <= u /\ m = u
      BY <1>3, <2>1, <2>2, <2>3, Zenon
    <3> HIDE DEF v, w, u
    <3> QED BY <1>3, <3>1
  <2> QED BY <1>3, <2>4
<1>5. x <= y
  BY <1>3, <1>4
<1> QED BY <1>3, <1>5, Zenon

(* What exactness says of the session, as stated in the runs.              *)
LEMMA SessionShows ==
    ASSUME TypeInv, ExactInv, taint = "none"
    PROVE  /\ ctx \in Nat /\ pos \in Nat /\ pos = Len(tokens)
           /\ CacheOK(cache, ctx) /\ Holds(cache, ctx, tokens)
BY Assumed, Zenon DEF TypeInv, ExactInv, SessionOK, IsExact

LEMMA RawWindow ==
    ASSUME TypeInv, ExactInv, taint = "none", NEW l \in Layer
    PROVE  RawExact(l)
<1>1. /\ pos \in Nat /\ pos = Len(tokens) /\ CapRaw \in Nat \ {0}
      /\ RingOK(cache.raw[l], CapRaw) /\ Shows(cache.raw[l], CapRaw, Rows(tokens), pos)
  BY SessionShows, LayerFacts DEF CacheOK, Holds
<1> DEFINE n == Least(pos, CapRaw)
           f == Rows(tokens)
<1>2. Window(cache.raw[l], CapRaw) = [i \in 1..n |-> f[pos - n + i - 1]]
  <2>1. Window(cache.raw[l], CapRaw) = Newest(CapRaw, f, pos)
    BY <1>1, ShowsWindow
  <2> QED BY <2>1, Zenon DEF Newest
<1>3. n \in 0..pos
  BY <1>1 DEF Least
<1> HIDE DEF n
<1>4. \A i \in 1..n : f[pos - n + i - 1] = RowOf(tokens, pos - n + i - 1)
  <2> TAKE i \in 1..n
  <2>1. pos - n + i - 1 \in Nat
    BY <1>1, <1>3
  <2> QED BY <2>1, Zenon DEF Rows
<1> HIDE DEF f
<1>5. [i \in 1..n |-> f[pos - n + i - 1]] = [i \in 1..n |-> RowOf(tokens, pos - n + i - 1)]
  BY <1>4, Zenon
<1> QED BY <1>2, <1>5, Zenon DEF RawExact, n

LEMMA CompWindow ==
    ASSUME TypeInv, ExactInv, taint = "none", NEW l \in Compressed, NEW ring, NEW state,
           CompOK(ring, state, l, ctx), CompHolds(ring, state, l, ctx, tokens)
    PROVE  /\ WindowsExact(ring, l) /\ StateExact(state, l)
           /\ ring.n = Least(pos \div Ratio[l], CompCap(l, ctx))
<1> DEFINE cap  == CompCap(l, ctx)
           done == pos \div Ratio[l]
           n    == Least(done, cap)
           f    == CompRows(l, tokens)
<1>1. /\ pos \in Nat /\ pos = Len(tokens) /\ cap \in Nat \ {0} /\ Ratio[l] \in Nat \ {0}
      /\ RingOK(ring, cap)
  BY SessionShows, LayerFacts, CompCapIs DEF CompOK
<1>2. done \in Nat
  BY <1>1, DivMod
<1>3. Shows(ring, cap, f, done) /\ StateShows(state, l, tokens)
  BY <1>1, Zenon DEF CompHolds
<1>4. StateExact(state, l)
  BY <1>1, <1>3, Zenon DEF StateExact, StateShows, Previous
<1> HIDE DEF cap, done, f
<1>5. Window(ring, cap) = [i \in 1..n |-> f[done - n + i - 1]] /\ ring.n = n
  <2>1. Window(ring, cap) = Newest(cap, f, done)
    BY <1>1, <1>2, <1>3, ShowsWindow
  <2>2. Newest(cap, f, done) = [i \in 1..n |-> f[done - n + i - 1]]
    BY Zenon DEF Newest
  <2> QED BY <1>3, <2>1, <2>2, Zenon DEF Shows
<1>6. n \in 0..done
  BY <1>1, <1>2 DEF Least
<1> HIDE DEF n
<1>7. \A i \in 1..n : f[done - n + i - 1] = CompRowOf(l, tokens, done - n + i - 1)
  <2> TAKE i \in 1..n
  <2>1. done - n + i - 1 \in Nat
    BY <1>2, <1>6
  <2> QED BY <2>1, Zenon DEF CompRows, f
<1>8. [i \in 1..n |-> f[done - n + i - 1]] = [i \in 1..n |-> CompRowOf(l, tokens, done - n + i - 1)]
  BY <1>7, Zenon
<1>9. Window(ring, cap) = [i \in 1..n |-> CompRowOf(l, tokens, done - n + i - 1)]
  BY <1>5, <1>8, Zenon
<1>10. WindowsExact(ring, l)
  BY <1>9, Zenon DEF WindowsExact, n, cap, done
<1> QED BY <1>4, <1>5, <1>10, Zenon DEF n, cap, done

LEMMA CompRings ==
    ASSUME TypeInv, ExactInv, taint = "none"
    PROVE  /\ \A l \in Compressed :
                /\ WindowsExact(cache.comp[l], l) /\ StateExact(cache.state[l], l)
                /\ cache.comp[l].n = Least(pos \div Ratio[l], CompCap(l, ctx))
           /\ \A l \in Dual :
                /\ WindowsExact(cache.index[l], l) /\ StateExact(cache.indexState[l], l)
                /\ cache.index[l].n = Least(pos \div Ratio[l], CompCap(l, ctx))
<1>1. CacheOK(cache, ctx) /\ Holds(cache, ctx, tokens) /\ \A l \in Dual : l \in Compressed
  BY SessionShows, LayerFacts
<1>2. \A l \in Compressed : /\ CompOK(cache.comp[l], cache.state[l], l, ctx)
                            /\ CompHolds(cache.comp[l], cache.state[l], l, ctx, tokens)
  BY <1>1, Zenon DEF CacheOK, Holds
<1>3. \A l \in Dual : /\ CompOK(cache.index[l], cache.indexState[l], l, ctx)
                      /\ CompHolds(cache.index[l], cache.indexState[l], l, ctx, tokens)
  BY <1>1, Zenon DEF CacheOK, Holds
<1> QED BY <1>1, <1>2, <1>3, CompWindow, Zenon

LEMMA ExactHolds ==
    ASSUME TypeInv, ExactInv
    PROVE  CacheExact
<1>1. TypeOK
  BY TypesHold
<1>2. ASSUME taint = "none" PROVE Exact
  <2>1. pos = Len(tokens)
    BY <1>2, SessionShows
  <2>2. \A l \in Layer : RawExact(l)
    BY <1>2, RawWindow
  <2> QED BY <1>2, <2>1, <2>2, CompRings, Zenon DEF Exact
<1>3. ASSUME taint = "none", pos <= ctx, NEW l \in Compressed
      PROVE  cache.comp[l].n = pos \div Ratio[l]
  <2>1. ctx \in Nat /\ pos \in Nat /\ Ratio[l] \in Nat \ {0} /\ Ratio[l] <= Ratio[l]
    BY <1>3, SessionShows, LayerFacts
  <2>2. pos \div Ratio[l] \in Nat /\ ctx \div Ratio[l] \in Nat /\ pos \div Ratio[l] <= ctx \div Ratio[l]
    BY <1>3, <2>1, QuotientBelow, Zenon
  <2>3. CompCap(l, ctx) = (ctx \div Ratio[l]) + 2
    BY <2>1, CompCapIs
  <2>4. cache.comp[l].n = Least(pos \div Ratio[l], CompCap(l, ctx))
    BY <1>3, CompRings
  <2> DEFINE done == pos \div Ratio[l]
             all  == ctx \div Ratio[l]
  <2> HIDE DEF done, all
  <2>5. done < all + 2
    BY <2>2 DEF done, all
  <2>6. Least(done, all + 2) = done
    BY <2>5, Zenon DEF Least
  <2> QED BY <2>3, <2>4, <2>6, Zenon DEF done, all
<1>4. taint = "none" => NothingForgotten
  BY <1>3, Zenon DEF NothingForgotten
<1> QED BY <1>1, <1>2, <1>4, Zenon DEF CacheExact

LEMMA BoundsHold ==
    ASSUME TypeInv, ExactInv
    PROVE  AttentionInBounds
<1> SUFFICES ASSUME taint = "none", ctx <= scratch
             PROVE  /\ \A l \in Layer : Scored(l) <= CapRaw + (scratch \div 2) + 2
                    /\ \A l \in Dual : Allowed(l) = 0 \/ cache.comp[l].n <= Allowed(l)
  BY Zenon DEF AttentionInBounds
<1>1. /\ ctx \in Nat /\ pos \in Nat /\ scratch \in Nat /\ CapRaw \in Nat \ {0}
      /\ CacheOK(cache, ctx)
  BY SessionShows, LayerFacts, Assumed DEF TypeInv
<1> DEFINE half == scratch \div 2
           quarter == scratch \div 4
<1>2. half \in Nat
  BY <1>1
<1>3. ASSUME NEW l \in Layer PROVE Scored(l) <= CapRaw + half + 2
  <2>1. cache.raw[l].n \in 0..CapRaw
    BY <1>1, Zenon DEF CacheOK, RingOK
  <2>2. CASE l \notin Compressed
    BY <1>1, <1>2, <2>1, <2>2 DEF Scored
  <2>3. CASE l \in Compressed
    <3> DEFINE own == ctx \div Ratio[l]
    <3>1. Ratio[l] \in Nat \ {0, 1}
      BY <2>3, LayerFacts
    <3>2. ctx \div Ratio[l] \in Nat /\ ctx \div Ratio[l] <= scratch \div 2
      <4>1. Ratio[l] \in Nat \ {0} /\ 2 \in Nat \ {0} /\ 2 <= Ratio[l]
        BY <3>1
      <4> QED BY <1>1, <4>1, QuotientBelow, Zenon
    <3> HIDE DEF own, half
    <3>3. own \in Nat /\ own <= half
      BY <3>2 DEF own, half
    <3>4. CompCap(l, ctx) = own + 2
      BY <1>1, <2>3, CompCapIs DEF own
    <3>5. cache.comp[l].n \in 0..CompCap(l, ctx)
      BY <1>1, <2>3, Zenon DEF CacheOK, CompOK, RingOK
    <3>6. Scored(l) = cache.raw[l].n + cache.comp[l].n
      BY <2>3, Zenon DEF Scored
    <3> QED BY <1>1, <1>2, <2>1, <3>3, <3>4, <3>5, <3>6
  <2> QED BY <2>2, <2>3
<1>4. ASSUME NEW l \in Dual PROVE cache.comp[l].n <= Allowed(l)
  <2> DEFINE own  == ctx \div 4
             held == cache.comp[l].n
  <2>1. l \in Compressed /\ Ratio[l] = 4
    BY LayerFacts
  <2>2. own \in Nat /\ own <= quarter
    BY <1>1
  <2>3. CompCap(l, ctx) = own + 2
    BY <1>1, <2>1, CompCapIs
  <2>4. cache.comp[l].n \in 0..CompCap(l, ctx)
    BY <1>1, <2>1, Zenon DEF CacheOK, CompOK, RingOK
  <2>5. cache.index[l].n = held
    BY <2>1, CompRings
  <2> HIDE DEF own, held, quarter
  <2>6. held \in Nat /\ held <= quarter + 2 /\ quarter \in Nat
    <3>1. quarter \in Nat
      BY <1>1 DEF quarter
    <3> QED BY <2>2, <2>3, <2>4, <3>1 DEF held
  <2>7. Allowed(l) = Least(held, quarter + 2)
    BY <2>5, Zenon DEF Allowed, quarter
  <2>8. held <= Least(held, quarter + 2)
    BY <2>6 DEF Least
  <2> QED BY <2>7, <2>8 DEF held
<1> QED BY <1>3, <1>4 DEF half

(* Where no layer has an index, or no payload of the first version, which  *)
(* leaves its rows behind, is found: whatever prefills, decodes, saves,    *)
(* loads, rewinds and failures led here, an untainted session's attention  *)
(* reads the newest rows of the session's own tokens, in order, and inside *)
(* the context every compressed one (Prefill, EvalToken, SavePayload,          *)
(* LoadPayload and Invalidate of session.go).                              *)
THEOREM CacheIsExact == IndexIsSaved => (Spec => []CacheExact)
<1> SUFFICES ASSUME IndexIsSaved PROVE Spec => []CacheExact
  OBVIOUS
<1>1. Init => TypeInv /\ ExactInv
  BY InitTypes, InitExact
<1>2. TypeInv /\ ExactInv /\ [Next]_vars => TypeInv' /\ ExactInv'
  BY TypeStep, ExactStep
<1>3. TypeInv /\ ExactInv => CacheExact
  BY ExactHolds
<1> QED BY <1>1, <1>2, <1>3, PTL DEF Spec

(* Under the same hypothesis the attention loops of such a session stay    *)
(* inside the scratch buffers, for every ratio but 1 (decode.go).          *)
THEOREM BoundsAreHeld == IndexIsSaved => (Spec => []AttentionInBounds)
<1> SUFFICES ASSUME IndexIsSaved PROVE Spec => []AttentionInBounds
  OBVIOUS
<1>1. Init => TypeInv /\ ExactInv
  BY InitTypes, InitExact
<1>2. TypeInv /\ ExactInv /\ [Next]_vars => TypeInv' /\ ExactInv'
  BY TypeStep, ExactStep
<1>3. TypeInv /\ ExactInv => AttentionInBounds
  BY BoundsHold
<1> QED BY <1>1, <1>2, <1>3, PTL DEF Spec
=============================================================================
