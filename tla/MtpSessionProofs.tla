-------------------------- MODULE MtpSessionProofs --------------------------
(***************************************************************************)
(* Proofs about a speculative session, for any layers, ratios, caps,       *)
(* prompts and drafters.                                                   *)
(*                                                                         *)
(* The argument goes from small to large.  A text t shows in a part of the *)
(* graph when the part holds the rows of t that are its to hold: the ring  *)
(* of a layer those of the last window, a compressor the pooled rows of    *)
(* the full windows and the pending rows of the unfinished one.  Lemmas    *)
(* say of each operator, from one compressor to the whole graph, what it   *)
(* makes of a part in which a text shows: a token (Decode), a batch        *)
(* (Chunk), two tokens in one pass (the verifier), a chunked prefill, a    *)
(* snapshot and its restore, a payload and its load; and that an operator  *)
(* broken off half way spoils only rows past the end of the text it        *)
(* started from.                                                           *)
(*                                                                         *)
(* MtpInv then says of a session: between calls, a valid checkpoint that   *)
(* is not known to be wrong has its graph and its logits, and a saved file *)
(* always has those of its tokens; within a speculative call each step     *)
(* says which text shows in the graph, the snapshot and the captured       *)
(* prefix, and that the rows of the logits are those of the drafts that    *)
(* have been verified.  Each step of the session keeps it.                 *)
(*                                                                         *)
(* The reference path (CpuCache) keeps sequences where the graph keeps     *)
(* numbered rows.  A compressor of it stands for one of the graph, so the  *)
(* lemmas of one say what a token makes of the other; a prompt goes layer  *)
(* by layer, each to its own depth, the rest token by token; and because   *)
(* the counters of the graph fit its arrays, no compressor overflows here. *)
(***************************************************************************)
EXTENDS MtpSession, WellFoundedInduction, TLAPS

-----------------------------------------------------------------------------
(* Natural numbers.                                                        *)

(* A set of naturals with a member has a least one.                        *)
LEMMA NatHasLeast ==
    ASSUME NEW T \in SUBSET Nat, T # {}
    PROVE  \E n \in T : \A m \in T : n <= m
<1> DEFINE R == OpToRel(<, Nat)
<1>1. IsWellFoundedOn(R, Nat)
  BY NatLessThanWellFounded
<1>2. \A x, y \in Nat : <<x, y>> \in R <=> x < y
  BY DEF OpToRel
<1> HIDE DEF R
<1>3. T \subseteq Nat
  OBVIOUS
<1>4. PICK n \in T : \A m \in T : <<m, n>> \notin R
  BY <1>1, <1>3, WFMin
<1>5. ASSUME NEW m \in T PROVE n <= m
  <2>1. m \in Nat /\ n \in Nat /\ <<m, n>> \notin R
    BY <1>3, <1>4
  <2>2. ~(m < n)
    BY <1>2, <2>1, Zenon
  <2> QED BY <2>1, <2>2
<1> QED BY <1>5

(* A set that has 0, and with n also n + 1, has every natural number.      *)
LEMMA NatInduct ==
    ASSUME NEW T, 0 \in T, \A n \in Nat : n \in T => n + 1 \in T
    PROVE  \A n \in Nat : n \in T
<1> DEFINE U == {n \in Nat : n \notin T}
<1>1. SUFFICES ASSUME U # {} PROVE FALSE
  OBVIOUS
<1>2. PICK n \in U : \A m \in U : n <= m
  BY <1>1, NatHasLeast
<1>3. n \in Nat /\ n # 0
  BY <1>2
<1>4. n - 1 \in Nat /\ n - 1 \notin U
  BY <1>2, <1>3
<1>5. n - 1 \in T /\ (n - 1) + 1 = n
  BY <1>4
<1>6. n \in T
  BY <1>4, <1>5
<1> QED BY <1>2, <1>6
(* Arithmetic.  Quotient and remainder, and what one more does to them.    *)
LEMMA Times ==
    ASSUME NEW x \in Nat, NEW y \in Nat, NEW z \in Nat, x <= y
    PROVE  x * z \in Nat /\ y * z \in Nat /\ x * z <= y * z
<1> DEFINE d == y - x
<1>1. d \in Nat /\ y = x + d
  OBVIOUS
<1>2. d * z \in Nat /\ x * z \in Nat /\ y * z \in Nat
  BY <1>1
<1> HIDE DEF d
<1>3. y * z = x * z + d * z
  BY <1>1, SMT
<1> QED BY <1>2, <1>3

(* Quotient and remainder, and what they make up.                          *)
LEMMA DivMod ==
    ASSUME NEW n \in Nat, NEW R \in Nat \ {0}
    PROVE  n \div R \in Nat /\ n % R \in 0..(R - 1) /\ n = (n \div R) * R + (n % R)
<1>1. n % R \in 0..(R - 1) /\ n = R * (n \div R) + (n % R)
  BY SMT
<1>2. n \div R \in Nat
  BY SMT
<1>3. R * (n \div R) = (n \div R) * R
  BY <1>2, SMT
<1> QED BY <1>1, <1>2, <1>3

(* They are the only ones.                                                 *)
LEMMA Quotient ==
    ASSUME NEW n \in Nat, NEW R \in Nat \ {0}, NEW q \in Nat, NEW r \in 0..(R - 1), n = q * R + r
    PROVE  n \div R = q /\ n % R = r
<1> DEFINE a == n \div R
           b == n % R
<1>1. a \in Nat /\ b \in 0..(R - 1) /\ n = a * R + b
  BY DivMod
<1>2. a * R \in Nat /\ q * R \in Nat
  BY <1>1, Times
<1> HIDE DEF a, b
<1>3. ASSUME a + 1 <= q PROVE FALSE
  <2>1. a + 1 <= q
    BY <1>3
  <2>2. (a + 1) * R <= q * R
    BY <1>1, <2>1, Times
  <2>3. (a + 1) * R = a * R + R
    BY <1>1, SMT
  <2> QED BY <1>1, <1>2, <2>2, <2>3
<1>4. ASSUME q + 1 <= a PROVE FALSE
  <2>1. q + 1 <= a
    BY <1>4
  <2>2. (q + 1) * R <= a * R
    BY <1>1, <2>1, Times
  <2>3. (q + 1) * R = q * R + R
    BY SMT
  <2> QED BY <1>1, <1>2, <2>2, <2>3
<1>5. a = q
  BY <1>1, <1>3, <1>4
<1>6. b = r
  BY <1>1, <1>2, <1>5
<1> QED BY <1>5, <1>6 DEF a, b

(* The next number has the next remainder, or starts the next multiple.    *)
LEMMA OneMore ==
    ASSUME NEW n \in Nat, NEW R \in Nat \ {0}
    PROVE  IF (n % R) = R - 1
           THEN (n + 1) \div R = n \div R + 1 /\ (n + 1) % R = 0
           ELSE (n + 1) \div R = n \div R /\ (n + 1) % R = (n % R) + 1
<1> DEFINE q == n \div R
           r == n % R
<1>0. q \in Nat /\ r \in 0..(R - 1) /\ n = q * R + r
  BY DivMod
<1> HIDE DEF q, r
<1>1. q \in Nat /\ r \in 0..(R - 1) /\ n = q * R + r /\ q * R \in Nat
  BY <1>0, Times
<1>2. CASE r = R - 1
  <2>1. (q + 1) * R = q * R + R
    BY <1>1, SMT
  <2> DEFINE P == q * R
             Q == (q + 1) * R
  <2>2. P \in Nat /\ n = P + r
    BY <1>1
  <2>5. Q = P + R
    BY <2>1
  <2> HIDE DEF P, Q
  <2>4. n + 1 = Q + 0 /\ 0 \in 0..(R - 1) /\ q + 1 \in Nat /\ n + 1 \in Nat
    BY <1>1, <1>2, <2>2, <2>5
  <2>3. (n + 1) \div R = q + 1 /\ (n + 1) % R = 0
    BY <2>4, Quotient DEF Q
  <2> QED BY <1>2, <2>3 DEF q, r
<1>3. CASE r # R - 1
  <2>1. n + 1 = q * R + (r + 1) /\ r + 1 \in 0..(R - 1)
    BY <1>1, <1>3
  <2>2. (n + 1) \div R = q /\ (n + 1) % R = r + 1
    BY <1>1, <2>1, Quotient
  <2> QED BY <1>3, <2>2 DEF q, r
<1> QED BY <1>2, <1>3

(* The same with names for the quotient, the remainder and the product.    *)
Divides(n, R, q, r, m) ==
    /\ q \in Nat /\ r \in 0..(R - 1) /\ m \in Nat
    /\ n \div R = q /\ n % R = r /\ n = m + r
    /\ q * R = m /\ (q + 1) * R = m + R

(* Every number is divided.                                                *)
LEMMA Divided ==
    ASSUME NEW n \in Nat, NEW R \in Nat \ {0}
    PROVE  \E q, r, m : Divides(n, R, q, r, m)
<1> DEFINE q == n \div R
           r == n % R
           m == q * R
<1>1. q \in Nat /\ r \in 0..(R - 1) /\ n = m + r
  BY DivMod
<1> HIDE DEF q, r
<1>2. m \in Nat
  BY <1>1, Times
<1>3. (q + 1) * R = m + R
  BY <1>1, SMT
<1>4. n \div R = q /\ n % R = r
  BY DEF q, r
<1> HIDE DEF m
<1>5. q * R = m
  BY DEF m
<1>6. Divides(n, R, q, r, m)
  BY <1>1, <1>2, <1>3, <1>4, <1>5, Zenon DEF Divides
<1> QED BY <1>6

(* A position below a multiple of R has a quotient below the factor.       *)
LEMMA ProductBelow ==
    ASSUME NEW n, NEW R \in Nat \ {0}, NEW q, NEW r, NEW m, Divides(n, R, q, r, m),
           NEW k \in 0..(q - 1)
    PROVE  (k + 1) * R \in R..m
<1>1. q \in Nat /\ m = q * R
  BY Zenon DEF Divides
<1>2. k + 1 \in Nat /\ 1 <= k + 1 /\ k + 1 <= q /\ 1 \in Nat
  BY <1>1
<1>3. (k + 1) * R \in Nat /\ q * R \in Nat /\ (k + 1) * R <= q * R
  BY <1>1, <1>2, Times
<1>4. 1 * R <= (k + 1) * R
  BY <1>2, Times
<1>5. R <= (k + 1) * R
  BY <1>4
<1> DEFINE a == (k + 1) * R
           b == q * R
<1> HIDE DEF a, b
<1>6. a \in Nat /\ b \in Nat /\ a <= b /\ R <= a
  BY <1>3, <1>5, Zenon DEF a, b
<1>7. a \in R..b
  BY <1>6
<1> QED BY <1>1, <1>7 DEF a, b

(* Division keeps the order, and near positions have slots of their own.   *)
LEMMA QuotientOrder ==
    ASSUME NEW a \in Nat, NEW b \in Nat, a <= b, NEW R \in Nat \ {0}
    PROVE  a \div R <= b \div R
<1>1. PICK q, r, m : Divides(a, R, q, r, m)
  BY Divided
<1>2. PICK x, y, z : Divides(b, R, x, y, z)
  BY Divided
<1>3. /\ q \in Nat /\ r \in 0..(R - 1) /\ m \in Nat /\ a \div R = q /\ a = m + r /\ q * R = m
      /\ x \in Nat /\ y \in 0..(R - 1) /\ z \in Nat /\ b \div R = x /\ b = z + y /\ (x + 1) * R = z + R
  BY <1>1, <1>2, Zenon DEF Divides
<1>4. ASSUME x + 1 <= q PROVE FALSE
  <2>1. (x + 1) * R <= q * R
    BY <1>3, <1>4, Times
  <2>2. z + R <= m
    BY <1>3, <2>1, Zenon
  <2> QED BY <1>3, <2>2
<1>5. q <= x
  BY <1>3, <1>4
<1> QED BY <1>3, <1>5

(* Two positions less than R apart have different slots.                   *)
LEMMA SlotsDiffer ==
    ASSUME NEW a \in Nat, NEW b \in Nat, NEW R \in Nat \ {0}, a < b, b < a + R
    PROVE  a % R # b % R
<1> SUFFICES ASSUME a % R = b % R PROVE FALSE
  OBVIOUS
<1>1. PICK q, r, m : Divides(a, R, q, r, m)
  BY Divided
<1>2. PICK x, y, z : Divides(b, R, x, y, z)
  BY Divided
<1>3. /\ q \in Nat /\ r \in 0..(R - 1) /\ m \in Nat /\ a % R = r /\ a = m + r /\ q * R = m
      /\ (q + 1) * R = m + R
      /\ x \in Nat /\ y \in 0..(R - 1) /\ z \in Nat /\ b % R = y /\ b = z + y /\ x * R = z
  BY <1>1, <1>2, Zenon DEF Divides
<1>4. r = y /\ m < z /\ z < m + R
  BY <1>3
<1>5. CASE x <= q
  <2>1. x * R <= q * R
    BY <1>3, <1>5, Times
  <2>2. z <= m
    BY <1>3, <2>1, Zenon
  <2> QED BY <1>3, <1>4, <2>2
<1>6. CASE q + 1 <= x
  <2>1. (q + 1) * R <= x * R
    BY <1>3, <1>6, Times
  <2>2. m + R <= z
    BY <1>3, <2>1, Zenon
  <2> QED BY <1>3, <1>4, <2>2
<1> QED BY <1>3, <1>5, <1>6

-----------------------------------------------------------------------------
(* Texts.  Two texts agree on n tokens when their rows do.                 *)
Agree(s, t, n) == \A q \in 0..(n - 1) : RowOf(s, q) = RowOf(t, q)

(* An initial part, by its elements.                                       *)
LEMMA UptoIs ==
    ASSUME NEW s \in Seq(Token), NEW n \in 0..Len(s)
    PROVE  /\ Upto(s, n) \in Seq(Token) /\ Len(Upto(s, n)) = n
           /\ \A i \in 1..n : Upto(s, n)[i] = s[i]
BY DEF Upto

(* Texts with the same tokens are the same.                                *)
LEMMA SameText ==
    ASSUME NEW s \in Seq(Token), NEW t \in Seq(Token), Len(s) = Len(t),
           \A i \in 1..Len(s) : s[i] = t[i]
    PROVE  s = t
BY SMTT(30)

(* Texts that start alike have the same initial part.                      *)
LEMMA UptoSame ==
    ASSUME NEW s \in Seq(Token), NEW t \in Seq(Token), NEW n \in Nat, n <= Len(s), n <= Len(t),
           \A i \in 1..n : s[i] = t[i]
    PROVE  Upto(s, n) = Upto(t, n)
<1>1. n \in 0..Len(s) /\ n \in 0..Len(t)
  OBVIOUS
<1>2. /\ Upto(s, n) \in Seq(Token) /\ Len(Upto(s, n)) = n /\ \A i \in 1..n : Upto(s, n)[i] = s[i]
      /\ Upto(t, n) \in Seq(Token) /\ Len(Upto(t, n)) = n /\ \A i \in 1..n : Upto(t, n)[i] = t[i]
  BY <1>1, UptoIs
<1>3. \A i \in 1..n : Upto(s, n)[i] = Upto(t, n)[i]
  BY <1>2
<1> QED BY <1>2, <1>3, SameText

(* The whole is an initial part.                                           *)
LEMMA UptoAll ==
    ASSUME NEW s \in Seq(Token)
    PROVE  Upto(s, Len(s)) = s
<1>1. Len(s) \in 0..Len(s)
  OBVIOUS
<1> QED BY <1>1, UptoIs, SameText

(* So is a part of a part.                                                 *)
LEMMA UptoUpto ==
    ASSUME NEW s \in Seq(Token), NEW n \in 0..Len(s), NEW m \in 0..n
    PROVE  Upto(Upto(s, n), m) = Upto(s, m)
<1>1. Upto(s, n) \in Seq(Token) /\ Len(Upto(s, n)) = n /\ \A i \in 1..n : Upto(s, n)[i] = s[i]
  BY UptoIs
<1>2. m \in Nat /\ m <= Len(Upto(s, n)) /\ m <= Len(s) /\ \A i \in 1..m : Upto(s, n)[i] = s[i]
  BY <1>1
<1> QED BY <1>1, <1>2, UptoSame

(* A text and its initial part have the same rows.                         *)
LEMMA AgreeUpto ==
    ASSUME NEW s \in Seq(Token), NEW n \in 0..Len(s)
    PROVE  Agree(Upto(s, n), s, n)
<1>1. ASSUME NEW q \in 0..(n - 1) PROVE RowOf(Upto(s, n), q) = RowOf(s, q)
  <2>1. q + 1 \in 0..n
    OBVIOUS
  <2> QED BY <2>1, UptoUpto DEF RowOf
<1> QED BY <1>1 DEF Agree

(* A row of a text is a text.                                              *)
LEMMA RowOfType ==
    ASSUME NEW s \in Seq(Token), NEW p \in 0..(Len(s) - 1)
    PROVE  RowOf(s, p) \in Seq(Token) /\ Len(RowOf(s, p)) = p + 1 /\ RowOf(s, p) # Wrong
<1>1. p + 1 \in 0..Len(s)
  OBVIOUS
<1> QED BY <1>1, UptoIs, MtpAssumption DEF RowOf

-----------------------------------------------------------------------------
(* The layers and their compressors.                                       *)
LEMMA GraphFacts ==
    /\ {Window, RawCap, PrefillCap, CompCap, TopK} \subseteq Nat \ {0}
    /\ Layers \in Nat /\ Layer = 1..Layers /\ Ctx \in Nat
    /\ \A l \in Layer : /\ Ratio[l] \in Nat
                        /\ Ratio[l] # 0 => <<l, "attn">> \in Unit
                        /\ Ratio[l] = 4 => <<l, "index">> \in Unit
<1>1. Ratio \in Seq(Nat) /\ {Window, RawCap, PrefillCap, CompCap, TopK} \subseteq Nat \ {0}
  BY GraphAssumption, Zenon
<1>2. Layers \in Nat /\ Layer = 1..Layers /\ \A l \in Layer : Ratio[l] \in Nat
  BY <1>1 DEF Layers, Layer
<1>3. Ctx \in Nat
  BY MtpAssumption
<1> QED BY <1>1, <1>2, <1>3 DEF Unit

(* The layer, the ratio and the window of a compressor.                    *)
LEMMA UnitFacts ==
    ASSUME NEW u \in Unit
    PROVE  /\ u[1] \in Layer /\ RatioOf(u) = Ratio[u[1]] /\ RatioOf(u) \in Nat \ {0, 1, 2}
           /\ StateRows(u) = IF RatioOf(u) = 4 THEN 8 ELSE RatioOf(u)
           /\ StateRows(u) \in Nat \ {0} /\ DOMAIN Empty(u) = 0..(StateRows(u) - 1)
<1>1. u[1] \in Layer /\ Ratio[u[1]] # 0
  BY DEF Unit
<1>2. Ratio[u[1]] \in Nat \ {0, 1, 2}
  <2>1. Ratio[u[1]] = 0 \/ Ratio[u[1]] > 2
    BY <1>1, CapAssumption, Zenon
  <2>2. Ratio[u[1]] \in Nat
    BY <1>1, GraphFacts
  <2> QED BY <1>1, <2>1, <2>2
<1> QED BY <1>1, <1>2 DEF RatioOf, StateRows, Empty

(* What a compressor may hold, whatever failed.  A row is a text, and a    *)
(* pooled row a state.                                                     *)
Rows == Seq(Token) \cup {NoRow, Wrong}
Windows(u) == [0..(StateRows(u) - 1) -> Rows]
Counted(u, N) == [rows : [0..(CompCap - 1) -> Windows(u) \cup {NoRow}], n : N, state : Windows(u)]
Compressor(u) == Counted(u, 0..CompCap)

(* The state and the whole of a compressor after n tokens of s.            *)
Previous(s, n, r) == IF n < 4 THEN NoRow ELSE RowOf(s, n - (n % 4) - 4 + r)

WindowShows(u, state, s, n) ==
    LET filled == n % RatioOf(u) IN
    IF RatioOf(u) = 4
    THEN /\ \A r \in 0..3 : state[r] = Previous(s, n, r)
         /\ \A r \in 0..(filled - 1) : state[4 + r] = RowOf(s, n - filled + r)
    ELSE \A r \in 0..(filled - 1) : state[r] = RowOf(s, n - filled + r)

Pools(u, c, s, count) == \A k \in 0..(count - 1) : c.rows[k] = CompRowOf(u, s, k)

UnitShows(u, c, s, n) ==
    /\ c.n = n \div RatioOf(u)
    /\ Pools(u, c, s, n \div RatioOf(u))
    /\ WindowShows(u, c.state, s, n)

(* Less: the pooled rows are there, and nothing will be written over them. *)
UnitKeeps(u, c, s, n) ==
    /\ n \div RatioOf(u) <= c.n
    /\ Pools(u, c, s, n \div RatioOf(u))

(* One token through a compressor.                                         *)
Place(u, p) == IF RatioOf(u) = 4 THEN 4 + (p % 4) ELSE p % RatioOf(u)

(* A place is in the window, and no other position of it has the same.     *)
LEMMA PlaceIs ==
    ASSUME NEW u \in Unit, NEW p \in Nat
    PROVE  Place(u, p) \in 0..(StateRows(u) - 1)
<1>1. p % RatioOf(u) \in 0..(RatioOf(u) - 1)
  BY UnitFacts, DivMod
<1>2. RatioOf(u) = 4 => p % 4 \in 0..3
  BY <1>1
<1> QED BY <1>1, <1>2, UnitFacts DEF Place

(* Only the row at that place changes.                                     *)
LEMMA StoredIs ==
    ASSUME NEW u \in Unit, NEW state \in Windows(u), NEW p \in Nat, NEW row \in Rows
    PROVE  /\ Stored(u, state, p, row) \in Windows(u)
           /\ \A r \in 0..(StateRows(u) - 1) :
                Stored(u, state, p, row)[r] = IF r = Place(u, p) THEN row ELSE state[r]
BY UnitFacts, PlaceIs DEF Stored, Place, Windows

(* What Update does, by its two cases.                                     *)
UpdateOpen(u, c, p, row, d) ==
    d.rows = c.rows /\ d.n = c.n /\ d.state = Stored(u, c.state, p, row)

UpdateClosed(u, c, p, row, d) ==
    /\ d.n = c.n + 1
    /\ \A k \in 0..(CompCap - 1) : d.rows[k] = IF k = c.n THEN Stored(u, c.state, p, row) ELSE c.rows[k]
    /\ RatioOf(u) # 4 => d.state = Stored(u, c.state, p, row)
    /\ RatioOf(u) = 4 => \A r \in 0..7 : d.state[r] = Stored(u, c.state, p, row)[4 + (r % 4)]

(* An update leaves the compressor open or closes a window.                *)
LEMMA UpdateIs ==
    ASSUME NEW u \in Unit, NEW N \in SUBSET Nat, NEW c \in Counted(u, N), NEW p \in Nat, NEW row \in Rows
    PROVE  /\ Update(u, c, p, row) \in Counted(u, Nat)
           /\ ~Closes(u, p) => UpdateOpen(u, c, p, row, Update(u, c, p, row))
           /\ Closes(u, p) => UpdateClosed(u, c, p, row, Update(u, c, p, row))
<1> DEFINE st == Stored(u, c.state, p, row)
           d  == Update(u, c, p, row)
<1>1. /\ c.state \in Windows(u) /\ c.n \in Nat /\ c.rows \in [0..(CompCap - 1) -> Windows(u) \cup {NoRow}]
      /\ c = [rows |-> c.rows, n |-> c.n, state |-> c.state]
  BY DEF Counted
<1>2. st \in Windows(u)
  BY <1>1, StoredIs
<1>3. CASE ~Closes(u, p)
  <2>1. d = [c EXCEPT !.state = st]
    BY <1>3 DEF Update
  <2> HIDE DEF st, d
  <2>2. d = [rows |-> c.rows, n |-> c.n, state |-> st]
    BY <1>1, <2>1
  <2>3. d \in Counted(u, Nat) /\ d.rows = c.rows /\ d.n = c.n /\ d.state = st
    BY <1>1, <1>2, <2>2 DEF Counted
  <2> QED BY <1>3, <2>3 DEF UpdateOpen, d, st
<1>4. CASE Closes(u, p)
  <2> DEFINE next == IF RatioOf(u) = 4 THEN [r \in 0..7 |-> st[4 + (r % 4)]] ELSE st
             rows == [c.rows EXCEPT ![c.n] = st]
  <2>1. d = [rows |-> rows, n |-> c.n + 1, state |-> next]
    BY <1>4 DEF Update
  <2>2. next \in Windows(u)
    <3>1. ASSUME RatioOf(u) = 4 PROVE [r \in 0..7 |-> st[4 + (r % 4)]] \in Windows(u)
      <4>1. StateRows(u) = 8 /\ \A r \in 0..7 : 4 + (r % 4) \in 0..7
        BY <3>1, UnitFacts
      <4> HIDE DEF st
      <4> QED BY <1>2, <4>1 DEF Windows
    <3> QED BY <1>2, <3>1
  <2>3. /\ rows \in [0..(CompCap - 1) -> Windows(u) \cup {NoRow}]
        /\ \A k \in 0..(CompCap - 1) : rows[k] = IF k = c.n THEN st ELSE c.rows[k]
    <3> HIDE DEF st
    <3> QED BY <1>1, <1>2
  <2>4. /\ RatioOf(u) # 4 => next = st
        /\ RatioOf(u) = 4 => \A r \in 0..7 : next[r] = st[4 + (r % 4)]
    <3> HIDE DEF st
    <3> QED OBVIOUS
  <2> HIDE DEF st, d, rows, next
  <2>5. d \in Counted(u, Nat) /\ d.rows = rows /\ d.n = c.n + 1 /\ d.state = next
    BY <1>1, <2>1, <2>2, <2>3 DEF Counted
  <2> QED BY <1>4, <2>3, <2>4, <2>5, Zenon DEF UpdateClosed, d, st
<1> QED BY <1>3, <1>4

(* The next position ends a window, or it does not.                        *)
LEMMA ClosesIs ==
    ASSUME NEW u \in Unit, NEW n \in Nat
    PROVE  /\ n \div RatioOf(u) \in Nat /\ n % RatioOf(u) \in 0..(RatioOf(u) - 1)
           /\ n - (n % RatioOf(u)) \in Nat
           /\ Closes(u, n) => /\ n % RatioOf(u) = RatioOf(u) - 1 /\ (n + 1) % RatioOf(u) = 0
                              /\ (n + 1) \div RatioOf(u) = n \div RatioOf(u) + 1
                              /\ (n \div RatioOf(u) + 1) * RatioOf(u) - 1 = n
           /\ ~Closes(u, n) => /\ n % RatioOf(u) < RatioOf(u) - 1
                               /\ (n + 1) % RatioOf(u) = (n % RatioOf(u)) + 1
                               /\ (n + 1) \div RatioOf(u) = n \div RatioOf(u)
<1>1. PICK R \in Nat \ {0, 1, 2} : R = RatioOf(u)
  BY UnitFacts
<1>2. PICK q, r, m : Divides(n, R, q, r, m)
  BY <1>1, Divided
<1>3. /\ q \in Nat /\ r \in 0..(R - 1) /\ m \in Nat /\ n \div R = q /\ n % R = r /\ n = m + r
      /\ (q + 1) * R = m + R
  BY <1>2, Zenon DEF Divides
<1>4. IF r = R - 1 THEN (n + 1) \div R = q + 1 /\ (n + 1) % R = 0
                   ELSE (n + 1) \div R = q /\ (n + 1) % R = r + 1
  <2>1. R \in Nat \ {0}
    BY <1>1
  <2> QED BY <1>3, <2>1, OneMore, Zenon
<1>5. n - r \in Nat /\ (r = R - 1 => (m + R) - 1 = n) /\ (r # R - 1 => r < R - 1 /\ r + 1 # 0)
  BY <1>1, <1>3
<1>6. Closes(u, n) <=> (n + 1) % R = 0
  BY <1>1, Zenon DEF Closes
<1>7. Closes(u, n) <=> r = R - 1
  BY <1>4, <1>5, <1>6, Zenon
<1> QED BY <1>1, <1>3, <1>4, <1>5, <1>7, Zenon

(* The window with position n in it.                                       *)
FilledShows(u, state, s, n) ==
    LET filled == n % RatioOf(u) IN
    IF RatioOf(u) = 4
    THEN /\ \A r \in 0..3 : state[r] = Previous(s, n, r)
         /\ \A r \in 0..filled : state[4 + r] = RowOf(s, n - filled + r)
    ELSE \A r \in 0..filled : state[r] = RowOf(s, n - filled + r)

(* The row stored is the one of its position.                              *)
LEMMA StoredShows ==
    ASSUME NEW u \in Unit, NEW state \in Windows(u), NEW s, NEW n \in Nat, RowOf(s, n) \in Rows,
           WindowShows(u, state, s, n)
    PROVE  FilledShows(u, Stored(u, state, n, RowOf(s, n)), s, n)
<1> DEFINE st == Stored(u, state, n, RowOf(s, n))
<1>1. PICK R \in Nat \ {0, 1, 2} : R = RatioOf(u)
  BY UnitFacts
<1>2. PICK f \in 0..(R - 1) : f = n % R /\ n - f \in Nat
  BY <1>1, ClosesIs
<1>3. \A r \in 0..(StateRows(u) - 1) : st[r] = IF r = Place(u, n) THEN RowOf(s, n) ELSE state[r]
  BY StoredIs
<1> HIDE DEF st
<1>4. CASE R = 4
  <2>1. StateRows(u) - 1 = 7 /\ Place(u, n) = 4 + f
    <3>1. StateRows(u) = 8 /\ Place(u, n) = 4 + (n % 4)
      BY <1>1, <1>4, UnitFacts, Zenon DEF Place
    <3> QED BY <1>2, <1>4, <3>1
  <2>2. /\ \A r \in 0..3 : state[r] = Previous(s, n, r)
        /\ \A r \in 0..(f - 1) : state[4 + r] = RowOf(s, n - f + r)
    BY <1>1, <1>2, <1>4, Zenon DEF WindowShows
  <2>3. ASSUME NEW r \in 0..3 PROVE st[r] = Previous(s, n, r)
    <3>1. r \in 0..7 /\ r # 4 + f
      BY <1>2
    <3> QED BY <1>3, <2>1, <2>2, <3>1
  <2>4. ASSUME NEW r \in 0..f PROVE st[4 + r] = RowOf(s, n - f + r)
    <3>1. 4 + r \in 0..7 /\ (r # f => r \in 0..(f - 1) /\ 4 + r # 4 + f) /\ (r = f => n - f + r = n)
      BY <1>2, <1>4
    <3>2. CASE r = f
      BY <1>3, <2>1, <3>1, <3>2
    <3>3. CASE r # f
      <4>1. st[4 + r] = state[4 + r]
        BY <1>3, <2>1, <3>1, <3>3
      <4> QED BY <2>2, <3>1, <3>3, <4>1
    <3> QED BY <3>2, <3>3
  <2> QED BY <1>1, <1>2, <1>4, <2>3, <2>4, Zenon DEF FilledShows, st
<1>5. CASE R # 4
  <2>1. StateRows(u) - 1 = R - 1 /\ Place(u, n) = f
    BY <1>1, <1>2, <1>5, UnitFacts DEF Place
  <2>2. \A r \in 0..(f - 1) : state[r] = RowOf(s, n - f + r)
    BY <1>1, <1>2, <1>5, Zenon DEF WindowShows
  <2>4. ASSUME NEW r \in 0..f PROVE st[r] = RowOf(s, n - f + r)
    <3>1. r \in 0..(R - 1) /\ (r # f => r \in 0..(f - 1)) /\ (r = f => n - f + r = n)
      BY <1>2
    <3>2. st[r] = IF r = f THEN RowOf(s, n) ELSE state[r]
      BY <1>3, <2>1, <3>1
    <3> QED BY <2>2, <3>1, <3>2
  <2> QED BY <1>1, <1>2, <1>5, <2>4, Zenon DEF FilledShows, st
<1> QED BY <1>4, <1>5

(* A full window is what is pooled.                                        *)
LEMMA PooledIs ==
    ASSUME NEW u \in Unit, NEW state \in Windows(u), NEW s, NEW n \in Nat, Closes(u, n),
           FilledShows(u, state, s, n)
    PROVE  state = CompRowOf(u, s, n \div RatioOf(u))
<1>1. PICK R \in Nat \ {0, 1, 2} : R = RatioOf(u)
  BY UnitFacts
<1>2. n % R = R - 1 /\ (n \div R + 1) * R - 1 = n /\ n - (R - 1) \in Nat
  BY <1>1, ClosesIs
<1>3. CompRowOf(u, s, n \div R) = StateOf(u, s, n)
  BY <1>2, <1>1, Zenon DEF CompRowOf
<1> DEFINE q(r) == n - (n % R) + (IF R = 4 THEN r - 4 ELSE r)
<1>4. StateOf(u, s, n) = [r \in 0..(StateRows(u) - 1) |-> IF q(r) < 0 \/ q(r) > n THEN NoRow ELSE RowOf(s, q(r))]
  BY <1>1, UnitFacts, Zenon DEF StateOf
<1>5. ASSUME NEW r \in 0..(StateRows(u) - 1)
      PROVE  state[r] = IF q(r) < 0 \/ q(r) > n THEN NoRow ELSE RowOf(s, q(r))
  <2>1. CASE R = 4
    <3>1. /\ \A i \in 0..3 : state[i] = Previous(s, n, i)
          /\ \A i \in 0..3 : state[4 + i] = RowOf(s, n - 3 + i)
      <4>1. n % R = 3
        BY <1>2, <2>1
      <4> QED BY <1>1, <2>1, <4>1, Zenon DEF FilledShows
    <3>2. n % 4 = 3 /\ n >= 3 /\ (n < 4 => n = 3) /\ (n >= 4 => n >= 7)
      BY <1>2, <2>1
    <3>3. r \in 0..7
      <4>1. StateRows(u) = 8
        BY <1>1, <2>1, UnitFacts, Zenon
      <4> QED BY <4>1
    <3>4. q(r) = n - 3 + (r - 4)
      BY <1>2, <2>1
    <3>5. CASE r \in 0..3
      <4>1. state[r] = IF n < 4 THEN NoRow ELSE RowOf(s, n - 3 - 4 + r)
        <5>1. state[r] = Previous(s, n, r)
          BY <3>1, <3>5
        <5> QED BY <3>2, <5>1, Zenon DEF Previous
      <4>2. n - 3 - 4 + r = n - 3 + (r - 4) /\ ~(n - 3 + (r - 4) > n) /\ (n < 4 <=> n - 3 + (r - 4) < 0)
        BY <3>2, <3>5
      <4> QED BY <3>4, <4>1, <4>2
    <3>6. CASE r \in 4..7
      <4>1. r - 4 \in 0..3 /\ 4 + (r - 4) = r /\ ~(n - 3 + (r - 4) > n) /\ ~(n - 3 + (r - 4) < 0)
        BY <3>2, <3>6
      <4>2. state[r] = RowOf(s, n - 3 + (r - 4))
        <5>1. state[4 + (r - 4)] = RowOf(s, n - 3 + (r - 4))
          BY <3>1, <4>1, Zenon
        <5> QED BY <4>1, <5>1
      <4> QED BY <3>4, <4>1, <4>2
    <3> QED BY <3>3, <3>5, <3>6
  <2>2. CASE R # 4
    <3>1. \A i \in 0..(R - 1) : state[i] = RowOf(s, n - (R - 1) + i)
      BY <1>1, <1>2, <2>2, Zenon DEF FilledShows
    <3>2. r \in 0..(R - 1)
      BY <1>1, <2>2, UnitFacts
    <3>3. q(r) = n - (R - 1) + r
      BY <1>2, <2>2
    <3>4. ~(n - (R - 1) + r < 0) /\ ~(n - (R - 1) + r > n)
      BY <1>1, <1>2, <3>2
    <3>5. state[r] = RowOf(s, n - (R - 1) + r)
      BY <3>1, <3>2, Zenon
    <3> QED BY <3>3, <3>4, <3>5
  <2> QED BY <2>1, <2>2
<1> HIDE DEF q
<1>6. state = [r \in 0..(StateRows(u) - 1) |-> state[r]]
  BY DEF Windows
<1> QED BY <1>1, <1>3, <1>4, <1>5, <1>6

(* One token keeps a compressor exact.                                     *)
LEMMA UpdateShows ==
    ASSUME NEW u \in Unit, NEW c \in Counted(u, Nat), NEW s, NEW n \in Nat, RowOf(s, n) \in Rows,
           UnitShows(u, c, s, n), (n + 1) \div RatioOf(u) <= CompCap
    PROVE  UnitShows(u, Update(u, c, n, RowOf(s, n)), s, n + 1)
<1> DEFINE row == RowOf(s, n)
           st  == Stored(u, c.state, n, row)
           d   == Update(u, c, n, row)
<1>1. PICK R \in Nat \ {0, 1, 2} : R = RatioOf(u)
  BY UnitFacts
<1>2. PICK q \in Nat : q = n \div R /\ c.n = q /\ Pools(u, c, s, q) /\ WindowShows(u, c.state, s, n)
  BY <1>1, ClosesIs DEF UnitShows
<1>3. c.state \in Windows(u) /\ row \in Rows
  BY DEF Counted
<1>4. st \in Windows(u) /\ FilledShows(u, st, s, n)
  BY <1>2, <1>3, StoredIs, StoredShows
<1>5. /\ ~Closes(u, n) => UpdateOpen(u, c, n, row, d)
      /\ Closes(u, n) => UpdateClosed(u, c, n, row, d)
  <2>1. Nat \in SUBSET Nat
    OBVIOUS
  <2> QED BY <1>3, <2>1, UpdateIs
<1> HIDE DEF d, st, row
<1>6. CASE ~Closes(u, n)
  <2>1. d.rows = c.rows /\ d.n = q /\ d.state = st
    BY <1>2, <1>5, <1>6, Zenon DEF UpdateOpen, st
  <2>2. PICK f \in 0..(R - 2) : f = n % R /\ (n + 1) % R = f + 1 /\ (n + 1) \div R = q /\ n - f \in Nat
    <3>1. PICK f \in 0..(R - 1) : f = n % R
      BY <1>1, ClosesIs
    <3>2. f < R - 1 /\ (n + 1) % R = f + 1 /\ (n + 1) \div R = q /\ n - f \in Nat
      BY <1>1, <1>2, <1>6, <3>1, ClosesIs, Zenon
    <3>3. f \in 0..(R - 2)
      BY <1>1, <3>1, <3>2
    <3> QED BY <3>1, <3>2, <3>3
  <2>3. Pools(u, d, s, q)
    BY <1>2, <2>1, Zenon DEF Pools
  <2>4. (f + 1) - 1 = f /\ (n + 1) - (f + 1) = n - f
    BY <2>2
  <2>5. ASSUME R = 4 PROVE \A r \in 0..3 : Previous(s, n + 1, r) = Previous(s, n, r)
    <3>1. n % 4 = f /\ (n + 1) % 4 = f + 1 /\ f \in 0..2 /\ (n < 4 <=> n + 1 < 4)
      BY <2>2, <2>5
    <3>2. \A r \in 0..3 : (n + 1) - (f + 1) - 4 + r = n - f - 4 + r
      BY <2>2
    <3> QED BY <3>1, <3>2, Zenon DEF Previous
  <2>6. WindowShows(u, d.state, s, n + 1)
    <3>1. IF R = 4
          THEN /\ \A r \in 0..3 : st[r] = Previous(s, n, r)
               /\ \A r \in 0..f : st[4 + r] = RowOf(s, n - f + r)
          ELSE \A r \in 0..f : st[r] = RowOf(s, n - f + r)
      BY <1>1, <1>4, <2>2, Zenon DEF FilledShows
    <3>2. CASE R = 4
      <4>1. /\ \A r \in 0..3 : st[r] = Previous(s, n + 1, r)
            /\ \A r \in 0..((f + 1) - 1) : st[4 + r] = RowOf(s, (n + 1) - (f + 1) + r)
        BY <2>4, <2>5, <3>1, <3>2, Zenon
      <4> QED BY <1>1, <2>1, <2>2, <3>2, <4>1, Zenon DEF WindowShows
    <3>3. CASE R # 4
      <4>1. \A r \in 0..((f + 1) - 1) : st[r] = RowOf(s, (n + 1) - (f + 1) + r)
        BY <2>4, <3>1, <3>3, Zenon
      <4> QED BY <1>1, <2>1, <2>2, <3>3, <4>1, Zenon DEF WindowShows
    <3> QED BY <3>2, <3>3
  <2> QED BY <1>1, <2>1, <2>2, <2>3, <2>6, Zenon DEF UnitShows, d, row
<1>7. CASE Closes(u, n)
  <2>1. /\ d.n = q + 1
        /\ \A k \in 0..(CompCap - 1) : d.rows[k] = IF k = q THEN st ELSE c.rows[k]
        /\ R # 4 => d.state = st
        /\ R = 4 => \A r \in 0..7 : d.state[r] = st[4 + (r % 4)]
    BY <1>1, <1>2, <1>5, <1>7, Zenon DEF UpdateClosed, st
  <2>2. n % R = R - 1 /\ (n + 1) % R = 0 /\ (n + 1) \div R = q + 1 /\ n - (R - 1) \in Nat
    BY <1>1, <1>2, <1>7, ClosesIs
  <2>3. st = CompRowOf(u, s, q)
    BY <1>1, <1>2, <1>4, <1>7, PooledIs
  <2>4. Pools(u, d, s, q + 1)
    <3>1. CompCap \in Nat /\ q + 1 <= CompCap
      BY <1>1, <2>2, GraphFacts
    <3>2. ASSUME NEW k \in 0..((q + 1) - 1) PROVE d.rows[k] = CompRowOf(u, s, k)
      <4>1. k \in 0..(CompCap - 1) /\ (k = q \/ k \in 0..(q - 1))
        BY <3>1
      <4>2. CASE k = q
        BY <2>1, <2>3, <4>1, <4>2
      <4>3. CASE k # q /\ k \in 0..(q - 1)
        <5>1. c.rows[k] = CompRowOf(u, s, k)
          BY <1>2, <4>3 DEF Pools
        <5> QED BY <2>1, <4>1, <4>3, <5>1
      <4> QED BY <4>1, <4>2, <4>3
    <3> QED BY <3>2 DEF Pools
  <2>5. WindowShows(u, d.state, s, n + 1)
    <3>1. CASE R = 4
      <4>1. n % 4 = 3 /\ (n + 1) % 4 = 0 /\ ~(n + 1 < 4) /\ n \in Nat
        BY <2>2, <3>1
      <4>2. \A r \in 0..3 : st[4 + r] = RowOf(s, n - 3 + r)
        BY <1>1, <1>4, <2>2, <3>1, <4>1, Zenon DEF FilledShows
      <4>3. ASSUME NEW r \in 0..3 PROVE d.state[r] = Previous(s, n + 1, r)
        <5>1. r \in 0..7 /\ r % 4 = r /\ (n + 1) - 0 - 4 + r = n - 3 + r
          BY <4>1
        <5>2. d.state[r] = RowOf(s, n - 3 + r)
          BY <2>1, <3>1, <4>2, <5>1
        <5> QED BY <4>1, <5>1, <5>2, Zenon DEF Previous
      <4>4. \A r \in 0..(0 - 1) : d.state[4 + r] = RowOf(s, (n + 1) - 0 + r)
        OBVIOUS
      <4> QED BY <1>1, <2>2, <3>1, <4>3, <4>4, Zenon DEF WindowShows
    <3>2. CASE R # 4
      <4>1. \A r \in 0..(0 - 1) : d.state[r] = RowOf(s, (n + 1) - 0 + r)
        OBVIOUS
      <4> QED BY <1>1, <2>2, <3>2, <4>1, Zenon DEF WindowShows
    <3> QED BY <3>1, <3>2
  <2> QED BY <1>1, <2>1, <2>2, <2>4, <2>5, Zenon DEF UnitShows, d, row
<1> QED BY <1>6, <1>7

(* Whatever row is written, the finished rows before the counter stay.     *)
KeepsFinished(u, c, d) ==
    \A s, n : n \in Nat /\ n \div RatioOf(u) <= CompCap /\ UnitKeeps(u, c, s, n) => UnitKeeps(u, d, s, n)

(* Whatever the row is, the rows pooled before stay.                       *)
LEMMA UpdateKeeps ==
    ASSUME NEW u \in Unit, NEW c \in Counted(u, Nat), NEW p \in Nat, NEW row \in Rows
    PROVE  /\ Update(u, c, p, row) \in Counted(u, Nat)
           /\ Update(u, c, p, row).n = c.n + (((p + 1) \div RatioOf(u)) - (p \div RatioOf(u)))
           /\ KeepsFinished(u, c, Update(u, c, p, row))
<1> DEFINE d == Update(u, c, p, row)
<1>1. /\ d \in Counted(u, Nat)
      /\ ~Closes(u, p) => UpdateOpen(u, c, p, row, d)
      /\ Closes(u, p) => UpdateClosed(u, c, p, row, d)
  <2>1. Nat \in SUBSET Nat
    OBVIOUS
  <2> QED BY <2>1, UpdateIs
<1> HIDE DEF d
<1>2. c.n \in Nat
  BY DEF Counted
<1>3. d.n = IF Closes(u, p) THEN c.n + 1 ELSE c.n
  BY <1>1, Zenon DEF UpdateOpen, UpdateClosed
<1>4. d.n = c.n + (((p + 1) \div RatioOf(u)) - (p \div RatioOf(u)))
  <2>1. PICK a \in Nat : a = p \div RatioOf(u)
    BY ClosesIs
  <2>2. (p + 1) \div RatioOf(u) = IF Closes(u, p) THEN a + 1 ELSE a
    BY <2>1, ClosesIs, Zenon
  <2>3. c.n + 1 = c.n + ((a + 1) - a) /\ c.n = c.n + (a - a)
    BY <1>2, <2>1
  <2> QED BY <1>3, <2>1, <2>2, <2>3, Zenon
<1>5. ASSUME NEW s, NEW n \in Nat, n \div RatioOf(u) <= CompCap, UnitKeeps(u, c, s, n)
      PROVE  UnitKeeps(u, d, s, n)
  <2>1. PICK a \in Nat : a = n \div RatioOf(u)
    BY ClosesIs
  <2>2. a <= CompCap /\ CompCap \in Nat /\ a <= c.n /\ \A k \in 0..(a - 1) : c.rows[k] = CompRowOf(u, s, k)
    BY <1>5, <2>1, GraphFacts DEF UnitKeeps, Pools
  <2>3. a <= d.n
    BY <1>2, <1>3, <2>1, <2>2
  <2>4. ASSUME NEW k \in 0..(a - 1) PROVE d.rows[k] = c.rows[k]
    <3>1. k \in 0..(CompCap - 1) /\ k # c.n
      BY <1>2, <2>1, <2>2
    <3> QED BY <1>1, <3>1, Zenon DEF UpdateOpen, UpdateClosed
  <2> QED BY <2>1, <2>2, <2>3, <2>4, Zenon DEF UnitKeeps, Pools
<1>6. KeepsFinished(u, c, d)
  BY <1>5, Zenon DEF KeepsFinished
<1> QED BY <1>1, <1>4, <1>6, Zenon DEF d

-----------------------------------------------------------------------------
(* Tokens one by one: what the recursion of Updates computes.              *)
IsUpdates(f, u, c, pos0, n, row) ==
    /\ f[0] = c
    /\ \A k \in 0..(n - 1) : f[k + 1] = Update(u, f[k], pos0 + k, row[pos0 + k])

(* The recursive function of Updates, step by step.                        *)
LEMMA UpdatesUnfold ==
    ASSUME NEW u, NEW c, NEW pos0 \in Nat, NEW n \in Nat, NEW row
    PROVE  \E f : IsUpdates(f, u, c, pos0, n, row) /\ Updates(u, c, pos0, n, row) = f[n]
<1> DEFINE Body(f, k) == IF k = 0 THEN c ELSE Update(u, f[k - 1], pos0 + k - 1, row[pos0 + k - 1])
           Solves(f, m) == f = [k \in 0..m |-> Body(f, k)]
           T == {m \in Nat : \E f : Solves(f, m)}
<1>1. 0 \in T
  <2> DEFINE h == [k \in 0..0 |-> c]
  <2>1. \A k \in 0..0 : Body(h, k) = c
    OBVIOUS
  <2>2. Solves(h, 0)
    BY <2>1
  <2> QED BY <2>2
<1>2. ASSUME NEW m \in Nat, m \in T PROVE m + 1 \in T
  <2>1. PICK f : Solves(f, m)
    BY <1>2
  <2> DEFINE h == [k \in 0..(m + 1) |-> IF k = m + 1 THEN Update(u, f[m], pos0 + (m + 1) - 1, row[pos0 + (m + 1) - 1])
                                        ELSE f[k]]
  <2>2. \A k \in 0..m : f[k] = Body(f, k) /\ h[k] = f[k]
    BY <2>1
  <2>3. h[m + 1] = Body(h, m + 1)
    BY <2>2
  <2>4. ASSUME NEW k \in 0..m PROVE h[k] = Body(h, k)
    <3>1. k = 0 \/ k - 1 \in 0..m
      OBVIOUS
    <3>2. Body(f, k) = Body(h, k)
      BY <2>2, <3>1
    <3> HIDE DEF h, Body
    <3> QED BY <2>2, <3>2
  <2>6. h = [k \in 0..(m + 1) |-> h[k]]
    OBVIOUS
  <2> HIDE DEF h, Body
  <2>5. \A k \in 0..(m + 1) : h[k] = Body(h, k)
    BY <2>3, <2>4
  <2>7. Solves(h, m + 1)
    BY <2>5, <2>6
  <2> QED BY <2>7
<1>3. \A m \in Nat : m \in T
  <2> HIDE DEF T
  <2> QED BY <1>1, <1>2, NatInduct
<1> DEFINE F == CHOOSE f : Solves(f, n)
<1>4. Solves(F, n)
  <2>1. \E f : Solves(f, n)
    BY <1>3
  <2> HIDE DEF Solves
  <2> QED BY <2>1
<1>5. Updates(u, c, pos0, n, row) = F[n]
  BY DEF Updates
<1> HIDE DEF F
<1>6. \A k \in 0..n : F[k] = Body(F, k)
  BY <1>4
<1>7. F[0] = c
  BY <1>6
<1>8. ASSUME NEW k \in 0..(n - 1) PROVE F[k + 1] = Update(u, F[k], pos0 + k, row[pos0 + k])
  <2>1. k + 1 \in 0..n /\ k + 1 # 0 /\ (k + 1) - 1 = k /\ pos0 + (k + 1) - 1 = pos0 + k
    OBVIOUS
  <2>2. F[k + 1] = Body(F, k + 1)
    BY <1>6, <2>1
  <2> QED BY <2>1, <2>2
<1> QED BY <1>5, <1>7, <1>8, Zenon DEF IsUpdates

(* Types, counters, and the rows before the counter.                       *)
LEMMA UpdatesKeep ==
    ASSUME NEW u \in Unit, NEW c \in Counted(u, Nat), NEW pos0 \in Nat, NEW n \in Nat,
           NEW row, \A p \in pos0..(pos0 + n - 1) : row[p] \in Rows
    PROVE  /\ Updates(u, c, pos0, n, row) \in Counted(u, Nat)
           /\ Updates(u, c, pos0, n, row).n = c.n + (((pos0 + n) \div RatioOf(u)) - (pos0 \div RatioOf(u)))
           /\ KeepsFinished(u, c, Updates(u, c, pos0, n, row))
<1>1. PICK f : IsUpdates(f, u, c, pos0, n, row) /\ Updates(u, c, pos0, n, row) = f[n]
  BY UpdatesUnfold
<1> DEFINE D(k) == (pos0 + k) \div RatioOf(u)
           Good(k) == /\ f[k] \in Counted(u, Nat) /\ f[k].n = c.n + (D(k) - D(0))
                      /\ KeepsFinished(u, c, f[k])
           T == {k \in Nat : k <= n => Good(k)}
<1>0. \A k \in Nat : D(k) \in Nat
  BY ClosesIs
<1>2. c.n \in Nat
  BY DEF Counted
<1>3. 0 \in T
  <2>1. f[0] = c /\ c.n + (D(0) - D(0)) = c.n
    BY <1>0, <1>1, <1>2 DEF IsUpdates
  <2> HIDE DEF D
  <2>3. KeepsFinished(u, c, c)
    BY DEF KeepsFinished
  <2>2. Good(0)
    BY <2>1, <2>3, Zenon
  <2> QED BY <2>2
<1>4. ASSUME NEW k \in Nat, k \in T PROVE k + 1 \in T
  <2>1. SUFFICES ASSUME k + 1 <= n PROVE Good(k + 1)
    OBVIOUS
  <2>2. k \in 0..(n - 1) /\ pos0 + k \in pos0..(pos0 + n - 1) /\ pos0 + k \in Nat /\ k <= n
        /\ (pos0 + k) + 1 = pos0 + (k + 1)
    BY <2>1
  <2>3. Good(k)
    BY <1>4, <2>2
  <2>4. f[k + 1] = Update(u, f[k], pos0 + k, row[pos0 + k]) /\ row[pos0 + k] \in Rows
    BY <1>1, <2>2 DEF IsUpdates
  <2>5. /\ f[k + 1] \in Counted(u, Nat)
        /\ f[k + 1].n = f[k].n + (((pos0 + k + 1) \div RatioOf(u)) - ((pos0 + k) \div RatioOf(u)))
        /\ KeepsFinished(u, f[k], f[k + 1])
    <3>1. PICK p \in Nat : p = pos0 + k
      BY <2>2
    <3>2. PICK d \in Counted(u, Nat) : d = f[k]
      BY <2>3
    <3>3. PICK w \in Rows : w = row[p]
      BY <2>4, <3>1
    <3>4. /\ Update(u, d, p, w) \in Counted(u, Nat)
          /\ Update(u, d, p, w).n = d.n + (((p + 1) \div RatioOf(u)) - (p \div RatioOf(u)))
          /\ KeepsFinished(u, d, Update(u, d, p, w))
      BY UpdateKeeps, Zenon
    <3>5. f[k + 1] = Update(u, d, p, w)
      BY <2>4, <3>1, <3>2, <3>3, Zenon
    <3> QED BY <3>1, <3>2, <3>4, <3>5, Zenon
  <2>6. f[k + 1].n = f[k].n + (D(k + 1) - D(k))
    BY <2>2, <2>5, Zenon
  <2>7. D(k) \in Nat /\ D(k + 1) \in Nat /\ D(0) \in Nat
    BY <1>0
  <2> HIDE DEF D
  <2>8. f[k + 1].n = c.n + (D(k + 1) - D(0))
    BY <1>2, <2>3, <2>6, <2>7
  <2>9. KeepsFinished(u, c, f[k + 1])
    BY <2>3, <2>5, Zenon DEF KeepsFinished
  <2> QED BY <2>5, <2>8, <2>9, Zenon
<1> HIDE DEF T, Good
<1>5. n \in T
  BY <1>3, <1>4, NatInduct
<1>6. Good(n)
  BY <1>5 DEF T
<1>7. pos0 + 0 = pos0
  OBVIOUS
<1> QED BY <1>1, <1>6, <1>7, Zenon DEF Good

(* The rows of s make the compressor that of s.                            *)
LEMMA UpdatesShow ==
    ASSUME NEW u \in Unit, NEW c \in Counted(u, Nat), NEW pos0 \in Nat, NEW n \in Nat, NEW s,
           NEW row, \A p \in pos0..(pos0 + n - 1) : row[p] = RowOf(s, p) /\ RowOf(s, p) \in Rows,
           UnitShows(u, c, s, pos0), (pos0 + n) \div RatioOf(u) <= CompCap
    PROVE  UnitShows(u, Updates(u, c, pos0, n, row), s, pos0 + n)
<1>1. PICK f : IsUpdates(f, u, c, pos0, n, row) /\ Updates(u, c, pos0, n, row) = f[n]
  BY UpdatesUnfold
<1> DEFINE Good(k) == f[k] \in Counted(u, Nat) /\ UnitShows(u, f[k], s, pos0 + k)
           T == {k \in Nat : k <= n => Good(k)}
<1>3. 0 \in T
  <2>1. f[0] = c /\ pos0 + 0 = pos0
    BY <1>1 DEF IsUpdates
  <2>2. Good(0)
    BY <2>1, Zenon
  <2> QED BY <2>2
<1>4. ASSUME NEW k \in Nat, k \in T PROVE k + 1 \in T
  <2>1. SUFFICES ASSUME k + 1 <= n PROVE Good(k + 1)
    OBVIOUS
  <2>2. k \in 0..(n - 1) /\ pos0 + k \in pos0..(pos0 + n - 1) /\ pos0 + k \in Nat /\ k <= n
        /\ (pos0 + k) + 1 = pos0 + (k + 1) /\ (pos0 + k) + 1 <= pos0 + n /\ (pos0 + k) + 1 \in Nat /\ pos0 + n \in Nat
    BY <2>1
  <2>3. f[k] \in Counted(u, Nat) /\ UnitShows(u, f[k], s, pos0 + k)
    BY <1>4, <2>2
  <2>4. f[k + 1] = Update(u, f[k], pos0 + k, RowOf(s, pos0 + k)) /\ RowOf(s, pos0 + k) \in Rows
    <3>1. f[k + 1] = Update(u, f[k], pos0 + k, row[pos0 + k])
      BY <1>1, <2>2, Zenon DEF IsUpdates
    <3> QED BY <2>2, <3>1, Zenon
  <2>5. (pos0 + k + 1) \div RatioOf(u) <= CompCap
    <3>1. PICK a \in Nat : a = (pos0 + k + 1) \div RatioOf(u)
      BY <2>2, ClosesIs
    <3>2. PICK b \in Nat : b = (pos0 + n) \div RatioOf(u)
      BY <2>2, ClosesIs
    <3>3. a <= b
      BY <2>2, <3>1, <3>2, UnitFacts, QuotientOrder
    <3>4. b <= CompCap /\ CompCap \in Nat
      BY <3>2, GraphFacts
    <3> QED BY <3>1, <3>3, <3>4
  <2>6. f[k + 1] \in Counted(u, Nat)
    BY <2>2, <2>3, <2>4, UpdateKeeps, Zenon
  <2>7. UnitShows(u, f[k + 1], s, pos0 + k + 1)
    BY <2>2, <2>3, <2>4, <2>5, UpdateShows, Zenon
  <2> QED BY <2>2, <2>6, <2>7, Zenon
<1> HIDE DEF T, Good
<1>5. n \in T
  BY <1>3, <1>4, NatInduct
<1>6. Good(n)
  BY <1>5 DEF T
<1> QED BY <1>1, <1>6, Zenon DEF Good

-----------------------------------------------------------------------------
(* A batch through a compressor.                                           *)
LEMMA MultiplesAdd ==
    ASSUME NEW a \in Nat, NEW b \in Nat, NEW R \in Nat \ {0}, b % R = 0
    PROVE  (a + b) % R = a % R
<1>1. PICK q, r, m : Divides(a, R, q, r, m)
  BY Divided
<1>2. PICK x, y, z : Divides(b, R, x, y, z)
  BY Divided
<1>3. /\ q \in Nat /\ r \in 0..(R - 1) /\ m \in Nat /\ a % R = r /\ a = m + r /\ q * R = m
      /\ x \in Nat /\ z \in Nat /\ b = z + 0 /\ x * R = z
  BY <1>1, <1>2, Zenon DEF Divides
<1>4. (q + x) * R = q * R + x * R
  BY <1>3, SMT
<1>5. a + b = (q + x) * R + r
  <2>1. (q + x) * R = m + z
    BY <1>3, <1>4, Zenon
  <2>2. a + b = (m + z) + r
    BY <1>3
  <2> QED BY <2>1, <2>2, Zenon
<1>6. a + b \in Nat /\ q + x \in Nat
  BY <1>3
<1>7. (a + b) % R = r
  <2>1. PICK k \in Nat : k = q + x
    BY <1>6
  <2>2. PICK c \in Nat : c = a + b
    BY <1>6
  <2>3. c = k * R + r
    BY <1>5, <2>1, <2>2, Zenon
  <2>4. c % R = r
    <3>1. r \in 0..(R - 1) /\ c = k * R + r
      BY <1>3, <2>3, Zenon
    <3> QED BY <3>1, Quotient
  <2> QED BY <2>2, <2>4, Zenon
<1> QED BY <1>3, <1>7, Zenon

Seed(u, c, pos0) == IF pos0 = 0 THEN [c EXCEPT !.n = 0, !.state = Empty(u)] ELSE c

(* A batch from token zero starts with an empty compressor.                *)
LEMMA SeedIs ==
    ASSUME NEW u \in Unit, NEW c \in Compressor(u), NEW pos0 \in Nat
    PROVE  /\ Seed(u, c, pos0) \in Counted(u, Nat)
           /\ Seed(u, c, pos0).n = IF pos0 = 0 THEN 0 ELSE c.n
           /\ pos0 # 0 => Seed(u, c, pos0) = c
           /\ pos0 = 0 => \A s : UnitShows(u, Seed(u, c, pos0), s, pos0)
<1>1. c = [rows |-> c.rows, n |-> c.n, state |-> c.state] /\ c.n \in Nat /\ c.state \in Windows(u)
      /\ c.rows \in [0..(CompCap - 1) -> Windows(u) \cup {NoRow}]
  BY DEF Compressor, Counted
<1>2. CASE pos0 # 0
  <2>1. Seed(u, c, pos0) = c
    BY <1>2 DEF Seed
  <2> QED BY <1>1, <1>2, <2>1 DEF Counted
<1>3. CASE pos0 = 0
  <2>1. Empty(u) \in Windows(u) /\ \A r \in 0..(StateRows(u) - 1) : Empty(u)[r] = NoRow
    BY DEF Empty, Windows, Rows
  <2>2. Seed(u, c, pos0) = [rows |-> c.rows, n |-> 0, state |-> Empty(u)]
    BY <1>1, <1>3 DEF Seed
  <2> DEFINE d == Seed(u, c, pos0)
  <2> HIDE DEF d
  <2>3. d \in Counted(u, Nat) /\ d.n = 0 /\ d.state = Empty(u)
    BY <1>1, <2>1, <2>2 DEF Counted, d
  <2>4. PICK R \in Nat \ {0, 1, 2} : R = RatioOf(u)
    BY UnitFacts
  <2>5. 0 \div R = 0 /\ 0 % R = 0
    <3>1. 0 = 0 * R + 0 /\ 0 \in 0..(R - 1) /\ 0 \in Nat
      BY <2>4
    <3> QED BY <2>4, <3>1, Quotient
  <2>6. ASSUME NEW s PROVE UnitShows(u, d, s, 0)
    <3>1. Pools(u, d, s, 0)
      BY DEF Pools
    <3>2. WindowShows(u, d.state, s, 0)
      <4>1. \A r \in 0..(0 - 1) : d.state[4 + r] = RowOf(s, 0 - 0 + r) /\ d.state[r] = RowOf(s, 0 - 0 + r)
        OBVIOUS
      <4>2. ASSUME R = 4 PROVE \A r \in 0..3 : d.state[r] = Previous(s, 0, r)
        <5>1. StateRows(u) = 8
          BY <2>4, <4>2, UnitFacts, Zenon
        <5>2. \A r \in 0..3 : d.state[r] = NoRow
          BY <2>1, <2>3, <5>1
        <5>3. 0 < 4
          OBVIOUS
        <5> QED BY <5>2, <5>3, Zenon DEF Previous
      <4> QED BY <2>4, <2>5, <4>1, <4>2, Zenon DEF WindowShows
    <3> QED BY <2>3, <2>4, <2>5, <3>1, <3>2, Zenon DEF UnitShows
  <2> QED BY <1>3, <2>3, <2>6, Zenon DEF d
<1> QED BY <1>2, <1>3

(* The state a pooled batch leaves.                                        *)
Rebuilt(u, pos0, n, row) == IF RatioOf(u) = 4 THEN Refreshed(pos0, n, row) ELSE Remainder(u, pos0, n, row)

RowsAre(row, s, pos0, n) == \A p \in pos0..(pos0 + n - 1) : row[p] = RowOf(s, p)

(* The window a batch leaves is the one its tokens belong to, when it ends *)
(* on a multiple of four or the ratio is another.                          *)
LEMMA RebuiltIs ==
    ASSUME NEW u \in Unit, NEW pos0 \in Nat, NEW n \in Nat \ {0}, NEW row,
           \A p \in pos0..(pos0 + n - 1) : row[p] \in Rows,
           RatioOf(u) = 4 => n >= 4
    PROVE  /\ Rebuilt(u, pos0, n, row) \in Windows(u)
           /\ (pos0 + n) % RatioOf(u) = n % RatioOf(u) /\ (RatioOf(u) = 4 => (pos0 + n) % 4 = 0)
                 => \A s : RowsAre(row, s, pos0, n) => WindowShows(u, Rebuilt(u, pos0, n, row), s, pos0 + n)
<1> DEFINE st == Rebuilt(u, pos0, n, row)
<1>0. NoRow \in Rows
  BY DEF Rows
<1>1. CASE RatioOf(u) = 4
  <2>1. StateRows(u) = 8
    BY <1>1, UnitFacts, Zenon
  <2>2. st = [r \in 0..7 |-> IF r < 4 THEN row[pos0 + n - 4 + r] ELSE NoRow]
    BY <1>1 DEF Rebuilt, Refreshed
  <2> HIDE DEF st
  <2>3. n >= 4 /\ \A r \in 0..3 : pos0 + n - 4 + r \in pos0..(pos0 + n - 1)
    BY <1>1
  <2>4. \A r \in 0..7 : r \in 0..3 \/ ~(r < 4)
    OBVIOUS
  <2>5. st \in Windows(u)
    <3>1. \A r \in 0..7 : (IF r < 4 THEN row[pos0 + n - 4 + r] ELSE NoRow) \in Rows
      BY <1>0, <2>3, <2>4, Zenon
    <3>2. 8 - 1 = 7
      OBVIOUS
    <3> QED BY <2>1, <2>2, <3>1, <3>2, Zenon DEF Windows
  <2>6. ASSUME NEW s, RowsAre(row, s, pos0, n), (pos0 + n) % 4 = 0
        PROVE  WindowShows(u, st, s, pos0 + n)
    <3>1. ASSUME NEW r \in 0..3 PROVE st[r] = Previous(s, pos0 + n, r)
      <4>1. st[r] = row[pos0 + n - 4 + r]
        BY <2>2
      <4>2. row[pos0 + n - 4 + r] = RowOf(s, pos0 + n - 4 + r)
        BY <2>3, <2>6, Zenon DEF RowsAre
      <4>3. ~(pos0 + n < 4) /\ (pos0 + n) - 0 - 4 + r = pos0 + n - 4 + r
        BY <2>3
      <4> QED BY <2>6, <4>1, <4>2, <4>3, Zenon DEF Previous
    <3>3. PICK N : N = pos0 + n
      OBVIOUS
    <3>4. PICK F : F = N % RatioOf(u)
      OBVIOUS
    <3>5. F = 0 /\ \A r \in 0..3 : st[r] = Previous(s, N, r)
      BY <1>1, <2>6, <3>1, <3>3, <3>4, Zenon
    <3>6. \A r \in 0..(F - 1) : st[4 + r] = RowOf(s, N - F + r)
      BY <3>5
    <3>7. WindowShows(u, st, s, N)
      BY <1>1, <3>4, <3>5, <3>6, Zenon DEF WindowShows
    <3> QED BY <3>3, <3>7, Zenon
  <2>7. (pos0 + n) % 4 = 0 => \A s : RowsAre(row, s, pos0, n) => WindowShows(u, st, s, pos0 + n)
    BY <2>6, Zenon
  <2> QED BY <1>1, <2>5, <2>7 DEF st
<1>2. CASE RatioOf(u) # 4
  <2>1. PICK f \in 0..n : f = n % RatioOf(u)
    <3>1. PICK R \in Nat \ {0, 1, 2} : R = RatioOf(u)
      BY UnitFacts
    <3>2. PICK f \in 0..(R - 1) : f = n % R
      BY <3>1, DivMod
    <3>3. n - f \in Nat
      BY <3>1, <3>2, ClosesIs
    <3>4. f \in 0..n
      BY <3>2, <3>3
    <3> QED BY <3>1, <3>2, <3>4
  <2>2. st = [r \in 0..(StateRows(u) - 1) |-> IF r < f THEN row[pos0 + n - f + r] ELSE NoRow]
    BY <1>2, <2>1, UnitFacts, Zenon DEF Rebuilt, Remainder
  <2> HIDE DEF st
  <2>3. \A r \in 0..(f - 1) : pos0 + n - f + r \in pos0..(pos0 + n - 1)
    BY <2>1
  <2>4. StateRows(u) \in Nat /\ \A r \in 0..(StateRows(u) - 1) : r < f => r \in 0..(f - 1)
    BY <2>1, UnitFacts
  <2>5. st \in Windows(u)
    <3>1. \A r \in 0..(StateRows(u) - 1) : (IF r < f THEN row[pos0 + n - f + r] ELSE NoRow) \in Rows
      BY <1>0, <2>3, <2>4, Zenon
    <3> QED BY <2>2, <3>1, Zenon DEF Windows
  <2>6. ASSUME NEW s, RowsAre(row, s, pos0, n), (pos0 + n) % RatioOf(u) = f
        PROVE  WindowShows(u, st, s, pos0 + n)
    <3>1. ASSUME NEW r \in 0..(f - 1) PROVE st[r] = RowOf(s, pos0 + n - f + r)
      <4>1. r < f /\ r \in 0..(StateRows(u) - 1)
        <5>1. PICK R \in Nat \ {0, 1, 2} : R = RatioOf(u)
          BY UnitFacts
        <5>2. f \in 0..(R - 1) /\ StateRows(u) = R
          BY <1>2, <2>1, <5>1, UnitFacts, DivMod
        <5> QED BY <5>1, <5>2
      <4>2. row[pos0 + n - f + r] = RowOf(s, pos0 + n - f + r)
        BY <2>3, <2>6, Zenon DEF RowsAre
      <4>3. st[r] = row[pos0 + n - f + r]
        BY <2>2, <4>1
      <4> QED BY <4>2, <4>3, Zenon
    <3>3. PICK N : N = pos0 + n
      OBVIOUS
    <3>4. PICK F : F = N % RatioOf(u)
      OBVIOUS
    <3>5. F = f
      BY <2>6, <3>3, <3>4, Zenon
    <3>6. ASSUME NEW r \in 0..(F - 1) PROVE st[r] = RowOf(s, N - F + r)
      <4>1. r \in 0..(f - 1) /\ N - F + r = pos0 + n - f + r
        BY <3>3, <3>5
      <4> QED BY <3>1, <4>1
    <3>7. WindowShows(u, st, s, N)
      BY <1>2, <3>4, <3>6, Zenon DEF WindowShows
    <3> QED BY <3>3, <3>7, Zenon
  <2>7. (pos0 + n) % RatioOf(u) = f => \A s : RowsAre(row, s, pos0, n) => WindowShows(u, st, s, pos0 + n)
    BY <2>6, Zenon
  <2> QED BY <1>2, <2>1, <2>5, <2>7 DEF st
<1> QED BY <1>1, <1>2

(* Rebuilding the state only changes the state.                            *)
LEMMA PooledParts ==
    ASSUME NEW u \in Unit, NEW v \in Counted(u, Nat), NEW st \in Windows(u),
           NEW d, d = [v EXCEPT !.state = st]
    PROVE  /\ d \in Counted(u, Nat) /\ d.n = v.n
           /\ d.n <= CompCap => d \in Compressor(u)
           /\ KeepsFinished(u, v, d)
           /\ \A s, n : UnitShows(u, v, s, n) /\ WindowShows(u, st, s, n) => UnitShows(u, d, s, n)
<1>1. v = [rows |-> v.rows, n |-> v.n, state |-> v.state] /\ v.n \in Nat
      /\ v.rows \in [0..(CompCap - 1) -> Windows(u) \cup {NoRow}]
  BY DEF Counted
<1>2. d = [rows |-> v.rows, n |-> v.n, state |-> st]
  BY <1>1
<1>3. d \in Counted(u, Nat) /\ d.n = v.n /\ d.state = st /\ d.rows = v.rows
  <2>1. d.n = v.n /\ d.state = st /\ d.rows = v.rows
    BY <1>2
  <2>2. d \in Counted(u, Nat)
    BY <1>1, <1>2, Zenon DEF Counted
  <2> QED BY <2>1, <2>2
<1>4. d.n <= CompCap => d \in Compressor(u)
  BY <1>1, <1>2, GraphFacts DEF Counted, Compressor
<1>5. \A s, k : Pools(u, v, s, k) => Pools(u, d, s, k)
  BY <1>3, Zenon DEF Pools
<1>6. KeepsFinished(u, v, d)
  BY <1>3, <1>5, Zenon DEF KeepsFinished, UnitKeeps
<1>7. \A s, n : UnitShows(u, v, s, n) /\ WindowShows(u, st, s, n) => UnitShows(u, d, s, n)
  BY <1>3, <1>5, Zenon DEF UnitShows
<1> QED BY <1>3, <1>4, <1>6, <1>7, Zenon

(* A compressor, made of its parts.                                        *)
LEMMA CompressorIs ==
    ASSUME NEW u \in Unit
    PROVE  /\ \A c \in Compressor(u) : c \in Counted(u, Nat) /\ c.n \in 0..CompCap
           /\ \A c \in Counted(u, Nat) : c.n <= CompCap => c \in Compressor(u)
BY GraphFacts DEF Counted, Compressor

(* A batch keeps a compressor exact; right or not, it keeps the rows       *)
(* pooled before.                                                          *)
LEMMA BatchedIs ==
    ASSUME NEW u \in Unit, NEW c \in Compressor(u), NEW pos0 \in Nat, NEW n \in Nat \ {0},
           NEW row, \A p \in pos0..(pos0 + n - 1) : row[p] \in Rows,
           Batchable(u, c, pos0, n)
    PROVE  /\ Batched(u, c, pos0, n, row) \in Compressor(u)
           /\ pos0 # 0 => KeepsFinished(u, c, Batched(u, c, pos0, n, row))
           /\ \A s : /\ RowsAre(row, s, pos0, n)
                     /\ pos0 # 0 => UnitShows(u, c, s, pos0)
                     /\ pos0 = 0 /\ RatioOf(u) = 4 => n % 4 = 0
                     => UnitShows(u, Batched(u, c, pos0, n, row), s, pos0 + n)
<1> DEFINE d == Batched(u, c, pos0, n, row)
           seed == Seed(u, c, pos0)
           v == Updates(u, seed, pos0, n, row)
           st == Rebuilt(u, pos0, n, row)
<1>1. PICK R \in Nat \ {0, 1, 2} : R = RatioOf(u)
  BY UnitFacts
<1>2. PICK A \in Nat, B \in Nat : A = pos0 \div R /\ B = (pos0 + n) \div R
  <2>1. pos0 + n \in Nat
    OBVIOUS
  <2> QED BY <1>1, <2>1, ClosesIs
<1>3. pos0 = 0 => A = 0
  <2>1. 0 = 0 * R + 0 /\ 0 \in 0..(R - 1) /\ 0 \in Nat
    BY <1>1
  <2> QED BY <1>1, <1>2, <2>1, Quotient
<1>4. (pos0 = 0 /\ R = 4 => n >= 4) /\ (IF pos0 = 0 THEN 0 ELSE c.n) + B - A <= CompCap
  <2>1. /\ pos0 = 0 /\ RatioOf(u) = 4 => n >= 4
        /\ (IF pos0 = 0 THEN 0 ELSE c.n) + ((pos0 + n) \div RatioOf(u)) - (pos0 \div RatioOf(u)) <= CompCap
    BY DEF Batchable
  <2> QED BY <1>1, <1>2, <2>1
<1>5. seed \in Counted(u, Nat) /\ seed.n = (IF pos0 = 0 THEN 0 ELSE c.n) /\ (pos0 # 0 => seed = c)
      /\ (pos0 = 0 => \A s : UnitShows(u, seed, s, pos0))
  BY SeedIs
<1> HIDE DEF seed
<1>6. v \in Counted(u, Nat) /\ v.n = seed.n + (B - A) /\ KeepsFinished(u, seed, v)
  <2>1. n \in Nat
    OBVIOUS
  <2>2. /\ v \in Counted(u, Nat) /\ KeepsFinished(u, seed, v)
        /\ v.n = seed.n + (((pos0 + n) \div RatioOf(u)) - (pos0 \div RatioOf(u)))
    BY <1>5, <2>1, UpdatesKeep
  <2> QED BY <1>1, <1>2, <2>2
<1>7. v.n <= CompCap
  <2>1. seed.n \in Nat /\ CompCap \in Nat
    BY <1>5, GraphFacts DEF Counted
  <2> QED BY <1>2, <1>4, <1>5, <1>6, <2>1
<1>8. ASSUME NEW s, RowsAre(row, s, pos0, n), pos0 # 0 => UnitShows(u, c, s, pos0)
      PROVE  UnitShows(u, v, s, pos0 + n)
  <2>1. \A p \in pos0..(pos0 + n - 1) : row[p] = RowOf(s, p) /\ RowOf(s, p) \in Rows
    BY <1>8, Zenon DEF RowsAre
  <2>2. UnitShows(u, seed, s, pos0)
    BY <1>5, <1>8, Zenon
  <2>3. B <= CompCap
    <3>1. CASE pos0 = 0
      <4>1. CompCap \in Nat
        BY GraphFacts
      <4> QED BY <1>2, <1>3, <1>4, <3>1, <4>1
    <3>2. CASE pos0 # 0
      <4>1. c.n = A /\ CompCap \in Nat
        BY <1>1, <1>2, <1>8, <3>2, GraphFacts DEF UnitShows
      <4> QED BY <1>2, <1>4, <3>2, <4>1
    <3> QED BY <3>1, <3>2
  <2>4. n \in Nat /\ (pos0 + n) \div RatioOf(u) <= CompCap
    BY <1>1, <1>2, <2>3, Zenon
  <2> QED BY <1>5, <2>1, <2>2, <2>4, UpdatesShow, Zenon
<1> HIDE DEF v
<1>9. CASE pos0 = 0 \/ Aligned(u, pos0, n)
  <2>1. d = [v EXCEPT !.state = st]
    BY <1>9, Zenon DEF Batched, Pooled, Seed, Rebuilt, d, v, seed, st
  <2>2. pos0 # 0 => pos0 % R = 0 /\ n % R = 0
    BY <1>1, <1>9, Zenon DEF Aligned
  <2>3. R = 4 => n >= 4
    <3>1. CASE pos0 = 0
      BY <1>4, <3>1
    <3>2. CASE pos0 # 0
      <4>1. R = 4 => n % 4 = 0
        BY <2>2, <3>2
      <4> QED BY <4>1
    <3> QED BY <3>1, <3>2
  <2>4. (pos0 + n) % R = n % R
    <3>1. CASE pos0 = 0
      BY <3>1
    <3>2. CASE pos0 # 0
      <4>1. (n + pos0) % R = n % R
        <5>1. R \in Nat \ {0} /\ n \in Nat /\ pos0 % R = 0
          BY <1>1, <2>2, <3>2
        <5> QED BY <5>1, MultiplesAdd, Zenon
      <4>2. n + pos0 = pos0 + n
        OBVIOUS
      <4> QED BY <4>1, <4>2, Zenon
    <3> QED BY <3>1, <3>2
  <2>5. st \in Windows(u)
    BY <1>1, <2>3, RebuiltIs, Zenon
  <2>6. ASSUME NEW s, RowsAre(row, s, pos0, n), pos0 = 0 /\ RatioOf(u) = 4 => n % 4 = 0
        PROVE  WindowShows(u, st, s, pos0 + n)
    <3>1. R = 4 => (pos0 + n) % 4 = 0
      <4>1. ASSUME R = 4 PROVE n % 4 = 0
        <5>1. pos0 # 0 => n % 4 = 0
          BY <2>2, <4>1, Zenon
        <5> QED BY <1>1, <2>6, <4>1, <5>1, Zenon
      <4> QED BY <2>4, <4>1
    <3>2. (pos0 + n) % RatioOf(u) = n % RatioOf(u) /\ (RatioOf(u) = 4 => (pos0 + n) % 4 = 0)
          /\ (RatioOf(u) = 4 => n >= 4)
      BY <1>1, <2>3, <2>4, <3>1, Zenon
    <3> QED BY <2>6, <3>2, RebuiltIs, Zenon
  <2> HIDE DEF d, st
  <2>7. /\ d \in Counted(u, Nat) /\ d.n = v.n
        /\ d.n <= CompCap => d \in Compressor(u)
        /\ KeepsFinished(u, v, d)
        /\ \A s, m : UnitShows(u, v, s, m) /\ WindowShows(u, st, s, m) => UnitShows(u, d, s, m)
    BY <1>6, <2>1, <2>5, PooledParts
  <2>8. d \in Compressor(u)
    BY <1>7, <2>7, Zenon
  <2>9. pos0 # 0 => KeepsFinished(u, c, d)
    BY <1>5, <1>6, <2>7, Zenon DEF KeepsFinished
  <2>10. ASSUME NEW s, RowsAre(row, s, pos0, n), pos0 # 0 => UnitShows(u, c, s, pos0),
                pos0 = 0 /\ RatioOf(u) = 4 => n % 4 = 0
         PROVE  UnitShows(u, d, s, pos0 + n)
    BY <1>8, <2>6, <2>7, <2>10, Zenon
  <2> QED BY <2>8, <2>9, <2>10, Zenon DEF d
<1>10. CASE ~(pos0 = 0 \/ Aligned(u, pos0, n))
  <2>1. d = v /\ pos0 # 0 /\ seed = c
    BY <1>5, <1>10, Zenon DEF Batched, d, v, Seed
  <2>2. d \in Compressor(u)
    BY <1>6, <1>7, <2>1, CompressorIs, Zenon
  <2> HIDE DEF d
  <2>3. KeepsFinished(u, c, d)
    BY <1>6, <2>1, Zenon
  <2>4. ASSUME NEW s, RowsAre(row, s, pos0, n), pos0 # 0 => UnitShows(u, c, s, pos0)
        PROVE  UnitShows(u, d, s, pos0 + n)
    BY <1>8, <2>1, <2>4, Zenon
  <2> QED BY <2>2, <2>3, <2>4, Zenon DEF d
<1> QED BY <1>9, <1>10

-----------------------------------------------------------------------------
(* Rings.  The ring has the rows of s from lo (or zero) up to n; positions *)
(* lo .. hi - 1 have slots of their own.                                   *)
Rings == [0..(RawCap - 1) -> Rows]
RingShows(ring, s, lo, n) == \A q \in 0..(n - 1) : lo <= q => ring[q % RawCap] = RowOf(s, q)
Apart(lo, hi) == hi - lo <= RawCap \/ hi <= RawCap

(* The slot of a position.                                                 *)
LEMMA SlotIs ==
    ASSUME NEW p \in Nat
    PROVE  p % RawCap \in 0..(RawCap - 1)
BY GraphFacts, DivMod

IsRingAfter(next, ring, pos0, n, row) ==
    /\ next \in Rings
    /\ \A p \in pos0..(pos0 + n - 1) : pos0 + n <= p + RawCap => next[p % RawCap] = row[p]
    /\ \A q \in 0..(pos0 - 1) : pos0 + n <= q + RawCap => next[q % RawCap] = ring[q % RawCap]

(* The rows of the batch that nothing newer overwrites are in the ring,    *)
(* and every other slot is as it was.                                      *)
LEMMA RingAfterIs ==
    ASSUME NEW ring \in Rings, NEW pos0 \in Nat, NEW n \in Nat, NEW row,
           \A p \in pos0..(pos0 + n - 1) : row[p] \in Rows,
           NEW next, next = RingAfter(ring, pos0..(pos0 + n - 1), row)
    PROVE  IsRingAfter(next, ring, pos0, n, row)
<1> DEFINE at == pos0..(pos0 + n - 1)
           Newest(slot) == {p \in at : p % RawCap = slot /\ p + RawCap \notin at}
           Value(slot) == IF Newest(slot) = {} THEN ring[slot] ELSE row[CHOOSE p \in Newest(slot) : TRUE]
<1>0. RawCap \in Nat \ {0}
  BY GraphFacts
<1>1. next = [slot \in 0..(RawCap - 1) |-> Value(slot)]
  BY DEF RingAfter
<1>2. ASSUME NEW slot \in 0..(RawCap - 1) PROVE Value(slot) \in Rows
  <2>1. CASE Newest(slot) = {}
    <3> HIDE DEF Newest
    <3> QED BY <2>1 DEF Rings
  <2>2. CASE Newest(slot) # {}
    <3>1. (CHOOSE p \in Newest(slot) : TRUE) \in Newest(slot)
      <4> HIDE DEF Newest
      <4> QED BY <2>2
    <3>2. (CHOOSE p \in Newest(slot) : TRUE) \in at
      BY <3>1
    <3> HIDE DEF Newest
    <3> QED BY <2>2, <3>2
  <2> QED BY <2>1, <2>2
<1>3. next \in Rings
  <2> HIDE DEF Value
  <2> QED BY <1>1, <1>2, Zenon DEF Rings
<1>4. ASSUME NEW p \in at, pos0 + n <= p + RawCap PROVE next[p % RawCap] = row[p]
  <2>1. p \in Nat /\ p + RawCap \notin at
    BY <1>0, <1>4
  <2>2. p \in Newest(p % RawCap)
    BY <2>1
  <2>3. ASSUME NEW x \in Newest(p % RawCap) PROVE x = p
    <3>1. x \in at /\ x % RawCap = p % RawCap /\ x + RawCap \notin at /\ x \in Nat
      BY <2>3
    <3>2. ASSUME p < x PROVE FALSE
      <4>1. x < p + RawCap
        BY <1>0, <1>4, <3>1
      <4> QED BY <1>0, <2>1, <3>1, <3>2, <4>1, SlotsDiffer
    <3>3. ASSUME x < p PROVE FALSE
      <4>1. p < x + RawCap
        BY <1>0, <2>1, <3>1, <3>3
      <4> QED BY <1>0, <2>1, <3>1, <3>3, <4>1, SlotsDiffer
    <3> QED BY <2>1, <3>1, <3>2, <3>3
  <2> HIDE DEF Newest
  <2>4. (CHOOSE x \in Newest(p % RawCap) : TRUE) = p
    BY <2>2, <2>3
  <2>5. Value(p % RawCap) = row[p]
    BY <2>2, <2>4, Zenon
  <2> HIDE DEF Value
  <2> QED BY <1>1, <2>1, <2>5, SlotIs
<1>5. ASSUME NEW q \in 0..(pos0 - 1), pos0 + n <= q + RawCap PROVE next[q % RawCap] = ring[q % RawCap]
  <2>1. ASSUME NEW x \in Newest(q % RawCap) PROVE FALSE
    <3>1. x \in at /\ x % RawCap = q % RawCap /\ x \in Nat /\ q \in Nat
      BY <2>1
    <3>2. q < x /\ x < q + RawCap
      BY <1>0, <1>5, <3>1
    <3> QED BY <1>0, <3>1, <3>2, SlotsDiffer
  <2>2. Newest(q % RawCap) = {}
    BY <2>1
  <2> HIDE DEF Newest
  <2>3. Value(q % RawCap) = ring[q % RawCap]
    BY <2>2, Zenon
  <2>4. q \in Nat
    OBVIOUS
  <2> HIDE DEF Value
  <2> QED BY <1>1, <2>3, <2>4, SlotIs
<1> QED BY <1>3, <1>4, <1>5 DEF IsRingAfter

(* A batch adds its rows, and leaves the ones before it that have room.    *)
LEMMA RingBatch ==
    ASSUME NEW ring \in Rings, NEW pos0 \in Nat, NEW n \in Nat, NEW row,
           \A p \in pos0..(pos0 + n - 1) : row[p] \in Rows,
           NEW next, next = RingAfter(ring, pos0..(pos0 + n - 1), row),
           NEW lo \in Int, Apart(lo, pos0 + n)
    PROVE  /\ \A s : RowsAre(row, s, pos0, n) /\ (pos0 # 0 => RingShows(ring, s, lo, pos0))
                        => RingShows(next, s, lo, pos0 + n)
           /\ \A s, m : m \in 0..pos0 /\ RingShows(ring, s, lo, m) => RingShows(next, s, lo, m)
<1>0. RawCap \in Nat \ {0}
  BY GraphFacts
<1>1. /\ \A p \in pos0..(pos0 + n - 1) : pos0 + n <= p + RawCap => next[p % RawCap] = row[p]
      /\ \A q \in 0..(pos0 - 1) : pos0 + n <= q + RawCap => next[q % RawCap] = ring[q % RawCap]
  <2>1. IsRingAfter(next, ring, pos0, n, row)
    BY RingAfterIs, Zenon
  <2> QED BY <2>1, Zenon DEF IsRingAfter
<1>2. \A q \in 0..(pos0 + n - 1) : lo <= q => pos0 + n <= q + RawCap
  BY <1>0 DEF Apart
<1>3. ASSUME NEW s, RowsAre(row, s, pos0, n), pos0 # 0 => RingShows(ring, s, lo, pos0)
      PROVE  RingShows(next, s, lo, pos0 + n)
  <2>1. ASSUME NEW q \in 0..(pos0 + n - 1), lo <= q PROVE next[q % RawCap] = RowOf(s, q)
    <3>1. q \in pos0..(pos0 + n - 1) \/ (q \in 0..(pos0 - 1) /\ pos0 # 0)
      OBVIOUS
    <3>2. CASE q \in pos0..(pos0 + n - 1)
      BY <1>1, <1>2, <1>3, <2>1, <3>2, Zenon DEF RowsAre
    <3>3. CASE q \in 0..(pos0 - 1) /\ pos0 # 0
      BY <1>1, <1>2, <1>3, <2>1, <3>3, Zenon DEF RingShows
    <3> QED BY <3>1, <3>2, <3>3
  <2> QED BY <2>1 DEF RingShows
<1>4. ASSUME NEW s, NEW m \in 0..pos0, RingShows(ring, s, lo, m) PROVE RingShows(next, s, lo, m)
  <2>1. ASSUME NEW q \in 0..(m - 1), lo <= q PROVE next[q % RawCap] = RowOf(s, q)
    <3>1. q \in 0..(pos0 - 1) /\ q \in 0..(pos0 + n - 1)
      OBVIOUS
    <3> QED BY <1>1, <1>2, <1>4, <2>1, <3>1, Zenon DEF RingShows
  <2> QED BY <2>1, Zenon DEF RingShows
<1> QED BY <1>3, <1>4, Zenon

RingTakes(next, ring, pos0, n, row) ==
    \A lo \in Int : Apart(lo, pos0 + n) =>
        /\ \A s : RowsAre(row, s, pos0, n) /\ (pos0 # 0 => RingShows(ring, s, lo, pos0))
                    => RingShows(next, s, lo, pos0 + n)
        /\ \A s, m : m \in 0..pos0 /\ RingShows(ring, s, lo, m) => RingShows(next, s, lo, m)

(* The same for every start of the rows that are needed.                   *)
LEMMA RingBatches ==
    ASSUME NEW ring \in Rings, NEW pos0 \in Nat, NEW n \in Nat, NEW row,
           \A p \in pos0..(pos0 + n - 1) : row[p] \in Rows,
           NEW next, next = RingAfter(ring, pos0..(pos0 + n - 1), row)
    PROVE  RingTakes(next, ring, pos0, n, row)
BY RingBatch DEF RingTakes

(* The same for one token.                                                 *)
LEMMA RingWrite ==
    ASSUME NEW ring \in Rings, NEW p \in Nat, NEW row \in Rows,
           NEW next, next = [ring EXCEPT ![RawSlot(p)] = row],
           NEW lo \in Int, Apart(lo, p + 1)
    PROVE  /\ next \in Rings /\ next[p % RawCap] = row
           /\ \A s : row = RowOf(s, p) /\ RingShows(ring, s, lo, p) => RingShows(next, s, lo, p + 1)
           /\ \A s, m : m \in 0..p /\ RingShows(ring, s, lo, m) => RingShows(next, s, lo, m)
<1>0. RawCap \in Nat \ {0} /\ p % RawCap \in 0..(RawCap - 1)
  BY GraphFacts, SlotIs
<1>1. /\ next \in Rings
      /\ \A i \in 0..(RawCap - 1) : next[i] = IF i = p % RawCap THEN row ELSE ring[i]
  BY <1>0 DEF Rings, RawSlot
<1>2. next[p % RawCap] = row
  BY <1>0, <1>1
<1>3. ASSUME NEW q \in 0..(p - 1), lo <= q PROVE next[q % RawCap] = ring[q % RawCap]
  <2>1. q \in Nat /\ q < p /\ p < q + RawCap
    BY <1>0, <1>3 DEF Apart
  <2>2. q % RawCap # p % RawCap
    BY <1>0, <2>1, SlotsDiffer
  <2>3. q % RawCap \in 0..(RawCap - 1)
    BY <2>1, SlotIs
  <2> QED BY <1>1, <2>2, <2>3
<1>4. ASSUME NEW s, row = RowOf(s, p), RingShows(ring, s, lo, p) PROVE RingShows(next, s, lo, p + 1)
  <2>1. ASSUME NEW q \in 0..((p + 1) - 1), lo <= q PROVE next[q % RawCap] = RowOf(s, q)
    <3>1. q = p \/ q \in 0..(p - 1)
      OBVIOUS
    <3>2. CASE q = p
      BY <1>2, <1>4, <3>2
    <3>3. CASE q \in 0..(p - 1)
      BY <1>3, <1>4, <2>1, <3>3, Zenon DEF RingShows
    <3> QED BY <3>1, <3>2, <3>3
  <2> QED BY <2>1, Zenon DEF RingShows
<1>5. ASSUME NEW s, NEW m \in 0..p, RingShows(ring, s, lo, m) PROVE RingShows(next, s, lo, m)
  <2>1. ASSUME NEW q \in 0..(m - 1), lo <= q PROVE next[q % RawCap] = RowOf(s, q)
    <3>1. q \in 0..(p - 1)
      OBVIOUS
    <3> QED BY <1>3, <1>5, <2>1, <3>1, Zenon DEF RingShows
  <2> QED BY <2>1, Zenon DEF RingShows
<1> QED BY <1>1, <1>2, <1>4, <1>5, Zenon

(* Attention at position p of a batch finds its window in the ring.        *)
LEMMA RawRightIs ==
    ASSUME NEW ring, NEW s, NEW lo \in Int, NEW pos0 \in Nat, NEW n \in Nat \ {0},
           RingShows(ring, s, lo, pos0 + n), Apart(lo, pos0 + n), lo + Window <= pos0 + 1,
           NEW p \in pos0..(pos0 + n - 1)
    PROVE  RawRight(ring, s, pos0, n, p)
<1>0. RawCap \in Nat \ {0} /\ Window \in Nat \ {0}
  BY GraphFacts
<1> DEFINE span == RawSpan(pos0, n)
<1>1. \/ n = 1 /\ span = Window
      \/ span = Window + n
      \/ span = pos0 + n
      \/ span = RawCap
  BY DEF RawSpan, Least
<1> HIDE DEF span
<1>2. ASSUME NEW q \in (IF p < Window THEN 0 ELSE p - Window + 1)..p
      PROVE  q >= pos0 + n - RawSpan(pos0, n) /\ ring[q % RawCap] = RowOf(s, q)
  <2>1. q \in 0..(pos0 + n - 1) /\ p < q + Window
    BY <1>0
  <2>2. lo <= q
    BY <1>0, <2>1
  <2>3. ring[q % RawCap] = RowOf(s, q)
    BY <2>1, <2>2 DEF RingShows
  <2>4. q >= pos0 + n - span
    <3>1. CASE n = 1 /\ span = Window
      BY <1>0, <2>1, <3>1
    <3>2. CASE span = Window + n
      BY <1>0, <2>1, <3>2
    <3>3. CASE span = pos0 + n
      BY <1>0, <2>1, <3>3
    <3>4. CASE span = RawCap
      BY <1>0, <2>1, <2>2, <3>4 DEF Apart
    <3> QED BY <1>1, <3>1, <3>2, <3>3, <3>4
  <2> QED BY <2>3, <2>4 DEF span
<1> QED BY <1>2, Zenon DEF RawRight

-----------------------------------------------------------------------------
(* The graph.                                                              *)
Units == {f \in [Unit -> UNION {Compressor(u) : u \in Unit}] : \A u \in Unit : f[u] \in Compressor(u)}
Graphs == [raw : [Layer -> Rings], unit : Units]

(* Compressors, one for each unit.                                         *)
LEMMA UnitsAre ==
    ASSUME NEW f, f = [u \in Unit |-> f[u]], \A u \in Unit : f[u] \in Compressor(u)
    PROVE  f \in Units
BY DEF Units

(* The parts of a graph.                                                   *)
LEMMA GraphParts ==
    ASSUME NEW h \in Graphs
    PROVE  /\ h.raw \in [Layer -> Rings] /\ h = [raw |-> h.raw, unit |-> h.unit]
           /\ h.unit = [u \in Unit |-> h.unit[u]]
           /\ \A l \in Layer : h.raw[l] \in Rings
           /\ \A u \in Unit : h.unit[u] \in Compressor(u)
BY DEF Graphs, Units

(* A layer, and the graph, after n tokens of s: exactly, or at least with  *)
(* the rows that belong to them.                                           *)
LayerShows(h, l, s, lo, n) ==
    /\ RingShows(h.raw[l], s, lo, n)
    /\ \A u \in Unit : u[1] = l => UnitShows(u, h.unit[u], s, n)

LayerHas(h, l, s, lo, n) ==
    /\ RingShows(h.raw[l], s, lo, n)
    /\ \A u \in Unit : u[1] = l => UnitKeeps(u, h.unit[u], s, n)

GraphShows(h, s, lo, n) == \A l \in Layer : LayerShows(h, l, s, lo, n)
GraphHas(h, s, lo, n)   == \A l \in Layer : LayerHas(h, l, s, lo, n)

(* An exact graph has at least the rows.                                   *)
LEMMA ShowsMeansHas ==
    ASSUME NEW h \in Graphs, NEW s, NEW lo, NEW n \in Nat
    PROVE  /\ \A l \in Layer : LayerShows(h, l, s, lo, n) => LayerHas(h, l, s, lo, n)
           /\ GraphShows(h, s, lo, n) => GraphHas(h, s, lo, n)
<1>1. ASSUME NEW u \in Unit, UnitShows(u, h.unit[u], s, n) PROVE UnitKeeps(u, h.unit[u], s, n)
  <2>1. PICK a \in Nat : a = n \div RatioOf(u)
    BY ClosesIs
  <2>2. h.unit[u].n = a /\ Pools(u, h.unit[u], s, a)
    BY <1>1, <2>1, Zenon DEF UnitShows
  <2>3. a <= h.unit[u].n
    BY <2>2
  <2> QED BY <2>1, <2>2, <2>3, Zenon DEF UnitKeeps
<1>2. \A l \in Layer : LayerShows(h, l, s, lo, n) => LayerHas(h, l, s, lo, n)
  BY <1>1, Zenon DEF LayerShows, LayerHas
<1> QED BY <1>2, Zenon DEF GraphShows, GraphHas

(* A step that works on layer l only, and one that keeps what layer l has  *)
(* of the first p tokens when it writes up to hi.                          *)
OnlyLayer(h, k, l) ==
    /\ \A m \in Layer : m # l => k.raw[m] = h.raw[m]
    /\ \A u \in Unit : u[1] # l => k.unit[u] = h.unit[u]

KeepsLayer(h, k, l, p, hi) ==
    \A s, lo, n : lo \in Int /\ n \in 0..p /\ Apart(lo, hi) /\ LayerHas(h, l, s, lo, n) => LayerHas(k, l, s, lo, n)

(* New rows from position p on leave what belongs to the positions before  *)
(* them.                                                                   *)
LEMMA KeepsLayerIs ==
    ASSUME NEW h \in Graphs, NEW k \in Graphs, NEW l \in Layer, NEW p \in Nat, NEW hi,
           \A lo, s, m : /\ lo \in Int /\ Apart(lo, hi) /\ m \in 0..p /\ RingShows(h.raw[l], s, lo, m)
                         => RingShows(k.raw[l], s, lo, m),
           \A u \in Unit : u[1] = l => KeepsFinished(u, h.unit[u], k.unit[u])
    PROVE  KeepsLayer(h, k, l, p, hi)
<1>1. ASSUME NEW s, NEW lo \in Int, NEW n \in 0..p, Apart(lo, hi), LayerHas(h, l, s, lo, n)
      PROVE  LayerHas(k, l, s, lo, n)
  <2>1. RingShows(k.raw[l], s, lo, n)
    BY <1>1, Zenon DEF LayerHas
  <2>2. ASSUME NEW u \in Unit, u[1] = l PROVE UnitKeeps(u, k.unit[u], s, n)
    <3>1. UnitKeeps(u, h.unit[u], s, n) /\ KeepsFinished(u, h.unit[u], k.unit[u])
      BY <1>1, <2>2, Zenon DEF LayerHas
    <3>2. n \in Nat /\ n \div RatioOf(u) <= CompCap
      <4>1. PICK a \in Nat : a = n \div RatioOf(u)
        BY ClosesIs
      <4>2. a <= h.unit[u].n
        BY <3>1, <4>1, Zenon DEF UnitKeeps
      <4>3. h.unit[u].n \in 0..CompCap /\ CompCap \in Nat
        BY GraphParts, CompressorIs, GraphFacts
      <4> QED BY <4>1, <4>2, <4>3
    <3> QED BY <3>1, <3>2, Zenon DEF KeepsFinished
  <2> QED BY <2>1, <2>2, Zenon DEF LayerHas
<1> QED BY <1>1, Zenon DEF KeepsLayer

(* What attention needs of the compressors.                                *)
LEMMA PoolsBefore ==
    ASSUME NEW u \in Unit, NEW c, NEW s, NEW n \in Nat, UnitShows(u, c, s, n), NEW m \in 0..n
    PROVE  /\ m \div RatioOf(u) \in Nat /\ c.n \in Nat /\ m \div RatioOf(u) <= c.n
           /\ Pools(u, c, s, m \div RatioOf(u))
<1>1. PICK a \in Nat : a = n \div RatioOf(u)
  BY ClosesIs
<1>2. PICK b \in Nat : b = m \div RatioOf(u)
  BY ClosesIs
<1>3. b <= a
  <2>1. m \in Nat /\ m <= n /\ RatioOf(u) \in Nat \ {0}
    BY UnitFacts
  <2> QED BY <1>1, <1>2, <2>1, QuotientOrder
<1>4. c.n = a /\ \A k \in 0..(a - 1) : c.rows[k] = CompRowOf(u, s, k)
  BY <1>1, Zenon DEF UnitShows, Pools
<1>5. \A k \in 0..(b - 1) : c.rows[k] = CompRowOf(u, s, k)
  <2>1. \A k \in 0..(b - 1) : k \in 0..(a - 1)
    BY <1>3
  <2> QED BY <1>4, <2>1, Zenon
<1>6. Pools(u, c, s, b)
  BY <1>5, Zenon DEF Pools
<1> QED BY <1>2, <1>3, <1>4, <1>6

(* Attention over an exact compressor reads the right rows.                *)
LEMMA CompRightIs ==
    ASSUME NEW h \in Graphs, NEW l \in Layer, NEW s, NEW n \in Nat, NEW p \in 0..(n - 1),
           \A u \in Unit : u[1] = l => UnitShows(u, h.unit[u], s, n),
           NEW count, Ratio[l] # 0 => count = (p + 1) \div Ratio[l]
    PROVE  CompRight(h.unit, l, s, p, count)
<1>1. SUFFICES ASSUME Ratio[l] # 0 PROVE CompRight(h.unit, l, s, p, count)
  BY DEF CompRight
<1> DEFINE A == <<l, "attn">>
           I == <<l, "index">>
<1>2. p + 1 \in 0..n
  OBVIOUS
<1>3. ASSUME NEW u \in Unit, u[1] = l
      PROVE  count \in Nat /\ h.unit[u].n \in Nat /\ count <= h.unit[u].n /\ RowsRight(u, h.unit[u], s, count)
  <2>1. RatioOf(u) = Ratio[l]
    BY <1>3 DEF RatioOf
  <2>2. UnitShows(u, h.unit[u], s, n)
    BY <1>3
  <2>3. /\ (p + 1) \div RatioOf(u) \in Nat /\ h.unit[u].n \in Nat /\ (p + 1) \div RatioOf(u) <= h.unit[u].n
        /\ Pools(u, h.unit[u], s, (p + 1) \div RatioOf(u))
    BY <1>2, <2>2, PoolsBefore
  <2>4. count = (p + 1) \div RatioOf(u)
    BY <1>1, <2>1, Zenon
  <2> QED BY <2>3, <2>4, Zenon DEF Pools, RowsRight
<1>4. A \in Unit /\ A[1] = l
  BY <1>1, GraphFacts
<1>5. Ratio[l] = 4 => I \in Unit /\ I[1] = l
  BY GraphFacts
<1> HIDE DEF A, I
<1>6. RowsRight(A, h.unit[A], s, count)
  BY <1>3, <1>4, Zenon
<1>7. Ratio[l] = 4 => h.unit[I].n >= count /\ RowsRight(I, h.unit[I], s, count)
  <2>1. ASSUME Ratio[l] = 4 PROVE h.unit[I].n >= count /\ RowsRight(I, h.unit[I], s, count)
    <3>1. count \in Nat /\ h.unit[I].n \in Nat /\ count <= h.unit[I].n /\ RowsRight(I, h.unit[I], s, count)
      BY <1>3, <1>5, <2>1, Zenon
    <3> QED BY <3>1
  <2> QED BY <2>1
<1> QED BY <1>1, <1>6, <1>7, Zenon DEF CompRight, A, I

-----------------------------------------------------------------------------
(* One token through a layer.                                              *)
LEMMA PushIs ==
    ASSUME NEW u \in Unit, NEW c \in Compressor(u), NEW p \in Nat, NEW row \in Rows, HasRoom(u, c, p),
           NEW d, d = Update(u, c, p, row)
    PROVE  /\ d \in Compressor(u) /\ KeepsFinished(u, c, d)
           /\ \A s : row = RowOf(s, p) /\ UnitShows(u, c, s, p) => UnitShows(u, d, s, p + 1)
<1>0. c \in Counted(u, Nat) /\ c.n \in 0..CompCap /\ CompCap \in Nat
  BY CompressorIs, GraphFacts
<1>1. /\ d \in Counted(u, Nat) /\ KeepsFinished(u, c, d)
      /\ d.n = c.n + (((p + 1) \div RatioOf(u)) - (p \div RatioOf(u)))
  BY <1>0, UpdateKeeps, Zenon
<1>2. PICK a \in Nat : /\ a = p \div RatioOf(u)
                       /\ (p + 1) \div RatioOf(u) = IF Closes(u, p) THEN a + 1 ELSE a
  BY ClosesIs
<1>3. Closes(u, p) => c.n < CompCap
  BY Zenon DEF HasRoom
<1>4. d.n <= CompCap
  <2>1. d.n = c.n + ((IF Closes(u, p) THEN a + 1 ELSE a) - a)
    BY <1>1, <1>2, Zenon
  <2> QED BY <1>0, <1>2, <1>3, <2>1
<1>5. d \in Compressor(u)
  BY <1>1, <1>4, CompressorIs, Zenon
<1>6. ASSUME NEW s, row = RowOf(s, p), UnitShows(u, c, s, p) PROVE UnitShows(u, d, s, p + 1)
  <2>1. c.n = a
    BY <1>2, <1>6, Zenon DEF UnitShows
  <2>2. (p + 1) \div RatioOf(u) <= CompCap
    BY <1>0, <1>2, <1>3, <2>1
  <2> QED BY <1>0, <1>6, <2>2, UpdateShows, Zenon
<1> QED BY <1>1, <1>5, <1>6, Zenon

Decodings == [g : Graphs, ok : BOOLEAN, right : BOOLEAN]

(* What one layer does to a decode, right or not.                          *)
DecodesLayer(x, y, l, s) ==
    /\ y \in Decodings /\ OnlyLayer(x.g, y.g, l) /\ KeepsLayer(x.g, y.g, l, Len(s) - 1, Len(s))
    /\ y.ok => x.ok
    /\ \A lo \in Int : /\ y.ok /\ x.right /\ lo + Window <= Len(s) /\ Apart(lo, Len(s))
                       /\ LayerShows(x.g, l, s, lo, Len(s) - 1)
                       => y.right /\ LayerShows(y.g, l, s, lo, Len(s))

(* One token through one layer: the layer is exact when it was, and        *)
(* otherwise nothing that belongs to earlier tokens is lost.               *)
LEMMA DecodeLayerIs ==
    ASSUME NEW x \in Decodings, NEW l \in Layer, NEW s \in Seq(Token), Len(s) > 0,
           NEW y, y = DecodeLayer(x, l, s)
    PROVE  DecodesLayer(x, y, l, s)
<1>1. /\ x = [g |-> x.g, ok |-> x.ok, right |-> x.right]
      /\ x.g \in Graphs /\ x.ok \in BOOLEAN /\ x.right \in BOOLEAN
  BY DEF Decodings
<1>2. PICK p \in Nat : p = Len(s) - 1 /\ Len(s) = p + 1
  <2>1. Len(s) \in Nat
    OBVIOUS
  <2> QED BY <2>1
<1>3. CASE ~x.ok \/ ~Fits(x.g.unit, l, p)
  <2>1. y = [x EXCEPT !.ok = FALSE]
    BY <1>2, <1>3, Zenon DEF DecodeLayer
  <2>2. y \in Decodings /\ y.g = x.g /\ ~y.ok
    BY <1>1, <2>1 DEF Decodings
  <2>3. OnlyLayer(x.g, y.g, l) /\ KeepsLayer(x.g, y.g, l, Len(s) - 1, Len(s))
    BY <2>2, Zenon DEF OnlyLayer, KeepsLayer
  <2> QED BY <2>2, <2>3, Zenon DEF DecodesLayer
<1>4. CASE x.ok /\ Fits(x.g.unit, l, p)
  <2> DEFINE row == Hidden(x.right, s, p)
             raw == [x.g.raw EXCEPT ![l][RawSlot(p)] = row]
             unit == Pushed(x.g.unit, l, p, row)
             h == [raw |-> raw, unit |-> unit]
  <2>1. y = [g |-> h, ok |-> TRUE, right |-> x.right /\ Attends(raw, unit, l, s)]
    BY <1>2, <1>4, Zenon DEF DecodeLayer
  <2>2. row \in Rows /\ (x.right => row = RowOf(s, p))
    <3>1. RowOf(s, p) \in Seq(Token)
      BY <1>2, RowOfType
    <3> QED BY <3>1 DEF Hidden, Rows
  <2> HIDE DEF row
  <2>3. /\ x.g.raw \in [Layer -> Rings] /\ x.g.raw[l] \in Rings
        /\ \A u \in Unit : x.g.unit[u] \in Compressor(u)
    BY <1>1, GraphParts
  <2>4. /\ raw = [x.g.raw EXCEPT ![l] = [x.g.raw[l] EXCEPT ![RawSlot(p)] = row]]
    BY <2>3
  <2> DEFINE next == [x.g.raw[l] EXCEPT ![RawSlot(p)] = row]
  <2>5. next \in Rings
    <3>1. p % RawCap \in 0..(RawCap - 1)
      BY SlotIs
    <3> QED BY <2>2, <2>3, <3>1 DEF Rings, RawSlot
  <2>6. raw \in [Layer -> Rings] /\ raw[l] = next /\ \A m \in Layer : m # l => raw[m] = x.g.raw[m]
    <3> HIDE DEF next, raw
    <3> QED BY <2>3, <2>4, <2>5 DEF next
  <2>7. ASSUME NEW u \in Unit, u[1] = l PROVE unit[u] = Update(u, x.g.unit[u], p, row) /\ HasRoom(u, x.g.unit[u], p)
    BY <1>4, <2>7, Zenon DEF Pushed, Fits
  <2>8. ASSUME NEW u \in Unit, u[1] # l PROVE unit[u] = x.g.unit[u]
    BY <2>8, Zenon DEF Pushed
  <2>9. unit = [u \in Unit |-> unit[u]]
    BY DEF Pushed
  <2> HIDE DEF raw, unit, next
  <2>10. ASSUME NEW u \in Unit, u[1] = l
         PROVE  /\ unit[u] \in Compressor(u) /\ KeepsFinished(u, x.g.unit[u], unit[u])
                /\ row = RowOf(s, p) /\ UnitShows(u, x.g.unit[u], s, p) => UnitShows(u, unit[u], s, p + 1)
    BY <2>2, <2>3, <2>7, <2>10, PushIs, Zenon
  <2>11. unit \in Units
    <3>1. \A u \in Unit : unit[u] \in Compressor(u)
      BY <2>3, <2>8, <2>10, Zenon
    <3> QED BY <2>9, <3>1, UnitsAre, Zenon
  <2>12. h \in Graphs /\ h.raw = raw /\ h.unit = unit
    BY <2>6, <2>11 DEF Graphs
  <2> HIDE DEF h
  <2>13. y \in Decodings /\ y.g = h /\ y.ok /\ y.right = (x.right /\ Attends(raw, unit, l, s))
    <3>1. (x.right /\ Attends(raw, unit, l, s)) \in BOOLEAN
      OBVIOUS
    <3> QED BY <2>1, <2>12, <3>1 DEF Decodings
  <2>14. OnlyLayer(x.g, y.g, l)
    BY <2>6, <2>8, <2>12, <2>13, Zenon DEF OnlyLayer
  <2>15. KeepsLayer(x.g, y.g, l, p, p + 1)
    <3>1. ASSUME NEW lo \in Int, NEW t, NEW m \in 0..p, Apart(lo, p + 1), RingShows(x.g.raw[l], t, lo, m)
          PROVE  RingShows(y.g.raw[l], t, lo, m)
      <4>1. RingShows(next, t, lo, m)
        BY <2>2, <2>3, <3>1, RingWrite DEF next
      <4> QED BY <2>6, <2>12, <2>13, <4>1, Zenon
    <3>2. \A u \in Unit : u[1] = l => KeepsFinished(u, x.g.unit[u], y.g.unit[u])
      BY <2>10, <2>12, <2>13, Zenon
    <3>3. y.g \in Graphs
      BY <2>12, <2>13, Zenon
    <3> QED BY <1>1, <3>1, <3>2, <3>3, KeepsLayerIs, Zenon
  <2>16. ASSUME NEW lo \in Int, x.right, lo + Window <= p + 1, Apart(lo, p + 1), LayerShows(x.g, l, s, lo, p)
         PROVE  y.right /\ LayerShows(y.g, l, s, lo, p + 1)
    <3>1. row = RowOf(s, p)
      BY <2>2, <2>16
    <3>2. RingShows(next, s, lo, p + 1)
      <4>1. RingShows(x.g.raw[l], s, lo, p)
        BY <2>16, Zenon DEF LayerShows
      <4> QED BY <2>2, <2>3, <2>16, <3>1, <4>1, RingWrite DEF next
    <3>3. \A u \in Unit : u[1] = l => UnitShows(u, unit[u], s, p + 1)
      BY <2>10, <2>16, <3>1, Zenon DEF LayerShows
    <3>4. LayerShows(y.g, l, s, lo, p + 1)
      BY <2>6, <2>12, <2>13, <3>2, <3>3, Zenon DEF LayerShows
    <3>5. RawRight(raw[l], s, p, 1, p)
      <4>1. p \in p..(p + 1 - 1) /\ 1 \in Nat \ {0}
        OBVIOUS
      <4> QED BY <2>6, <2>16, <3>2, <4>1, RawRightIs, Zenon
    <3>6. CompRight(unit, l, s, p, IF Ratio[l] = 0 THEN 0 ELSE unit[<<l, "attn">>].n)
      <4> DEFINE count == IF Ratio[l] = 0 THEN 0 ELSE unit[<<l, "attn">>].n
      <4>1. Ratio[l] # 0 => count = (p + 1) \div Ratio[l]
        <5>1. ASSUME Ratio[l] # 0 PROVE unit[<<l, "attn">>].n = (p + 1) \div Ratio[l]
          <6>1. <<l, "attn">> \in Unit /\ <<l, "attn">>[1] = l
            BY <5>1, GraphFacts
          <6>2. UnitShows(<<l, "attn">>, unit[<<l, "attn">>], s, p + 1)
            BY <3>3, <6>1, Zenon
          <6> QED BY <6>1, <6>2, Zenon DEF UnitShows, RatioOf
        <5> QED BY <5>1, Zenon
      <4> HIDE DEF count
      <4>2. \A u \in Unit : u[1] = l => UnitShows(u, h.unit[u], s, p + 1)
        BY <2>12, <3>3, Zenon
      <4>3. p + 1 \in Nat /\ p \in 0..((p + 1) - 1)
        OBVIOUS
      <4>4. CompRight(h.unit, l, s, p, count)
        BY <2>12, <4>1, <4>2, <4>3, CompRightIs, Zenon
      <4> QED BY <2>12, <4>4, Zenon DEF count
    <3>7. Attends(raw, unit, l, s)
      BY <1>2, <3>5, <3>6, Zenon DEF Attends
    <3> QED BY <2>13, <2>16, <3>4, <3>7
  <2> QED BY <1>2, <1>4, <2>13, <2>14, <2>15, <2>16, Zenon DEF DecodesLayer
<1> QED BY <1>3, <1>4, Zenon

-----------------------------------------------------------------------------
(* Layer after layer.                                                      *)
Untouched(h, k, l) ==
    /\ \A m \in Layer : l < m => k.raw[m] = h.raw[m]
    /\ \A u \in Unit : l < u[1] => k.unit[u] = h.unit[u]

KeepsAll(h, k, p, hi) == \A m \in Layer : KeepsLayer(h, k, m, p, hi)
ShowsUpto(h, k, s, lo, n) == \A m \in Layer : m <= k => LayerShows(h, m, s, lo, n)

(* A layer that did not change.                                            *)
LEMMA SameLayer ==
    ASSUME NEW h, NEW k, NEW m \in Layer, k.raw[m] = h.raw[m], \A u \in Unit : u[1] = m => k.unit[u] = h.unit[u]
    PROVE  \A s, lo, n : /\ LayerShows(h, m, s, lo, n) => LayerShows(k, m, s, lo, n)
                         /\ LayerHas(h, m, s, lo, n) => LayerHas(k, m, s, lo, n)
BY Zenon DEF LayerShows, LayerHas

(* The layers below k and layer k make those up to k.                      *)
LEMMA NextLayer ==
    ASSUME NEW h, NEW x, NEW y, NEW l \in Layer, OnlyLayer(x, y, l), Untouched(h, x, l - 1)
    PROVE  /\ Untouched(h, y, l)
           /\ \A s, lo, n : LayerShows(h, l, s, lo, n) => LayerShows(x, l, s, lo, n)
           /\ \A p, hi : KeepsAll(h, x, p, hi) /\ KeepsLayer(x, y, l, p, hi) => KeepsAll(h, y, p, hi)
           /\ \A s, lo, n : ShowsUpto(x, l - 1, s, lo, n) /\ LayerShows(y, l, s, lo, n) => ShowsUpto(y, l, s, lo, n)
<1>0. l \in Int /\ \A m \in Layer : m \in Int
  BY GraphFacts
<1>1. \A u \in Unit : u[1] \in Int
  BY <1>0, UnitFacts
<1>2. Untouched(h, y, l)
  <2>1. ASSUME NEW m \in Layer, l < m PROVE y.raw[m] = h.raw[m]
    <3>1. m # l /\ l - 1 < m
      BY <1>0, <2>1
    <3> QED BY <3>1, Zenon DEF OnlyLayer, Untouched
  <2>2. ASSUME NEW u \in Unit, l < u[1] PROVE y.unit[u] = h.unit[u]
    <3>1. u[1] # l /\ l - 1 < u[1]
      BY <1>0, <1>1, <2>2
    <3> QED BY <3>1, Zenon DEF OnlyLayer, Untouched
  <2> QED BY <2>1, <2>2, Zenon DEF Untouched
<1>3. \A s, lo, n : LayerShows(h, l, s, lo, n) => LayerShows(x, l, s, lo, n)
  <2>1. l - 1 < l
    BY <1>0
  <2>2. x.raw[l] = h.raw[l] /\ \A u \in Unit : u[1] = l => x.unit[u] = h.unit[u]
    BY <2>1, Zenon DEF Untouched
  <2> QED BY <2>2, SameLayer, Zenon
<1>4. ASSUME NEW m \in Layer, m # l
      PROVE  \A s, lo, n : /\ LayerShows(x, m, s, lo, n) => LayerShows(y, m, s, lo, n)
                           /\ LayerHas(x, m, s, lo, n) => LayerHas(y, m, s, lo, n)
  <2>1. y.raw[m] = x.raw[m] /\ \A u \in Unit : u[1] = m => y.unit[u] = x.unit[u]
    BY <1>4, Zenon DEF OnlyLayer
  <2> QED BY <2>1, SameLayer, Zenon
<1>5. ASSUME NEW p, NEW hi, KeepsAll(h, x, p, hi), KeepsLayer(x, y, l, p, hi) PROVE KeepsAll(h, y, p, hi)
  <2>1. ASSUME NEW m \in Layer PROVE KeepsLayer(h, y, m, p, hi)
    <3>1. KeepsLayer(h, x, m, p, hi)
      BY <1>5, Zenon DEF KeepsAll
    <3>2. CASE m = l
      BY <1>5, <3>1, <3>2, Zenon DEF KeepsLayer
    <3>3. CASE m # l
      BY <1>4, <3>1, <3>3, Zenon DEF KeepsLayer
    <3> QED BY <3>2, <3>3
  <2> QED BY <2>1, Zenon DEF KeepsAll
<1>6. ASSUME NEW s, NEW lo, NEW n, ShowsUpto(x, l - 1, s, lo, n), LayerShows(y, l, s, lo, n)
      PROVE  ShowsUpto(y, l, s, lo, n)
  <2>1. ASSUME NEW m \in Layer, m <= l PROVE LayerShows(y, m, s, lo, n)
    <3>1. m = l \/ (m # l /\ m <= l - 1)
      BY <1>0, <2>1
    <3>2. CASE m = l
      BY <1>6, <3>2, Zenon
    <3>3. CASE m # l /\ m <= l - 1
      BY <1>4, <1>6, <3>3, Zenon DEF ShowsUpto
    <3> QED BY <3>1, <3>2, <3>3
  <2> QED BY <2>1, Zenon DEF ShowsUpto
<1> QED BY <1>2, <1>3, <1>5, <1>6, Zenon

(* Before the first layer nothing has changed.                             *)
LEMMA NoLayer ==
    ASSUME NEW h
    PROVE  /\ Untouched(h, h, 0) /\ \A p, hi : KeepsAll(h, h, p, hi)
           /\ \A s, lo, n : ShowsUpto(h, 0, s, lo, n)
<1>1. \A s, lo, n : ShowsUpto(h, 0, s, lo, n)
  BY GraphFacts DEF ShowsUpto
<1> QED BY <1>1, Zenon DEF Untouched, KeepsAll, KeepsLayer

(* All layers make a graph.                                                *)
LEMMA AllLayers ==
    ASSUME NEW h, NEW s, NEW lo, NEW n
    PROVE  ShowsUpto(h, Layers, s, lo, n) => GraphShows(h, s, lo, n)
BY GraphFacts DEF ShowsUpto, GraphShows

(* A step that keeps every layer keeps the graph.                          *)
LEMMA KeepsGraph ==
    ASSUME NEW h, NEW k, NEW p, NEW hi, KeepsAll(h, k, p, hi), NEW s, NEW lo \in Int, NEW n \in 0..p, Apart(lo, hi),
           GraphHas(h, s, lo, n)
    PROVE  GraphHas(k, s, lo, n)
BY Zenon DEF KeepsAll, KeepsLayer, GraphHas

-----------------------------------------------------------------------------
(* One token through the graph.                                            *)
LEMMA DecodeToUnfold ==
    ASSUME NEW h, NEW s
    PROVE  /\ DecodeTo(h, s, 0) = [g |-> h, ok |-> TRUE, right |-> TRUE]
           /\ \A l \in 1..Layers : DecodeTo(h, s, l) = DecodeLayer(DecodeTo(h, s, l - 1), l, s)
<1> DEFINE base == [g |-> h, ok |-> TRUE, right |-> TRUE]
           Body(f, l) == IF l = 0 THEN base ELSE DecodeLayer(f[l - 1], l, s)
           Solves(f, m) == f = [l \in 0..m |-> Body(f, l)]
           T == {m \in Nat : \E f : Solves(f, m)}
<1>1. 0 \in T
  <2> DEFINE f == [l \in 0..0 |-> base]
  <2>1. \A l \in 0..0 : Body(f, l) = base
    OBVIOUS
  <2>2. Solves(f, 0)
    BY <2>1
  <2> QED BY <2>2
<1>2. ASSUME NEW m \in Nat, m \in T PROVE m + 1 \in T
  <2>1. PICK f : Solves(f, m)
    BY <1>2
  <2> DEFINE e == [l \in 0..(m + 1) |-> IF l = m + 1 THEN DecodeLayer(f[m], m + 1, s) ELSE f[l]]
  <2>0. \A l \in 0..m : e[l] = f[l]
    OBVIOUS
  <2>2. \A l \in 0..m : f[l] = Body(f, l) /\ e[l] = f[l]
    <3> HIDE DEF e, Body
    <3> QED BY <2>0, <2>1
  <2>3. e[m + 1] = Body(e, m + 1)
    BY <2>2
  <2>4. ASSUME NEW l \in 0..m PROVE e[l] = Body(e, l)
    <3>1. l = 0 \/ l - 1 \in 0..m
      OBVIOUS
    <3>2. Body(f, l) = Body(e, l)
      BY <2>2, <3>1
    <3> HIDE DEF e, Body
    <3> QED BY <2>2, <3>2
  <2>6. e = [l \in 0..(m + 1) |-> e[l]]
    OBVIOUS
  <2> HIDE DEF e, Body
  <2>5. \A l \in 0..(m + 1) : e[l] = Body(e, l)
    BY <2>3, <2>4
  <2>7. Solves(e, m + 1)
    BY <2>5, <2>6
  <2> QED BY <2>7
<1>3. Layers \in T
  <2> HIDE DEF T
  <2> QED BY <1>1, <1>2, NatInduct, GraphFacts
<1> DEFINE F == CHOOSE f : Solves(f, Layers)
<1>4. Solves(F, Layers)
  <2>1. \E f : Solves(f, Layers)
    BY <1>3
  <2> HIDE DEF Solves
  <2> QED BY <2>1
<1>5. \A k : DecodeTo(h, s, k) = F[k]
  BY DEF DecodeTo
<1> HIDE DEF F
<1>6. \A l \in 0..Layers : F[l] = Body(F, l)
  BY <1>4
<1>7. F[0] = base
  <2>1. 0 \in 0..Layers
    BY GraphFacts
  <2> QED BY <1>6, <2>1
<1>8. ASSUME NEW l \in 1..Layers PROVE F[l] = DecodeLayer(F[l - 1], l, s)
  <2>1. l \in 0..Layers /\ l # 0
    BY GraphFacts
  <2> QED BY <1>6, <2>1
<1> QED BY <1>5, <1>7, <1>8, Zenon

(* After k layers of a decode.                                             *)
DecodesTo(h, x, s, k) ==
    /\ x \in Decodings /\ Untouched(h, x.g, k) /\ KeepsAll(h, x.g, Len(s) - 1, Len(s))
    /\ \A lo \in Int : x.ok /\ lo + Window <= Len(s) /\ Apart(lo, Len(s)) /\ GraphShows(h, s, lo, Len(s) - 1)
                       => x.right /\ ShowsUpto(x.g, k, s, lo, Len(s))

(* The same for the first k layers, by induction.                          *)
LEMMA DecodeToIs ==
    ASSUME NEW h \in Graphs, NEW s \in Seq(Token), Len(s) > 0, NEW k \in 0..Layers
    PROVE  DecodesTo(h, DecodeTo(h, s, k), s, k)
<1> DEFINE D(l) == DecodeTo(h, s, l)
           T == {l \in Nat : l <= Layers => DecodesTo(h, D(l), s, l)}
<1>1. 0 \in T
  <2> DEFINE base == [g |-> h, ok |-> TRUE, right |-> TRUE]
  <2>1. D(0) = base
    BY DecodeToUnfold
  <2>0. base \in Decodings /\ base.g = h /\ base.right
    BY DEF Decodings
  <2> HIDE DEF D, base
  <2>2. D(0) \in Decodings /\ D(0).g = h /\ D(0).right
    BY <2>0, <2>1, Zenon
  <2>3. DecodesTo(h, D(0), s, 0)
    BY <2>2, NoLayer, Zenon DEF DecodesTo
  <2> QED BY <2>3
<1>2. ASSUME NEW l \in Nat, l \in T PROVE l + 1 \in T
  <2>1. SUFFICES ASSUME l + 1 <= Layers PROVE DecodesTo(h, D(l + 1), s, l + 1)
    OBVIOUS
  <2>2. PICK m \in Layer : m = l + 1 /\ m - 1 = l /\ m \in 1..Layers
    BY <2>1, GraphFacts
  <2>3. PICK x : x = D(l) /\ DecodesTo(h, x, s, l)
    <3>1. l <= Layers
      BY <2>1, GraphFacts
    <3> QED BY <1>2, <3>1
  <2>4. PICK y : y = D(l + 1) /\ y = DecodeLayer(x, m, s)
    BY <2>2, <2>3, DecodeToUnfold, Zenon
  <2>5. x \in Decodings
    BY <2>3, Zenon DEF DecodesTo
  <2>6. DecodesLayer(x, y, m, s)
    BY <2>4, <2>5, DecodeLayerIs, Zenon
  <2>7. /\ Untouched(h, y.g, m) /\ KeepsAll(h, y.g, Len(s) - 1, Len(s))
        /\ \A lo : LayerShows(h, m, s, lo, Len(s) - 1) => LayerShows(x.g, m, s, lo, Len(s) - 1)
        /\ \A lo : ShowsUpto(x.g, l, s, lo, Len(s)) /\ LayerShows(y.g, m, s, lo, Len(s)) => ShowsUpto(y.g, m, s, lo, Len(s))
    <3>1. OnlyLayer(x.g, y.g, m) /\ KeepsLayer(x.g, y.g, m, Len(s) - 1, Len(s))
      BY <2>6, Zenon DEF DecodesLayer
    <3>2. Untouched(h, x.g, m - 1) /\ KeepsAll(h, x.g, Len(s) - 1, Len(s))
      BY <2>2, <2>3, Zenon DEF DecodesTo
    <3>3. Untouched(h, y.g, m) /\ KeepsAll(h, y.g, Len(s) - 1, Len(s))
      BY <3>1, <3>2, NextLayer, Zenon
    <3>4. \A lo : LayerShows(h, m, s, lo, Len(s) - 1) => LayerShows(x.g, m, s, lo, Len(s) - 1)
      BY <3>1, <3>2, NextLayer, Zenon
    <3>5. \A lo : ShowsUpto(x.g, m - 1, s, lo, Len(s)) /\ LayerShows(y.g, m, s, lo, Len(s))
                     => ShowsUpto(y.g, m, s, lo, Len(s))
      BY <3>1, <3>2, NextLayer, Zenon
    <3> QED BY <2>2, <3>3, <3>4, <3>5, Zenon
  <2>8. ASSUME NEW lo \in Int, y.ok, lo + Window <= Len(s), Apart(lo, Len(s)), GraphShows(h, s, lo, Len(s) - 1)
        PROVE  y.right /\ ShowsUpto(y.g, m, s, lo, Len(s))
    <3>1. x.ok
      BY <2>6, <2>8, Zenon DEF DecodesLayer
    <3>2. x.right /\ ShowsUpto(x.g, l, s, lo, Len(s))
      BY <2>3, <2>8, <3>1, Zenon DEF DecodesTo
    <3>3. LayerShows(x.g, m, s, lo, Len(s) - 1)
      BY <2>7, <2>8, Zenon DEF GraphShows
    <3>4. y.right /\ LayerShows(y.g, m, s, lo, Len(s))
      BY <2>6, <2>8, <3>2, <3>3, Zenon DEF DecodesLayer
    <3> QED BY <2>7, <3>2, <3>4, Zenon
  <2>9. y \in Decodings
    BY <2>6, Zenon DEF DecodesLayer
  <2>10. DecodesTo(h, y, s, m)
    BY <2>7, <2>8, <2>9, Zenon DEF DecodesTo
  <2> QED BY <2>2, <2>4, <2>10, Zenon
<1> HIDE DEF T, D
<1>3. k \in Nat /\ k <= Layers
  BY GraphFacts
<1>4. k \in T
  BY <1>1, <1>2, <1>3, NatInduct
<1> QED BY <1>3, <1>4 DEF T, D

(* The same for all of them.                                               *)
LEMMA DecodeIs ==
    ASSUME NEW h \in Graphs, NEW s \in Seq(Token), Len(s) > 0
    PROVE  /\ Decode(h, s) \in Decodings
           /\ \A k \in 0..Layers : DecodeTo(h, s, k).g \in Graphs /\ KeepsAll(h, DecodeTo(h, s, k).g, Len(s) - 1, Len(s))
           /\ \A lo \in Int : /\ Decode(h, s).ok /\ lo + Window <= Len(s) /\ Apart(lo, Len(s))
                              /\ GraphShows(h, s, lo, Len(s) - 1)
                              => Decode(h, s).right /\ GraphShows(Decode(h, s).g, s, lo, Len(s))
<1>1. \A k \in 0..Layers : DecodesTo(h, DecodeTo(h, s, k), s, k)
  BY DecodeToIs
<1>2. \A k \in 0..Layers : DecodeTo(h, s, k).g \in Graphs /\ KeepsAll(h, DecodeTo(h, s, k).g, Len(s) - 1, Len(s))
  BY <1>1 DEF DecodesTo, Decodings
<1>3. Layers \in 0..Layers
  BY GraphFacts
<1>4. DecodesTo(h, Decode(h, s), s, Layers)
  BY <1>1, <1>3, Zenon DEF Decode
<1>5. ASSUME NEW lo \in Int, Decode(h, s).ok, lo + Window <= Len(s), Apart(lo, Len(s)), GraphShows(h, s, lo, Len(s) - 1)
      PROVE  Decode(h, s).right /\ GraphShows(Decode(h, s).g, s, lo, Len(s))
  BY <1>4, <1>5, AllLayers, Zenon DEF DecodesTo
<1>6. Decode(h, s) \in Decodings
  BY <1>4, Zenon DEF DecodesTo
<1> QED BY <1>2, <1>5, <1>6, Zenon

-----------------------------------------------------------------------------
(* A batch through a layer.                                                *)
Batchings == [g : Graphs, ok : BOOLEAN, right : SUBSET Nat]

BatchesLayer(x, y, l, s, pos0, n) ==
    /\ y \in Batchings /\ OnlyLayer(x.g, y.g, l)
    /\ pos0 # 0 => KeepsLayer(x.g, y.g, l, pos0, pos0 + n)
    /\ y.ok => x.ok
    /\ ~x.ok => y.g = x.g
    /\ \A lo \in Int : /\ y.ok /\ x.right = pos0..(pos0 + n - 1) /\ lo + Window <= pos0 + 1 /\ Apart(lo, pos0 + n)
                       /\ pos0 # 0 => LayerShows(x.g, l, s, lo, pos0)
                       /\ pos0 = 0 => n % 4 = 0
                       => y.right = pos0..(pos0 + n - 1) /\ LayerShows(y.g, l, s, lo, pos0 + n)

(* Attention of a batch that has its rows.                                 *)
LEMMA BatchAttends ==
    ASSUME NEW ring, NEW h \in Graphs, NEW l \in Layer, NEW s, NEW lo \in Int, NEW pos0 \in Nat, NEW n \in Nat \ {0},
           RingShows(ring, s, lo, pos0 + n), \A u \in Unit : u[1] = l => UnitShows(u, h.unit[u], s, pos0 + n),
           lo + Window <= pos0 + 1, Apart(lo, pos0 + n),
           NEW p \in pos0..(pos0 + n - 1)
    PROVE  /\ BatchSees(ring, s, pos0, n, p, pos0..(pos0 + n - 1))
           /\ CompRight(h.unit, l, s, p, BatchCount(h.unit, l, p))
<1>1. BatchSees(ring, s, pos0, n, p, pos0..(pos0 + n - 1))
  <2>1. CASE pos0 = 0
    BY <2>1 DEF BatchSees
  <2>2. CASE pos0 # 0
    <3>1. RawRight(ring, s, pos0, n, p)
      BY RawRightIs, Zenon
    <3> QED BY <2>2, <3>1, Zenon DEF BatchSees
  <2> QED BY <2>1, <2>2
<1>2. PICK hi \in Nat : hi = pos0 + n /\ p \in 0..(hi - 1) /\ p + 1 \in 0..hi
  <2>1. pos0 + n \in Nat /\ p \in 0..((pos0 + n) - 1) /\ p + 1 \in 0..(pos0 + n)
    OBVIOUS
  <2> QED BY <2>1
<1>3. \A u \in Unit : u[1] = l => UnitShows(u, h.unit[u], s, hi)
  BY <1>2, Zenon
<1> DEFINE count == BatchCount(h.unit, l, p)
<1>4. Ratio[l] # 0 => count = (p + 1) \div Ratio[l]
  <2>1. ASSUME Ratio[l] # 0 PROVE Least(h.unit[<<l, "attn">>].n, (p + 1) \div Ratio[l]) = (p + 1) \div Ratio[l]
    <3> DEFINE A == <<l, "attn">>
    <3>1. A \in Unit /\ A[1] = l
      BY <2>1, GraphFacts
    <3> HIDE DEF A
    <3>2. UnitShows(A, h.unit[A], s, hi) /\ RatioOf(A) = Ratio[l]
      BY <1>3, <3>1, Zenon DEF RatioOf
    <3>3. /\ (p + 1) \div RatioOf(A) \in Nat /\ h.unit[A].n \in Nat /\ (p + 1) \div RatioOf(A) <= h.unit[A].n
      BY <1>2, <3>1, <3>2, PoolsBefore, Zenon
    <3>4. PICK a \in Nat, b \in Nat : a = (p + 1) \div RatioOf(A) /\ b = h.unit[A].n /\ a <= b
      BY <3>3
    <3>5. Least(b, a) = a
      BY <3>4 DEF Least
    <3> QED BY <3>2, <3>4, <3>5, Zenon DEF A
  <2> QED BY <2>1, Zenon DEF BatchCount
<1> HIDE DEF count
<1>5. CompRight(h.unit, l, s, p, count)
  BY <1>2, <1>3, <1>4, CompRightIs, Zenon
<1> QED BY <1>1, <1>5, Zenon DEF count

(* A batch through one layer.                                              *)
LEMMA BatchLayerIs ==
    ASSUME NEW x \in Batchings, NEW l \in Layer, NEW s \in Seq(Token), NEW pos0 \in Nat, NEW n \in Nat \ {0},
           pos0 + n <= Len(s), NEW y, y = BatchLayer(x, l, s, pos0, n)
    PROVE  BatchesLayer(x, y, l, s, pos0, n)
<1> DEFINE at == pos0..(pos0 + n - 1)
           mine == {u \in Unit : u[1] = l}
           row == [p \in at |-> Hidden(p \in x.right, s, p)]
           ring == RingAfter(x.g.raw[l], at, row)
           raw == [x.g.raw EXCEPT ![l] = ring]
           unit == [u \in Unit |-> IF u \in mine THEN Batched(u, x.g.unit[u], pos0, n, row) ELSE x.g.unit[u]]
           h == [raw |-> raw, unit |-> unit]
           right == {p \in x.right : BatchSees(ring, s, pos0, n, p, x.right)
                                      /\ CompRight(unit, l, s, p, BatchCount(unit, l, p))}
           stop == ~x.ok \/ \E u \in mine : ~Batchable(u, x.g.unit[u], pos0, n)
<1>1. /\ x = [g |-> x.g, ok |-> x.ok, right |-> x.right]
      /\ x.g \in Graphs /\ x.ok \in BOOLEAN /\ x.right \in SUBSET Nat
  BY DEF Batchings
<1>2. y = IF stop THEN [x EXCEPT !.ok = FALSE] ELSE [g |-> h, ok |-> TRUE, right |-> right]
  BY Zenon DEF BatchLayer
<1>3. CASE stop
  <2>1. y = [x EXCEPT !.ok = FALSE]
    BY <1>2, <1>3, Zenon
  <2> HIDE DEF stop
  <2>2. y \in Batchings /\ y.g = x.g /\ ~y.ok
    BY <1>1, <2>1 DEF Batchings
  <2>3. OnlyLayer(x.g, y.g, l) /\ KeepsLayer(x.g, y.g, l, pos0, pos0 + n)
    BY <2>2, Zenon DEF OnlyLayer, KeepsLayer
  <2> QED BY <2>2, <2>3, Zenon DEF BatchesLayer
<1>4. CASE ~stop
  <2>0. y = [g |-> h, ok |-> TRUE, right |-> right]
    BY <1>2, <1>4, Zenon
  <2>1. x.ok /\ \A u \in Unit : u[1] = l => Batchable(u, x.g.unit[u], pos0, n)
    BY <1>4, Zenon
  <2>2. ASSUME NEW p \in at PROVE row[p] \in Rows /\ (p \in x.right => row[p] = RowOf(s, p))
    <3>1. p \in 0..(Len(s) - 1)
      OBVIOUS
    <3>2. RowOf(s, p) \in Seq(Token)
      BY <3>1, RowOfType
    <3> QED BY <3>2 DEF Hidden, Rows
  <2> HIDE DEF row, stop
  <2>3. /\ x.g.raw \in [Layer -> Rings] /\ x.g.raw[l] \in Rings
        /\ \A u \in Unit : x.g.unit[u] \in Compressor(u)
    BY <1>1, GraphParts
  <2>4. \A p \in pos0..(pos0 + n - 1) : row[p] \in Rows
    BY <2>2
  <2>5. ring \in Rings
    <3>1. IsRingAfter(ring, x.g.raw[l], pos0, n, row)
      BY <2>3, <2>4, RingAfterIs
    <3> QED BY <3>1, Zenon DEF IsRingAfter
  <2>6. raw \in [Layer -> Rings] /\ raw[l] = ring /\ \A m \in Layer : m # l => raw[m] = x.g.raw[m]
    <3> HIDE DEF ring
    <3> QED BY <2>3, <2>5
  <2>7. /\ \A u \in Unit : u[1] = l => unit[u] = Batched(u, x.g.unit[u], pos0, n, row)
        /\ \A u \in Unit : u[1] # l => unit[u] = x.g.unit[u]
    BY Zenon
  <2>9. unit = [u \in Unit |-> unit[u]]
    OBVIOUS
  <2>8. PICK old \in Rings : old = x.g.raw[l] /\ ring = RingAfter(old, pos0..(pos0 + n - 1), row)
    BY <2>3
  <2> HIDE DEF raw, unit, ring
  <2>91. RingTakes(ring, old, pos0, n, row)
    <3>1. n \in Nat
      OBVIOUS
    <3> QED BY <2>4, <2>8, <3>1, RingBatches, Zenon
  <2>10. ASSUME NEW u \in Unit, u[1] = l
         PROVE  /\ unit[u] \in Compressor(u)
                /\ pos0 # 0 => KeepsFinished(u, x.g.unit[u], unit[u])
                /\ /\ RowsAre(row, s, pos0, n)
                   /\ pos0 # 0 => UnitShows(u, x.g.unit[u], s, pos0)
                   /\ pos0 = 0 /\ RatioOf(u) = 4 => n % 4 = 0
                   => UnitShows(u, unit[u], s, pos0 + n)
    <3>1. PICK c \in Compressor(u) : c = x.g.unit[u] /\ Batchable(u, c, pos0, n)
      BY <2>1, <2>3, <2>10, Zenon
    <3>2. unit[u] = Batched(u, c, pos0, n, row)
      BY <2>7, <2>10, <3>1, Zenon
    <3> QED BY <2>4, <3>1, <3>2, BatchedIs
  <2>11. unit \in Units
    <3>1. \A u \in Unit : unit[u] \in Compressor(u)
      BY <2>3, <2>7, <2>10, Zenon
    <3> QED BY <2>9, <3>1, UnitsAre, Zenon
  <2>12. h \in Graphs /\ h.raw = raw /\ h.unit = unit
    BY <2>6, <2>11 DEF Graphs
  <2> HIDE DEF h
  <2>13. y \in Batchings /\ y.g = h /\ y.ok /\ y.right = right
    <3>1. right \in SUBSET Nat
      BY <1>1
    <3> HIDE DEF right
    <3> QED BY <2>0, <2>12, <3>1 DEF Batchings
  <2>14. OnlyLayer(x.g, y.g, l)
    BY <2>6, <2>7, <2>12, <2>13, Zenon DEF OnlyLayer
  <2> HIDE DEF right
  <2>15. pos0 # 0 => KeepsLayer(x.g, y.g, l, pos0, pos0 + n)
    <3>1. ASSUME NEW lo \in Int, NEW t, NEW m \in 0..pos0, Apart(lo, pos0 + n), RingShows(x.g.raw[l], t, lo, m)
          PROVE  RingShows(y.g.raw[l], t, lo, m)
      <4>1. RingShows(ring, t, lo, m)
        <5>1. Apart(lo, pos0 + n) /\ RingShows(old, t, lo, m)
          BY <2>8, <3>1, Zenon
        <5> QED BY <2>91, <3>1, <5>1, Zenon DEF RingTakes
      <4> QED BY <2>6, <2>12, <2>13, <4>1, Zenon
    <3>2. pos0 # 0 => \A u \in Unit : u[1] = l => KeepsFinished(u, x.g.unit[u], y.g.unit[u])
      BY <2>10, <2>12, <2>13, Zenon
    <3>3. y.g \in Graphs
      BY <2>12, <2>13, Zenon
    <3> QED BY <1>1, <3>1, <3>2, <3>3, KeepsLayerIs, Zenon
  <2>16. ASSUME NEW lo \in Int, x.right = pos0..(pos0 + n - 1), lo + Window <= pos0 + 1, Apart(lo, pos0 + n),
                pos0 # 0 => LayerShows(x.g, l, s, lo, pos0), pos0 = 0 => n % 4 = 0
         PROVE  y.right = pos0..(pos0 + n - 1) /\ LayerShows(y.g, l, s, lo, pos0 + n)
    <3>1. RowsAre(row, s, pos0, n)
      BY <2>2, <2>16, Zenon DEF RowsAre
    <3>2. RingShows(ring, s, lo, pos0 + n)
      <4>1. pos0 # 0 => RingShows(x.g.raw[l], s, lo, pos0)
        BY <2>16, Zenon DEF LayerShows
      <4>2. pos0 # 0 => RingShows(old, s, lo, pos0)
        BY <2>8, <4>1, Zenon
      <4> QED BY <2>91, <2>16, <3>1, <4>2, Zenon DEF RingTakes
    <3>3. \A u \in Unit : u[1] = l => UnitShows(u, unit[u], s, pos0 + n)
      BY <2>10, <2>16, <3>1, Zenon DEF LayerShows
    <3>4. LayerShows(y.g, l, s, lo, pos0 + n)
      BY <2>6, <2>12, <2>13, <3>2, <3>3, Zenon DEF LayerShows
    <3>5. ASSUME NEW p \in pos0..(pos0 + n - 1)
          PROVE  /\ BatchSees(ring, s, pos0, n, p, x.right)
                 /\ CompRight(unit, l, s, p, BatchCount(unit, l, p))
      <4>1. \A u \in Unit : u[1] = l => UnitShows(u, h.unit[u], s, pos0 + n)
        BY <2>12, <3>3, Zenon
      <4>2. /\ BatchSees(ring, s, pos0, n, p, pos0..(pos0 + n - 1))
            /\ CompRight(h.unit, l, s, p, BatchCount(h.unit, l, p))
        BY <2>12, <2>16, <3>2, <4>1, BatchAttends
      <4> QED BY <2>12, <2>16, <4>2, Zenon
    <3>6. right = pos0..(pos0 + n - 1)
      BY <2>16, <3>5, Zenon DEF right
    <3> QED BY <2>13, <3>4, <3>6, Zenon
  <2> QED BY <2>1, <2>13, <2>14, <2>15, <2>16, Zenon DEF BatchesLayer
<1> QED BY <1>3, <1>4, Zenon

-----------------------------------------------------------------------------
(* A batch through the graph.                                              *)
BatchSteps(h, s, pos0, n) ==
    \A l \in 1..Layers : BatchTo(h, s, pos0, n, l) = BatchLayer(BatchTo(h, s, pos0, n, l - 1), l, s, pos0, n)

(* The recursive function of BatchTo, step by step.                        *)
LEMMA BatchToUnfold ==
    ASSUME NEW h, NEW s, NEW pos0, NEW n
    PROVE  /\ BatchTo(h, s, pos0, n, 0) = [g |-> h, ok |-> n <= PrefillCap, right |-> pos0..(pos0 + n - 1)]
           /\ BatchSteps(h, s, pos0, n)
<1> DEFINE base == [g |-> h, ok |-> n <= PrefillCap, right |-> pos0..(pos0 + n - 1)]
           Body(f, l) == IF l = 0 THEN base ELSE BatchLayer(f[l - 1], l, s, pos0, n)
           Solves(f, m) == f = [l \in 0..m |-> Body(f, l)]
           T == {m \in Nat : \E f : Solves(f, m)}
<1>1. 0 \in T
  <2> DEFINE f == [l \in 0..0 |-> base]
  <2> HIDE DEF base
  <2>1. \A l \in 0..0 : Body(f, l) = base
    OBVIOUS
  <2>2. Solves(f, 0)
    BY <2>1
  <2> QED BY <2>2
<1>2. ASSUME NEW m \in Nat, m \in T PROVE m + 1 \in T
  <2>1. PICK f : Solves(f, m)
    BY <1>2
  <2> DEFINE e == [l \in 0..(m + 1) |-> IF l = m + 1 THEN BatchLayer(f[m], m + 1, s, pos0, n) ELSE f[l]]
  <2> HIDE DEF base
  <2>0. \A l \in 0..m : e[l] = f[l]
    OBVIOUS
  <2>2. \A l \in 0..m : f[l] = Body(f, l) /\ e[l] = f[l]
    <3> HIDE DEF e, Body
    <3> QED BY <2>0, <2>1
  <2>3. e[m + 1] = Body(e, m + 1)
    BY <2>2
  <2>4. ASSUME NEW l \in 0..m PROVE e[l] = Body(e, l)
    <3>1. l = 0 \/ l - 1 \in 0..m
      OBVIOUS
    <3>2. Body(f, l) = Body(e, l)
      BY <2>2, <3>1
    <3> HIDE DEF e, Body
    <3> QED BY <2>2, <3>2
  <2>6. e = [l \in 0..(m + 1) |-> e[l]]
    OBVIOUS
  <2> HIDE DEF e, Body
  <2>5. \A l \in 0..(m + 1) : e[l] = Body(e, l)
    BY <2>3, <2>4
  <2>7. Solves(e, m + 1)
    BY <2>5, <2>6
  <2> QED BY <2>7
<1>3. Layers \in T
  <2> HIDE DEF T
  <2> QED BY <1>1, <1>2, NatInduct, GraphFacts
<1> DEFINE F == CHOOSE f : Solves(f, Layers)
<1>4. Solves(F, Layers)
  <2>1. \E f : Solves(f, Layers)
    BY <1>3
  <2> HIDE DEF Solves
  <2> QED BY <2>1
<1>5. \A k : BatchTo(h, s, pos0, n, k) = F[k]
  BY DEF BatchTo
<1> HIDE DEF F, base
<1>6. \A l \in 0..Layers : F[l] = Body(F, l)
  BY <1>4
<1>7. F[0] = base
  <2>1. 0 \in 0..Layers
    BY GraphFacts
  <2> QED BY <1>6, <2>1
<1>8. ASSUME NEW l \in 1..Layers PROVE F[l] = BatchLayer(F[l - 1], l, s, pos0, n)
  <2>1. l \in 0..Layers /\ l # 0
    BY GraphFacts
  <2> QED BY <1>6, <2>1
<1>9. \A l \in 1..Layers : BatchTo(h, s, pos0, n, l) = BatchLayer(BatchTo(h, s, pos0, n, l - 1), l, s, pos0, n)
  BY <1>5, <1>8, Zenon
<1>10. BatchTo(h, s, pos0, n, 0) = base
  BY <1>5, <1>7, Zenon
<1> QED BY <1>9, <1>10, Zenon DEF base, BatchSteps

(* After k layers of a batch.                                              *)
BatchesTo(h, x, s, pos0, n, k) ==
    /\ x \in Batchings /\ Untouched(h, x.g, k) /\ (pos0 # 0 => KeepsAll(h, x.g, pos0, pos0 + n))
    /\ (x.ok => n <= PrefillCap) /\ (n <= PrefillCap \/ x.g = h)
    /\ \A lo \in Int : /\ x.ok /\ lo + Window <= pos0 + 1 /\ Apart(lo, pos0 + n)
                       /\ pos0 # 0 => GraphShows(h, s, lo, pos0)
                       /\ pos0 = 0 => n % 4 = 0
                       => x.right = pos0..(pos0 + n - 1) /\ ShowsUpto(x.g, k, s, lo, pos0 + n)

(* A batch through the first k layers, by induction.                       *)
LEMMA BatchToIs ==
    ASSUME NEW h \in Graphs, NEW s \in Seq(Token), NEW pos0 \in Nat, NEW n \in Nat \ {0}, pos0 + n <= Len(s),
           NEW k \in 0..Layers
    PROVE  BatchesTo(h, BatchTo(h, s, pos0, n, k), s, pos0, n, k)
<1> DEFINE D(l) == BatchTo(h, s, pos0, n, l)
           T == {l \in Nat : l <= Layers => BatchesTo(h, D(l), s, pos0, n, l)}
<1>0. PICK hi : hi = pos0 + n
  OBVIOUS
<1>01. BatchTo(h, s, pos0, n, 0) = [g |-> h, ok |-> n <= PrefillCap, right |-> pos0..(pos0 + n - 1)]
  BY BatchToUnfold, Zenon
<1>02. \A l \in 1..Layers : BatchTo(h, s, pos0, n, l) = BatchLayer(BatchTo(h, s, pos0, n, l - 1), l, s, pos0, n)
  <2>1. BatchSteps(h, s, pos0, n)
    BY BatchToUnfold, Zenon
  <2> QED BY <2>1 DEF BatchSteps
<1>1. 0 \in T
  <2> DEFINE base == [g |-> h, ok |-> n <= PrefillCap, right |-> pos0..(pos0 + n - 1)]
  <2>1. D(0) = base
    BY <1>01
  <2>0. /\ base \in Batchings /\ base.g = h /\ base.right = pos0..(pos0 + n - 1)
        /\ base.ok => n <= PrefillCap
    <3>1. pos0..(pos0 + n - 1) \in SUBSET Nat
      OBVIOUS
    <3>2. (n <= PrefillCap) \in BOOLEAN
      OBVIOUS
    <3> QED BY <3>1, <3>2 DEF Batchings
  <2> HIDE DEF D, base
  <2>2. D(0) \in Batchings /\ D(0).g = h /\ D(0).right = pos0..(pos0 + n - 1) /\ (D(0).ok => n <= PrefillCap)
    BY <2>0, <2>1, Zenon
  <2>3. BatchesTo(h, D(0), s, pos0, n, 0)
    BY <2>2, NoLayer, Zenon DEF BatchesTo
  <2> QED BY <2>3
<1>2. ASSUME NEW l \in Nat, l \in T PROVE l + 1 \in T
  <2>1. SUFFICES ASSUME l + 1 <= Layers PROVE BatchesTo(h, D(l + 1), s, pos0, n, l + 1)
    OBVIOUS
  <2>2. PICK m \in Layer : m = l + 1 /\ m - 1 = l /\ m \in 1..Layers
    <3>1. Layer = 1..Layers /\ Layers \in Nat
      BY GraphFacts
    <3>2. l + 1 \in 1..Layers /\ (l + 1) - 1 = l
      BY <2>1, <3>1
    <3> QED BY <3>1, <3>2
  <2>3. PICK x : x = D(l) /\ BatchesTo(h, x, s, pos0, n, l)
    <3>1. l <= Layers
      BY <2>1, GraphFacts
    <3> QED BY <1>2, <3>1
  <2>4. PICK y : y = D(l + 1) /\ y = BatchLayer(x, m, s, pos0, n)
    BY <2>2, <2>3, <1>02, Zenon
  <2>5. x \in Batchings
    BY <2>3, Zenon DEF BatchesTo
  <2>6. BatchesLayer(x, y, m, s, pos0, n)
    BY <2>4, <2>5, BatchLayerIs, Zenon
  <2>7. /\ Untouched(h, y.g, m) /\ (pos0 # 0 => KeepsAll(h, y.g, pos0, hi))
        /\ \A lo : LayerShows(h, m, s, lo, pos0) => LayerShows(x.g, m, s, lo, pos0)
        /\ \A lo : ShowsUpto(x.g, l, s, lo, hi) /\ LayerShows(y.g, m, s, lo, hi) => ShowsUpto(y.g, m, s, lo, hi)
    <3>1. OnlyLayer(x.g, y.g, m) /\ (pos0 # 0 => KeepsLayer(x.g, y.g, m, pos0, hi))
      BY <1>0, <2>6, Zenon DEF BatchesLayer
    <3>2. Untouched(h, x.g, m - 1) /\ (pos0 # 0 => KeepsAll(h, x.g, pos0, hi))
      BY <1>0, <2>2, <2>3, Zenon DEF BatchesTo
    <3>3. Untouched(h, y.g, m) /\ (pos0 # 0 => KeepsAll(h, y.g, pos0, hi))
      BY <3>1, <3>2, NextLayer, Zenon
    <3>4. \A lo : LayerShows(h, m, s, lo, pos0) => LayerShows(x.g, m, s, lo, pos0)
      BY <3>1, <3>2, NextLayer, Zenon
    <3>5. \A lo : ShowsUpto(x.g, m - 1, s, lo, hi) /\ LayerShows(y.g, m, s, lo, hi)
                     => ShowsUpto(y.g, m, s, lo, hi)
      BY <3>1, <3>2, NextLayer, Zenon
    <3> QED BY <2>2, <3>3, <3>4, <3>5, Zenon
  <2>8. ASSUME NEW lo \in Int, y.ok, lo + Window <= pos0 + 1, Apart(lo, pos0 + n),
               pos0 # 0 => GraphShows(h, s, lo, pos0), pos0 = 0 => n % 4 = 0
        PROVE  y.right = pos0..(pos0 + n - 1) /\ ShowsUpto(y.g, m, s, lo, pos0 + n)
    <3>1. x.ok
      BY <2>6, <2>8, Zenon DEF BatchesLayer
    <3>2. x.right = pos0..(pos0 + n - 1) /\ ShowsUpto(x.g, l, s, lo, pos0 + n)
      BY <2>3, <2>8, <3>1, Zenon DEF BatchesTo
    <3>3. pos0 # 0 => LayerShows(x.g, m, s, lo, pos0)
      BY <2>7, <2>8, Zenon DEF GraphShows
    <3>4. y.right = pos0..(pos0 + n - 1) /\ LayerShows(y.g, m, s, lo, pos0 + n)
      BY <2>6, <2>8, <3>2, <3>3, Zenon DEF BatchesLayer
    <3> QED BY <1>0, <2>7, <3>2, <3>4, Zenon
  <2>9. y \in Batchings /\ (y.ok => n <= PrefillCap) /\ (n <= PrefillCap \/ y.g = h)
    <3>1. (y.ok => x.ok) /\ (~x.ok => y.g = x.g)
      BY <2>6, Zenon DEF BatchesLayer
    <3>2. (x.ok => n <= PrefillCap) /\ (n <= PrefillCap \/ x.g = h)
      BY <2>3, Zenon DEF BatchesTo
    <3> QED BY <2>6, <3>1, <3>2, Zenon DEF BatchesLayer
  <2>10. BatchesTo(h, y, s, pos0, n, m)
    BY <1>0, <2>7, <2>8, <2>9, Zenon DEF BatchesTo
  <2> QED BY <2>2, <2>4, <2>10, Zenon
<1> HIDE DEF T, D
<1>3. k \in Nat /\ k <= Layers
  BY GraphFacts
<1>4. k \in T
  BY <1>1, <1>2, <1>3, NatInduct
<1> QED BY <1>3, <1>4 DEF T, D

(* A batch through all of them.                                            *)
LEMMA BatchIs ==
    ASSUME NEW h \in Graphs, NEW s \in Seq(Token), NEW pos0 \in Nat, NEW n \in Nat \ {0}, pos0 + n <= Len(s)
    PROVE  /\ Batch(h, s, pos0, n) \in Batchings
           /\ Batch(h, s, pos0, n).ok => n <= PrefillCap
           /\ \A k \in 0..Layers : /\ BatchTo(h, s, pos0, n, k).g \in Graphs
                                   /\ pos0 # 0 => KeepsAll(h, BatchTo(h, s, pos0, n, k).g, pos0, pos0 + n)
                                   /\ n <= PrefillCap \/ BatchTo(h, s, pos0, n, k).g = h
           /\ \A lo \in Int : /\ Batch(h, s, pos0, n).ok /\ lo + Window <= pos0 + 1 /\ Apart(lo, pos0 + n)
                              /\ pos0 # 0 => GraphShows(h, s, lo, pos0)
                              /\ pos0 = 0 => n % 4 = 0
                              => /\ Batch(h, s, pos0, n).right = pos0..(pos0 + n - 1)
                                 /\ GraphShows(Batch(h, s, pos0, n).g, s, lo, pos0 + n)
<1>1. \A k \in 0..Layers : BatchesTo(h, BatchTo(h, s, pos0, n, k), s, pos0, n, k)
  BY BatchToIs
<1>2. ASSUME NEW k \in 0..Layers
      PROVE  /\ BatchTo(h, s, pos0, n, k).g \in Graphs
             /\ pos0 # 0 => KeepsAll(h, BatchTo(h, s, pos0, n, k).g, pos0, pos0 + n)
             /\ n <= PrefillCap \/ BatchTo(h, s, pos0, n, k).g = h
  <2>1. PICK x : x = BatchTo(h, s, pos0, n, k) /\ BatchesTo(h, x, s, pos0, n, k)
    BY <1>1, Zenon
  <2>2. x \in Batchings /\ (pos0 # 0 => KeepsAll(h, x.g, pos0, pos0 + n)) /\ (n <= PrefillCap \/ x.g = h)
    BY <2>1, Zenon DEF BatchesTo
  <2>3. x.g \in Graphs
    BY <2>2 DEF Batchings
  <2> QED BY <2>1, <2>2, <2>3, Zenon
<1>3. Layers \in 0..Layers
  BY GraphFacts
<1>4. BatchesTo(h, Batch(h, s, pos0, n), s, pos0, n, Layers)
  BY <1>1, <1>3, Zenon DEF Batch
<1>5. ASSUME NEW lo \in Int, Batch(h, s, pos0, n).ok, lo + Window <= pos0 + 1, Apart(lo, pos0 + n),
             pos0 # 0 => GraphShows(h, s, lo, pos0), pos0 = 0 => n % 4 = 0
      PROVE  /\ Batch(h, s, pos0, n).right = pos0..(pos0 + n - 1)
             /\ GraphShows(Batch(h, s, pos0, n).g, s, lo, pos0 + n)
  BY <1>4, <1>5, AllLayers, Zenon DEF BatchesTo
<1>6. Batch(h, s, pos0, n) \in Batchings /\ (Batch(h, s, pos0, n).ok => n <= PrefillCap)
  BY <1>4, Zenon DEF BatchesTo
<1> QED BY <1>2, <1>5, <1>6, Zenon

-----------------------------------------------------------------------------
(* What belongs to a text belongs to every text with the same rows.        *)
LEMMA StateOfKept ==
    ASSUME NEW u \in Unit, NEW s, NEW t, NEW p \in Nat, Agree(s, t, p + 1)
    PROVE  StateOf(u, s, p) = StateOf(u, t, p)
<1>1. \A q \in 0..p : RowOf(s, q) = RowOf(t, q)
  BY DEF Agree
<1>2. p - (p % RatioOf(u)) \in Nat
  BY ClosesIs
<1>3. PICK first \in Nat : first = p - (p % RatioOf(u))
  BY <1>2
<1>4. ASSUME NEW v \in Int
      PROVE  (IF v < 0 \/ v > p THEN NoRow ELSE RowOf(s, v)) = (IF v < 0 \/ v > p THEN NoRow ELSE RowOf(t, v))
  <2>1. CASE v < 0 \/ v > p
    BY <2>1
  <2>2. CASE ~(v < 0 \/ v > p)
    <3>1. v \in 0..p
      BY <2>2
    <3> QED BY <1>1, <2>2, <3>1
  <2> QED BY <2>1, <2>2
<1> DEFINE Pos(r) == first + (IF RatioOf(u) = 4 THEN r - 4 ELSE r)
<1>5. ASSUME NEW r \in DOMAIN Empty(u)
      PROVE  (IF Pos(r) < 0 \/ Pos(r) > p THEN NoRow ELSE RowOf(s, Pos(r)))
                = (IF Pos(r) < 0 \/ Pos(r) > p THEN NoRow ELSE RowOf(t, Pos(r)))
  <2>1. Pos(r) \in Int
    <3>1. r \in Int
      BY UnitFacts
    <3> QED BY <3>1
  <2> HIDE DEF Pos
  <2> QED BY <1>4, <2>1, Zenon
<1>6. [r \in DOMAIN Empty(u) |-> IF Pos(r) < 0 \/ Pos(r) > p THEN NoRow ELSE RowOf(s, Pos(r))]
        = [r \in DOMAIN Empty(u) |-> IF Pos(r) < 0 \/ Pos(r) > p THEN NoRow ELSE RowOf(t, Pos(r))]
  <2> HIDE DEF Pos
  <2> QED BY <1>5, Zenon
<1> QED BY <1>3, <1>6, Zenon DEF StateOf, Pos

(* A pooled row only depends on the tokens up to its window's end.         *)
LEMMA CompRowKept ==
    ASSUME NEW u \in Unit, NEW s, NEW t, NEW n \in Nat, Agree(s, t, n),
           NEW k \in 0..((n \div RatioOf(u)) - 1)
    PROVE  CompRowOf(u, s, k) = CompRowOf(u, t, k)
<1>0. PICK R \in Nat \ {0} : R = RatioOf(u)
  BY UnitFacts
<1> DEFINE p == (k + 1) * R - 1
<1>2. PICK q, r, m : Divides(n, R, q, r, m)
  BY Divided
<1>3. k \in 0..(q - 1) /\ m \in Nat /\ r \in Nat /\ n = m + r
  <2>1. n \div R = q /\ q \in Nat /\ r \in 0..(R - 1) /\ m \in Nat /\ n = m + r
    BY <1>2, Zenon DEF Divides
  <2>2. k \in 0..(q - 1)
    BY <1>0, <2>1, Zenon
  <2> QED BY <2>1, <2>2
<1>4. (k + 1) * R \in R..m
  BY <1>2, <1>3, ProductBelow
<1>5. ASSUME NEW a \in R..m PROVE a - 1 \in Nat /\ (a - 1) + 1 <= n
  BY <1>3
<1>6. p \in Nat /\ p + 1 <= n
  BY <1>4, <1>5
<1>61. (k + 1) * RatioOf(u) - 1 = p
  BY <1>0
<1> HIDE DEF p
<1>7. Agree(s, t, p + 1)
  BY <1>6 DEF Agree
<1>8. StateOf(u, s, p) = StateOf(u, t, p)
  BY <1>6, <1>7, StateOfKept
<1> QED BY <1>8, <1>61, Zenon DEF CompRowOf

(* So do all of them.                                                      *)
LEMMA PoolsKept ==
    ASSUME NEW u \in Unit, NEW s, NEW t, NEW n \in Nat, Agree(s, t, n), NEW c
    PROVE  Pools(u, c, s, n \div RatioOf(u)) => Pools(u, c, t, n \div RatioOf(u))
<1>1. \A k \in 0..((n \div RatioOf(u)) - 1) : CompRowOf(u, s, k) = CompRowOf(u, t, k)
  BY CompRowKept
<1> QED BY <1>1, Zenon DEF Pools

(* And the rows of the window being filled.                                *)
LEMMA WindowKept ==
    ASSUME NEW u \in Unit, NEW s, NEW t, NEW n \in Nat, Agree(s, t, n), NEW state
    PROVE  WindowShows(u, state, s, n) => WindowShows(u, state, t, n)
<1>1. \A q \in 0..(n - 1) : RowOf(s, q) = RowOf(t, q)
  BY DEF Agree
<1>2. PICK f \in Nat : f = n % RatioOf(u) /\ n - f \in Nat
  BY ClosesIs
<1>3. RatioOf(u) = 4 => f \in 0..3
  BY <1>2, DivMod
<1>4. ASSUME RatioOf(u) = 4, NEW r \in 0..3 PROVE Previous(s, n, r) = Previous(t, n, r)
  <2>1. PICK m \in 0..3 : m = n % 4
    BY DivMod
  <2>2. CASE n < 4
    BY <2>2 DEF Previous
  <2>3. CASE n >= 4
    <3>1. n - m - 4 + r \in 0..(n - 1)
      <4>1. PICK q, b, a : Divides(n, 4, q, b, a)
        BY Divided
      <4>2. a \in Nat /\ b = m /\ n = a + b /\ q \in Nat /\ a = q * 4
        BY <2>1, <4>1 DEF Divides
      <4>3. a >= 4
        BY <2>3, <4>2
      <4> QED BY <4>2, <4>3
    <3>2. RowOf(s, n - m - 4 + r) = RowOf(t, n - m - 4 + r)
      BY <1>1, <3>1, Zenon
    <3> QED BY <2>1, <2>3, <3>2 DEF Previous
  <2> QED BY <2>2, <2>3
<1>5. \A r \in 0..(f - 1) : RowOf(s, n - f + r) = RowOf(t, n - f + r)
  BY <1>1, <1>2
<1>6. CASE RatioOf(u) = 4
  BY <1>2, <1>4, <1>5, <1>6, Zenon DEF WindowShows
<1>7. CASE RatioOf(u) # 4
  BY <1>2, <1>5, <1>7, Zenon DEF WindowShows
<1> QED BY <1>6, <1>7

SameFor(s, t, n) ==
    /\ \A u \in Unit : \A c : (UnitShows(u, c, s, n) => UnitShows(u, c, t, n)) /\ (UnitKeeps(u, c, s, n) => UnitKeeps(u, c, t, n))
    /\ \A ring, lo : RingShows(ring, s, lo, n) => RingShows(ring, t, lo, n)
    /\ \A h, l, lo : (LayerShows(h, l, s, lo, n) => LayerShows(h, l, t, lo, n)) /\ (LayerHas(h, l, s, lo, n) => LayerHas(h, l, t, lo, n))
    /\ \A h, lo : (GraphShows(h, s, lo, n) => GraphShows(h, t, lo, n)) /\ (GraphHas(h, s, lo, n) => GraphHas(h, t, lo, n))

(* What a graph shows or has of the first n tokens it shows or has of any  *)
(* text that starts with them.                                             *)
LEMMA SameHistory ==
    ASSUME NEW s, NEW t, NEW n \in Nat, Agree(s, t, n)
    PROVE  SameFor(s, t, n)
<1>1. ASSUME NEW u \in Unit, NEW c
      PROVE  (UnitShows(u, c, s, n) => UnitShows(u, c, t, n)) /\ (UnitKeeps(u, c, s, n) => UnitKeeps(u, c, t, n))
  BY PoolsKept, WindowKept, Zenon DEF UnitShows, UnitKeeps
<1>2. ASSUME NEW ring, NEW lo PROVE RingShows(ring, s, lo, n) => RingShows(ring, t, lo, n)
  BY Zenon DEF RingShows, Agree
<1>3. ASSUME NEW h, NEW l, NEW lo
      PROVE  (LayerShows(h, l, s, lo, n) => LayerShows(h, l, t, lo, n)) /\ (LayerHas(h, l, s, lo, n) => LayerHas(h, l, t, lo, n))
  BY <1>1, <1>2, Zenon DEF LayerShows, LayerHas
<1>4. ASSUME NEW h, NEW lo
      PROVE  (GraphShows(h, s, lo, n) => GraphShows(h, t, lo, n)) /\ (GraphHas(h, s, lo, n) => GraphHas(h, t, lo, n))
  BY <1>3, Zenon DEF GraphShows, GraphHas
<1> QED BY <1>1, <1>2, <1>3, <1>4, Zenon DEF SameFor

-----------------------------------------------------------------------------
(* Two tokens through a layer one after the other, and the compressors as  *)
(* the first one left them.                                                *)
Twos == [g : Graphs, ok : BOOLEAN, right : BOOLEAN \X BOOLEAN, first : Units]

OneOf(x, l, s) == DecodeLayer([g |-> x.g, ok |-> x.ok, right |-> x.right[1]], l, s)
TwoOf(x, one, l, s) == DecodeLayer([g |-> one.g, ok |-> one.ok, right |-> x.right[2]], l, s)
TwoLayer(x, one, two, l) ==
    [g |-> two.g, ok |-> two.ok, right |-> <<one.right, two.right>>,
     first |-> [u \in Unit |-> IF u[1] = l THEN one.g.unit[u] ELSE x.first[u]]]
TwoStep(x, l, s, first) == TwoLayer(x, OneOf(x, l, first), TwoOf(x, OneOf(x, l, first), l, s), l)

TwoSteps(h, s, first) == \A l \in 1..Layers : DecodeTwoTo(h, s, l) = TwoStep(DecodeTwoTo(h, s, l - 1), l, s, first)

(* The recursive function of DecodeTwoTo, step by step.                    *)
LEMMA DecodeTwoToUnfold ==
    ASSUME NEW h, NEW s, NEW first, first = Upto(s, Len(s) - 1)
    PROVE  /\ DecodeTwoTo(h, s, 0) = [g |-> h, ok |-> TRUE, right |-> <<TRUE, TRUE>>, first |-> h.unit]
           /\ TwoSteps(h, s, first)
<1> DEFINE base == [g |-> h, ok |-> TRUE, right |-> <<TRUE, TRUE>>, first |-> h.unit]
           Body(f, l) == IF l = 0 THEN base ELSE TwoStep(f[l - 1], l, s, first)
           Solves(f, m) == f = [l \in 0..m |-> Body(f, l)]
           T == {m \in Nat : \E f : Solves(f, m)}
<1> HIDE DEF base
<1>1. 0 \in T
  <2> DEFINE f == [l \in 0..0 |-> base]
  <2>1. \A l \in 0..0 : Body(f, l) = base
    OBVIOUS
  <2>2. Solves(f, 0)
    BY <2>1
  <2> QED BY <2>2
<1>2. ASSUME NEW m \in Nat, m \in T PROVE m + 1 \in T
  <2>1. PICK f : Solves(f, m)
    BY <1>2
  <2> DEFINE e == [l \in 0..(m + 1) |-> IF l = m + 1 THEN TwoStep(f[m], m + 1, s, first) ELSE f[l]]
  <2>0. \A l \in 0..m : e[l] = f[l]
    OBVIOUS
  <2>2. \A l \in 0..m : f[l] = Body(f, l) /\ e[l] = f[l]
    <3> HIDE DEF e, Body
    <3> QED BY <2>0, <2>1
  <2>3. e[m + 1] = Body(e, m + 1)
    BY <2>2
  <2>4. ASSUME NEW l \in 0..m PROVE e[l] = Body(e, l)
    <3>1. l = 0 \/ l - 1 \in 0..m
      OBVIOUS
    <3>2. Body(f, l) = Body(e, l)
      BY <2>2, <3>1
    <3> HIDE DEF e, Body
    <3> QED BY <2>2, <3>2
  <2>6. e = [l \in 0..(m + 1) |-> e[l]]
    OBVIOUS
  <2> HIDE DEF e, Body
  <2>5. \A l \in 0..(m + 1) : e[l] = Body(e, l)
    BY <2>3, <2>4
  <2>7. Solves(e, m + 1)
    BY <2>5, <2>6
  <2> QED BY <2>7
<1>3. Layers \in T
  <2> HIDE DEF T
  <2> QED BY <1>1, <1>2, NatInduct, GraphFacts
<1> DEFINE F == CHOOSE f : Solves(f, Layers)
<1>4. Solves(F, Layers)
  <2>1. \E f : Solves(f, Layers)
    BY <1>3
  <2> HIDE DEF Solves
  <2> QED BY <2>1
<1>5. \A k : DecodeTwoTo(h, s, k) = F[k]
  BY DEF DecodeTwoTo, TwoStep, TwoLayer, OneOf, TwoOf, base
<1> HIDE DEF F
<1>6. \A l \in 0..Layers : F[l] = Body(F, l)
  BY <1>4
<1>7. F[0] = base
  <2>1. 0 \in 0..Layers
    BY GraphFacts
  <2> QED BY <1>6, <2>1
<1>8. ASSUME NEW l \in 1..Layers PROVE F[l] = TwoStep(F[l - 1], l, s, first)
  <2>1. l \in 0..Layers /\ l # 0
    BY GraphFacts
  <2> QED BY <1>6, <2>1
<1>9. TwoSteps(h, s, first)
  BY <1>5, <1>8, Zenon DEF TwoSteps
<1>10. DecodeTwoTo(h, s, 0) = base
  BY <1>5, <1>7, Zenon
<1> QED BY <1>9, <1>10, Zenon DEF base

(* What two tokens do to one layer.                                        *)
TwosLayer(x, y, l, s) ==
    /\ y \in Twos /\ OnlyLayer(x.g, y.g, l) /\ KeepsLayer(x.g, y.g, l, Len(s) - 2, Len(s))
    /\ \A u \in Unit : u[1] # l => y.first[u] = x.first[u]
    /\ y.ok => x.ok
    /\ \A lo \in Int : /\ y.ok /\ x.right[1] /\ x.right[2] /\ lo + Window <= Len(s) - 1 /\ Apart(lo, Len(s))
                       /\ LayerShows(x.g, l, s, lo, Len(s) - 2)
                       => /\ y.right[1] /\ y.right[2] /\ LayerShows(y.g, l, s, lo, Len(s))
                          /\ \A u \in Unit : u[1] = l => UnitShows(u, y.first[u], s, Len(s) - 1)

(* Two tokens through one layer.                                           *)
LEMMA TwosLayerIs ==
    ASSUME NEW x \in Twos, NEW l \in Layer, NEW s \in Seq(Token), Len(s) > 1,
           NEW first, first = Upto(s, Len(s) - 1), NEW y, y = TwoStep(x, l, s, first)
    PROVE  TwosLayer(x, y, l, s)
<1>1. /\ x.g \in Graphs /\ x.ok \in BOOLEAN /\ x.right[1] \in BOOLEAN /\ x.right[2] \in BOOLEAN /\ x.first \in Units
  BY DEF Twos
<1>2. PICK N \in Nat : N = Len(s) /\ N > 1 /\ N - 1 \in Nat /\ N - 2 \in Nat /\ (N - 1) - 1 = N - 2 /\ N - 1 \in 0..Len(s)
  OBVIOUS
<1>3. first \in Seq(Token) /\ Len(first) = N - 1 /\ Len(first) > 0
  BY <1>2, UptoIs
<1>4. Agree(first, s, N - 1) /\ Agree(s, first, N - 2)
  <2>1. Agree(first, s, N - 1)
    BY <1>2, AgreeUpto
  <2> QED BY <1>2, <2>1 DEF Agree
<1>5. PICK a \in Decodings : a.g = x.g /\ a.ok = x.ok /\ a.right = x.right[1] /\ a = [g |-> x.g, ok |-> x.ok, right |-> x.right[1]]
  BY <1>1 DEF Decodings
<1>6. PICK one : one = OneOf(x, l, first) /\ one = DecodeLayer(a, l, first)
  BY <1>5, Zenon DEF OneOf
<1>7. DecodesLayer(a, one, l, first)
  BY <1>3, <1>6, DecodeLayerIs, Zenon
<1>8. one \in Decodings /\ one.g \in Graphs /\ one.ok \in BOOLEAN /\ one.right \in BOOLEAN
  <2>1. one \in Decodings
    BY <1>7, Zenon DEF DecodesLayer
  <2> QED BY <2>1 DEF Decodings
<1>9. PICK b \in Decodings : b.g = one.g /\ b.ok = one.ok /\ b.right = x.right[2] /\ b = [g |-> one.g, ok |-> one.ok, right |-> x.right[2]]
  BY <1>1, <1>8 DEF Decodings
<1>10. PICK two : two = TwoOf(x, one, l, s) /\ two = DecodeLayer(b, l, s)
  BY <1>9, Zenon DEF TwoOf
<1>11. DecodesLayer(b, two, l, s)
  BY <1>10, DecodeLayerIs
<1>12. two \in Decodings /\ two.g \in Graphs /\ two.ok \in BOOLEAN /\ two.right \in BOOLEAN
  <2>1. two \in Decodings
    BY <1>11, Zenon DEF DecodesLayer
  <2> QED BY <2>1 DEF Decodings
<1>13. y = TwoLayer(x, one, two, l)
  BY <1>6, <1>10, Zenon DEF TwoStep
<1>14. /\ \A u \in Unit : u[1] = l => y.first[u] = one.g.unit[u]
       /\ \A u \in Unit : u[1] # l => y.first[u] = x.first[u]
       /\ y.first = [u \in Unit |-> y.first[u]]
       /\ y.g = two.g /\ y.ok = two.ok /\ y.right = <<one.right, two.right>>
       /\ y = [g |-> y.g, ok |-> y.ok, right |-> y.right, first |-> y.first]
  BY <1>13 DEF TwoLayer
<1>15. y \in Twos
  <2>1. \A u \in Unit : y.first[u] \in Compressor(u)
    <3>1. \A u \in Unit : one.g.unit[u] \in Compressor(u)
      BY <1>8, GraphParts
    <3>2. \A u \in Unit : x.first[u] \in Compressor(u)
      BY <1>1 DEF Units
    <3> QED BY <1>14, <3>1, <3>2, Zenon
  <2>2. y.first \in Units
    BY <1>14, <2>1, UnitsAre, Zenon
  <2> QED BY <1>8, <1>12, <1>14, <2>2 DEF Twos
<1>16. OnlyLayer(x.g, y.g, l)
  <2>1. OnlyLayer(x.g, one.g, l) /\ OnlyLayer(one.g, two.g, l)
    BY <1>5, <1>7, <1>9, <1>11, Zenon DEF DecodesLayer
  <2>2. OnlyLayer(x.g, two.g, l)
    BY <2>1 DEF OnlyLayer
  <2> QED BY <1>14, <2>2, Zenon
<1>17. ASSUME NEW lo \in Int, Apart(lo, N) PROVE Apart(lo, N - 1)
  BY <1>17, GraphFacts DEF Apart
<1>18. KeepsLayer(x.g, y.g, l, N - 2, N)
  <2>1. KeepsLayer(x.g, one.g, l, N - 2, N - 1) /\ KeepsLayer(one.g, two.g, l, N - 1, N)
    BY <1>2, <1>3, <1>5, <1>7, <1>9, <1>11, Zenon DEF DecodesLayer
  <2>2. \A n : n \in 0..(N - 2) => n \in 0..(N - 1)
    BY <1>2
  <2> QED BY <1>14, <1>17, <2>1, <2>2, Zenon DEF KeepsLayer
<1>19. (two.ok => one.ok) /\ (one.ok => x.ok)
  BY <1>5, <1>7, <1>9, <1>11, Zenon DEF DecodesLayer
<1>20. ASSUME NEW lo \in Int, y.ok, x.right[1], x.right[2], lo + Window <= N - 1, Apart(lo, N), LayerShows(x.g, l, s, lo, N - 2)
       PROVE  /\ y.right[1] /\ y.right[2] /\ LayerShows(y.g, l, s, lo, N)
              /\ \A u \in Unit : u[1] = l => UnitShows(u, y.first[u], s, N - 1)
  <2>1. LayerShows(a.g, l, first, lo, N - 2)
    <3>1. SameFor(s, first, N - 2)
      BY <1>2, <1>4, SameHistory, Zenon
    <3> QED BY <1>5, <1>20, <3>1, Zenon DEF SameFor
  <2>2. one.right /\ LayerShows(one.g, l, first, lo, N - 1)
    <3>1. one.ok /\ a.right
      BY <1>5, <1>14, <1>19, <1>20, Zenon
    <3>2. lo + Window <= Len(first) /\ Apart(lo, Len(first))
      BY <1>3, <1>17, <1>20, Zenon
    <3>3. LayerShows(a.g, l, first, lo, Len(first) - 1)
      BY <1>2, <1>3, <2>1, Zenon
    <3> QED BY <1>3, <1>7, <3>1, <3>2, <3>3, Zenon DEF DecodesLayer
  <2>3. LayerShows(one.g, l, s, lo, N - 1)
    <3>1. SameFor(first, s, N - 1)
      BY <1>2, <1>4, SameHistory, Zenon
    <3> QED BY <2>2, <3>1, Zenon DEF SameFor
  <2>4. two.right /\ LayerShows(two.g, l, s, lo, N)
    <3>1. two.ok /\ b.right
      BY <1>9, <1>14, <1>20, Zenon
    <3>2. lo + Window <= Len(s)
      BY <1>2, <1>20, GraphFacts
    <3> QED BY <1>2, <1>9, <1>11, <1>20, <2>3, <3>1, <3>2, Zenon DEF DecodesLayer
  <2>5. \A u \in Unit : u[1] = l => UnitShows(u, y.first[u], s, N - 1)
    BY <1>14, <2>3, Zenon DEF LayerShows
  <2>6. y.right[1] = one.right /\ y.right[2] = two.right
    BY <1>14
  <2> QED BY <1>14, <2>2, <2>4, <2>5, <2>6, Zenon
<1> QED BY <1>2, <1>14, <1>15, <1>16, <1>18, <1>19, <1>20, Zenon DEF TwosLayer

(* After k layers.                                                         *)
FirstsUpto(first, k, s, n) == \A u \in Unit : u[1] <= k => UnitShows(u, first[u], s, n)

TwosTo(h, x, s, k) ==
    /\ x \in Twos /\ Untouched(h, x.g, k) /\ KeepsAll(h, x.g, Len(s) - 2, Len(s))
    /\ \A lo \in Int : x.ok /\ lo + Window <= Len(s) - 1 /\ Apart(lo, Len(s)) /\ GraphShows(h, s, lo, Len(s) - 2)
                       => /\ x.right[1] /\ x.right[2] /\ ShowsUpto(x.g, k, s, lo, Len(s))
                          /\ FirstsUpto(x.first, k, s, Len(s) - 1)

(* The captured compressors of the layers so far.                          *)
LEMMA NextFirst ==
    ASSUME NEW x, NEW y, NEW l \in Layer, NEW s, NEW n, \A u \in Unit : u[1] # l => y[u] = x[u],
           FirstsUpto(x, l - 1, s, n), \A u \in Unit : u[1] = l => UnitShows(u, y[u], s, n)
    PROVE  FirstsUpto(y, l, s, n)
<1>1. ASSUME NEW u \in Unit, u[1] <= l PROVE UnitShows(u, y[u], s, n)
  <2>1. CASE u[1] = l
    BY <2>1
  <2>2. CASE u[1] # l
    <3>1. u[1] <= l - 1
      BY <1>1, <2>2, UnitFacts, GraphFacts
    <3> QED BY <2>2, <3>1, Zenon DEF FirstsUpto
  <2> QED BY <2>1, <2>2
<1> QED BY <1>1, Zenon DEF FirstsUpto

(* Two tokens through the first k layers, by induction.                    *)
LEMMA DecodeTwoToIs ==
    ASSUME NEW h \in Graphs, NEW s \in Seq(Token), Len(s) > 1, NEW k \in 0..Layers
    PROVE  TwosTo(h, DecodeTwoTo(h, s, k), s, k)
<1> DEFINE D(l) == DecodeTwoTo(h, s, l)
           T == {l \in Nat : l <= Layers => TwosTo(h, D(l), s, l)}
<1>0. PICK N, M, n : N = Len(s) /\ M = Len(s) - 1 /\ n = Len(s) - 2
  OBVIOUS
<1>01. PICK first : first = Upto(s, Len(s) - 1)
  OBVIOUS
<1>02. DecodeTwoTo(h, s, 0) = [g |-> h, ok |-> TRUE, right |-> <<TRUE, TRUE>>, first |-> h.unit]
  BY <1>01, DecodeTwoToUnfold, Zenon
<1>03. \A l \in 1..Layers : DecodeTwoTo(h, s, l) = TwoStep(DecodeTwoTo(h, s, l - 1), l, s, first)
  <2>1. TwoSteps(h, s, first)
    BY <1>01, DecodeTwoToUnfold, Zenon
  <2> QED BY <2>1, Zenon DEF TwoSteps
<1>1. 0 \in T
  <2> DEFINE base == [g |-> h, ok |-> TRUE, right |-> <<TRUE, TRUE>>, first |-> h.unit]
  <2>1. D(0) = base
    BY <1>02
  <2>0. base \in Twos /\ base.g = h /\ base.right[1] /\ base.right[2]
    <3>1. h.unit \in Units
      BY DEF Graphs
    <3> QED BY <3>1 DEF Twos
  <2> HIDE DEF D, base
  <2>2. D(0) \in Twos /\ D(0).g = h /\ D(0).right[1] /\ D(0).right[2]
    BY <2>0, <2>1, Zenon
  <2>4. FirstsUpto(D(0).first, 0, s, Len(s) - 1)
    <3>1. \A u \in Unit : ~(u[1] <= 0)
      BY UnitFacts, GraphFacts
    <3> QED BY <3>1, Zenon DEF FirstsUpto
  <2>3. TwosTo(h, D(0), s, 0)
    BY <2>2, <2>4, NoLayer, Zenon DEF TwosTo
  <2> QED BY <2>3
<1>2. ASSUME NEW l \in Nat, l \in T PROVE l + 1 \in T
  <2>1. SUFFICES ASSUME l + 1 <= Layers PROVE TwosTo(h, D(l + 1), s, l + 1)
    OBVIOUS
  <2>2. PICK m \in Layer : m = l + 1 /\ m - 1 = l /\ m \in 1..Layers
    BY <2>1, GraphFacts
  <2>3. PICK x : x = D(l) /\ TwosTo(h, x, s, l)
    <3>1. l <= Layers
      BY <2>1, GraphFacts
    <3> QED BY <1>2, <3>1
  <2>4. PICK y : y = D(l + 1) /\ y = TwoStep(x, m, s, first)
    BY <1>03, <2>2, <2>3, Zenon
  <2>5. x \in Twos
    BY <2>3, Zenon DEF TwosTo
  <2>6. TwosLayer(x, y, m, s)
    BY <1>01, <2>4, <2>5, TwosLayerIs, Zenon
  <2>7. /\ Untouched(h, y.g, m) /\ KeepsAll(h, y.g, n, N)
        /\ \A lo : LayerShows(h, m, s, lo, n) => LayerShows(x.g, m, s, lo, n)
        /\ \A lo : ShowsUpto(x.g, l, s, lo, N) /\ LayerShows(y.g, m, s, lo, N) => ShowsUpto(y.g, m, s, lo, N)
    <3>1. OnlyLayer(x.g, y.g, m) /\ KeepsLayer(x.g, y.g, m, n, N)
      BY <1>0, <2>6, Zenon DEF TwosLayer
    <3>2. Untouched(h, x.g, m - 1) /\ KeepsAll(h, x.g, n, N)
      BY <1>0, <2>2, <2>3, Zenon DEF TwosTo
    <3>3. Untouched(h, y.g, m) /\ KeepsAll(h, y.g, n, N)
      BY <3>1, <3>2, NextLayer, Zenon
    <3>4. \A lo : LayerShows(h, m, s, lo, n) => LayerShows(x.g, m, s, lo, n)
      BY <3>1, <3>2, NextLayer, Zenon
    <3>5. \A lo : ShowsUpto(x.g, m - 1, s, lo, N) /\ LayerShows(y.g, m, s, lo, N) => ShowsUpto(y.g, m, s, lo, N)
      BY <3>1, <3>2, NextLayer, Zenon
    <3> QED BY <2>2, <3>3, <3>4, <3>5, Zenon
  <2>8. ASSUME NEW lo \in Int, y.ok, lo + Window <= M, Apart(lo, N), GraphShows(h, s, lo, n)
        PROVE  y.right[1] /\ y.right[2] /\ ShowsUpto(y.g, m, s, lo, N) /\ FirstsUpto(y.first, m, s, M)
    <3>1. x.ok
      BY <2>6, <2>8, Zenon DEF TwosLayer
    <3>2. x.right[1] /\ x.right[2] /\ ShowsUpto(x.g, l, s, lo, N) /\ FirstsUpto(x.first, l, s, M)
      BY <1>0, <2>3, <2>8, <3>1, Zenon DEF TwosTo
    <3>3. LayerShows(x.g, m, s, lo, n)
      BY <2>7, <2>8, Zenon DEF GraphShows
    <3>4. /\ y.right[1] /\ y.right[2] /\ LayerShows(y.g, m, s, lo, N)
          /\ \A u \in Unit : u[1] = m => UnitShows(u, y.first[u], s, M)
      BY <1>0, <2>6, <2>8, <3>2, <3>3, Zenon DEF TwosLayer
    <3>5. \A u \in Unit : u[1] # m => y.first[u] = x.first[u]
      BY <2>6, Zenon DEF TwosLayer
    <3>6. FirstsUpto(y.first, m, s, M)
      <4>1. FirstsUpto(x.first, m - 1, s, M)
        BY <2>2, <3>2, Zenon
      <4> QED BY <3>4, <3>5, <4>1, NextFirst, Zenon
    <3> QED BY <2>7, <3>2, <3>4, <3>6, Zenon
  <2>9. y \in Twos
    BY <2>6, Zenon DEF TwosLayer
  <2>10. TwosTo(h, y, s, m)
    BY <1>0, <2>7, <2>8, <2>9, Zenon DEF TwosTo
  <2> QED BY <2>2, <2>4, <2>10, Zenon
<1> HIDE DEF T, D
<1>3. k \in Nat /\ k <= Layers
  BY GraphFacts
<1>4. k \in T
  BY <1>1, <1>2, <1>3, NatInduct
<1> QED BY <1>3, <1>4 DEF T, D

(* Two tokens through all of them.                                         *)
LEMMA DecodeTwoIs ==
    ASSUME NEW h \in Graphs, NEW s \in Seq(Token), Len(s) > 1
    PROVE  /\ DecodeTwoTo(h, s, Layers) \in Twos
           /\ \A k \in 0..Layers : DecodeTwoTo(h, s, k).g \in Graphs /\ KeepsAll(h, DecodeTwoTo(h, s, k).g, Len(s) - 2, Len(s))
           /\ \A lo \in Int : /\ DecodeTwoTo(h, s, Layers).ok /\ lo + Window <= Len(s) - 1 /\ Apart(lo, Len(s))
                              /\ GraphShows(h, s, lo, Len(s) - 2)
                              => /\ DecodeTwoTo(h, s, Layers).right[1] /\ DecodeTwoTo(h, s, Layers).right[2]
                                 /\ GraphShows(DecodeTwoTo(h, s, Layers).g, s, lo, Len(s))
                                 /\ \A u \in Unit : UnitShows(u, DecodeTwoTo(h, s, Layers).first[u], s, Len(s) - 1)
<1>1. \A k \in 0..Layers : TwosTo(h, DecodeTwoTo(h, s, k), s, k)
  BY DecodeTwoToIs
<1>2. ASSUME NEW k \in 0..Layers
      PROVE DecodeTwoTo(h, s, k).g \in Graphs /\ KeepsAll(h, DecodeTwoTo(h, s, k).g, Len(s) - 2, Len(s))
  <2>1. PICK x : x = DecodeTwoTo(h, s, k) /\ TwosTo(h, x, s, k)
    BY <1>1, Zenon
  <2>2. x \in Twos /\ KeepsAll(h, x.g, Len(s) - 2, Len(s))
    BY <2>1, Zenon DEF TwosTo
  <2>3. x.g \in Graphs
    BY <2>2 DEF Twos
  <2> QED BY <2>1, <2>2, <2>3, Zenon
<1>3. Layers \in 0..Layers
  BY GraphFacts
<1>4. PICK x : x = DecodeTwoTo(h, s, Layers) /\ TwosTo(h, x, s, Layers)
  BY <1>1, <1>3, Zenon
<1>5. ASSUME NEW lo \in Int, x.ok, lo + Window <= Len(s) - 1, Apart(lo, Len(s)), GraphShows(h, s, lo, Len(s) - 2)
      PROVE  /\ x.right[1] /\ x.right[2] /\ GraphShows(x.g, s, lo, Len(s))
             /\ \A u \in Unit : UnitShows(u, x.first[u], s, Len(s) - 1)
  <2>1. x.right[1] /\ x.right[2] /\ ShowsUpto(x.g, Layers, s, lo, Len(s)) /\ FirstsUpto(x.first, Layers, s, Len(s) - 1)
    BY <1>4, <1>5, Zenon DEF TwosTo
  <2>2. GraphShows(x.g, s, lo, Len(s))
    BY <2>1, AllLayers, Zenon
  <2>3. \A u \in Unit : u[1] <= Layers
    BY UnitFacts, GraphFacts
  <2> QED BY <2>1, <2>2, <2>3, Zenon DEF FirstsUpto
<1>6. x \in Twos
  BY <1>4, Zenon DEF TwosTo
<1> QED BY <1>2, <1>4, <1>5, <1>6, Zenon

-----------------------------------------------------------------------------
(* Less of the same: fewer raw rows, and fewer tokens.                     *)
LEMMA FewerRows ==
    ASSUME NEW h, NEW s, NEW lo \in Int, NEW hi \in Int, lo <= hi, NEW n \in Nat
    PROVE  /\ GraphShows(h, s, lo, n) => GraphShows(h, s, hi, n)
           /\ GraphHas(h, s, lo, n) => GraphHas(h, s, hi, n)
<1>1. ASSUME NEW ring, RingShows(ring, s, lo, n) PROVE RingShows(ring, s, hi, n)
  <2>1. \A q \in 0..(n - 1) : hi <= q => lo <= q
    OBVIOUS
  <2> QED BY <1>1, <2>1, Zenon DEF RingShows
<1> QED BY <1>1, Zenon DEF GraphShows, GraphHas, LayerShows, LayerHas

(* A graph with the rows of N tokens has those of fewer.                   *)
LEMMA FewerTokens ==
    ASSUME NEW h, NEW s, NEW lo, NEW n \in Nat, NEW m \in 0..n, GraphHas(h, s, lo, n),
           \A u \in Unit : h.unit[u].n \in Nat
    PROVE  GraphHas(h, s, lo, m)
<1>1. ASSUME NEW ring, RingShows(ring, s, lo, n) PROVE RingShows(ring, s, lo, m)
  <2>1. \A q \in 0..(m - 1) : q \in 0..(n - 1)
    OBVIOUS
  <2> QED BY <1>1, <2>1, Zenon DEF RingShows
<1>2. ASSUME NEW u \in Unit, UnitKeeps(u, h.unit[u], s, n) PROVE UnitKeeps(u, h.unit[u], s, m)
  <2>1. PICK a \in Nat, b \in Nat : a = m \div RatioOf(u) /\ b = n \div RatioOf(u) /\ a <= b
    <3>1. PICK R \in Nat \ {0} : R = RatioOf(u)
      BY UnitFacts
    <3>2. m \in Nat /\ m <= n
      OBVIOUS
    <3>3. m \div R \in Nat /\ n \div R \in Nat /\ m \div R <= n \div R
      BY <3>2, QuotientOrder, DivMod
    <3> QED BY <3>1, <3>3, Zenon
  <2>2. b <= h.unit[u].n /\ Pools(u, h.unit[u], s, b)
    BY <1>2, <2>1, Zenon DEF UnitKeeps
  <2>3. a <= h.unit[u].n
    BY <2>1, <2>2
  <2>4. Pools(u, h.unit[u], s, a)
    BY <2>1, <2>2 DEF Pools
  <2> QED BY <2>1, <2>3, <2>4, Zenon DEF UnitKeeps
<1> QED BY <1>1, <1>2, Zenon DEF GraphHas, LayerHas

(* The ring has room for a batch and the window before it.                 *)
LEMMA RoomFor ==
    ASSUME NEW pos \in Nat, NEW n \in Nat, pos + n <= Ctx, n <= PrefillCap \/ n <= 4
    PROVE  /\ Apart(pos - Window, pos + n) /\ n <= PrefillCap
<1>1. n <= PrefillCap
  <2>1. CASE PrefillCap % 4 = 0
    <3>1. PrefillCap \in Nat \ {0}
      BY GraphFacts
    <3>2. PrefillCap >= 4
      BY <2>1, <3>1
    <3> QED BY <3>1, <3>2
  <2>2. CASE Ctx <= PrefillCap
    BY <2>2, GraphFacts
  <2> QED BY <2>1, <2>2, CapAssumption
<1>2. Apart(pos - Window, pos + n)
  BY <1>1, CapAssumption, GraphFacts DEF Apart
<1> QED BY <1>1, <1>2

-----------------------------------------------------------------------------
(* The graph is that of a text, with the raw rows of its last window; and  *)
(* what a step of each kind makes of it.                                   *)
Exactly(h, s) == h \in Graphs /\ GraphShows(h, s, Len(s) - Window, Len(s))

Follows(s, t, n) == s \in Seq(Token) /\ Len(s) = Len(t) + n /\ Upto(s, Len(t)) = t

(* A text and one that goes on from it have the same rows.                 *)
LEMMA FollowsAgree ==
    ASSUME NEW t \in Seq(Token), NEW n \in Nat, NEW s, Follows(s, t, n)
    PROVE  Agree(t, s, Len(t)) /\ Agree(s, t, Len(t))
<1>1. s \in Seq(Token) /\ Len(t) \in 0..Len(s) /\ Upto(s, Len(t)) = t
  BY DEF Follows
<1>2. Agree(t, s, Len(t))
  BY <1>1, AgreeUpto
<1> QED BY <1>2 DEF Agree

(* Decoding the next token keeps a graph exact and reads nothing wrong.    *)
LEMMA DecodeNext ==
    ASSUME NEW h, NEW t \in Seq(Token), Exactly(h, t), NEW s, Follows(s, t, 1), Len(s) <= Ctx, Decode(h, s).ok
    PROVE  Decode(h, s).right /\ Exactly(Decode(h, s).g, s)
<1>1. /\ s \in Seq(Token) /\ h \in Graphs
      /\ GraphShows(h, t, Len(t) - Window, Len(t))
  BY DEF Follows, Exactly
<1>2. PICK n \in Nat, lo \in Int, hi \in Int : /\ n = Len(t) /\ n + 1 = Len(s) /\ n = Len(s) - 1 /\ lo = n - Window /\ hi = Len(s) - Window
                                  /\ hi + Window <= Len(s) /\ lo + Window <= Len(s) /\ lo <= hi /\ Len(s) > 0 /\ Len(s) \in Nat
  <2>1. Len(s) = Len(t) + 1 /\ Len(t) \in Nat
    BY DEF Follows
  <2> QED BY <2>1, GraphFacts
<1>3. Apart(lo, Len(s))
  <2>1. n + 1 <= Ctx /\ 1 <= 4 /\ 1 \in Nat
    BY <1>2
  <2>2. Apart(n - Window, n + 1)
    BY <2>1, RoomFor, Zenon
  <2> QED BY <1>2, <2>2, Zenon
<1>4. GraphShows(h, s, lo, Len(s) - 1)
  <2>1. SameFor(t, s, n)
    BY <1>2, FollowsAgree, SameHistory
  <2> QED BY <1>1, <1>2, <2>1, Zenon DEF SameFor
<1>5. Decode(h, s).right /\ GraphShows(Decode(h, s).g, s, lo, Len(s))
  BY <1>1, <1>2, <1>3, <1>4, DecodeIs, Zenon
<1>6. GraphShows(Decode(h, s).g, s, hi, Len(s))
  BY <1>2, <1>5, FewerRows, Zenon
<1>7. Decode(h, s).g \in Graphs
  <2>1. Decode(h, s) \in Decodings
    BY <1>1, <1>2, DecodeIs, Zenon
  <2> QED BY <2>1 DEF Decodings
<1> QED BY <1>2, <1>5, <1>6, <1>7, Zenon DEF Exactly

(* A batch after some tokens of s, and the last window of a text that goes *)
(* on from t.                                                              *)
BatchExtends(x, s, pos0, n) ==
    x.right = pos0..(pos0 + n - 1) /\ x.g \in Graphs /\ GraphShows(x.g, s, pos0 - Window, pos0 + n)

(* So does a batch after the tokens there are.                             *)
LEMMA BatchNext ==
    ASSUME NEW h \in Graphs, NEW s \in Seq(Token), NEW pos0 \in Nat \ {0}, NEW n \in Nat \ {0}, pos0 + n <= Len(s), Len(s) <= Ctx,
           GraphShows(h, s, pos0 - Window, pos0), Batch(h, s, pos0, n).ok
    PROVE  BatchExtends(Batch(h, s, pos0, n), s, pos0, n)
<1>1. PICK lo \in Int : lo = pos0 - Window /\ lo + Window <= pos0 + 1
  BY GraphFacts
<1>2. n <= PrefillCap /\ pos0 \in Nat /\ n \in Nat
  <2>1. Batch(h, s, pos0, n).ok => n <= PrefillCap
    BY BatchIs
  <2> QED BY <2>1
<1>3. Apart(lo, pos0 + n)
  <2>1. pos0 + n <= Ctx
    BY GraphFacts
  <2> QED BY <1>1, <1>2, <2>1, RoomFor, Zenon
<1>4. pos0 = 0 => n % 4 = 0
  OBVIOUS
<1>5. /\ Batch(h, s, pos0, n).right = pos0..(pos0 + n - 1)
      /\ GraphShows(Batch(h, s, pos0, n).g, s, lo, pos0 + n)
  BY <1>1, <1>2, <1>3, <1>4, BatchIs, Zenon
<1>6. Batch(h, s, pos0, n).g \in Graphs
  <2>1. Batch(h, s, pos0, n) \in Batchings
    BY BatchIs
  <2> QED BY <2>1 DEF Batchings
<1> QED BY <1>1, <1>5, <1>6, Zenon DEF BatchExtends

(* And the exact verifier, which has the frontier after its first token    *)
(* too.                                                                    *)
LEMMA TwoNext ==
    ASSUME NEW h \in Graphs, NEW s \in Seq(Token), Len(s) > 1, Len(s) <= Ctx, NEW pos0 \in Nat, Len(s) = pos0 + 2,
           GraphShows(h, s, pos0 - Window, pos0), NEW x, x = DecodeTwoTo(h, s, Layers), x.ok
    PROVE  /\ x.right[1] /\ x.right[2] /\ x \in Twos
           /\ GraphShows(x.g, s, pos0 - Window, pos0 + 2)
           /\ \A u \in Unit : UnitShows(u, x.first[u], s, pos0 + 1)
<1>1. PICK lo \in Int : lo = pos0 - Window /\ lo + Window <= Len(s) - 1
  BY GraphFacts
<1>2. pos0 = Len(s) - 2 /\ pos0 + 1 = Len(s) - 1
  OBVIOUS
<1>3. Apart(lo, Len(s))
  <2>1. pos0 + 2 <= Ctx /\ 2 <= 4 /\ 2 \in Nat
    OBVIOUS
  <2> QED BY <1>1, <2>1, RoomFor, Zenon
<1>4. GraphShows(h, s, lo, Len(s) - 2)
  BY <1>1, <1>2, Zenon
<1>5. /\ x.right[1] /\ x.right[2] /\ GraphShows(x.g, s, lo, Len(s))
      /\ \A u \in Unit : UnitShows(u, x.first[u], s, Len(s) - 1)
  BY <1>1, <1>3, <1>4, DecodeTwoIs, Zenon
<1>6. x \in Twos
  BY DecodeTwoIs, Zenon
<1> QED BY <1>1, <1>2, <1>5, <1>6, Zenon

-----------------------------------------------------------------------------
(* The chunks of a range.                                                  *)
LEMMA ChunkLenIs ==
    ASSUME NEW start \in Nat, NEW pos \in Nat, NEW end \in Nat, pos < end
    PROVE  /\ ChunkLen(start, pos, end) \in Nat \ {0} /\ pos + ChunkLen(start, pos, end) <= end
           /\ start = 0 => ChunkLen(start, pos, end) = Least(end - pos, PrefillCap)
<1>1. PICK r \in Nat : r = pos % PrefillCap /\ r < PrefillCap
  <2>1. PICK P \in Nat \ {0} : P = PrefillCap
    BY GraphFacts
  <2>2. pos % P \in 0..(P - 1)
    BY DivMod
  <2> QED BY <2>1, <2>2
<1>2. CASE start = 0
  BY <1>2, GraphFacts DEF ChunkLen, Least
<1>3. CASE start # 0
  <2>1. ChunkLen(start, pos, end) = Least(end - pos, Least(Least(PrefillCap, RawCap), PrefillCap - r))
    BY <1>1, <1>3, Zenon DEF ChunkLen
  <2>2. Least(PrefillCap, RawCap) \in Nat \ {0} /\ PrefillCap - r \in Nat \ {0}
    BY <1>1, GraphFacts DEF Least
  <2>3. Least(Least(PrefillCap, RawCap), PrefillCap - r) \in Nat \ {0}
    BY <2>2 DEF Least
  <2> QED BY <1>3, <2>1, <2>3 DEF Least
<1> QED BY <1>2, <1>3

ChunkStep(prev, s, start) ==
    [pos |-> prev.pos + ChunkLen(start, prev.pos, Len(s)),
     x |-> Batch(prev.x.g, s, prev.pos, ChunkLen(start, prev.pos, Len(s)))]

ChunkNext(prev, s, start) == IF prev.pos = Len(s) \/ ~prev.x.ok THEN prev ELSE ChunkStep(prev, s, start)

ChunkSteps(h, s, start) ==
    /\ Chunks(h, s, start)[0] = [pos |-> start, x |-> [g |-> h, ok |-> TRUE, right |-> {}]]
    /\ \A k \in 1..Len(s) : Chunks(h, s, start)[k] = ChunkNext(Chunks(h, s, start)[k - 1], s, start)

(* The recursive function of Chunks, step by step.                         *)
LEMMA ChunksUnfold ==
    ASSUME NEW h, NEW s \in Seq(Token), NEW start
    PROVE  ChunkSteps(h, s, start)
<1> DEFINE base == [pos |-> start, x |-> [g |-> h, ok |-> TRUE, right |-> {}]]
           Body(f, l) == IF l = 0 THEN base ELSE ChunkNext(f[l - 1], s, start)
           Solves(f, m) == f = [l \in 0..m |-> Body(f, l)]
           T == {m \in Nat : \E f : Solves(f, m)}
<1> HIDE DEF base
<1>1. 0 \in T
  <2> DEFINE f == [l \in 0..0 |-> base]
  <2>1. \A l \in 0..0 : Body(f, l) = base
    OBVIOUS
  <2>2. Solves(f, 0)
    BY <2>1
  <2> QED BY <2>2
<1>2. ASSUME NEW m \in Nat, m \in T PROVE m + 1 \in T
  <2>1. PICK f : Solves(f, m)
    BY <1>2
  <2> DEFINE e == [l \in 0..(m + 1) |-> IF l = m + 1 THEN ChunkNext(f[m], s, start) ELSE f[l]]
  <2>0. \A l \in 0..m : e[l] = f[l]
    OBVIOUS
  <2>2. \A l \in 0..m : f[l] = Body(f, l) /\ e[l] = f[l]
    <3> HIDE DEF e, Body
    <3> QED BY <2>0, <2>1
  <2>3. e[m + 1] = Body(e, m + 1)
    BY <2>2
  <2>4. ASSUME NEW l \in 0..m PROVE e[l] = Body(e, l)
    <3>1. l = 0 \/ l - 1 \in 0..m
      OBVIOUS
    <3>2. Body(f, l) = Body(e, l)
      BY <2>2, <3>1
    <3> HIDE DEF e, Body
    <3> QED BY <2>2, <3>2
  <2>6. e = [l \in 0..(m + 1) |-> e[l]]
    OBVIOUS
  <2> HIDE DEF e, Body
  <2>5. \A l \in 0..(m + 1) : e[l] = Body(e, l)
    BY <2>3, <2>4
  <2>7. Solves(e, m + 1)
    BY <2>5, <2>6
  <2> QED BY <2>7
<1>30. Len(s) \in Nat
  OBVIOUS
<1>3. Len(s) \in T
  <2> HIDE DEF T
  <2> QED BY <1>1, <1>2, <1>30, NatInduct
<1> DEFINE F == CHOOSE f : Solves(f, Len(s))
<1>4. Solves(F, Len(s))
  <2>1. \E f : Solves(f, Len(s))
    BY <1>3
  <2> HIDE DEF Solves
  <2> QED BY <2>1
<1>5. Chunks(h, s, start) = F
  BY DEF Chunks, ChunkNext, ChunkStep, base
<1> HIDE DEF F
<1>6. \A l \in 0..Len(s) : F[l] = Body(F, l)
  BY <1>4
<1>7. F[0] = base
  <2>1. 0 \in 0..Len(s)
    BY <1>30
  <2> QED BY <1>6, <2>1
<1>8. ASSUME NEW l \in 1..Len(s) PROVE F[l] = ChunkNext(F[l - 1], s, start)
  <2>1. l \in 0..Len(s) /\ l # 0
    BY <1>30
  <2> QED BY <1>6, <2>1
<1> QED BY <1>5, <1>7, <1>8, Zenon DEF ChunkSteps, base

(* A chunk that was reached, and one whose rows are right: any but the     *)
(* whole of a cold prompt that does not end on a multiple of four.         *)
ChunkTyped(c, h, s, start) ==
    /\ c.pos \in start..Len(s) /\ c.x \in Batchings
    /\ c.pos = start => c.x.g = h /\ c.x.ok

ChunkShows(c, s, start) ==
    c.x.ok /\ c.pos # start => c.pos - 1 \in c.x.right /\ GraphShows(c.x.g, s, c.pos - Window, c.pos)

(* After each chunk the graph is typed and, where it should be, exact.     *)
LEMMA ChunkIs ==
    ASSUME NEW h \in Graphs, NEW s \in Seq(Token), NEW start \in 0..Len(s), NEW k \in 0..Len(s),
           NEW c, c = Chunks(h, s, start)[k]
    PROVE  /\ ChunkTyped(c, h, s, start)
           /\ c.x.ok => c.pos = Len(s) \/ c.pos >= start + k
<1> DEFINE D(j) == Chunks(h, s, start)[j]
           Claim(d, j) == ChunkTyped(d, h, s, start) /\ (d.x.ok => d.pos = Len(s) \/ d.pos >= start + j)
           T == {j \in Nat : j <= Len(s) => Claim(D(j), j)}
<1>0. \A l \in 1..Len(s) : D(l) = ChunkNext(D(l - 1), s, start)
  <2>1. ChunkSteps(h, s, start)
    BY ChunksUnfold, Zenon
  <2> QED BY <2>1, Zenon DEF ChunkSteps
<1>1. 0 \in T
  <2> DEFINE base == [pos |-> start, x |-> [g |-> h, ok |-> TRUE, right |-> {}]]
  <2>1. base.pos = start /\ base.x \in Batchings /\ base.x.g = h /\ base.x.ok
    BY DEF Batchings
  <2>2. D(0) = base
    BY ChunksUnfold, Zenon DEF ChunkSteps
  <2> HIDE DEF base, D
  <2>3. Claim(base, 0)
    BY <2>1 DEF ChunkTyped
  <2> QED BY <2>2, <2>3
<1>2. ASSUME NEW j \in Nat, j \in T PROVE j + 1 \in T
  <2>1. SUFFICES ASSUME j + 1 <= Len(s) PROVE Claim(D(j + 1), j + 1)
    OBVIOUS
  <2>2. PICK i : i = j + 1 /\ i - 1 = j /\ i \in 1..Len(s)
    BY <2>1
  <2>3. PICK d : d = D(j) /\ Claim(d, j)
    <3>1. j <= Len(s)
      BY <2>1
    <3> QED BY <1>2, <3>1
  <2>4. D(i) = ChunkNext(d, s, start)
    BY <1>0, <2>2, <2>3, Zenon
  <2>5. CASE d.pos = Len(s) \/ ~d.x.ok
    <3>1. D(i) = d
      BY <2>4, <2>5, Zenon DEF ChunkNext
    <3>2. Claim(d, j + 1)
      BY <2>3, <2>5, Zenon
    <3> QED BY <2>2, <3>1, <3>2
  <2>6. CASE ~(d.pos = Len(s) \/ ~d.x.ok)
    <3>1. D(i) = ChunkStep(d, s, start)
      BY <2>4, <2>6, Zenon DEF ChunkNext
    <3>2. d.pos \in start..Len(s) /\ d.x \in Batchings /\ d.x.ok
      BY <2>3, <2>6, Zenon DEF ChunkTyped
    <3>3. PICK pos \in Nat : pos = d.pos /\ start <= pos /\ pos < Len(s) /\ pos >= start + j
      BY <2>3, <2>6, <3>2
    <3>4. PICK n \in Nat \ {0} : n = ChunkLen(start, pos, Len(s)) /\ pos + n <= Len(s)
      <4>1. pos \in Nat /\ start \in Nat /\ Len(s) \in Nat
        OBVIOUS
      <4>2. ChunkLen(start, pos, Len(s)) \in Nat \ {0} /\ pos + ChunkLen(start, pos, Len(s)) <= Len(s)
        BY <3>3, <4>1, ChunkLenIs, Zenon
      <4> QED BY <4>2, Zenon
    <3>5. d.x.g \in Graphs
      BY <3>2 DEF Batchings
    <3>6. PICK x : x = Batch(d.x.g, s, pos, n) /\ x \in Batchings
      BY <3>3, <3>4, <3>5, BatchIs, Zenon
    <3>7. D(i) = [pos |-> pos + n, x |-> x]
      BY <3>1, <3>3, <3>4, <3>6, Zenon DEF ChunkStep
    <3>8. PICK e : e = D(i) /\ e.pos = pos + n /\ e.x = x
      BY <3>7
    <3> HIDE DEF D
    <3>9. e.pos \in start..Len(s) /\ e.pos # start /\ e.pos >= start + (j + 1)
      BY <3>3, <3>4, <3>8
    <3>10. ChunkTyped(e, h, s, start)
      BY <3>6, <3>8, <3>9 DEF ChunkTyped
    <3> QED BY <2>2, <3>8, <3>9, <3>10
  <2> QED BY <2>5, <2>6
<1> HIDE DEF D, Claim
<1>3. k \in Nat /\ k <= Len(s)
  OBVIOUS
<1>4. k \in T
  <2> HIDE DEF T
  <2> QED BY <1>1, <1>2, <1>3, NatInduct
<1>5. Claim(D(k), k)
  BY <1>3, <1>4
<1> QED BY <1>5 DEF Claim, D

(* The same, in parts.                                                     *)
LEMMA BatchTyped ==
    ASSUME NEW h \in Graphs, NEW s \in Seq(Token), NEW pos0 \in Nat, NEW n \in Nat \ {0}, pos0 + n <= Len(s)
    PROVE  /\ Batch(h, s, pos0, n) \in Batchings /\ Batch(h, s, pos0, n).g \in Graphs
           /\ Batch(h, s, pos0, n).ok => n <= PrefillCap
<1>1. Batch(h, s, pos0, n) \in Batchings /\ (Batch(h, s, pos0, n).ok => n <= PrefillCap)
  BY BatchIs
<1> QED BY <1>1 DEF Batchings

(* A batch that succeeded, by its parts.                                   *)
LEMMA BatchExact ==
    ASSUME NEW h \in Graphs, NEW s \in Seq(Token), NEW pos0 \in Nat, NEW n \in Nat \ {0}, pos0 + n <= Len(s),
           NEW lo \in Int, Batch(h, s, pos0, n).ok, lo + Window <= pos0 + 1, Apart(lo, pos0 + n),
           pos0 # 0 => GraphShows(h, s, lo, pos0), pos0 = 0 => n % 4 = 0
    PROVE  /\ Batch(h, s, pos0, n).right = pos0..(pos0 + n - 1)
           /\ GraphShows(Batch(h, s, pos0, n).g, s, lo, pos0 + n)
BY BatchIs

(* A batch from token zero, of whole fours.                                *)
LEMMA BatchFirst ==
    ASSUME NEW h \in Graphs, NEW s \in Seq(Token), NEW n \in Nat \ {0}, n <= Len(s), Len(s) <= Ctx, n % 4 = 0,
           Batch(h, s, 0, n).ok
    PROVE  /\ Batch(h, s, 0, n).right = 0..(n - 1) /\ Batch(h, s, 0, n).g \in Graphs
           /\ GraphShows(Batch(h, s, 0, n).g, s, 0 - Window, n)
<1>1. PICK lo \in Int : lo = 0 - Window /\ lo + Window <= 0 + 1
  BY GraphFacts
<1>2. 0 \in Nat /\ 0 + n <= Len(s) /\ n \in Nat
  OBVIOUS
<1>3. /\ Batch(h, s, 0, n).g \in Graphs /\ n <= PrefillCap
  BY <1>2, BatchTyped
<1>4. Apart(lo, 0 + n)
  <2>1. 0 + n <= Ctx
    BY GraphFacts
  <2> QED BY <1>1, <1>2, <1>3, <2>1, RoomFor, Zenon
<1>5. /\ Batch(h, s, 0, n).right = 0..(0 + n - 1)
      /\ GraphShows(Batch(h, s, 0, n).g, s, lo, 0 + n)
  BY <1>1, <1>2, <1>4, BatchExact, Zenon
<1>6. 0 + n = n /\ 0 + n - 1 = n - 1
  OBVIOUS
<1> QED BY <1>1, <1>3, <1>5, <1>6

(* The first chunk of a cold prompt ends on a window of every ratio, or    *)
(* with the prompt.                                                        *)
LEMMA FirstChunk ==
    ASSUME NEW s \in Seq(Token), Len(s) < Ctx, 0 < Len(s), ~Unaligned(s)
    PROVE  ChunkLen(0, 0, Len(s)) % 4 = 0
<1>1. ChunkLen(0, 0, Len(s)) = Least(Len(s), PrefillCap)
  <2>1. ChunkLen(0, 0, Len(s)) = Least(Len(s) - 0, PrefillCap)
    <3>1. 0 \in Nat /\ Len(s) \in Nat
      OBVIOUS
    <3> QED BY <3>1, ChunkLenIs, Zenon
  <2> QED BY <2>1
<1>2. CASE Len(s) <= PrefillCap
  <2>1. Len(s) % 4 = 0
    BY <1>2 DEF Unaligned
  <2>2. Least(Len(s), PrefillCap) = Len(s)
    BY <1>2, GraphFacts DEF Least
  <2> QED BY <1>1, <2>1, <2>2, Zenon
<1>3. CASE ~(Len(s) <= PrefillCap)
  <2>1. PrefillCap % 4 = 0
    BY <1>3, CapAssumption, GraphFacts
  <2>2. Least(Len(s), PrefillCap) = PrefillCap
    BY <1>3, GraphFacts DEF Least
  <2> QED BY <1>1, <2>1, <2>2, Zenon
<1> QED BY <1>2, <1>3

(* Every chunk that succeeded read the right rows.                         *)
LEMMA ChunkRight ==
    ASSUME NEW h \in Graphs, NEW s \in Seq(Token), Len(s) < Ctx, NEW start \in 0..Len(s), NEW k \in 0..Len(s),
           start # 0 => GraphShows(h, s, start - Window, start), ~(start = 0 /\ Unaligned(s)),
           NEW c, c = Chunks(h, s, start)[k]
    PROVE  ChunkShows(c, s, start)
<1> DEFINE D(j) == Chunks(h, s, start)[j]
           T == {j \in Nat : j <= Len(s) => ChunkShows(D(j), s, start)}
<1>0. \A l \in 1..Len(s) : D(l) = ChunkNext(D(l - 1), s, start)
  <2>1. ChunkSteps(h, s, start)
    BY ChunksUnfold, Zenon
  <2> QED BY <2>1, Zenon DEF ChunkSteps
<1>1. 0 \in T
  <2>1. ChunkTyped(D(0), h, s, start) /\ D(0).pos = start
    <3> DEFINE base == [pos |-> start, x |-> [g |-> h, ok |-> TRUE, right |-> {}]]
    <3>1. base.pos = start /\ base.x \in Batchings /\ base.x.g = h /\ base.x.ok
      BY DEF Batchings
    <3>2. D(0) = base
      BY ChunksUnfold, Zenon DEF ChunkSteps
    <3> HIDE DEF base, D
    <3> QED BY <3>1, <3>2 DEF ChunkTyped
  <2> HIDE DEF D
  <2>2. ChunkShows(D(0), s, start)
    BY <2>1, Zenon DEF ChunkShows
  <2> QED BY <2>2
<1>2. ASSUME NEW j \in Nat, j \in T PROVE j + 1 \in T
  <2>1. SUFFICES ASSUME j + 1 <= Len(s) PROVE ChunkShows(D(j + 1), s, start)
    OBVIOUS
  <2>2. PICK i : i = j + 1 /\ i - 1 = j /\ i \in 1..Len(s)
    BY <2>1
  <2>3. PICK d : d = D(j) /\ ChunkShows(d, s, start) /\ ChunkTyped(d, h, s, start)
    <3>1. j <= Len(s) /\ j \in 0..Len(s)
      BY <2>1
    <3>2. ChunkTyped(D(j), h, s, start)
      BY <3>1, ChunkIs
    <3> QED BY <1>2, <3>1, <3>2
  <2>4. D(i) = ChunkNext(d, s, start)
    BY <1>0, <2>2, <2>3, Zenon
  <2>5. CASE d.pos = Len(s) \/ ~d.x.ok
    <3>1. D(i) = d
      BY <2>4, <2>5, Zenon DEF ChunkNext
    <3> QED BY <2>2, <2>3, <3>1
  <2>6. CASE ~(d.pos = Len(s) \/ ~d.x.ok)
    <3>1. D(i) = ChunkStep(d, s, start)
      BY <2>4, <2>6, Zenon DEF ChunkNext
    <3>2. d.pos \in start..Len(s) /\ d.x \in Batchings /\ d.x.ok /\ (d.pos = start => d.x.g = h)
      BY <2>3, <2>6, Zenon DEF ChunkTyped
    <3>3. PICK pos \in Nat : pos = d.pos /\ start <= pos /\ pos < Len(s)
      BY <2>6, <3>2
    <3>4. PICK n \in Nat \ {0} : n = ChunkLen(start, pos, Len(s)) /\ pos + n <= Len(s)
      <4>1. pos \in Nat /\ start \in Nat /\ Len(s) \in Nat
        OBVIOUS
      <4>2. ChunkLen(start, pos, Len(s)) \in Nat \ {0} /\ pos + ChunkLen(start, pos, Len(s)) <= Len(s)
        BY <3>3, <4>1, ChunkLenIs, Zenon
      <4> QED BY <4>2, Zenon
    <3>5. PICK e \in Graphs : e = d.x.g
      BY <3>2 DEF Batchings
    <3>6. PICK x : x = Batch(e, s, pos, n)
      OBVIOUS
    <3>7. D(i) = [pos |-> pos + n, x |-> x]
      BY <3>1, <3>3, <3>4, <3>5, <3>6, Zenon DEF ChunkStep
    <3>8. PICK f : f = D(i) /\ f.pos = pos + n /\ f.x = x
      BY <3>7
    <3>81. Len(s) <= Ctx
      BY GraphFacts
    <3> HIDE DEF D
    <3>9. ASSUME x.ok PROVE (pos + n) - 1 \in x.right /\ GraphShows(x.g, s, (pos + n) - Window, pos + n)
      <4>1. CASE pos # 0
        <5>1. GraphShows(e, s, pos - Window, pos)
          BY <2>3, <3>2, <3>3, <3>5, <4>1, Zenon DEF ChunkShows
        <5>2. pos \in Nat \ {0}
          BY <4>1
        <5>3. x.right = pos..(pos + n - 1) /\ GraphShows(x.g, s, pos - Window, pos + n)
          <6>1. Batch(e, s, pos, n).ok /\ pos + n <= Len(s)
            BY <3>4, <3>6, <3>9, Zenon
          <6>2. BatchExtends(Batch(e, s, pos, n), s, pos, n)
            BY <3>81, <5>1, <5>2, <6>1, BatchNext, Zenon
          <6> QED BY <3>6, <6>2, Zenon DEF BatchExtends
        <5>4. /\ pos - Window \in Int /\ (pos + n) - Window \in Int /\ pos - Window <= (pos + n) - Window /\ pos + n \in Nat
              /\ (pos + n) - 1 \in pos..(pos + n - 1)
          BY GraphFacts
        <5>5. GraphShows(x.g, s, (pos + n) - Window, pos + n)
          BY <5>3, <5>4, FewerRows, Zenon
        <5> QED BY <5>3, <5>4, <5>5, Zenon
      <4>2. CASE pos = 0
        <5>1. start = 0 /\ ~Unaligned(s) /\ 0 < Len(s)
          BY <3>3, <4>2
        <5>2. n % 4 = 0
          BY <3>4, <4>2, <5>1, FirstChunk, Zenon
        <5>3. n <= Len(s) /\ x = Batch(e, s, 0, n) /\ Batch(e, s, 0, n).ok
          BY <3>4, <3>6, <3>9, <4>2
        <5>4. x.right = 0..(n - 1) /\ GraphShows(x.g, s, 0 - Window, n)
          BY <3>81, <5>2, <5>3, BatchFirst, Zenon
        <5>5. /\ 0 - Window \in Int /\ n - Window \in Int /\ 0 - Window <= n - Window /\ n \in Nat
              /\ n - 1 \in 0..(n - 1) /\ pos + n = n
          BY <4>2, GraphFacts
        <5>6. GraphShows(x.g, s, n - Window, n)
          BY <5>4, <5>5, FewerRows, Zenon
        <5> QED BY <5>4, <5>5, <5>6, Zenon
      <4> QED BY <4>1, <4>2
    <3>10. ChunkShows(f, s, start)
      BY <3>8, <3>9, Zenon DEF ChunkShows
    <3> QED BY <2>2, <3>8, <3>10
  <2> QED BY <2>5, <2>6
<1> HIDE DEF D
<1>3. k \in Nat /\ k <= Len(s)
  OBVIOUS
<1>4. k \in T
  <2> HIDE DEF T
  <2> QED BY <1>1, <1>2, <1>3, NatInduct
<1>5. ChunkShows(D(k), s, start)
  BY <1>3, <1>4
<1> QED BY <1>5 DEF D

(* What the whole range leaves, and what a prompt is brought to.           *)
LEMMA PrefilledIs ==
    ASSUME NEW h \in Graphs, NEW s \in Seq(Token), Len(s) < Ctx, NEW start \in 0..Len(s), start < Len(s),
           NEW c, c = Chunks(h, s, start)[Len(s)]
    PROVE  /\ c.x \in Batchings
           /\ /\ c.x.ok /\ (start # 0 => GraphShows(h, s, start - Window, start)) /\ ~(start = 0 /\ Unaligned(s))
              => Len(s) - 1 \in c.x.right /\ Exactly(c.x.g, s)
<1>1. Len(s) \in 0..Len(s) /\ Len(s) \in Nat
  OBVIOUS
<1>2. ChunkTyped(c, h, s, start) /\ (c.x.ok => c.pos = Len(s) \/ c.pos >= start + Len(s))
  BY <1>1, ChunkIs, Zenon
<1>3. c.x \in Batchings /\ c.pos \in start..Len(s)
  BY <1>2 DEF ChunkTyped
<1>4. c.x.ok => c.pos = Len(s) /\ c.pos # start
  BY <1>1, <1>2, <1>3
<1>5. c.x.g \in Graphs
  BY <1>3 DEF Batchings
<1>6. ASSUME c.x.ok, start # 0 => GraphShows(h, s, start - Window, start), ~(start = 0 /\ Unaligned(s))
      PROVE  Len(s) - 1 \in c.x.right /\ Exactly(c.x.g, s)
  <2>1. ChunkShows(c, s, start)
    BY <1>1, <1>6, ChunkRight, Zenon
  <2> QED BY <1>4, <1>5, <1>6, <2>1, Zenon DEF ChunkShows, Exactly
<1> QED BY <1>3, <1>6, Zenon

-----------------------------------------------------------------------------
(* The tokens of a short extension, one by one.                            *)
DecodedNext(prev, p, k) == IF prev.ok THEN Decode(prev.g, Upto(p, k)) ELSE prev

IsDecoded(f, h, p, from) ==
    /\ Decoded(h, p, from) = f[Len(p)]
    /\ f[from] = [g |-> h, ok |-> TRUE, right |-> logits # Wrong]
    /\ \A k \in (from + 1)..Len(p) : f[k] = DecodedNext(f[k - 1], p, k)

(* The recursive function of Decoded, step by step.                        *)
LEMMA DecodedUnfold ==
    ASSUME NEW h, NEW p \in Seq(Token), NEW from \in 0..Len(p)
    PROVE  \E f : IsDecoded(f, h, p, from)
<1> DEFINE base == [g |-> h, ok |-> TRUE, right |-> logits # Wrong]
           Body(f, k) == IF k = from THEN base ELSE DecodedNext(f[k - 1], p, k)
           Solves(f, m) == f = [k \in from..m |-> Body(f, k)]
           T == {j \in Nat : \E f : Solves(f, from + j)}
<1> HIDE DEF base
<1>0. from \in Nat /\ Len(p) \in Nat /\ from <= Len(p)
  OBVIOUS
<1>1. 0 \in T
  <2> DEFINE f == [l \in from..(from + 0) |-> base]
  <2>1. \A l \in from..(from + 0) : Body(f, l) = base
    BY <1>0
  <2>2. Solves(f, from + 0)
    BY <2>1
  <2> QED BY <2>2
<1>2. ASSUME NEW j \in Nat, j \in T PROVE j + 1 \in T
  <2>0. PICK m \in Nat : m = from + j /\ from <= m /\ m + 1 = from + (j + 1)
    BY <1>0
  <2>1. PICK f : Solves(f, m)
    BY <1>2, <2>0
  <2> DEFINE e == [l \in from..(m + 1) |-> IF l = m + 1 THEN DecodedNext(f[m], p, m + 1) ELSE f[l]]
  <2>01. \A l \in from..m : e[l] = f[l]
    BY <1>0, <2>0
  <2>2. \A l \in from..m : f[l] = Body(f, l) /\ e[l] = f[l]
    <3> HIDE DEF e, Body
    <3> QED BY <2>01, <2>1
  <2>3. e[m + 1] = Body(e, m + 1)
    BY <1>0, <2>0, <2>2
  <2>4. ASSUME NEW l \in from..m PROVE e[l] = Body(e, l)
    <3>1. l = from \/ l - 1 \in from..m
      BY <1>0
    <3>2. Body(f, l) = Body(e, l)
      BY <2>2, <3>1
    <3> HIDE DEF e, Body
    <3> QED BY <2>2, <3>2
  <2>6. e = [l \in from..(m + 1) |-> e[l]]
    OBVIOUS
  <2> HIDE DEF e, Body
  <2>5. \A l \in from..(m + 1) : e[l] = Body(e, l)
    BY <1>0, <2>0, <2>3, <2>4
  <2>7. Solves(e, m + 1)
    BY <2>5, <2>6
  <2> QED BY <2>0, <2>7
<1>3. Len(p) - from \in T
  <2>1. Len(p) - from \in Nat
    BY <1>0
  <2> HIDE DEF T
  <2> QED BY <1>1, <1>2, <2>1, NatInduct
<1> DEFINE F == CHOOSE f : Solves(f, Len(p))
<1>4. Solves(F, Len(p))
  <2>1. \E f : Solves(f, Len(p))
    <3>1. from + (Len(p) - from) = Len(p)
      BY <1>0
    <3> QED BY <1>3, <3>1
  <2> HIDE DEF Solves
  <2> QED BY <2>1
<1>5. Decoded(h, p, from) = F[Len(p)]
  BY DEF Decoded, DecodedNext, base
<1> HIDE DEF F
<1>6. \A l \in from..Len(p) : F[l] = Body(F, l)
  BY <1>4
<1>7. F[from] = base
  <2>1. from \in from..Len(p)
    BY <1>0
  <2> QED BY <1>6, <2>1
<1>8. ASSUME NEW l \in (from + 1)..Len(p) PROVE F[l] = DecodedNext(F[l - 1], p, l)
  <2>1. l \in from..Len(p) /\ l # from
    BY <1>0
  <2> QED BY <1>6, <2>1
<1> QED BY <1>5, <1>7, <1>8, Zenon DEF IsDecoded, base

DecodedShows(x, p, from, k) ==
    x.ok => GraphShows(x.g, p, k - Window, k) /\ (k # from => x.right)

(* Tokens decoded one by one keep the graph exact.                         *)
LEMMA DecodedIs ==
    ASSUME NEW h \in Graphs, NEW p \in Seq(Token), Len(p) <= Ctx, NEW from \in 0..Len(p)
    PROVE  /\ Decoded(h, p, from) \in Decodings
           /\ GraphShows(h, p, from - Window, from) => DecodedShows(Decoded(h, p, from), p, from, Len(p))
<1>0. from \in Nat /\ Len(p) \in Nat /\ from <= Len(p)
  OBVIOUS
<1>1. PICK f : IsDecoded(f, h, p, from)
  BY DecodedUnfold
<1> DEFINE starts == GraphShows(h, p, from - Window, from)
           Claim(k) == f[k] \in Decodings /\ (starts => DecodedShows(f[k], p, from, k))
           T == {j \in Nat : from + j <= Len(p) => Claim(from + j)}
<1>2. 0 \in T
  <2> DEFINE base == [g |-> h, ok |-> TRUE, right |-> logits # Wrong]
  <2>1. base \in Decodings /\ base.g = h
    <3>1. (logits # Wrong) \in BOOLEAN
      OBVIOUS
    <3> QED BY <3>1 DEF Decodings
  <2>2. f[from] = base
    BY <1>1, Zenon DEF IsDecoded
  <2> HIDE DEF base
  <2>3. Claim(from)
    BY <2>1, <2>2, Zenon DEF DecodedShows
  <2>4. from + 0 = from
    BY <1>0
  <2> HIDE DEF Claim
  <2> QED BY <2>3, <2>4
<1>3. ASSUME NEW j \in Nat, j \in T PROVE j + 1 \in T
  <2>1. SUFFICES ASSUME from + (j + 1) <= Len(p) PROVE Claim(from + (j + 1))
    OBVIOUS
  <2>2. PICK k \in Nat : /\ k = from + (j + 1) /\ k - 1 = from + j /\ k \in (from + 1)..Len(p) /\ k \in 0..Len(p) /\ k # from
                         /\ k > 0 /\ k - 1 \in Nat /\ k - 1 \in 0..k /\ from + j <= Len(p) /\ (k - 1) + 1 = k
    BY <1>0, <2>1
  <2>3. PICK x : x = f[k - 1] /\ x \in Decodings /\ (starts => DecodedShows(x, p, from, k - 1))
    <3>1. Claim(from + j)
      BY <1>3, <2>2
    <3> HIDE DEF starts
    <3> QED BY <2>2, <3>1
  <2>4. f[k] = DecodedNext(x, p, k)
    BY <1>1, <2>2, <2>3, Zenon DEF IsDecoded
  <2> HIDE DEF starts
  <2>5. CASE ~x.ok
    <3>1. f[k] = x
      BY <2>4, <2>5, Zenon DEF DecodedNext
    <3>2. Claim(k)
      BY <2>3, <2>5, <3>1, Zenon DEF DecodedShows
    <3> QED BY <2>2, <3>2
  <2>6. CASE x.ok
    <3>1. PICK s, t : s = Upto(p, k) /\ t = Upto(p, k - 1)
      OBVIOUS
    <3>2. f[k] = Decode(x.g, s)
      BY <2>4, <2>6, <3>1, Zenon DEF DecodedNext
    <3>3. s \in Seq(Token) /\ Len(s) = k /\ t \in Seq(Token) /\ Len(t) = k - 1
      <4>1. k - 1 \in 0..Len(p)
        BY <2>2
      <4> QED BY <2>2, <3>1, <4>1, UptoIs
    <3>4. Follows(s, t, 1)
      <4>1. Upto(s, k - 1) = t
        BY <2>2, <3>1, UptoUpto, Zenon
      <4> QED BY <2>2, <3>3, <4>1 DEF Follows
    <3>5. x.g \in Graphs
      BY <2>3 DEF Decodings
    <3>6. f[k] \in Decodings
      <4>1. Len(s) > 0
        BY <2>2, <3>3
      <4> QED BY <3>2, <3>3, <3>5, <4>1, DecodeIs, Zenon
    <3>7. ASSUME starts, f[k].ok PROVE GraphShows(f[k].g, p, k - Window, k) /\ f[k].right
      <4>1. GraphShows(x.g, p, (k - 1) - Window, k - 1)
        BY <2>3, <2>6, <3>7, Zenon DEF DecodedShows
      <4>2. SameFor(p, t, k - 1)
        <5>1. Agree(t, p, k - 1)
          <6>1. k - 1 \in 0..Len(p)
            BY <2>2
          <6> QED BY <3>1, <6>1, AgreeUpto
        <5>2. Agree(p, t, k - 1)
          BY <5>1 DEF Agree
        <5> QED BY <2>2, <5>2, SameHistory, Zenon
      <4>3. Exactly(x.g, t)
        BY <3>3, <3>5, <4>1, <4>2, Zenon DEF SameFor, Exactly
      <4>4. Len(s) <= Ctx
        BY <2>2, <3>3, GraphFacts
      <4>5. f[k].right /\ Exactly(f[k].g, s)
        BY <3>2, <3>3, <3>4, <3>7, <4>3, <4>4, DecodeNext, Zenon
      <4>6. SameFor(s, p, k)
        <5>1. Agree(s, p, k)
          BY <2>2, <3>1, AgreeUpto
        <5> QED BY <2>2, <5>1, SameHistory, Zenon
      <4> QED BY <3>3, <4>5, <4>6, Zenon DEF Exactly, SameFor
    <3>8. Claim(k)
      BY <2>2, <3>6, <3>7, Zenon DEF DecodedShows
    <3> QED BY <2>2, <3>8
  <2> QED BY <2>5, <2>6
<1> HIDE DEF Claim
<1>4. Len(p) - from \in T
  <2>1. Len(p) - from \in Nat
    BY <1>0
  <2> HIDE DEF T
  <2> QED BY <1>2, <1>3, <2>1, NatInduct
<1>5. Claim(Len(p))
  <2>1. from + (Len(p) - from) = Len(p)
    BY <1>0
  <2> QED BY <1>4, <2>1
<1> QED BY <1>1, <1>5, Zenon DEF Claim, IsDecoded

-----------------------------------------------------------------------------
(* Frontiers: what a snapshot or a capture holds for n tokens of s.        *)
FrontierOf(f, s, n) ==
    \A u \in Unit : /\ f[u].n = n \div RatioOf(u) /\ f[u].n \in 0..CompCap
                    /\ f[u].state \in Windows(u) /\ WindowShows(u, f[u].state, s, n)

(* The frontier of exact compressors.                                      *)
LEMMA FrontierIs ==
    ASSUME NEW U, NEW s, NEW n,
           \A u \in Unit : U[u].n \in 0..CompCap /\ U[u].state \in Windows(u) /\ UnitShows(u, U[u], s, n)
    PROVE  FrontierOf(Frontier(U), s, n)
<1>1. ASSUME NEW u \in Unit PROVE Frontier(U)[u].n = U[u].n /\ Frontier(U)[u].state = U[u].state
  BY DEF Frontier
<1> QED BY <1>1, Zenon DEF FrontierOf, UnitShows

(* A frontier is that of any text with the same tokens.                    *)
LEMMA FrontierKept ==
    ASSUME NEW s, NEW t, NEW n \in Nat, Agree(s, t, n), NEW f, FrontierOf(f, s, n)
    PROVE  FrontierOf(f, t, n)
<1>1. \A u \in Unit : \A state : WindowShows(u, state, s, n) => WindowShows(u, state, t, n)
  BY WindowKept, Zenon
<1> QED BY <1>1, Zenon DEF FrontierOf

(* The parts of a compressor.                                              *)
LEMMA UnitParts ==
    ASSUME NEW h \in Graphs, NEW u \in Unit
    PROVE  h.unit[u].n \in 0..CompCap /\ h.unit[u].n \in Nat /\ h.unit[u].state \in Windows(u)
<1>1. h.unit[u] \in Compressor(u)
  BY GraphParts
<1> QED BY <1>1, GraphFacts DEF Compressor, Counted

(* The snapshot of an exact graph is the frontier of its tokens.           *)
LEMMA Snapshot ==
    ASSUME NEW h \in Graphs, NEW s, NEW lo, NEW n, GraphShows(h, s, lo, n)
    PROVE  FrontierOf(Frontier(h.unit), s, n)
<1>1. ASSUME NEW u \in Unit PROVE h.unit[u].n \in 0..CompCap /\ h.unit[u].state \in Windows(u) /\ UnitShows(u, h.unit[u], s, n)
  <2>1. u[1] \in Layer
    BY UnitFacts
  <2>2. UnitShows(u, h.unit[u], s, n)
    BY <2>1, Zenon DEF GraphShows, LayerShows
  <2> QED BY <2>2, UnitParts
<1> QED BY <1>1, FrontierIs, Zenon

(* One compressor with a frontier copied over it.                          *)
Copied(c, from) == [c EXCEPT !.state = from.state, !.n = from.n]

(* A compressor that has the pooled rows and gets the frontier back is     *)
(* exact.                                                                  *)
LEMMA CopiedUnit ==
    ASSUME NEW u \in Unit, NEW c \in Compressor(u), NEW s, NEW n, UnitKeeps(u, c, s, n), NEW f, FrontierOf(f, s, n),
           NEW d, d = Copied(c, f[u])
    PROVE  d \in Compressor(u) /\ UnitShows(u, d, s, n) /\ UnitKeeps(u, d, s, n)
<1>1. /\ f[u].n = n \div RatioOf(u) /\ f[u].n \in 0..CompCap
      /\ f[u].state \in Windows(u) /\ WindowShows(u, f[u].state, s, n)
  BY DEF FrontierOf
<1>2. /\ d \in Compressor(u) /\ d.n = f[u].n /\ d.state = f[u].state /\ d.rows = c.rows
  BY <1>1 DEF Compressor, Counted, Copied
<1>3. Pools(u, c, s, n \div RatioOf(u))
  BY Zenon DEF UnitKeeps
<1>4. Pools(u, d, s, n \div RatioOf(u))
  BY <1>2, <1>3, Zenon DEF Pools
<1>5. UnitShows(u, d, s, n)
  BY <1>1, <1>2, <1>4, Zenon DEF UnitShows
<1>6. n \div RatioOf(u) <= d.n
  <2>1. d.n \in Int /\ d.n = n \div RatioOf(u)
    BY <1>1, <1>2
  <2>2. d.n <= d.n
    BY <2>1
  <2> QED BY <2>1, <2>2, Zenon
<1> QED BY <1>2, <1>4, <1>5, <1>6, Zenon DEF UnitKeeps

(* Copied back to all layers, the frontier makes the graph exact again;    *)
(* copied back to some, it leaves what belongs to the base.                *)
LEMMA BackToIs ==
    ASSUME g \in Graphs, NEW f, NEW s, NEW lo, NEW n, GraphHas(g, s, lo, n), FrontierOf(f, s, n),
           NEW k \in 0..Layers, NEW h, h = BackTo(f, k)
    PROVE  /\ h \in Graphs /\ GraphHas(h, s, lo, n)
           /\ k = Layers => GraphShows(h, s, lo, n)
<1>1. /\ h.raw = g.raw /\ h = [raw |-> h.raw, unit |-> h.unit] /\ h.unit = [u \in Unit |-> h.unit[u]]
      /\ \A u \in Unit : u[1] <= k => h.unit[u] = Copied(g.unit[u], f[u])
      /\ \A u \in Unit : ~(u[1] <= k) => h.unit[u] = g.unit[u]
  <2> DEFINE unit == [u \in Unit |-> IF u[1] <= k THEN Copied(g.unit[u], f[u]) ELSE g.unit[u]]
  <2>1. h = [g EXCEPT !.unit = unit]
    BY Zenon DEF BackTo, Copied
  <2>2. /\ unit = [u \in Unit |-> unit[u]]
        /\ \A u \in Unit : u[1] <= k => unit[u] = Copied(g.unit[u], f[u])
        /\ \A u \in Unit : ~(u[1] <= k) => unit[u] = g.unit[u]
    BY Zenon
  <2>3. g = [raw |-> g.raw, unit |-> g.unit]
    BY GraphParts
  <2> HIDE DEF unit
  <2>4. h.raw = g.raw /\ h.unit = unit /\ h = [raw |-> h.raw, unit |-> h.unit]
    BY <2>1, <2>3
  <2> QED BY <2>2, <2>4, Zenon
<1>2. g.raw \in [Layer -> Rings] /\ \A u \in Unit : g.unit[u] \in Compressor(u)
  BY GraphParts
<1>3. \A u \in Unit : UnitKeeps(u, g.unit[u], s, n)
  BY UnitFacts, Zenon DEF GraphHas, LayerHas
<1>4. ASSUME NEW u \in Unit
      PROVE  /\ h.unit[u] \in Compressor(u) /\ UnitKeeps(u, h.unit[u], s, n)
             /\ u[1] <= k => UnitShows(u, h.unit[u], s, n)
  <2>1. CASE u[1] <= k
    <3>1. PICK c \in Compressor(u) : c = g.unit[u]
      BY <1>2, Zenon
    <3>0. PICK d : d = h.unit[u] /\ d = Copied(c, f[u])
      BY <1>1, <2>1, <3>1, Zenon
    <3>2. UnitKeeps(u, c, s, n)
      BY <1>3, <3>1, Zenon
    <3>3. d \in Compressor(u) /\ UnitShows(u, d, s, n) /\ UnitKeeps(u, d, s, n)
      BY <3>0, <3>2, CopiedUnit, Zenon
    <3> QED BY <3>0, <3>3, Zenon
  <2>2. CASE ~(u[1] <= k)
    BY <1>1, <1>2, <1>3, <2>2, Zenon
  <2> QED BY <2>1, <2>2
<1>5. h.unit \in Units
  BY <1>1, <1>4, UnitsAre, Zenon
<1>6. h \in Graphs
  BY <1>1, <1>2, <1>5 DEF Graphs
<1>7. \A l \in Layer : RingShows(h.raw[l], s, lo, n)
  BY <1>1, Zenon DEF GraphHas, LayerHas
<1>8. GraphHas(h, s, lo, n)
  BY <1>4, <1>7, Zenon DEF GraphHas, LayerHas
<1>9. ASSUME k = Layers PROVE GraphShows(h, s, lo, n)
  <2>1. \A u \in Unit : u[1] <= k
    BY <1>9, UnitFacts, GraphFacts
  <2> QED BY <1>4, <1>7, <2>1, Zenon DEF GraphShows, LayerShows
<1> QED BY <1>6, <1>8, <1>9

(* The capture of the batch verifier: it stepped its two tokens one by     *)
(* one, since no window of more than two ends on both.                     *)
LEMMA FirstOfIs ==
    ASSUME NEW h \in Graphs, NEW s \in Seq(Token), NEW pos0 \in Nat \ {0}, pos0 + 2 <= Len(s), NEW lo \in Int, lo <= pos0,
           GraphShows(h, s, lo, pos0), NEW x, x.g \in Graphs, GraphShows(x.g, s, lo, pos0 + 2), NEW old
    PROVE  FrontierOf(Frontier(FirstOf(h, x, pos0, 2, old)), s, pos0 + 1)
<1> DEFINE F == FirstOf(h, x, pos0, 2, old)
<1>1. ASSUME NEW u \in Unit
      PROVE  F[u].n \in 0..CompCap /\ F[u].state \in Windows(u) /\ UnitShows(u, F[u], s, pos0 + 1)
  <2>0. u[1] \in Layer /\ RatioOf(u) \in Nat /\ RatioOf(u) > 2
    BY UnitFacts
  <2>1. ~(pos0 = 0 \/ Aligned(u, pos0, 2))
    <3>1. 2 % RatioOf(u) = 2
      BY <2>0
    <3> QED BY <3>1 DEF Aligned
  <2>2. PICK row : row = x.g.raw[u[1]][pos0 % RawCap] /\ row = RowOf(s, pos0) /\ row \in Rows
    <3>1. RingShows(x.g.raw[u[1]], s, lo, pos0 + 2)
      BY <2>0, Zenon DEF GraphShows, LayerShows
    <3>2. pos0 \in 0..((pos0 + 2) - 1) /\ pos0 \in 0..(Len(s) - 1)
      OBVIOUS
    <3>3. x.g.raw[u[1]][pos0 % RawCap] = RowOf(s, pos0)
      BY <3>1, <3>2, Zenon DEF RingShows
    <3>4. RowOf(s, pos0) \in Rows
      BY <3>2, RowOfType DEF Rows
    <3> QED BY <3>3, <3>4, Zenon
  <2>3. F[u] = Update(u, h.unit[u], pos0, row)
    BY <2>1, <2>2, Zenon DEF FirstOf
  <2>4. PICK c \in Counted(u, Nat) : c = h.unit[u]
    BY GraphParts, CompressorIs
  <2>5. UnitShows(u, c, s, pos0)
    BY <2>0, <2>4, Zenon DEF GraphShows, LayerShows
  <2>6. (pos0 + 1) \div RatioOf(u) <= CompCap
    <3>1. PICK R \in Nat \ {0} : R = RatioOf(u)
      BY UnitFacts
    <3>2. pos0 + 1 \in Nat /\ pos0 + 2 \in Nat /\ pos0 + 1 <= pos0 + 2
      OBVIOUS
    <3>3. (pos0 + 1) \div R <= (pos0 + 2) \div R /\ (pos0 + 1) \div R \in Nat /\ (pos0 + 2) \div R \in Nat
      BY <3>2, QuotientOrder, DivMod
    <3>4. x.g.unit[u].n = (pos0 + 2) \div R
      BY <2>0, <3>1, Zenon DEF GraphShows, LayerShows, UnitShows
    <3>5. (pos0 + 1) \div R <= CompCap
      BY <3>3, <3>4, UnitParts, GraphFacts
    <3> QED BY <3>1, <3>5, Zenon
  <2>7. UnitShows(u, Update(u, c, pos0, row), s, pos0 + 1)
    <3>1. pos0 \in Nat
      OBVIOUS
    <3> QED BY <2>2, <2>5, <2>6, <3>1, UpdateShows, Zenon
  <2>8. Update(u, c, pos0, row) \in Counted(u, Nat)
    <3>1. pos0 \in Nat
      OBVIOUS
    <3> QED BY <2>2, <3>1, UpdateKeeps, Zenon
  <2>9. Update(u, c, pos0, row).n <= CompCap
    BY <2>6, <2>7, Zenon DEF UnitShows
  <2>10. Update(u, c, pos0, row) \in Compressor(u)
    BY <2>8, <2>9, CompressorIs
  <2> QED BY <2>3, <2>4, <2>7, <2>10 DEF Compressor, Counted
<1> HIDE DEF F
<1>2. FrontierOf(Frontier(F), s, pos0 + 1)
  BY <1>1, FrontierIs, Zenon
<1> QED BY <1>2 DEF F

-----------------------------------------------------------------------------
(* The payload.  What a file holds for a text.                             *)
RawOf(rows, s) ==
    /\ rows \in Seq(Rows) /\ Len(rows) = RawLive(s)
    /\ \A i \in 1..Len(rows) : rows[i] = RowOf(s, Len(s) - Len(rows) + i - 1)

UnitOf(u, saved, s) ==
    /\ saved.rows \in Seq(Windows(u) \cup {NoRow}) /\ Len(saved.rows) = Len(s) \div RatioOf(u) /\ Len(saved.rows) <= CompCap
    /\ \A k \in 0..(Len(saved.rows) - 1) : saved.rows[k + 1] = CompRowOf(u, s, k)
    /\ saved.state \in Windows(u) /\ WindowShows(u, saved.state, s, Len(s))

FileOf(f) ==
    /\ f.tokens \in Seq(Token) /\ Len(f.tokens) > 0 /\ Len(f.tokens) < Ctx /\ f.logits = f.tokens
    /\ \A l \in Layer : RawOf(f.raw[l], f.tokens)
    /\ \A u \in Unit : UnitOf(u, f.unit[u], f.tokens)

(* The rows a file keeps are among those of the tokens.                    *)
LEMMA RawLiveIs ==
    ASSUME NEW s \in Seq(Token), Len(s) < Ctx
    PROVE  /\ RawLive(s) \in Nat /\ RawLive(s) <= Len(s) /\ RawLive(s) <= RawCap
           /\ \A q \in 0..(Len(s) - 1) : Len(s) - Window <= q => Len(s) - RawLive(s) <= q
<1>1. {Window, RawCap, PrefillCap} \subseteq Nat \ {0} /\ Ctx \in Nat
  BY GraphFacts
<1>2. Window <= RawCap \/ Len(s) <= RawCap
  BY <1>1, CapAssumption
<1> QED BY <1>1, <1>2 DEF RawLive, Least

(* The raw rows of the file, by position.                                  *)
LEMMA SavedRaw ==
    ASSUME g \in Graphs, tokens \in Seq(Token), Len(tokens) < Ctx, NEW l \in Layer,
           RingShows(g.raw[l], tokens, Len(tokens) - Window, Len(tokens))
    PROVE  RawOf(LiveRaw(l), tokens)
<1>1. PICK n \in Nat, live \in Nat : n = Len(tokens) /\ live = RawLive(tokens) /\ live <= n /\ live <= Window
  <2>1. RawLive(tokens) <= Window
    BY GraphFacts DEF RawLive, Least
  <2> QED BY <2>1, RawLiveIs
<1>2. ASSUME NEW i \in 1..live
      PROVE  /\ g.raw[l][(n - live + i - 1) % RawCap] = RowOf(tokens, n - live + i - 1)
             /\ g.raw[l][(n - live + i - 1) % RawCap] \in Rows
  <2>1. PICK q : q = n - live + i - 1 /\ q \in 0..(n - 1) /\ n - Window <= q
    <3>1. PICK W \in Nat : W = Window
      BY GraphFacts
    <3>2. i \in Nat /\ 1 <= i /\ i <= live /\ live <= n /\ live <= W
      BY <1>1, <3>1
    <3>3. n - live + i - 1 \in 0..(n - 1) /\ n - W <= n - live + i - 1
      BY <3>2
    <3> QED BY <3>1, <3>3
  <2>2. g.raw[l][q % RawCap] = RowOf(tokens, q)
    BY <1>1, <2>1, Zenon DEF RingShows
  <2>3. RowOf(tokens, q) \in Rows
    BY <1>1, <2>1, RowOfType DEF Rows
  <2> QED BY <2>1, <2>2, <2>3, Zenon
<1>3. LiveRaw(l) = [i \in 1..live |-> g.raw[l][(n - live + i - 1) % RawCap]]
  BY <1>1, Zenon DEF LiveRaw
<1> DEFINE row(i) == g.raw[l][(n - live + i - 1) % RawCap]
<1>4. \A i \in 1..live : row(i) \in Rows /\ row(i) = RowOf(tokens, n - live + i - 1)
  BY <1>2
<1>5. LiveRaw(l) = [i \in 1..live |-> row(i)]
  BY <1>3
<1> HIDE DEF row
<1>6. LiveRaw(l) \in Seq(Rows) /\ Len(LiveRaw(l)) = live
  BY <1>4, <1>5
<1>7. \A i \in 1..live : LiveRaw(l)[i] = RowOf(tokens, n - live + i - 1)
  BY <1>4, <1>5, Zenon
<1> QED BY <1>1, <1>6, <1>7, Zenon DEF RawOf

(* The compressor of the file, by window.                                  *)
LEMMA SavedUnit ==
    ASSUME NEW u \in Unit, NEW c \in Compressor(u), NEW s \in Seq(Token), UnitShows(u, c, s, Len(s)),
           NEW d, d = LiveUnit(c)
    PROVE  UnitOf(u, d, s)
<1>1. PICK n \in Nat : n = Len(s) \div RatioOf(u) /\ n = c.n /\ n <= CompCap
  <2>1. c.n \in 0..CompCap /\ c.n = Len(s) \div RatioOf(u)
    BY Zenon, CompressorIs DEF UnitShows
  <2> QED BY <2>1, GraphFacts
<1>2. c.rows \in [0..(CompCap - 1) -> Windows(u) \cup {NoRow}] /\ c.state \in Windows(u)
  BY DEF Compressor, Counted
<1>3. WindowShows(u, c.state, s, Len(s)) /\ Pools(u, c, s, n)
  BY <1>1, Zenon DEF UnitShows
<1>4. d.state = c.state /\ d.rows = [k \in 1..n |-> c.rows[k - 1]]
  BY <1>1 DEF LiveUnit
<1>5. \A k \in 1..n : c.rows[k - 1] \in Windows(u) \cup {NoRow}
  <2>1. \A k \in 1..n : k - 1 \in 0..(CompCap - 1)
    BY <1>1, GraphFacts
  <2> QED BY <1>2, <2>1
<1>6. d.rows \in Seq(Windows(u) \cup {NoRow}) /\ Len(d.rows) = n
  BY <1>4, <1>5
<1>7. ASSUME NEW k \in 0..(n - 1) PROVE d.rows[k + 1] = CompRowOf(u, s, k)
  <2>1. k + 1 \in 1..n /\ (k + 1) - 1 = k
    BY <1>1
  <2>2. d.rows[k + 1] = c.rows[(k + 1) - 1]
    BY <1>4, <2>1
  <2>3. c.rows[k] = CompRowOf(u, s, k)
    BY <1>3, Zenon DEF Pools
  <2> QED BY <2>1, <2>2, <2>3
<1> QED BY <1>1, <1>2, <1>3, <1>4, <1>6, <1>7, Zenon DEF UnitOf

(* The payload of an exact session stands for its tokens.                  *)
LEMMA PayloadIs ==
    ASSUME tokens \in Seq(Token), Len(tokens) > 0, Len(tokens) < Ctx, logits = tokens, Exactly(g, tokens),
           NEW f, f = Payload
    PROVE  FileOf(f)
<1>1. /\ f.tokens = tokens /\ f.logits = logits
      /\ \A l \in Layer : f.raw[l] = LiveRaw(l)
      /\ \A u \in Unit : f.unit[u] = LiveUnit(g.unit[u])
  BY DEF Payload
<1>2. g \in Graphs /\ \A u \in Unit : g.unit[u] \in Compressor(u)
  BY GraphParts DEF Exactly
<1>3. \A l \in Layer : RawOf(f.raw[l], tokens)
  <2>1. \A l \in Layer : RingShows(g.raw[l], tokens, Len(tokens) - Window, Len(tokens))
    BY Zenon DEF Exactly, GraphShows, LayerShows
  <2> QED BY <1>1, <1>2, <2>1, SavedRaw, Zenon
<1>4. ASSUME NEW u \in Unit PROVE UnitOf(u, f.unit[u], tokens)
  <2>1. UnitShows(u, g.unit[u], tokens, Len(tokens))
    <3>1. u[1] \in Layer
      BY UnitFacts
    <3> QED BY <3>1, Zenon DEF Exactly, GraphShows, LayerShows
  <2> QED BY <1>1, <1>2, <2>1, SavedUnit, Zenon
<1> QED BY <1>1, <1>3, <1>4, Zenon DEF FileOf

(* The raw rows of a file, back in a ring.                                 *)
LEMMA LoadedRawIs ==
    ASSUME NEW ring \in Rings, NEW rows, file.tokens \in Seq(Token), Len(file.tokens) < Ctx, RawOf(rows, file.tokens),
           NEW next, next = LoadedRaw(ring, rows)
    PROVE  /\ next \in Rings
           /\ RingShows(next, file.tokens, Len(file.tokens) - Window, Len(file.tokens))
<1>1. PICK n \in Nat, live \in Nat : n = Len(file.tokens) /\ live = Len(rows) /\ live <= n /\ live <= RawCap /\ live = RawLive(file.tokens)
  <2>1. Len(rows) = RawLive(file.tokens)
    BY Zenon DEF RawOf
  <2>2. Len(file.tokens) \in Nat
    OBVIOUS
  <2> QED BY <2>1, <2>2, RawLiveIs
<1>2. rows \in Seq(Rows) /\ \A i \in 1..live : rows[i] \in Rows /\ rows[i] = RowOf(file.tokens, n - live + i - 1)
  BY <1>1 DEF RawOf
<1>3. PICK C \in Nat \ {0} : C = RawCap
  BY GraphFacts
<1> DEFINE at(slot) == {i \in 1..Len(rows) : (Len(file.tokens) - Len(rows) + i - 1) % RawCap = slot}
           val(slot) == IF at(slot) = {} THEN ring[slot] ELSE rows[CHOOSE i \in at(slot) : TRUE]
<1>4. next = [slot \in 0..(RawCap - 1) |-> val(slot)]
  BY Zenon DEF LoadedRaw
<1>41. \A i, slot : i \in at(slot) <=> i \in 1..live /\ (n - live + i - 1) % C = slot
  BY <1>1, <1>3, Zenon
<1> HIDE DEF at
<1>5. ASSUME NEW slot \in 0..(RawCap - 1) PROVE val(slot) \in Rows
  <2>1. CASE at(slot) = {}
    BY <2>1 DEF Rings
  <2>2. CASE at(slot) # {}
    <3>1. (CHOOSE i \in at(slot) : TRUE) \in at(slot)
      BY <2>2
    <3>2. (CHOOSE i \in at(slot) : TRUE) \in 1..live
      BY <1>41, <3>1, Zenon
    <3> QED BY <1>2, <2>2, <3>2, Zenon
  <2> QED BY <2>1, <2>2
<1>6. next \in Rings
  <2> HIDE DEF val
  <2> QED BY <1>4, <1>5 DEF Rings
<1>7. ASSUME NEW q \in 0..(n - 1), n - Window <= q PROVE next[q % RawCap] = RowOf(file.tokens, q)
  <2>1. n - live <= q
    BY <1>1, <1>7, RawLiveIs
  <2>2. PICK j \in 1..live : j = q - (n - live) + 1 /\ n - live + j - 1 = q
    <3>1. q \in Int /\ q < n /\ n - live <= q
      BY <2>1
    <3>2. q - (n - live) + 1 \in 1..live /\ n - live + (q - (n - live) + 1) - 1 = q
      BY <1>1, <3>1
    <3> QED BY <3>2, Zenon
  <2>3. PICK slot \in 0..(C - 1) : slot = q % C
    BY DivMod
  <2>4. ASSUME NEW i \in 1..live, (n - live + i - 1) % C = slot PROVE i = j
    <3>1. PICK v \in Nat : v = n - live + i - 1 /\ v < q + C /\ q < v + C
      <4>1. i \in Nat /\ 1 <= i /\ i <= live /\ j \in Nat /\ 1 <= j /\ j <= live /\ live <= n
        BY <1>1
      <4>2. n - live + i - 1 \in Nat /\ n - live + i - 1 < q + live /\ q < (n - live + i - 1) + live
        BY <2>2, <4>1
      <4>3. live <= C
        BY <1>1, <1>3
      <4>4. q \in Nat
        OBVIOUS
      <4>5. n - live + i - 1 < q + C /\ q < (n - live + i - 1) + C
        BY <4>2, <4>3, <4>4
      <4> QED BY <4>2, <4>5, Zenon
    <3>2. v % C = q % C
      BY <2>3, <2>4, <3>1, Zenon
    <3>3. q \in Nat
      OBVIOUS
    <3>4. ~(v < q) /\ ~(q < v)
      BY <3>1, <3>2, <3>3, SlotsDiffer, Zenon
    <3> QED BY <2>2, <3>1, <3>3, <3>4
  <2>5. j \in at(slot) /\ at(slot) # {}
    <3>1. (n - live + j - 1) % C = slot
      BY <2>2, <2>3, Zenon
    <3>2. j \in at(slot)
      BY <1>41, <3>1, Zenon
    <3> QED BY <3>2
  <2>6. (CHOOSE i \in at(slot) : TRUE) = j
    <3>1. (CHOOSE i \in at(slot) : TRUE) \in at(slot)
      BY <2>5
    <3>2. \A i : i \in at(slot) => i = j
      BY <1>41, <2>4, Zenon
    <3> QED BY <3>1, <3>2, Zenon
  <2>7. val(slot) = rows[j]
    BY <2>5, <2>6, Zenon
  <2>8. rows[j] = RowOf(file.tokens, q)
    BY <1>2, <2>2, Zenon
  <2>9. next[slot] = val(slot)
    <3>1. slot \in 0..(RawCap - 1)
      BY <1>3
    <3> HIDE DEF val
    <3> QED BY <1>4, <3>1
  <2> QED BY <1>3, <2>3, <2>7, <2>8, <2>9, Zenon
<1> QED BY <1>1, <1>6, <1>7, Zenon DEF RingShows

(* A compressor loaded from a file.                                        *)
LEMMA LoadedUnitIs ==
    ASSUME NEW u \in Unit, NEW c \in Compressor(u), NEW saved, NEW s, UnitOf(u, saved, s),
           NEW d, d = LoadedUnit(c, saved)
    PROVE  /\ d \in Compressor(u)
           /\ [d EXCEPT !.n = Len(saved.rows)] \in Compressor(u)
           /\ UnitShows(u, [d EXCEPT !.n = Len(saved.rows)], s, Len(s))
<1>1. PICK n \in Nat : n = Len(saved.rows) /\ n = Len(s) \div RatioOf(u) /\ n <= CompCap
  <2>1. Len(saved.rows) \in Nat
    BY DEF UnitOf
  <2> QED BY <2>1, Zenon DEF UnitOf
<1>11. PICK K \in Nat : K = CompCap /\ n <= K
  BY <1>1, GraphFacts
<1>2. /\ saved.rows \in Seq(Windows(u) \cup {NoRow}) /\ saved.state \in Windows(u)
      /\ \A k \in 0..(n - 1) : saved.rows[k + 1] = CompRowOf(u, s, k)
      /\ WindowShows(u, saved.state, s, Len(s))
  BY <1>1, Zenon DEF UnitOf
<1>3. c.rows \in [0..(CompCap - 1) -> Windows(u) \cup {NoRow}] /\ c.n \in 0..CompCap
  BY DEF Compressor, Counted
<1> DEFINE R == [k \in 0..(CompCap - 1) |-> IF k < n THEN saved.rows[k + 1] ELSE c.rows[k]]
<1>4. d = [n |-> c.n, state |-> saved.state, rows |-> R]
  BY <1>1, Zenon DEF LoadedUnit
<1>5. /\ R \in [0..(CompCap - 1) -> Windows(u) \cup {NoRow}]
      /\ \A k \in 0..(n - 1) : R[k] = saved.rows[k + 1]
  <2>1. \A k \in 0..(CompCap - 1) : k < n => saved.rows[k + 1] \in Windows(u) \cup {NoRow}
    <3>1. \A i \in 1..n : saved.rows[i] \in Windows(u) \cup {NoRow}
      <4>1. n = Len(saved.rows) /\ saved.rows \in Seq(Windows(u) \cup {NoRow})
        BY <1>1, <1>2
      <4> QED BY <4>1
    <3>2. \A k \in 0..(CompCap - 1) : k < n => k + 1 \in 1..n
      BY <1>11
    <3> QED BY <3>1, <3>2, Zenon
  <2>2. R \in [0..(CompCap - 1) -> Windows(u) \cup {NoRow}]
    BY <1>3, <2>1
  <2>3. \A k \in 0..(n - 1) : k \in 0..(CompCap - 1) /\ k < n
    BY <1>11
  <2> QED BY <2>2, <2>3
<1> HIDE DEF R
<1>6. d \in Compressor(u)
  BY <1>2, <1>3, <1>4, <1>5 DEF Compressor, Counted
<1>70. n = Len(saved.rows)
  BY <1>1
<1>71. [d EXCEPT !.n = Len(saved.rows)] = [n |-> Len(saved.rows), state |-> saved.state, rows |-> R]
  BY <1>4
<1>7. PICK e : e = [d EXCEPT !.n = Len(saved.rows)] /\ e = [n |-> n, state |-> saved.state, rows |-> R]
  BY <1>70, <1>71, Zenon
<1>8. e \in Compressor(u)
  <2>1. n \in 0..CompCap
    BY <1>11
  <2>2. e = [n |-> n, state |-> saved.state, rows |-> R]
    BY <1>7, Zenon
  <2>3. saved.state \in Windows(u) /\ R \in [0..(CompCap - 1) -> Windows(u) \cup {NoRow}]
    BY <1>2, <1>5, Zenon
  <2> QED BY <2>1, <2>2, <2>3 DEF Compressor, Counted
<1>9. UnitShows(u, e, s, Len(s))
  <2>1. e.n = n /\ e.rows = R /\ e.state = saved.state
    BY <1>7
  <2>2. Pools(u, e, s, n)
    BY <1>2, <1>5, <2>1, Zenon DEF Pools
  <2> QED BY <1>1, <1>2, <2>1, <2>2, Zenon DEF UnitShows
<1> QED BY <1>6, <1>7, <1>8, <1>9, Zenon

(* A graph that was loaded, or half of it, is typed.                       *)
LEMMA LoadedIs ==
    ASSUME g \in Graphs, FileOf(file), NEW k \in 0..Layers, NEW h, h = Loaded(k)
    PROVE  /\ h \in Graphs
           /\ \A l \in Layer : l <= k => h.raw[l] = LoadedRaw(g.raw[l], file.raw[l])
           /\ \A u \in Unit : u[1] <= k => h.unit[u] = LoadedUnit(g.unit[u], file.unit[u])
<1> DEFINE raw == [l \in Layer |-> IF l <= k THEN LoadedRaw(g.raw[l], file.raw[l]) ELSE g.raw[l]]
           unit == [u \in Unit |-> IF u[1] <= k THEN LoadedUnit(g.unit[u], file.unit[u]) ELSE g.unit[u]]
<1>1. h = [raw |-> raw, unit |-> unit]
  BY Zenon DEF Loaded
<1>2. (\A l \in Layer : g.raw[l] \in Rings) /\ (\A u \in Unit : g.unit[u] \in Compressor(u))
  BY GraphParts
<1>3. \A l \in Layer : raw[l] \in Rings
  <2>1. ASSUME NEW l \in Layer, l <= k PROVE LoadedRaw(g.raw[l], file.raw[l]) \in Rings
    <3>1. RawOf(file.raw[l], file.tokens) /\ file.tokens \in Seq(Token) /\ Len(file.tokens) < Ctx
      BY Zenon DEF FileOf
    <3>2. PICK r \in Rings : r = g.raw[l]
      BY <1>2, Zenon
    <3>3. LoadedRaw(r, file.raw[l]) \in Rings
      BY <3>1, LoadedRawIs, Zenon
    <3> QED BY <3>2, <3>3, Zenon
  <2> QED BY <1>2, <2>1, Zenon
<1>4. \A u \in Unit : unit[u] \in Compressor(u)
  <2>1. ASSUME NEW u \in Unit, u[1] <= k PROVE LoadedUnit(g.unit[u], file.unit[u]) \in Compressor(u)
    <3>1. UnitOf(u, file.unit[u], file.tokens)
      BY Zenon DEF FileOf
    <3>2. PICK c \in Compressor(u) : c = g.unit[u]
      BY <1>2, Zenon
    <3>3. LoadedUnit(c, file.unit[u]) \in Compressor(u)
      BY <3>1, LoadedUnitIs, Zenon
    <3> QED BY <3>2, <3>3, Zenon
  <2> QED BY <1>2, <2>1, Zenon
<1>5. /\ unit = [u \in Unit |-> unit[u]] /\ raw = [l \in Layer |-> raw[l]]
      /\ \A l \in Layer : l <= k => raw[l] = LoadedRaw(g.raw[l], file.raw[l])
      /\ \A u \in Unit : u[1] <= k => unit[u] = LoadedUnit(g.unit[u], file.unit[u])
  BY Zenon
<1> HIDE DEF raw, unit
<1>6. unit \in Units
  BY <1>4, <1>5, UnitsAre, Zenon
<1>7. raw \in [Layer -> Rings]
  BY <1>3, <1>5
<1>8. h \in Graphs /\ h.raw = raw /\ h.unit = unit
  BY <1>1, <1>6, <1>7 DEF Graphs
<1> QED BY <1>5, <1>8, Zenon

(* A graph that was loaded is exact.                                       *)
LEMMA LoadIs ==
    ASSUME g \in Graphs, FileOf(file), NEW h, h = Loaded(Layers),
           NEW k, k = [h EXCEPT !.unit = [u \in Unit |-> [h.unit[u] EXCEPT !.n = Len(file.unit[u].rows)]]]
    PROVE  Exactly(k, file.tokens)
<1> DEFINE unit == [u \in Unit |-> [h.unit[u] EXCEPT !.n = Len(file.unit[u].rows)]]
<1>1. Layers \in 0..Layers
  BY GraphFacts
<1>2. /\ h \in Graphs
      /\ \A l \in Layer : l <= Layers => h.raw[l] = LoadedRaw(g.raw[l], file.raw[l])
      /\ \A u \in Unit : u[1] <= Layers => h.unit[u] = LoadedUnit(g.unit[u], file.unit[u])
  BY <1>1, LoadedIs
<1>3. ASSUME NEW u \in Unit PROVE unit[u] \in Compressor(u) /\ UnitShows(u, unit[u], file.tokens, Len(file.tokens))
  <2>1. u[1] <= Layers
    BY UnitFacts, GraphFacts
  <2>2. PICK c \in Compressor(u) : c = g.unit[u]
    BY GraphParts
  <2>3. PICK d : d = h.unit[u] /\ d = LoadedUnit(c, file.unit[u])
    BY <1>2, <2>1, <2>2, Zenon
  <2>4. UnitOf(u, file.unit[u], file.tokens)
    BY Zenon DEF FileOf
  <2>5. /\ [d EXCEPT !.n = Len(file.unit[u].rows)] \in Compressor(u)
        /\ UnitShows(u, [d EXCEPT !.n = Len(file.unit[u].rows)], file.tokens, Len(file.tokens))
    BY <2>3, <2>4, LoadedUnitIs, Zenon
  <2>6. unit[u] = [d EXCEPT !.n = Len(file.unit[u].rows)]
    BY <2>3
  <2> HIDE DEF unit
  <2> QED BY <2>5, <2>6, Zenon
<1>4. unit = [u \in Unit |-> unit[u]]
  OBVIOUS
<1>5. k = [h EXCEPT !.unit = unit]
  OBVIOUS
<1> HIDE DEF unit
<1>6. unit \in Units
  BY <1>3, <1>4, UnitsAre, Zenon
<1>7. h = [raw |-> h.raw, unit |-> h.unit] /\ h.raw \in [Layer -> Rings]
  BY <1>2, GraphParts
<1>8. k \in Graphs /\ k.raw = h.raw /\ k.unit = unit
  BY <1>5, <1>6, <1>7 DEF Graphs
<1>9. ASSUME NEW l \in Layer
      PROVE  RingShows(k.raw[l], file.tokens, Len(file.tokens) - Window, Len(file.tokens))
  <2>1. l <= Layers
    BY GraphFacts
  <2>2. PICK r \in Rings : r = g.raw[l]
    BY GraphParts
  <2>3. RawOf(file.raw[l], file.tokens) /\ file.tokens \in Seq(Token) /\ Len(file.tokens) < Ctx
    BY Zenon DEF FileOf
  <2>4. RingShows(LoadedRaw(r, file.raw[l]), file.tokens, Len(file.tokens) - Window, Len(file.tokens))
    BY <2>3, LoadedRawIs, Zenon
  <2> QED BY <1>2, <1>8, <2>1, <2>2, <2>4, Zenon
<1> QED BY <1>3, <1>8, <1>9, Zenon DEF Exactly, GraphShows, LayerShows

-----------------------------------------------------------------------------
(* The inductive invariant.  Between calls a valid checkpoint that is not  *)
(* known to be wrong has its graph and its logits; a file always does.     *)
SessionTyped ==
    /\ g \in Graphs /\ tokens \in Seq(Token) /\ Len(tokens) < Ctx /\ valid \in BOOLEAN
    /\ valid => Len(tokens) > 0
    /\ faults \in 0..MaxFaults /\ colds \in 0..MaxColds /\ taint \in {"none", "window", "load", "restore"}
    /\ file # NoFile => FileOf(file)

SettledRight == Settled => logits = tokens /\ Exactly(g, tokens)

(* During a call: what was drafted, and for every step what the graph, the *)
(* frontiers and the rows of logits are good for.  A graph that is half    *)
(* overwritten still has what belongs to the base.                         *)
Target(n) == \A i \in 1..n : Drafts[i] = Choice[Start + i - 1]
BaseThere == GraphShows(g, Base, Start - Window, Start)
BaseLeft  == GraphHas(g, Base, Start - Window, Start)
SavedBase == FrontierOf(spec.saved, Base, Start)
SeenSome  == call.seen \in 1..Len(Drafts) /\ Target(call.seen)
JudgeRows == Len(call.rows) = Len(Drafts) /\ \A i \in 1..Len(Drafts) : call.rows[i] = Upto(Whole, Start + i)

CallParts ==
    /\ call \in Call /\ valid /\ taint \in {"none", "restore"} /\ logits = Base
    /\ Start <= Len(tokens) /\ Base[Start] # Eos
    /\ Len(Drafts) > 0 /\ Start + Len(Drafts) < Ctx /\ Start + call.cap < Ctx
    /\ Drafts[1] = Choice[Start] /\ \A i \in 1..(Len(Drafts) - 1) : Drafts[i] # Eos
    /\ taint = "restore" => call.step \in {"sequential", "one"}

StepParts ==
    /\ call.step \in {"draft", "snapshot", "verify"} => tokens = Base /\ BaseThere
    /\ call.step = "snapshot" => NeedsSnapshot
    /\ call.step \in {"verify", "judge"} /\ NeedsSnapshot => SavedBase
    /\ call.step = "judge" =>
        /\ GraphShows(g, Whole, Start - Window, Start + Len(Drafts)) /\ JudgeRows
        /\ Exact \/ Captures => FrontierOf(spec.first, Whole, Start + 1)
    /\ call.step \in {"restore", "undo"} => BaseLeft /\ SavedBase
    /\ call.step \in {"restore", "replay"} => SeenSome
    /\ call.step = "replay" => tokens = Base /\ BaseThere /\ SavedBase
    /\ call.step = "sequential" => tokens = Base /\ (taint = "none" => BaseThere)
    /\ call.step = "one" =>
        /\ call.seen \in 0..Len(Drafts) /\ tokens = Base \o Upto(Drafts, call.seen)
        /\ taint = "none" => /\ Target(call.seen) /\ Exactly(g, tokens)
                             /\ call.rows = IF call.seen = 0 THEN <<>> ELSE <<tokens>>

CallRight == ~Idle => CallParts /\ StepParts

MtpInv == SessionTyped /\ SettledRight /\ CallRight

-----------------------------------------------------------------------------
(* A state with no call running.                                           *)
LEMMA OutsideCall ==
    ASSUME call' = NoCall, g' \in Graphs, tokens' \in Seq(Token), Len(tokens') < Ctx, valid' \in BOOLEAN,
           valid' => Len(tokens') > 0, faults' \in 0..MaxFaults, colds' \in 0..MaxColds,
           taint' \in {"none", "window", "load", "restore"}, file' # NoFile => FileOf(file'),
           valid' /\ taint' = "none" => logits' = tokens' /\ Exactly(g', tokens')
    PROVE  MtpInv'
<1>1. SessionTyped'
  BY Zenon DEF SessionTyped
<1>2. SettledRight'
  BY Zenon DEF SettledRight, Settled
<1>3. CallRight'
  BY Zenon DEF CallRight, Idle
<1> QED BY <1>1, <1>2, <1>3, Zenon DEF MtpInv

ConcatIs(w, b, e, m) ==
    /\ w \in Seq(Token) /\ Len(w) = m + Len(e) /\ m \in Nat
    /\ \A i \in 1..m : w[i] = b[i]
    /\ \A i \in 1..Len(e) : w[m + i] = e[i]

(* A concatenation, by its elements.                                       *)
LEMMA Concat ==
    ASSUME NEW b \in Seq(Token), NEW e \in Seq(Token)
    PROVE  ConcatIs(b \o e, b, e, Len(b))
<1>1. PICK w, m : w = b \o e /\ m = Len(b)
  OBVIOUS
<1>2. w \in Seq(Token) /\ Len(w) = m + Len(e) /\ m \in Nat
  BY <1>1
<1>3. \A i \in 1..m : w[i] = b[i]
  BY <1>1
<1>4. ASSUME NEW i \in 1..Len(e) PROVE w[m + i] = e[i]
  BY <1>1
<1>5. ConcatIs(w, b, e, m)
  BY <1>2, <1>3, <1>4 DEF ConcatIs
<1> QED BY <1>1, <1>5, Zenon

(* A text and the first k of some drafts.                                  *)
JoinedIs(s, b, d, k, m) ==
    /\ s \in Seq(Token) /\ Len(s) = m + k
    /\ \A i \in 1..m : s[i] = b[i]
    /\ \A i \in 1..k : s[m + i] = d[i]
    /\ Follows(s, b, k) /\ s = Upto(b \o d, m + k)

(* A text and some drafts, by their tokens.                                *)
LEMMA Joined ==
    ASSUME NEW b \in Seq(Token), NEW d \in Seq(Token), NEW k \in 0..Len(d)
    PROVE  JoinedIs(b \o Upto(d, k), b, d, k, Len(b))
<1>1. PICK e \in Seq(Token) : e = Upto(d, k) /\ Len(e) = k /\ \A i \in 1..k : e[i] = d[i]
  BY UptoIs
<1>2. PICK s : s = b \o e /\ s = b \o Upto(d, k)
  BY <1>1, Zenon
<1>3. PICK m \in Nat : m = Len(b)
  OBVIOUS
<1>4. /\ s \in Seq(Token) /\ Len(s) = m + k /\ k \in Nat
      /\ \A i \in 1..m : s[i] = b[i]
      /\ \A i \in 1..k : s[m + i] = e[i]
  <2>1. ConcatIs(b \o e, b, e, Len(b))
    BY Concat
  <2>2. ConcatIs(s, b, e, m)
    BY <1>2, <1>3, <2>1, Zenon
  <2> QED BY <1>1, <2>2 DEF ConcatIs
<1>5. \A i \in 1..k : s[m + i] = d[i]
  BY <1>1, <1>4
<1>6. Upto(s, m) = b
  <2>1. m \in 0..Len(s)
    BY <1>4
  <2>2. Upto(s, m) \in Seq(Token) /\ Len(Upto(s, m)) = m /\ \A i \in 1..m : Upto(s, m)[i] = s[i]
    BY <1>4, <2>1, UptoIs
  <2>3. \A i \in 1..Len(Upto(s, m)) : Upto(s, m)[i] = b[i]
    BY <1>4, <2>2
  <2> QED BY <1>3, <2>2, <2>3, SameText
<1>7. s = Upto(b \o d, m + k)
  <2>1. PICK w : w = b \o d
    OBVIOUS
  <2>2. /\ w \in Seq(Token) /\ Len(w) = m + Len(d)
        /\ \A i \in 1..m : w[i] = b[i]
        /\ \A i \in 1..Len(d) : w[m + i] = d[i]
    <3>1. ConcatIs(b \o d, b, d, Len(b))
      BY Concat
    <3>2. ConcatIs(w, b, d, m)
      BY <1>3, <2>1, <3>1, Zenon
    <3> QED BY <3>2, Zenon DEF ConcatIs
  <2>3. PICK n \in Nat : n = m + k /\ n <= Len(w) /\ n <= Len(s) /\ n = Len(s)
    BY <1>4, <2>2
  <2>4. ASSUME NEW i \in 1..n PROVE s[i] = w[i]
    <3>1. CASE i \in 1..m
      BY <1>4, <2>2, <3>1, Zenon
    <3>2. CASE i \notin 1..m
      <4>1. PICK j \in 1..k : i = m + j
        <5>1. i - m \in 1..k /\ i = m + (i - m)
          BY <1>4, <2>3, <3>2
        <5> QED BY <5>1
      <4>2. j \in 1..Len(d)
        BY <1>4
      <4> QED BY <1>5, <2>2, <4>1, <4>2, Zenon
    <3> QED BY <3>1, <3>2
  <2>5. Upto(s, n) = Upto(w, n)
    BY <1>4, <2>2, <2>3, <2>4, UptoSame, Zenon
  <2>6. Upto(s, n) = s
    BY <1>4, <2>3, UptoAll, Zenon
  <2> QED BY <2>1, <2>3, <2>5, <2>6, Zenon
<1>8. Follows(s, b, k)
  BY <1>3, <1>4, <1>6, Zenon DEF Follows
<1>9. JoinedIs(s, b, d, k, m)
  BY <1>4, <1>5, <1>7, <1>8, Zenon DEF JoinedIs
<1> QED BY <1>2, <1>3, <1>9, Zenon

(* The text of a call.                                                     *)
LEMMA CallText ==
    ASSUME SessionTyped, CallParts
    PROVE  /\ call.from \in Nat /\ Start \in Nat \ {0} /\ Start \in 0..Len(tokens)
           /\ Base \in Seq(Token) /\ Len(Base) = Start /\ \A i \in 1..Start : Base[i] = tokens[i]
           /\ Drafts \in Seq(Token) /\ Len(Drafts) \in Nat \ {0}
           /\ Whole \in Seq(Token) /\ Len(Whole) = Start + Len(Drafts) /\ Len(Whole) < Ctx /\ Ctx \in Nat
           /\ Follows(Whole, Base, Len(Drafts)) /\ Upto(Whole, Start) = Base
           /\ Agree(Base, Whole, Start) /\ Agree(Whole, Base, Start)
<1>1. /\ call.from \in Nat /\ Drafts \in Seq(Token)
      /\ Start <= Len(tokens) /\ Len(Drafts) > 0 /\ Start + Len(Drafts) < Ctx /\ tokens \in Seq(Token)
  <2>1. call \in Call /\ Start <= Len(tokens) /\ Len(Drafts) > 0 /\ Start + Len(Drafts) < Ctx /\ tokens \in Seq(Token)
    BY Zenon DEF SessionTyped, CallParts
  <2>2. call.from \in Nat /\ call.drafts \in Seq(Token)
    BY <2>1 DEF Call
  <2> QED BY <2>1, <2>2, Zenon DEF Drafts
<1>2. Start \in Nat \ {0} /\ Start \in 0..Len(tokens) /\ Len(Drafts) \in Nat \ {0} /\ Ctx \in Nat
  <2>1. Ctx \in Nat
    BY GraphFacts
  <2> QED BY <1>1, <2>1 DEF Start
<1>3. Base \in Seq(Token) /\ Len(Base) = Start /\ \A i \in 1..Start : Base[i] = tokens[i]
  BY <1>1, <1>2, UptoIs DEF Base
<1>4. Drafts = Upto(Drafts, Len(Drafts)) /\ Len(Drafts) \in 0..Len(Drafts)
  BY <1>1, UptoAll
<1>5. Whole \in Seq(Token) /\ Len(Whole) = Start + Len(Drafts) /\ Follows(Whole, Base, Len(Drafts))
  <2>1. JoinedIs(Base \o Upto(Drafts, Len(Drafts)), Base, Drafts, Len(Drafts), Len(Base))
    BY <1>1, <1>3, <1>4, Joined, Zenon
  <2>2. JoinedIs(Whole, Base, Drafts, Len(Drafts), Start)
    BY <1>3, <1>4, <2>1, Zenon DEF Whole
  <2> QED BY <2>2, Zenon DEF JoinedIs
<1>6. Agree(Base, Whole, Start) /\ Agree(Whole, Base, Start)
  BY <1>2, <1>3, <1>5, FollowsAgree
<1>7. Upto(Whole, Start) = Base
  BY <1>3, <1>5, Zenon DEF Follows
<1> QED BY <1>1, <1>2, <1>3, <1>5, <1>6, <1>7

(* The first drafts after the base.                                        *)
LEMMA SomeDrafts ==
    ASSUME SessionTyped, CallParts, NEW k \in 0..Len(Drafts), NEW s, s = Base \o Upto(Drafts, k)
    PROVE  /\ s \in Seq(Token) /\ Len(s) = Start + k /\ Len(s) < Ctx
           /\ Follows(s, Base, k) /\ Upto(s, Start) = Base /\ s = Upto(Whole, Start + k)
           /\ \A i \in 1..Start : s[i] = Base[i]
           /\ \A i \in 1..k : s[Start + i] = Drafts[i]
           /\ Agree(Base, s, Start) /\ Agree(s, Whole, Start + k) /\ Agree(Whole, s, Start + k)
<1>1. /\ Base \in Seq(Token) /\ Drafts \in Seq(Token) /\ Len(Base) = Start /\ Start \in Nat /\ Whole \in Seq(Token)
      /\ Len(Whole) = Start + Len(Drafts) /\ Len(Whole) < Ctx /\ Ctx \in Nat
  BY CallText
<1>2. /\ s \in Seq(Token) /\ Len(s) = Start + k /\ Follows(s, Base, k)
      /\ \A i \in 1..Start : s[i] = Base[i]
      /\ \A i \in 1..k : s[Start + i] = Drafts[i]
      /\ s = Upto(Whole, Start + k)
  <2>1. JoinedIs(Base \o Upto(Drafts, k), Base, Drafts, k, Len(Base))
    BY <1>1, Joined, Zenon
  <2>2. JoinedIs(s, Base, Drafts, k, Start)
    BY <1>1, <2>1, Zenon
  <2> QED BY <2>2, Zenon DEF JoinedIs, Whole
<1>3. Len(s) < Ctx /\ Upto(s, Start) = Base
  BY <1>1, <1>2 DEF Follows
<1>4. Agree(Base, s, Start)
  BY <1>1, <1>2, FollowsAgree
<1>5. Start + k \in 0..Len(Whole)
  BY <1>1
<1>6. Agree(s, Whole, Start + k)
  BY <1>1, <1>2, <1>5, AgreeUpto
<1>7. Agree(Whole, s, Start + k)
  BY <1>6 DEF Agree
<1> QED BY <1>2, <1>3, <1>4, <1>6, <1>7

(* A new session.                                                          *)
LEMMA InitIs == Init => MtpInv
<1> SUFFICES ASSUME Init PROVE MtpInv
  OBVIOUS
<1>1. NewGraph \in Graphs
  <2> DEFINE raw == [l \in Layer |-> [p \in 0..(RawCap - 1) |-> NoRow]]
             unit == [u \in Unit |-> [rows |-> [k \in 0..(CompCap - 1) |-> NoRow], n |-> 0, state |-> Empty(u)]]
  <2>1. NewGraph = [raw |-> raw, unit |-> unit]
    BY DEF NewGraph
  <2>2. raw \in [Layer -> Rings]
    BY DEF Rings, Rows
  <2>3. ASSUME NEW u \in Unit PROVE unit[u] \in Compressor(u)
    <3>1. Empty(u) \in Windows(u)
      BY UnitFacts DEF Empty, Windows, Rows
    <3>2. 0 \in 0..CompCap
      BY GraphFacts
    <3> QED BY <3>1, <3>2 DEF Compressor, Counted
  <2>4. unit = [u \in Unit |-> unit[u]]
    OBVIOUS
  <2> HIDE DEF raw, unit
  <2>5. unit \in Units
    BY <2>3, <2>4, UnitsAre, Zenon
  <2> QED BY <2>1, <2>2, <2>5 DEF Graphs
<1>2. /\ g = NewGraph /\ tokens = <<>> /\ valid = FALSE /\ call = NoCall /\ file = NoFile
      /\ faults = 0 /\ colds = 0 /\ taint = "none"
  BY DEF Init
<1>3. tokens \in Seq(Token) /\ Len(tokens) < Ctx
  BY <1>2, MtpAssumption
<1>4. faults \in 0..MaxFaults /\ colds \in 0..MaxColds /\ taint \in {"none", "window", "load", "restore"}
  BY <1>2, MtpAssumption
<1>5. SessionTyped
  BY <1>1, <1>2, <1>3, <1>4 DEF SessionTyped
<1>6. SettledRight
  BY <1>2 DEF SettledRight, Settled
<1>7. CallRight
  BY <1>2 DEF CallRight, Idle
<1> QED BY <1>5, <1>6, <1>7 DEF MtpInv

(* What a step starts from, and what it may count.                         *)
LEMMA Typed ==
    ASSUME MtpInv
    PROVE  /\ SessionTyped /\ g \in Graphs /\ tokens \in Seq(Token) /\ Len(tokens) < Ctx /\ valid \in BOOLEAN
           /\ valid => Len(tokens) > 0
           /\ faults \in 0..MaxFaults /\ colds \in 0..MaxColds /\ taint \in {"none", "window", "load", "restore"}
           /\ file # NoFile => FileOf(file)
           /\ Idle => call = NoCall
           /\ Settled => logits = tokens /\ Exactly(g, tokens)
           /\ ~Idle => CallParts /\ StepParts
           /\ Fault => faults' \in 0..MaxFaults
           /\ Cold => colds' \in 0..MaxColds
<1>1. Fault => faults' \in 0..MaxFaults
  BY MtpAssumption DEF MtpInv, SessionTyped, Fault
<1>2. Cold => colds' \in 0..MaxColds
  BY MtpAssumption DEF MtpInv, SessionTyped, Cold
<1> QED BY <1>1, <1>2, Zenon DEF MtpInv, SessionTyped, SettledRight, CallRight, Idle

(* An invalidated checkpoint is empty.                                     *)
LEMMA InvalidateIs == MtpInv /\ Invalidate => MtpInv'
<1> SUFFICES ASSUME MtpInv, Invalidate PROVE MtpInv'
  OBVIOUS
<1>1. /\ call' = NoCall /\ g' = g /\ tokens' = <<>> /\ valid' = FALSE /\ file' = file
      /\ faults' = faults /\ colds' = colds /\ taint' = taint
  BY Typed, Zenon DEF Invalidate
<1>2. tokens' \in Seq(Token) /\ Len(tokens') < Ctx
  BY <1>1, MtpAssumption
<1> QED BY <1>1, <1>2, Typed, OutsideCall

(* The prompts a session is brought to.                                    *)
LEMMA PromptIs ==
    ASSUME NEW p \in Prompts, Syncable(p), MtpInv
    PROVE  /\ p \in Seq(Token) /\ Len(p) \in Nat \ {0} /\ Len(p) < Ctx /\ call = NoCall /\ Ctx \in Nat
           /\ Extends(p) => /\ valid /\ Len(tokens) \in 1..Len(p) /\ Upto(p, Len(tokens)) = tokens
                            /\ Agree(tokens, p, Len(tokens))
<1>1. p \in Seq(Token) /\ Len(p) \in Nat \ {0} /\ Len(p) < Ctx /\ call = NoCall /\ Ctx \in Nat
  BY MtpAssumption, GraphFacts DEF Syncable, Idle
<1>2. ASSUME Extends(p)
      PROVE  valid /\ Len(tokens) \in 1..Len(p) /\ Upto(p, Len(tokens)) = tokens /\ Agree(tokens, p, Len(tokens))
  <2>1. valid /\ Len(tokens) <= Len(p) /\ Upto(p, Len(tokens)) = tokens
    BY <1>2 DEF Extends, IsPrefixOf
  <2>2. tokens \in Seq(Token) /\ Len(tokens) > 0
    BY <2>1, Typed
  <2>3. Len(tokens) \in 1..Len(p) /\ Len(tokens) \in 0..Len(p)
    BY <1>1, <2>1, <2>2
  <2>4. Agree(Upto(p, Len(tokens)), p, Len(tokens))
    BY <1>1, <2>3, AgreeUpto
  <2>5. Agree(tokens, p, Len(tokens))
    BY <2>1, <2>4, Zenon
  <2> QED BY <2>1, <2>3, <2>5
<1> QED BY <1>1, <1>2

(* The logits behind the last token of a prompt.                           *)
LEMMA LastRowIs ==
    ASSUME NEW s \in Seq(Token), Len(s) > 0, NEW x, Len(s) - 1 \in x.right
    PROVE  LogitsAt(x, s, Len(s) - 1) = s
<1>1. RowOf(s, Len(s) - 1) = s
  <2>1. (Len(s) - 1) + 1 = Len(s)
    OBVIOUS
  <2> QED BY <2>1, UptoAll DEF RowOf
<1> QED BY <1>1, Zenon DEF LogitsAt

(* A suffix prefilled in chunks.                                           *)
LEMMA SyncResumeIs ==
    ASSUME MtpInv, NEW p \in Prompts, SyncResume(p)
    PROVE  MtpInv'
<1>1. Syncable(p) /\ Resumes(p) /\ Extends(p)
  BY Zenon DEF SyncResume, Resumes
<1>2. /\ p \in Seq(Token) /\ Len(p) \in Nat \ {0} /\ Len(p) < Ctx /\ call = NoCall /\ Ctx \in Nat
      /\ valid /\ Len(tokens) \in 1..Len(p) /\ Agree(tokens, p, Len(tokens))
  BY <1>1, PromptIs
<1>3. PICK n \in Nat \ {0} : n = Len(tokens) /\ n < Len(p) /\ n \in 0..Len(p)
  <2>1. Len(p) - Len(tokens) >= ResumeMin /\ ResumeMin \in Nat \ {0}
    BY <1>1, MtpAssumption DEF Resumes
  <2> QED BY <1>2, <2>1
<1>4. PICK c : c = Chunks(g, p, n)[Len(p)]
  OBVIOUS
<1>5. /\ c.x.ok /\ g' = c.x.g /\ tokens' = p /\ valid' = TRUE /\ logits' = LogitsAt(c.x, p, Len(p) - 1)
      /\ call' = call /\ file' = file /\ faults' = faults /\ taint' = taint /\ colds' = colds
  BY <1>3, <1>4, Zenon DEF SyncResume, Prefilled
<1>6. c.x \in Batchings
  BY <1>2, <1>3, <1>4, Typed, PrefilledIs, Zenon
<1>7. ASSUME taint' = "none" PROVE logits' = tokens' /\ Exactly(g', tokens')
  <2>1. Settled
    BY <1>2, <1>5, <1>7 DEF Settled, Idle
  <2>2. GraphShows(g, tokens, n - Window, n) /\ g \in Graphs
    BY <1>3, <2>1, Typed, Zenon DEF Exactly
  <2>3. SameFor(tokens, p, n)
    BY <1>2, <1>3, SameHistory, Zenon
  <2>4. GraphShows(g, p, n - Window, n)
    BY <2>2, <2>3, Zenon DEF SameFor
  <2>5. n # 0
    OBVIOUS
  <2>6. Len(p) - 1 \in c.x.right /\ Exactly(c.x.g, p)
    BY <1>2, <1>3, <1>4, <1>5, <2>2, <2>4, <2>5, PrefilledIs, Zenon
  <2>7. LogitsAt(c.x, p, Len(p) - 1) = p
    BY <1>2, <2>6, LastRowIs
  <2> QED BY <1>5, <2>6, <2>7, Zenon
<1>8. g' \in Graphs
  BY <1>5, <1>6 DEF Batchings
<1> QED BY <1>2, <1>5, <1>7, <1>8, Typed, OutsideCall

(* A prompt prefilled from token zero: exact unless it is a single batch   *)
(* that is not aligned, and then it is known to be wrong.                  *)
LEMMA SyncColdIs ==
    ASSUME MtpInv, NEW p \in Prompts, SyncCold(p)
    PROVE  MtpInv'
<1>1. Syncable(p) /\ Cold
  BY Zenon DEF SyncCold
<1>2. p \in Seq(Token) /\ Len(p) \in Nat \ {0} /\ Len(p) < Ctx /\ call = NoCall /\ Ctx \in Nat
  BY <1>1, PromptIs
<1>3. PICK c : c = Chunks(g, p, 0)[Len(p)]
  OBVIOUS
<1>4. /\ c.x.ok /\ g' = c.x.g /\ tokens' = p /\ valid' = TRUE /\ logits' = LogitsAt(c.x, p, Len(p) - 1)
      /\ call' = call /\ file' = file /\ faults' = faults /\ taint' = IF Unaligned(p) THEN "window" ELSE "none"
  BY <1>3, Zenon DEF SyncCold, Prefilled
<1>5. 0 \in 0..Len(p) /\ 0 < Len(p) /\ g \in Graphs
  BY <1>2, Typed
<1>6. c.x \in Batchings
  BY <1>2, <1>3, <1>5, PrefilledIs, Zenon
<1>7. ASSUME taint' = "none" PROVE logits' = tokens' /\ Exactly(g', tokens')
  <2>1. ~Unaligned(p)
    BY <1>4, <1>7
  <2>2. Len(p) - 1 \in c.x.right /\ Exactly(c.x.g, p)
    BY <1>2, <1>3, <1>4, <1>5, <2>1, PrefilledIs, Zenon
  <2>3. LogitsAt(c.x, p, Len(p) - 1) = p
    BY <1>2, <2>2, LastRowIs
  <2> QED BY <1>4, <2>2, <2>3, Zenon
<1>8. g' \in Graphs /\ colds' \in 0..MaxColds /\ taint' \in {"none", "window", "load", "restore"}
  BY <1>1, <1>4, <1>6, Typed DEF Batchings
<1> QED BY <1>2, <1>4, <1>7, <1>8, Typed, OutsideCall

(* A chunk that failed.                                                    *)
LEMMA SyncFailsIs ==
    ASSUME MtpInv, NEW p \in Prompts, SyncFails(p)
    PROVE  MtpInv'
<1>1. Syncable(p) /\ Fault /\ (colds' = colds \/ Cold)
  BY Zenon DEF SyncFails
<1>2. /\ p \in Seq(Token) /\ Len(p) \in Nat \ {0} /\ Len(p) < Ctx /\ call = NoCall /\ Ctx \in Nat
      /\ Extends(p) => Len(tokens) \in 1..Len(p)
  BY <1>1, PromptIs
<1>3. PICK start \in 0..Len(p) : start = IF Extends(p) THEN Len(tokens) ELSE 0
  BY <1>2
<1>4. PICK k \in 0..(Len(p) - 1), l \in 0..(Layers - 1) :
        /\ Chunks(g, p, start)[k].pos < Len(p)
        /\ g' = BatchTo(Chunks(g, p, start)[k].x.g, p, Chunks(g, p, start)[k].pos,
                        ChunkLen(start, Chunks(g, p, start)[k].pos, Len(p)), l).g
        /\ IF k = 0 THEN UNCHANGED <<tokens, logits>>
           ELSE tokens' = Upto(p, Chunks(g, p, start)[k].pos)
  BY <1>3, Zenon DEF SyncFails
<1>5. /\ call' = call /\ file' = file /\ taint' = taint /\ valid' = FALSE /\ g \in Graphs
      /\ faults' \in 0..MaxFaults /\ colds' \in 0..MaxColds
  BY <1>1, Typed, Zenon DEF SyncFails
<1>6. PICK c : c = Chunks(g, p, start)[k]
  OBVIOUS
<1>7. k \in 0..Len(p)
  BY <1>2
<1>8. ChunkTyped(c, g, p, start)
  BY <1>2, <1>5, <1>6, <1>7, ChunkIs, Zenon
<1>9. PICK pos \in Nat : pos = c.pos /\ pos < Len(p) /\ pos \in 0..Len(p) /\ start \in Nat /\ c.x.g \in Graphs
  BY <1>4, <1>6, <1>8 DEF ChunkTyped, Batchings
<1>10. PICK n \in Nat \ {0} : n = ChunkLen(start, pos, Len(p)) /\ pos + n <= Len(p)
  BY <1>2, <1>9, ChunkLenIs
<1>11. g' \in Graphs
  <2>1. l \in 0..Layers
    BY GraphFacts
  <2>2. BatchTo(c.x.g, p, pos, n, l).g \in Graphs
    BY <1>2, <1>9, <1>10, <2>1, BatchIs, Zenon
  <2> QED BY <1>4, <1>6, <1>9, <1>10, <2>2, Zenon
<1>12. tokens' \in Seq(Token) /\ Len(tokens') < Ctx
  <2>1. Upto(p, pos) \in Seq(Token) /\ Len(Upto(p, pos)) = pos
    BY <1>2, <1>9, UptoIs
  <2>2. pos < Ctx
    BY <1>2, <1>9
  <2>3. tokens' = tokens \/ tokens' = Upto(p, pos)
    BY <1>4, <1>6, <1>9, Zenon
  <2>4. tokens \in Seq(Token) /\ Len(tokens) < Ctx
    BY Typed
  <2> QED BY <2>1, <2>2, <2>3, <2>4
<1> QED BY <1>2, <1>5, <1>11, <1>12, Typed, OutsideCall

(* A prompt that is too short.                                             *)
LEMMA SyncTooShortIs ==
    ASSUME MtpInv, NEW p \in Prompts, SyncTooShort(p)
    PROVE  MtpInv'
<1>1. Syncable(p) /\ Cold
  BY Zenon DEF SyncTooShort
<1>2. p \in Seq(Token) /\ Len(p) \in Nat \ {0} /\ Len(p) < Ctx /\ call = NoCall /\ Ctx \in Nat /\ g \in Graphs
  BY <1>1, PromptIs, Typed
<1>3. PICK n \in Nat \ {0} : n = ChunkLen(0, 0, Len(p)) /\ 0 + n <= Len(p)
  <2>1. PICK zero \in Nat, e \in Nat : zero = 0 /\ e = Len(p) /\ zero < e
    BY <1>2
  <2>2. ChunkLen(zero, zero, e) \in Nat \ {0} /\ zero + ChunkLen(zero, zero, e) <= e
    BY <2>1, ChunkLenIs, Zenon
  <2> QED BY <2>1, <2>2
<1>4. /\ g' = Batch(g, p, 0, n).g /\ valid' = FALSE /\ tokens' = tokens /\ call' = call /\ file' = file
      /\ faults' = faults /\ taint' = taint
  BY <1>3, Zenon DEF SyncTooShort
<1>5. Batch(g, p, 0, n).g \in Graphs
  BY <1>2, <1>3, BatchTyped
<1>6. g' \in Graphs /\ colds' \in 0..MaxColds
  BY <1>1, <1>4, <1>5, Typed, Zenon
<1> QED BY <1>2, <1>4, <1>6, Typed, OutsideCall

(* A suffix decoded one by one.                                            *)
LEMMA SyncDecodeIs ==
    ASSUME MtpInv, NEW p \in Prompts, SyncDecode(p)
    PROVE  MtpInv'
<1>1. Syncable(p) /\ Extends(p)
  BY Zenon DEF SyncDecode
<1>2. /\ p \in Seq(Token) /\ Len(p) \in Nat \ {0} /\ Len(p) < Ctx /\ call = NoCall /\ Ctx \in Nat
      /\ valid /\ Len(tokens) \in 1..Len(p) /\ Agree(tokens, p, Len(tokens)) /\ Upto(p, Len(tokens)) = tokens
  BY <1>1, PromptIs
<1>3. PICK n \in Nat \ {0} : n = Len(tokens) /\ n \in 0..Len(p) /\ (n = Len(p) => p = tokens) /\ Len(p) <= Ctx
  BY <1>2, UptoAll
<1>4. PICK x : x = Decoded(g, p, n)
  OBVIOUS
<1>5. /\ x.ok /\ g' = x.g /\ tokens' = p /\ valid' = valid /\ logits' = IF p = tokens THEN logits ELSE LogitsOf(x, p)
      /\ call' = call /\ file' = file /\ faults' = faults /\ taint' = taint /\ colds' = colds
  BY <1>3, <1>4, Zenon DEF SyncDecode
<1>6. x \in Decodings /\ (GraphShows(g, p, n - Window, n) => DecodedShows(x, p, n, Len(p)))
  <2>1. g \in Graphs
    BY Typed
  <2> QED BY <1>2, <1>3, <1>4, <2>1, DecodedIs, Zenon
<1>7. g' \in Graphs
  BY <1>5, <1>6 DEF Decodings
<1>8. ASSUME taint' = "none" PROVE logits' = tokens' /\ Exactly(g', tokens')
  <2>1. Settled
    BY <1>2, <1>5, <1>8 DEF Settled, Idle
  <2>2. GraphShows(g, tokens, n - Window, n) /\ logits = tokens
    BY <1>3, <2>1, Typed, Zenon DEF Exactly
  <2>3. SameFor(tokens, p, n)
    BY <1>2, <1>3, SameHistory, Zenon
  <2>4. GraphShows(g, p, n - Window, n)
    BY <2>2, <2>3, Zenon DEF SameFor
  <2>5. GraphShows(x.g, p, Len(p) - Window, Len(p)) /\ (Len(p) # n => x.right)
    BY <1>5, <1>6, <2>4, Zenon DEF DecodedShows
  <2>6. Exactly(g', tokens')
    BY <1>5, <1>7, <2>5, Zenon DEF Exactly
  <2>7. logits' = p
    <3>1. CASE p = tokens
      BY <1>5, <2>2, <3>1
    <3>2. CASE p # tokens
      BY <1>3, <1>5, <2>5, <3>2, Zenon DEF LogitsOf
    <3> QED BY <3>1, <3>2
  <2> QED BY <1>5, <2>6, <2>7
<1> QED BY <1>2, <1>5, <1>7, <1>8, Typed, OutsideCall

(* A decode of it that failed.                                             *)
LEMMA SyncDecodeFailsIs ==
    ASSUME MtpInv, NEW p \in Prompts, SyncDecodeFails(p)
    PROVE  MtpInv'
<1>1. Syncable(p) /\ Extends(p) /\ Fault
  BY Zenon DEF SyncDecodeFails
<1>2. /\ p \in Seq(Token) /\ Len(p) \in Nat \ {0} /\ Len(p) < Ctx /\ call = NoCall /\ Ctx \in Nat
      /\ Len(tokens) \in 1..Len(p) /\ g \in Graphs
  BY <1>1, PromptIs, Typed
<1>3. PICK n \in Nat : n = Len(tokens)
  BY <1>2
<1>4. PICK k \in n..(Len(p) - 1), l \in 0..(Layers - 1) :
        /\ g' = DecodeTo(Decoded(g, Upto(p, k), n).g, Upto(p, k + 1), l).g
        /\ tokens' = Upto(p, k)
  BY <1>3, Zenon DEF SyncDecodeFails
<1>5. k \in 0..Len(p) /\ k + 1 \in 0..Len(p) /\ l \in 0..Layers /\ n \in 0..k /\ k < Ctx /\ k <= Ctx
  BY <1>2, <1>3, GraphFacts
<1>6. Upto(p, k) \in Seq(Token) /\ Len(Upto(p, k)) = k /\ Upto(p, k + 1) \in Seq(Token) /\ Len(Upto(p, k + 1)) > 0
  <2>1. Upto(p, k) \in Seq(Token) /\ Len(Upto(p, k)) = k
    BY <1>2, <1>5, UptoIs
  <2>2. Upto(p, k + 1) \in Seq(Token) /\ Len(Upto(p, k + 1)) = k + 1
    BY <1>2, <1>5, UptoIs
  <2> QED BY <1>5, <2>1, <2>2
<1>7. PICK x : x = Decoded(g, Upto(p, k), n)
  OBVIOUS
<1>8. x.g \in Graphs
  <2>1. x \in Decodings
    BY <1>2, <1>5, <1>6, <1>7, DecodedIs, Zenon
  <2> QED BY <2>1 DEF Decodings
<1>9. g' \in Graphs
  <2>1. DecodeTo(x.g, Upto(p, k + 1), l).g \in Graphs
    BY <1>5, <1>6, <1>8, DecodeIs, Zenon
  <2> QED BY <1>4, <1>7, <2>1, Zenon
<1>10. /\ valid' = FALSE /\ call' = call /\ file' = file /\ taint' = taint /\ colds' = colds /\ faults' \in 0..MaxFaults
       /\ tokens' \in Seq(Token) /\ Len(tokens') < Ctx
  BY <1>1, <1>4, <1>5, <1>6, Typed, Zenon DEF SyncDecodeFails
<1> QED BY <1>2, <1>9, <1>10, Typed, OutsideCall

(* One more token.                                                         *)
AppendedIs(n, s, t) ==
    /\ n \in Seq(Token) /\ Len(n) = Len(s) + 1 /\ n[Len(n)] = t /\ Len(n) > 0
    /\ \A i \in 1..Len(s) : n[i] = s[i]
    /\ Follows(n, s, 1)

(* By its tokens.                                                          *)
LEMMA Appended ==
    ASSUME NEW s \in Seq(Token), NEW t \in Token
    PROVE  AppendedIs(Append(s, t), s, t)
<1>1. PICK n : n = Append(s, t)
  OBVIOUS
<1>2. /\ n \in Seq(Token) /\ Len(n) = Len(s) + 1 /\ n[Len(n)] = t /\ Len(n) > 0
      /\ \A i \in 1..Len(s) : n[i] = s[i]
  BY <1>1
<1>3. Upto(n, Len(s)) = Upto(s, Len(s))
  <2>1. PICK m \in Nat : m = Len(s) /\ m <= Len(n) /\ m <= Len(s) /\ \A i \in 1..m : n[i] = s[i]
    BY <1>2
  <2>2. Upto(n, m) = Upto(s, m)
    BY <1>2, <2>1, UptoSame, Zenon
  <2> QED BY <2>1, <2>2, Zenon
<1>4. Upto(n, Len(s)) = s
  BY <1>3, UptoAll
<1>5. AppendedIs(n, s, t)
  BY <1>2, <1>4 DEF AppendedIs, Follows
<1> QED BY <1>1, <1>5, Zenon

(* One decoded token, and its logits.                                      *)
LEMMA DecodedText ==
    ASSUME NEW h, NEW s \in Seq(Token), Exactly(h, s), NEW t, Follows(t, s, 1), Len(t) <= Ctx, Len(t) > 0,
           NEW x, x = Decode(h, t), x.ok
    PROVE  Exactly(x.g, t) /\ LogitsOf(x, t) = t /\ x.g \in Graphs
<1>1. x.right /\ Exactly(x.g, t)
  BY DecodeNext, Zenon
<1> QED BY <1>1, Zenon DEF LogitsOf, Exactly

(* What an evaluation establishes.                                         *)
LEMMA EvaluatedIs ==
    ASSUME MtpInv, MayEval, NEW t \in Token, Evaluated(t)
    PROVE  /\ Idle /\ call = NoCall /\ valid /\ taint = "none" /\ logits = tokens /\ Len(tokens) \in Nat /\ Len(tokens) + 1 < Ctx
           /\ tokens' = Append(tokens, t) /\ tokens' \in Seq(Token) /\ Len(tokens') = Len(tokens) + 1 /\ Len(tokens') < Ctx
           /\ g' \in Graphs /\ logits' = tokens' /\ Exactly(g', tokens')
           /\ tokens'[Len(tokens')] = t
<1>1. /\ Settled /\ Idle /\ call = NoCall /\ valid /\ taint = "none" /\ logits = tokens /\ Exactly(g, tokens)
      /\ Len(tokens) + 1 < Ctx /\ tokens \in Seq(Token)
  BY Typed DEF MayEval, Settled, Idle
<1>2. PICK s : s = Append(tokens, t)
  OBVIOUS
<1>3. PICK x : x = Decode(g, s)
  OBVIOUS
<1>4. x.ok /\ g' = x.g /\ tokens' = s /\ logits' = LogitsOf(x, s)
  BY <1>2, <1>3, Zenon DEF Evaluated
<1>5. s \in Seq(Token) /\ Len(s) = Len(tokens) + 1 /\ Len(s) > 0 /\ Follows(s, tokens, 1) /\ s[Len(s)] = t
  <2>1. AppendedIs(Append(tokens, t), tokens, t)
    BY <1>1, Appended, Zenon
  <2> QED BY <1>2, <2>1 DEF AppendedIs
<1>6. Len(s) <= Ctx /\ Len(s) < Ctx /\ Len(tokens) \in Nat
  BY <1>1, <1>5, GraphFacts
<1>7. Exactly(x.g, s) /\ LogitsOf(x, s) = s /\ x.g \in Graphs
  BY <1>1, <1>3, <1>4, <1>5, <1>6, DecodedText, Zenon
<1> QED BY <1>1, <1>2, <1>4, <1>5, <1>6, <1>7, Zenon

(* An evaluation.                                                          *)
LEMMA EvalIs ==
    ASSUME MtpInv, NEW t \in Sampled, Eval(t)
    PROVE  MtpInv'
<1>1. /\ MayEval /\ Evaluated(t) /\ t \in Token
      /\ valid' = valid /\ call' = call /\ file' = file /\ faults' = faults /\ taint' = taint /\ colds' = colds
  BY MtpAssumption DEF Eval
<1>2. /\ call = NoCall /\ Len(tokens) \in Nat /\ tokens' \in Seq(Token) /\ Len(tokens') = Len(tokens) + 1 /\ Len(tokens') < Ctx
      /\ g' \in Graphs /\ logits' = tokens' /\ Exactly(g', tokens')
  BY <1>1, EvaluatedIs
<1>3. Len(tokens') > 0
  BY <1>2
<1> QED BY <1>1, <1>2, <1>3, Typed, OutsideCall

(* One that failed.                                                        *)
LEMMA EvalFailsIs ==
    ASSUME MtpInv, NEW t \in Sampled, EvalFails(t)
    PROVE  MtpInv'
<1>1. /\ MayEval /\ Fault /\ t \in Token /\ valid' = FALSE /\ tokens' = tokens
      /\ call' = call /\ file' = file /\ taint' = taint /\ colds' = colds
  BY MtpAssumption DEF EvalFails
<1>2. PICK l \in 0..(Layers - 1) : g' = DecodeTo(g, Append(tokens, t), l).g
  BY Zenon DEF EvalFails
<1>3. call = NoCall /\ g \in Graphs /\ tokens \in Seq(Token) /\ l \in 0..Layers
  BY <1>1, Typed, GraphFacts DEF MayEval
<1>4. Append(tokens, t) \in Seq(Token) /\ Len(Append(tokens, t)) > 0
  BY <1>1, <1>3, Appended DEF AppendedIs
<1>5. g' \in Graphs
  BY <1>2, <1>3, <1>4, DecodeIs, Zenon
<1> QED BY <1>1, <1>3, <1>5, Typed, OutsideCall

(* A file of an exact session.                                             *)
LEMMA SaveIs == MtpInv /\ Save => MtpInv'
<1> SUFFICES ASSUME MtpInv, Save PROVE MtpInv'
  OBVIOUS
<1>1. /\ Settled /\ Idle /\ valid /\ file' = Payload /\ tokens' = tokens /\ logits' = logits /\ valid' = valid /\ g' = g
      /\ call' = call /\ faults' = faults /\ taint' = taint /\ colds' = colds
  BY DEF Save, Settled, session
<1>2. FileOf(Payload)
  BY <1>1, Typed, PayloadIs
<1>3. FileOf(file')
  BY <1>1, <1>2, Zenon
<1> QED BY <1>1, <1>3, Typed, OutsideCall

(* The session a file is loaded into.                                      *)
LEMMA LoadStepIs == MtpInv /\ Load => MtpInv'
<1> SUFFICES ASSUME MtpInv, Load PROVE MtpInv'
  OBVIOUS
<1>1. /\ Idle /\ FileOf(file) /\ g \in Graphs
      /\ tokens' = file.tokens /\ logits' = file.logits /\ valid' = TRUE /\ taint' = "none" /\ file' = NoFile
      /\ call' = call /\ faults' = faults /\ colds' = colds
  BY Typed, Zenon DEF Load
<1>2. PICK h : h = Loaded(Layers)
  OBVIOUS
<1>3. g' = [h EXCEPT !.unit = [u \in Unit |-> [h.unit[u] EXCEPT !.n = Len(file.unit[u].rows)]]]
  BY <1>2, Zenon DEF Load
<1>4. Exactly(g', file.tokens)
  BY <1>1, <1>2, <1>3, LoadIs
<1>5. file.tokens \in Seq(Token) /\ Len(file.tokens) > 0 /\ Len(file.tokens) < Ctx /\ file.logits = file.tokens
  BY <1>1, Zenon DEF FileOf
<1>6. g' \in Graphs
  BY <1>4, Zenon DEF Exactly
<1>7. Exactly(g', tokens') /\ logits' = tokens' /\ tokens' \in Seq(Token) /\ Len(tokens') > 0 /\ Len(tokens') < Ctx
  BY <1>1, <1>4, <1>5, Zenon
<1>8. taint' \in {"none", "window", "load", "restore"} /\ call' = NoCall
  BY <1>1, Typed
<1> QED BY <1>1, <1>6, <1>7, <1>8, Typed, OutsideCall, Zenon

(* A file that ended early.                                                *)
LEMMA LoadFailsIs == MtpInv /\ LoadFails => MtpInv'
<1> SUFFICES ASSUME MtpInv, LoadFails PROVE MtpInv'
  OBVIOUS
<1>1. /\ Idle /\ FileOf(file) /\ g \in Graphs /\ Fault
      /\ taint' = IF valid THEN "load" ELSE taint
      /\ tokens' = tokens /\ valid' = valid /\ file' = file /\ call' = call /\ colds' = colds
  BY Typed, Zenon DEF LoadFails
<1>2. PICK k \in 0..Layers : g' = Loaded(k)
  BY Zenon DEF LoadFails
<1>3. g' \in Graphs
  BY <1>1, <1>2, LoadedIs
<1>4. taint' \in {"none", "window", "load", "restore"} /\ ~(valid' /\ taint' = "none")
  BY <1>1, Typed
<1> QED BY <1>1, <1>3, <1>4, Typed, OutsideCall

(* The choice of the target after right logits.                            *)
LEMMA TopsIs ==
    ASSUME NEW s \in Seq(Token), Len(s) \in 1..Ctx
    PROVE  Tops(s) = {Choice[Len(s)]} /\ Choice[Len(s)] \in Token
BY MtpAssumption DEF Tops

(* The first token of a call.                                              *)
LEMMA SpeculateIs ==
    ASSUME MtpInv, NEW t \in Token, NEW max \in {1, Depth + 1}, Speculate(t, max)
    PROVE  MtpInv'
<1>1. /\ MayEval /\ Evaluated(t)
      /\ valid' = valid /\ file' = file /\ faults' = faults /\ taint' = taint /\ colds' = colds
  BY Zenon DEF Speculate
<1>2. /\ call = NoCall /\ valid /\ taint = "none" /\ Len(tokens) \in Nat
      /\ tokens' \in Seq(Token) /\ Len(tokens') = Len(tokens) + 1 /\ Len(tokens') < Ctx
      /\ g' \in Graphs /\ logits' = tokens' /\ Exactly(g', tokens') /\ tokens'[Len(tokens')] = t
  BY <1>1, EvaluatedIs
<1>3. CASE call' = NoCall
  <2>1. Len(tokens') > 0
    BY <1>2
  <2> QED BY <1>1, <1>2, <1>3, <2>1, Typed, OutsideCall
<1>4. CASE call' # NoCall
  <2>1. t # Eos /\ max > 1 /\ Room > 1
    BY <1>4, Zenon DEF Speculate, Return
  <2>2. PICK d \in Tops(logits'), mode \in Modes :
        call' = [step |-> "draft", mode |-> mode, from |-> Len(tokens), drafts |-> <<d>>,
                 cap  |-> IF d = Eos THEN 1 ELSE Least(Depth, Least(max - 1, Room - 1)),
                 rows |-> <<>>, seen |-> 0]
    BY <1>4, Zenon DEF Speculate, Return
  <2>3. PICK n \in Nat \ {0} : n = Len(tokens) + 1 /\ n = Len(tokens') /\ Room = Ctx - n /\ Ctx \in Nat /\ n + 1 < Ctx /\ n \in 0..Len(tokens')
    BY <1>2, <2>1, GraphFacts DEF Room
  <2>4. d = Choice[n] /\ d \in Token
    BY <1>2, <2>2, <2>3, TopsIs
  <2>5. PICK cap \in Nat : cap = (IF d = Eos THEN 1 ELSE Least(Depth, Least(max - 1, Room - 1))) /\ n + cap < Ctx
    <3>1. Depth \in Nat /\ max - 1 \in Nat
      BY <2>1, MtpAssumption
    <3>2. PICK rest \in Nat : rest = Room - 1 /\ n + rest < Ctx /\ n + 1 < Ctx
      <4>1. Room - 1 \in Nat /\ n + (Room - 1) < Ctx
        BY <2>3
      <4> QED BY <2>3, <4>1
    <3>3. PICK r \in Nat : r = Least(max - 1, rest) /\ r <= rest
      BY <3>1, <3>2 DEF Least
    <3>4. PICK q \in Nat : q = Least(Depth, r) /\ q <= r
      BY <3>1, <3>3 DEF Least
    <3>5. n + q < Ctx
      BY <2>3, <3>2, <3>3, <3>4
    <3>6. q = Least(Depth, Least(max - 1, Room - 1))
      BY <3>2, <3>3, <3>4
    <3>7. CASE d = Eos
      BY <3>2, <3>7
    <3>8. CASE d # Eos
      BY <3>5, <3>6, <3>8
    <3> QED BY <3>7, <3>8
  <2>6. /\ call' \in Call /\ call'.step = "draft" /\ call'.from + 1 = n /\ call'.drafts = <<d>> /\ call'.cap = cap
    <3>1. <<d>> \in Seq(Token) /\ <<>> \in Seq(Seq(Token) \cup {Wrong}) /\ "draft" \in Steps /\ 0 \in Nat
      <4>1. <<d>> \in Seq(Token)
        BY <2>4
      <4>2. <<>> \in Seq(Seq(Token) \cup {Wrong})
        OBVIOUS
      <4>3. "draft" \in Steps
        BY DEF Steps
      <4> QED BY <4>1, <4>2, <4>3
    <3>2. call' = [step |-> "draft", mode |-> mode, from |-> Len(tokens), drafts |-> <<d>>, cap |-> cap, rows |-> <<>>, seen |-> 0]
      BY <2>2, <2>5, Zenon
    <3> QED BY <1>2, <2>3, <3>1, <3>2 DEF Call
  <2>7. Start' = n /\ Drafts' = <<d>> /\ Base' = tokens' /\ Base'[Start'] = t
    <3>1. Start' = n /\ Drafts' = <<d>>
      BY <2>6 DEF Start, Drafts
    <3>2. Base' = tokens'
      BY <1>2, <2>3, <3>1, UptoAll DEF Base
    <3> QED BY <1>2, <2>3, <3>1, <3>2
  <2>8. CallParts'
    <3>1. valid' /\ taint' \in {"none", "restore"} /\ logits' = Base'
      BY <1>1, <1>2, <2>7
    <3>2. Start' <= Len(tokens') /\ Base'[Start'] # Eos
      BY <2>1, <2>3, <2>7
    <3>3. /\ Len(Drafts') > 0 /\ Start' + Len(Drafts') < Ctx /\ Start' + call'.cap < Ctx
          /\ Drafts'[1] = Choice[Start'] /\ \A i \in 1..(Len(Drafts') - 1) : Drafts'[i] # Eos
      BY <2>3, <2>4, <2>5, <2>6, <2>7
    <3>4. taint' # "restore"
      BY <1>1, <1>2
    <3> QED BY <2>6, <3>1, <3>2, <3>3, <3>4 DEF CallParts
  <2>9. StepParts'
    <3>1. tokens' = Base' /\ BaseThere'
      BY <1>2, <2>3, <2>7, Zenon DEF BaseThere, Exactly
    <3> QED BY <2>6, <3>1 DEF StepParts
  <2>10. SessionTyped'
    BY <1>1, <1>2, <2>3, Typed DEF SessionTyped
  <2>11. SettledRight'
    BY <1>4, Zenon DEF SettledRight, Settled, Idle
  <2> QED BY <2>8, <2>9, <2>10, <2>11 DEF MtpInv, CallRight
<1> QED BY <1>3, <1>4

-----------------------------------------------------------------------------
(* The steps of a speculative call.                                        *)
LEMMA SameCall ==
    ASSUME call'.from = call.from, call'.drafts = call.drafts, call'.mode = call.mode, Upto(tokens', Start) = Base
    PROVE  /\ Start' = Start /\ Base' = Base /\ Drafts' = Drafts /\ Whole' = Whole
           /\ (Exact' <=> Exact) /\ (Captures' <=> Captures) /\ (NeedsSnapshot' <=> NeedsSnapshot)
<1>1. Start' = Start /\ Drafts' = Drafts
  BY DEF Start, Drafts
<1>2. Base' = Base
  <2>1. Base' = Upto(tokens', Start')
    BY DEF Base
  <2> QED BY <1>1, <2>1
<1>3. Whole' = Whole
  BY <1>1, <1>2 DEF Whole
<1>4. (Exact' <=> Exact) /\ (Captures' <=> Captures)
  BY <1>1 DEF Exact, Captures
<1>5. NeedsSnapshot' <=> NeedsSnapshot
  BY <1>1, <1>4 DEF NeedsSnapshot
<1> QED BY <1>1, <1>2, <1>3, <1>4, <1>5

(* A step inside the call.                                                 *)
LEMMA InsideCall ==
    ASSUME MtpInv, ~Idle, call' \in Call, call'.from = call.from, call'.drafts = call.drafts, call'.mode = call.mode, call'.cap = call.cap,
           g' \in Graphs, valid' = valid, logits' = logits, file' = file, colds' = colds, faults' \in 0..MaxFaults,
           taint' \in {"none", "restore"}, taint' = "restore" => call'.step \in {"sequential", "one"},
           tokens' \in Seq(Token), Start <= Len(tokens'), Len(tokens') < Ctx, Upto(tokens', Start) = Base,
           StepParts'
    PROVE  MtpInv'
<1>1. SessionTyped /\ CallParts
  BY Typed
<1>2. Start' = Start /\ Base' = Base /\ Drafts' = Drafts
  BY SameCall
<1>3. CallParts'
  <2>1. valid' /\ logits' = Base' /\ Start' <= Len(tokens') /\ Base'[Start'] # Eos
    BY <1>1, <1>2 DEF CallParts
  <2>2. /\ Len(Drafts') > 0 /\ Start' + Len(Drafts') < Ctx /\ Start' + call'.cap < Ctx
        /\ Drafts'[1] = Choice[Start'] /\ \A i \in 1..(Len(Drafts') - 1) : Drafts'[i] # Eos
    BY <1>1, <1>2 DEF CallParts
  <2> QED BY <2>1, <2>2 DEF CallParts
<1>4. call' # NoCall
  BY CallAssumption
<1>5. SessionTyped'
  <2>1. Len(tokens') > 0
    BY <1>1, CallText
  <2>2. taint' \in {"none", "window", "load", "restore"} /\ (file' # NoFile => FileOf(file'))
    BY Typed
  <2> QED BY <1>1, <2>1, <2>2, Typed DEF SessionTyped
<1>6. SettledRight'
  BY <1>4, Zenon DEF SettledRight, Settled, Idle
<1> QED BY <1>3, <1>5, <1>6, Zenon DEF MtpInv, CallRight

(* What is known during a call.                                            *)
LEMMA InCall ==
    ASSUME MtpInv, ~Idle
    PROVE  /\ SessionTyped /\ CallParts /\ StepParts /\ call \in Call /\ valid /\ logits = Base /\ g \in Graphs
           /\ Upto(tokens, Start) = Base /\ Upto(Base, Start) = Base /\ tokens \in Seq(Token)
           /\ Start <= Len(tokens) /\ Len(tokens) < Ctx /\ Start < Ctx
           /\ taint \in {"none", "restore"} /\ (call.step \notin {"sequential", "one"} => taint = "none")
<1>1. SessionTyped /\ CallParts /\ StepParts /\ g \in Graphs /\ tokens \in Seq(Token) /\ Len(tokens) < Ctx
  BY Typed
<1>2. /\ call \in Call /\ valid /\ logits = Base /\ Start <= Len(tokens)
      /\ taint \in {"none", "restore"} /\ (call.step \notin {"sequential", "one"} => taint = "none")
  BY <1>1, Zenon DEF CallParts
<1>3. Upto(Base, Start) = Base
  BY <1>1, CallText, UptoAll
<1>4. Start < Ctx
  BY <1>1, <1>2, CallText
<1> QED BY <1>1, <1>2, <1>3, <1>4, Zenon DEF Base

(* How a call ends.                                                        *)
LEMMA TookIs ==
    ASSUME MtpInv, ~Idle, NEW n \in 0..Len(Drafts), NEW row, Took(n, row), g' \in Graphs,
           file' = file, colds' = colds, taint' = taint, faults' \in 0..MaxFaults,
           row = Base \o Upto(Drafts, n), Exactly(g', row)
    PROVE  MtpInv'
<1>1. SessionTyped /\ CallParts
  BY InCall
<1>2. tokens' = row /\ logits' = row /\ valid' = TRUE /\ call' = NoCall
  BY Zenon DEF Took, Return
<1>3. row \in Seq(Token) /\ Len(row) = Start + n /\ Len(row) < Ctx /\ Start \in Nat \ {0}
  BY <1>1, SomeDrafts, CallText
<1>4. tokens' \in Seq(Token) /\ Len(tokens') > 0 /\ Len(tokens') < Ctx
  BY <1>2, <1>3
<1> QED BY <1>2, <1>4, Typed, OutsideCall

(* A call that failed leaves the base, and the session is not valid.       *)
LEMMA FailedIs ==
    ASSUME MtpInv, ~Idle, Failed, g' \in Graphs,
           file' = file, colds' = colds, taint' = taint, faults' \in 0..MaxFaults
    PROVE  MtpInv'
<1>1. SessionTyped /\ CallParts /\ Start < Ctx
  BY InCall
<1>2. tokens' = Base /\ valid' = FALSE /\ call' = NoCall
  BY Zenon DEF Failed, Return
<1>3. tokens' \in Seq(Token) /\ Len(tokens') < Ctx
  BY <1>1, <1>2, CallText
<1> QED BY <1>2, <1>3, Typed, OutsideCall

(* At the base, the graph is exact.                                        *)
LEMMA BaseExact ==
    ASSUME MtpInv, ~Idle, BaseThere
    PROVE  Exactly(g, Base)
<1>1. Len(Base) = Start /\ g \in Graphs
  BY InCall, CallText
<1> QED BY <1>1, Zenon DEF Exactly, BaseThere

(* Another step of the same call.                                          *)
Stepped(c, d, step) ==
    /\ d \in Call /\ d.step = step /\ d.from = c.from /\ d.drafts = c.drafts /\ d.mode = c.mode
    /\ d.cap = c.cap /\ d.rows = c.rows /\ d.seen = c.seen

(* Only the step changes.                                                  *)
LEMMA GotoIs ==
    ASSUME call \in Call, NEW step \in Steps, Goto(step)
    PROVE  Stepped(call, call', step)
<1>1. PICK c \in Call : c = call
  OBVIOUS
<1>2. PICK d : d = [c EXCEPT !.step = step]
  OBVIOUS
<1>3. Stepped(c, d, step)
  BY <1>2 DEF Stepped, Call
<1> QED BY <1>1, <1>2, <1>3, Zenon DEF Goto

(* The drafter adds a draft or is done.                                    *)
LEMMA DraftIs == MtpInv /\ Draft => MtpInv'
<1> SUFFICES ASSUME MtpInv, Draft PROVE MtpInv'
  OBVIOUS
<1>1. /\ ~Idle /\ call.step = "draft"
      /\ g' = g /\ tokens' = tokens /\ valid' = valid /\ logits' = logits
      /\ file' = file /\ faults' = faults /\ taint' = taint /\ colds' = colds
  BY DEF Draft, At, session
<1>2. /\ SessionTyped /\ CallParts /\ StepParts /\ call \in Call /\ taint = "none" /\ g \in Graphs
      /\ Upto(tokens, Start) = Base /\ tokens \in Seq(Token) /\ Start <= Len(tokens) /\ Len(tokens) < Ctx
  BY <1>1, InCall
<1>3. tokens = Base /\ BaseThere
  BY <1>1, <1>2 DEF StepParts
<1>4. CASE ~DraftMore
  <2>1. PICK step \in Steps : step = (IF NeedsSnapshot THEN "snapshot" ELSE "verify") /\ Goto(step)
    BY <1>4 DEF Draft, Steps
  <2>2. Stepped(call, call', step)
    BY <1>2, <2>1, GotoIs
  <2>3. /\ Start' = Start /\ Base' = Base /\ (NeedsSnapshot' <=> NeedsSnapshot)
    BY <1>1, <1>2, <2>2, SameCall DEF Stepped
  <2>4. BaseThere' /\ tokens' = Base'
    BY <1>1, <1>3, <2>3, Zenon DEF BaseThere
  <2>5. StepParts'
    BY <2>1, <2>2, <2>3, <2>4 DEF StepParts, Stepped
  <2> QED BY <1>1, <1>2, <2>2, <2>5, Typed, InsideCall DEF Stepped
<1>5. CASE DraftMore
  <2>1. PICK d \in Guesses \cup {Choice[Len(Whole)]} : call' = [call EXCEPT !.drafts = Append(Drafts, d)]
    BY <1>5 DEF Draft
  <2>2. /\ Drafts \in Seq(Token) /\ Len(Drafts) \in Nat \ {0} /\ Len(Whole) = Start + Len(Drafts) /\ Len(Whole) < Ctx
        /\ Start \in Nat \ {0} /\ Ctx \in Nat /\ Drafts = call.drafts
    BY <1>2, CallText DEF Drafts
  <2>3. d \in Token
    BY <2>1, <2>2, MtpAssumption
  <2>4. PICK D \in Seq(Token) : /\ D = Append(Drafts, d) /\ Len(D) = Len(Drafts) + 1
                                /\ \A i \in 1..Len(Drafts) : D[i] = Drafts[i]
    <3>1. AppendedIs(Append(Drafts, d), Drafts, d)
      BY <2>2, <2>3, Appended
    <3> QED BY <3>1, Zenon DEF AppendedIs
  <2>5. /\ call' \in Call /\ call'.step = "draft" /\ call'.from = call.from /\ call'.drafts = D /\ call'.cap = call.cap
    BY <1>1, <1>2, <2>1, <2>4 DEF Call
  <2>6. Start' = Start /\ Drafts' = D /\ Base' = Base
    <3>1. Start' = Start /\ Drafts' = D
      BY <2>5 DEF Start, Drafts
    <3> QED BY <1>1, <3>1, Zenon DEF Base
  <2>7. CallParts'
    <3>1. valid' /\ taint' = "none" /\ logits' = Base' /\ Start' <= Len(tokens') /\ Base'[Start'] # Eos
      BY <1>1, <1>2, <2>6 DEF CallParts
    <3>2. Len(Drafts) < call.cap /\ Drafts[Len(Drafts)] # Eos /\ call.cap \in Nat
      BY <1>2, <1>5 DEF DraftMore, Call
    <3>3. Len(Drafts') > 0 /\ Start' + Len(Drafts') < Ctx /\ Start' + call'.cap < Ctx
      BY <1>2, <2>2, <2>4, <2>5, <2>6, <3>2 DEF CallParts
    <3>4. Drafts'[1] = Choice[Start']
      BY <1>2, <2>2, <2>4, <2>6 DEF CallParts
    <3>5. ASSUME NEW i \in 1..(Len(Drafts') - 1) PROVE Drafts'[i] # Eos
      <4>1. i \in 1..Len(Drafts) /\ Drafts'[i] = Drafts[i]
        BY <2>2, <2>4, <2>6
      <4>2. CASE i = Len(Drafts)
        BY <3>2, <4>1, <4>2
      <4>3. CASE i # Len(Drafts)
        BY <1>2, <2>2, <4>1, <4>3 DEF CallParts
      <4> QED BY <4>2, <4>3
    <3> QED BY <2>5, <3>1, <3>3, <3>4, <3>5 DEF CallParts
  <2>8. StepParts'
    <3>1. BaseThere' /\ tokens' = Base'
      BY <1>1, <1>3, <2>6, Zenon DEF BaseThere
    <3> QED BY <2>5, <3>1 DEF StepParts
  <2>9. call' # NoCall
    BY <2>5, CallAssumption
  <2>10. SessionTyped'
    BY <1>1, Typed, Zenon DEF SessionTyped
  <2>11. SettledRight'
    BY <2>9, Zenon DEF SettledRight, Settled, Idle
  <2> QED BY <2>7, <2>8, <2>10, <2>11, Zenon DEF MtpInv, CallRight
<1> QED BY <1>4, <1>5

(* A drafter that failed: the call returns with the base.                  *)
LEMMA DraftFailsIs == MtpInv /\ DraftFails => MtpInv'
<1> SUFFICES ASSUME MtpInv, DraftFails PROVE MtpInv'
  OBVIOUS
<1>1. /\ ~Idle /\ call.step = "draft" /\ Fault /\ call' = NoCall
      /\ g' = g /\ tokens' = tokens /\ valid' = valid /\ logits' = logits
      /\ file' = file /\ taint' = taint /\ colds' = colds
  BY DEF DraftFails, At, session, Return
<1>2. StepParts /\ logits = Base
  BY <1>1, InCall
<1>3. tokens = Base /\ BaseThere
  BY <1>1, <1>2 DEF StepParts
<1>4. Exactly(g, Base)
  BY <1>1, <1>3, BaseExact
<1>5. Exactly(g', tokens') /\ logits' = tokens'
  BY <1>1, <1>2, <1>3, <1>4, Zenon
<1> QED BY <1>1, <1>5, Typed, OutsideCall

(* The base and the first draft.                                           *)
LEMMA FirstDraft ==
    ASSUME MtpInv, ~Idle, tokens = Base
    PROVE  /\ 1 \in 0..Len(Drafts) /\ Append(tokens, Drafts[1]) = Base \o Upto(Drafts, 1)
           /\ Append(tokens, Drafts[1]) \in Seq(Token) /\ Len(Append(tokens, Drafts[1])) > 0
<1>1. /\ Base \in Seq(Token) /\ Len(Base) = Start /\ Start \in Nat
      /\ Drafts \in Seq(Token) /\ Len(Drafts) \in Nat \ {0}
  BY InCall, CallText
<1>2. 1 \in 0..Len(Drafts) /\ Drafts[1] \in Token
  BY <1>1
<1>3. PICK a : a = Append(Base, Drafts[1])
  OBVIOUS
<1>4. a \in Seq(Token) /\ Len(a) = Start + 1 /\ a[Start + 1] = Drafts[1] /\ \A i \in 1..Start : a[i] = Base[i]
  <2>1. AppendedIs(a, Base, Drafts[1])
    BY <1>1, <1>2, <1>3, Appended, Zenon
  <2> QED BY <1>1, <2>1 DEF AppendedIs
<1>5. PICK b : b = Base \o Upto(Drafts, 1)
  OBVIOUS
<1>6. b \in Seq(Token) /\ Len(b) = Start + 1 /\ b[Start + 1] = Drafts[1] /\ \A i \in 1..Start : b[i] = Base[i]
  <2>1. SessionTyped /\ CallParts
    BY InCall
  <2>2. /\ b \in Seq(Token) /\ Len(b) = Start + 1 /\ \A i \in 1..Start : b[i] = Base[i]
        /\ \A i \in 1..1 : b[Start + i] = Drafts[i]
    BY <1>2, <1>5, <2>1, SomeDrafts
  <2> QED BY <2>2
<1>7. \A i \in 1..Len(a) : a[i] = b[i]
  BY <1>1, <1>4, <1>6
<1>8. a = b
  BY <1>4, <1>6, <1>7, SameText
<1>9. Len(a) > 0
  BY <1>1, <1>4
<1> QED BY <1>2, <1>3, <1>4, <1>5, <1>8, <1>9, Zenon

(* One draft after the base.                                               *)
LEMMA BaseAndOne ==
    ASSUME MtpInv, ~Idle, BaseThere, NEW s, s = Base \o Upto(Drafts, 1), NEW x, x = Decode(g, s), x.ok
    PROVE  Exactly(x.g, s) /\ LogitsOf(x, s) = s /\ x.g \in Graphs
<1>1. /\ SessionTyped /\ CallParts /\ Base \in Seq(Token) /\ Len(Drafts) \in Nat \ {0} /\ Start \in Nat
  BY InCall, CallText
<1>2. s \in Seq(Token) /\ Len(s) = Start + 1 /\ Len(s) < Ctx /\ Follows(s, Base, 1)
  <2>1. 1 \in 0..Len(Drafts)
    BY <1>1
  <2> QED BY <1>1, <2>1, SomeDrafts
<1>3. Len(s) <= Ctx /\ Len(s) > 0
  BY <1>1, <1>2, GraphFacts
<1>4. Exactly(g, Base)
  BY BaseExact
<1> QED BY <1>1, <1>2, <1>3, <1>4, DecodedText, Zenon

(* Only the first draft is evaluated.                                      *)
LEMMA MarginSkipIs == MtpInv /\ MarginSkip => MtpInv'
<1> SUFFICES ASSUME MtpInv, MarginSkip PROVE MtpInv'
  OBVIOUS
<1>1. ~Idle /\ call.step = "verify" /\ file' = file /\ taint' = taint /\ colds' = colds
  BY DEF MarginSkip, At
<1>2. StepParts /\ SessionTyped /\ CallParts /\ g \in Graphs
  BY <1>1, InCall
<1>3. tokens = Base /\ BaseThere
  BY <1>1, <1>2 DEF StepParts
<1>4. PICK s : s = Append(tokens, Drafts[1])
  OBVIOUS
<1>5. s = Base \o Upto(Drafts, 1) /\ 1 \in 0..Len(Drafts) /\ s \in Seq(Token) /\ Len(s) > 0
  BY <1>1, <1>3, <1>4, FirstDraft
<1>6. PICK x : x = Decode(g, s)
  OBVIOUS
<1>7. CASE x.ok /\ g' = x.g /\ Took(1, LogitsOf(x, s)) /\ faults' = faults
  <2>1. Exactly(x.g, s) /\ LogitsOf(x, s) = s /\ x.g \in Graphs
    BY <1>1, <1>3, <1>5, <1>6, <1>7, BaseAndOne
  <2>2. PICK row : row = s /\ Took(1, row) /\ Exactly(g', row) /\ g' \in Graphs
    BY <1>7, <2>1, Zenon
  <2> QED BY <1>1, <1>5, <1>7, <2>2, Typed, TookIs, Zenon
<1>8. CASE Fault /\ Failed /\ \E l \in 0..(Layers - 1) : g' = DecodeTo(g, s, l).g
  <2>1. PICK l \in 0..(Layers - 1) : g' = DecodeTo(g, s, l).g
    BY <1>8
  <2>2. l \in 0..Layers
    BY GraphFacts
  <2>3. g' \in Graphs
    BY <1>2, <1>5, <2>1, <2>2, DecodeIs, Zenon
  <2> QED BY <1>1, <1>8, <2>3, Typed, FailedIs, Zenon
<1> QED BY <1>4, <1>6, <1>7, <1>8, Zenon DEF MarginSkip

(* The frontiers of a call are a pair.                                     *)
SpecTyped == spec = [saved |-> spec.saved, first |-> spec.first]

(* Setting the snapshot.                                                   *)
LEMMA SetSaved ==
    ASSUME SpecTyped, NEW f, NEW t, t = [spec EXCEPT !.saved = f]
    PROVE  t.saved = f /\ t.first = spec.first /\ t = [saved |-> t.saved, first |-> t.first]
<1>1. PICK a, b : spec = [saved |-> a, first |-> b]
  BY Zenon DEF SpecTyped
<1>2. t = [saved |-> f, first |-> b]
  BY <1>1
<1> QED BY <1>1, <1>2

(* Setting the captured prefix.                                            *)
LEMMA SetFirst ==
    ASSUME SpecTyped, NEW f, NEW t, t = [spec EXCEPT !.first = f]
    PROVE  t.first = f /\ t.saved = spec.saved /\ t = [saved |-> t.saved, first |-> t.first]
<1>1. PICK a, b : spec = [saved |-> a, first |-> b]
  BY Zenon DEF SpecTyped
<1>2. t = [saved |-> a, first |-> f]
  BY <1>1
<1> QED BY <1>1, <1>2

(* The speculative frontiers are always two.                               *)
LEMMA SpecTypedIs == SpecTyped /\ [Next]_vars => SpecTyped'
<1> SUFFICES ASSUME SpecTyped, [Next]_vars PROVE SpecTyped'
  OBVIOUS
<1>1. CASE spec' = spec
  BY <1>1, Zenon DEF SpecTyped
<1>2. CASE spec' = NoSpec
  <2>1. PICK a, b : NoSpec = [saved |-> a, first |-> b]
    BY Zenon DEF NoSpec
  <2>2. spec' = [saved |-> a, first |-> b]
    BY <1>2, <2>1, Zenon
  <2>3. spec'.saved = a /\ spec'.first = b
    BY <2>2
  <2> QED BY <2>2, <2>3, Zenon DEF SpecTyped
<1>3. ASSUME NEW f, spec' = [spec EXCEPT !.saved = f] PROVE SpecTyped'
  BY <1>3, SetSaved, Zenon DEF SpecTyped
<1>4. ASSUME NEW f, spec' = [spec EXCEPT !.first = f] PROVE SpecTyped'
  BY <1>4, SetFirst, Zenon DEF SpecTyped
<1>5. CASE UNCHANGED vars
  BY <1>1, <1>5, Zenon DEF vars
<1>6. CASE \E p \in Prompts : SyncResume(p) \/ SyncCold(p) \/ SyncDecode(p) \/ SyncDecodeFails(p) \/ SyncFails(p) \/ SyncTooShort(p)
  BY <1>1, <1>6, Zenon DEF SyncResume, SyncCold, SyncDecode, SyncDecodeFails, SyncFails, SyncTooShort
<1>7. CASE \E t \in Sampled : Eval(t) \/ EvalFails(t)
  BY <1>1, <1>7, Zenon DEF Eval, EvalFails
<1>8. CASE \E t \in Token, max \in {1, Depth + 1} : Speculate(t, max)
  BY <1>1, <1>2, <1>8, Zenon DEF Speculate, Return
<1>9. CASE Invalidate \/ Save \/ Load \/ LoadFails
  BY <1>1, <1>9, Zenon DEF Invalidate, Save, Load, LoadFails
<1>10. CASE Draft \/ DraftFails
  BY <1>1, <1>2, <1>10, Zenon DEF Draft, DraftFails, Return
<1>11. CASE MarginSkip \/ AcceptAll
  BY <1>1, <1>2, <1>11, Zenon DEF MarginSkip, AcceptAll, Return, Failed, Took
<1>12. CASE SnapshotFrontier
  BY <1>1, <1>3, <1>12, Zenon DEF SnapshotFrontier
<1>13. CASE Verify
  BY <1>1, <1>4, <1>13, Zenon DEF Verify
<1>14. CASE VerifyFails \/ CommitPrefix1
  BY <1>1, <1>2, <1>14, Zenon DEF VerifyFails, CommitPrefix1, Return, GiveUp, Failed, Took
<1>15. CASE (\E m \in 1..Depth : Partial(m)) \/ Restore \/ Undo
  BY <1>1, <1>15, Zenon DEF Partial, Restore, Undo
<1>16. CASE Replay
  BY <1>1, <1>2, <1>16, Zenon DEF Replay, Return, Took
<1>17. CASE SequentialStart \/ SequentialStep \/ SequentialEnd
  BY <1>1, <1>2, <1>17, Zenon DEF SequentialStart, SequentialStep, SequentialEnd, Return
<1> QED BY <1>5, <1>6, <1>7, <1>8, <1>9, <1>10, <1>11, <1>12, <1>13, <1>14, <1>15, <1>16, <1>17, Zenon DEF Next, CallStep

(* The base is still there, or what belongs to it.                         *)
LEMMA BaseInWhole ==
    ASSUME MtpInv, ~Idle, BaseThere
    PROVE  GraphShows(g, Whole, Start - Window, Start) /\ BaseLeft
<1>1. Start \in Nat /\ Agree(Base, Whole, Start) /\ g \in Graphs
  BY InCall, CallText
<1>2. SameFor(Base, Whole, Start)
  BY <1>1, SameHistory, Zenon
<1>3. GraphShows(g, Base, Start - Window, Start)
  BY Zenon DEF BaseThere
<1>4. GraphHas(g, Base, Start - Window, Start)
  BY <1>1, <1>3, ShowsMeansHas, Zenon
<1> QED BY <1>2, <1>3, <1>4, Zenon DEF SameFor, BaseLeft

(* A graph that keeps what belongs to the first tokens keeps the base.     *)
LEMMA BaseKept ==
    ASSUME MtpInv, ~Idle, BaseLeft, NEW n \in 1..Len(Drafts), NEW h,
           h = g \/ (KeepsAll(g, h, Start, Start + n) /\ (n <= PrefillCap \/ n <= 4))
    PROVE  GraphHas(h, Base, Start - Window, Start)
<1>1. CASE h = g
  BY <1>1, Zenon DEF BaseLeft
<1>2. CASE KeepsAll(g, h, Start, Start + n) /\ (n <= PrefillCap \/ n <= 4)
  <2>1. Start \in Nat \ {0} /\ Len(Whole) = Start + Len(Drafts) /\ Len(Whole) < Ctx /\ Len(Drafts) \in Nat /\ Ctx \in Nat
    BY InCall, CallText
  <2>2. Start + n <= Ctx /\ n \in Nat /\ Start \in 0..Start /\ Start \in Nat
    BY <2>1
  <2>3. Apart(Start - Window, Start + n)
    BY <1>2, <2>2, RoomFor
  <2>4. PICK lo \in Int : lo = Start - Window
    BY <2>1, GraphFacts
  <2>5. GraphHas(g, Base, lo, Start)
    BY <2>4, Zenon DEF BaseLeft
  <2> QED BY <1>2, <2>2, <2>3, <2>4, <2>5, KeepsGraph, Zenon
<1> QED BY <1>1, <1>2

(* The snapshot is taken of the base, or the fallback runs.                *)
LEMMA SnapshotFrontierIs == MtpInv /\ SpecTyped /\ SnapshotFrontier => MtpInv'
<1> SUFFICES ASSUME MtpInv, SpecTyped, SnapshotFrontier PROVE MtpInv'
  OBVIOUS
<1>1. /\ ~Idle /\ call.step = "snapshot"
      /\ g' = g /\ tokens' = tokens /\ valid' = valid /\ logits' = logits
      /\ file' = file /\ taint' = taint /\ colds' = colds
  BY DEF SnapshotFrontier, At, session
<1>2. /\ SessionTyped /\ CallParts /\ StepParts /\ call \in Call /\ taint = "none" /\ g \in Graphs
      /\ Upto(tokens, Start) = Base /\ tokens \in Seq(Token) /\ Start <= Len(tokens) /\ Len(tokens) < Ctx
  BY <1>1, InCall
<1>3. tokens = Base /\ BaseThere /\ NeedsSnapshot
  BY <1>1, <1>2 DEF StepParts
<1>4. PICK step \in {"verify", "sequential"} :
        /\ Goto(step) /\ faults' \in 0..MaxFaults
        /\ step = "verify" => spec' = [spec EXCEPT !.saved = Frontier(g.unit)]
  BY Typed, Zenon DEF SnapshotFrontier
<1>5. Stepped(call, call', step)
  <2>1. step \in Steps
    BY DEF Steps
  <2> QED BY <1>2, <1>4, <2>1, GotoIs
<1>6. Start' = Start /\ Base' = Base
  BY <1>1, <1>2, <1>5, SameCall DEF Stepped
<1>7. BaseThere' /\ tokens' = Base'
  BY <1>1, <1>3, <1>6, Zenon DEF BaseThere
<1>8. step = "verify" => SavedBase'
  <2>1. GraphShows(g, Base, Start - Window, Start)
    BY <1>3, Zenon DEF BaseThere
  <2>2. FrontierOf(Frontier(g.unit), Base, Start)
    BY <1>2, <2>1, Snapshot
  <2>3. step = "verify" => spec'.saved = Frontier(g.unit)
    BY <1>4, SetSaved, Zenon
  <2> QED BY <1>6, <2>2, <2>3, Zenon DEF SavedBase
<1>9. StepParts'
  BY <1>5, <1>7, <1>8 DEF StepParts, Stepped
<1> QED BY <1>1, <1>2, <1>4, <1>5, <1>9, InsideCall DEF Stepped

(* The exact verifier.                                                     *)
LEMMA TwoVerified ==
    ASSUME MtpInv, ~Idle, tokens = Base, BaseThere, Len(Drafts) = 2,
           NEW two, two = DecodeTwoTo(g, Whole, Layers), two.ok
    PROVE  /\ two.g \in Graphs /\ GraphShows(two.g, Whole, Start - Window, Start + 2)
           /\ FrontierOf(Frontier(two.first), Whole, Start + 1)
           /\ (IF two.right[1] THEN Append(Base, Drafts[1]) ELSE Wrong) = Upto(Whole, Start + 1)
           /\ (IF two.right[2] THEN Whole ELSE Wrong) = Upto(Whole, Start + 2)
<1>1. /\ SessionTyped /\ CallParts /\ g \in Graphs /\ Whole \in Seq(Token) /\ Len(Whole) = Start + 2 /\ Len(Whole) < Ctx
      /\ Start \in Nat \ {0} /\ Ctx \in Nat
  BY InCall, CallText
<1>2. GraphShows(g, Whole, Start - Window, Start)
  BY BaseInWhole
<1>3. Len(Whole) > 1 /\ Len(Whole) <= Ctx /\ Start \in Nat
  BY <1>1
<1>4. /\ two.right[1] /\ two.right[2] /\ two \in Twos
      /\ GraphShows(two.g, Whole, Start - Window, Start + 2)
      /\ \A u \in Unit : UnitShows(u, two.first[u], Whole, Start + 1)
  BY <1>1, <1>2, <1>3, TwoNext, Zenon
<1>5. two.g \in Graphs /\ two.first \in Units
  BY <1>4 DEF Twos
<1>6. FrontierOf(Frontier(two.first), Whole, Start + 1)
  <2>1. \A u \in Unit : two.first[u] \in Compressor(u)
    BY <1>5, Zenon DEF Units
  <2>2. \A u \in Unit : two.first[u].n \in 0..CompCap /\ two.first[u].state \in Windows(u)
    BY <2>1 DEF Compressor, Counted
  <2> QED BY <1>4, <2>2, FrontierIs, Zenon
<1>7. Append(Base, Drafts[1]) = Upto(Whole, Start + 1)
  <2>1. 1 \in 0..Len(Drafts) /\ Append(Base, Drafts[1]) = Base \o Upto(Drafts, 1)
    BY FirstDraft, Zenon
  <2>2. PICK s : s = Base \o Upto(Drafts, 1)
    OBVIOUS
  <2>3. s = Upto(Whole, Start + 1)
    BY <1>1, <2>1, <2>2, SomeDrafts
  <2> QED BY <2>1, <2>2, <2>3, Zenon
<1>8. Upto(Whole, Start + 2) = Whole
  BY <1>1, UptoAll, Zenon
<1> QED BY <1>4, <1>5, <1>6, <1>7, <1>8, Zenon

(* The batch verifier.                                                     *)
LEMMA AllVerified ==
    ASSUME MtpInv, ~Idle, BaseThere, NEW n, n = Len(Drafts), NEW all, all = Batch(g, Whole, Start, n), all.ok
    PROVE  /\ all.g \in Graphs /\ GraphShows(all.g, Whole, Start - Window, Start + n)
           /\ \A i \in 1..n : LogitsAt(all, Whole, Start + i - 1) = Upto(Whole, Start + i)
           /\ n = 2 => FrontierOf(Frontier(FirstOf(g, all, Start, n, NewGraph.unit)), Whole, Start + 1)
<1>1. /\ SessionTyped /\ CallParts /\ g \in Graphs /\ Whole \in Seq(Token) /\ Len(Whole) = Start + n /\ Len(Whole) < Ctx
      /\ Start \in Nat \ {0} /\ Ctx \in Nat /\ n \in Nat \ {0}
  BY InCall, CallText
<1>2. GraphShows(g, Whole, Start - Window, Start)
  BY BaseInWhole
<1>3. Start + n <= Len(Whole) /\ Len(Whole) <= Ctx
  BY <1>1
<1>4. /\ all.right = Start..(Start + n - 1) /\ all.g \in Graphs
      /\ GraphShows(all.g, Whole, Start - Window, Start + n)
  <2>1. Start \in Nat \ {0} /\ Batch(g, Whole, Start, n).ok
    BY <1>1, Zenon
  <2>2. BatchExtends(Batch(g, Whole, Start, n), Whole, Start, n)
    BY <1>1, <1>2, <1>3, <2>1, BatchNext, Zenon
  <2> QED BY <2>2, Zenon DEF BatchExtends
<1>5. ASSUME NEW i \in 1..n PROVE LogitsAt(all, Whole, Start + i - 1) = Upto(Whole, Start + i)
  <2>1. PICK p \in Start..(Start + n - 1) : p = Start + i - 1 /\ p + 1 = Start + i
    BY <1>1
  <2>2. p \in all.right
    BY <1>4
  <2>3. LogitsAt(all, Whole, p) = Upto(Whole, p + 1)
    BY <2>2, Zenon DEF LogitsAt, RowOf
  <2> QED BY <2>1, <2>3, Zenon
<1>6. ASSUME n = 2 PROVE FrontierOf(Frontier(FirstOf(g, all, Start, n, NewGraph.unit)), Whole, Start + 1)
  <2>1. PICK lo \in Int : lo = Start - Window /\ lo <= Start
    BY <1>1, GraphFacts
  <2>2. Start + 2 <= Len(Whole) /\ GraphShows(g, Whole, lo, Start) /\ GraphShows(all.g, Whole, lo, Start + 2)
    BY <1>2, <1>3, <1>4, <1>6, <2>1, Zenon
  <2>3. FrontierOf(Frontier(FirstOf(g, all, Start, 2, NewGraph.unit)), Whole, Start + 1)
    BY <1>1, <1>4, <2>1, <2>2, FirstOfIs, Zenon
  <2> QED BY <1>6, <2>3, Zenon
<1> QED BY <1>4, <1>5, <1>6, Zenon

(* To the step that judges the rows.                                       *)
LEMMA JudgeIs ==
    ASSUME call \in Call, NEW rows \in Seq(Seq(Token) \cup {Wrong}), call' = [call EXCEPT !.step = "judge", !.rows = rows]
    PROVE  /\ call' \in Call /\ call'.step = "judge" /\ call'.from = call.from /\ call'.drafts = call.drafts
           /\ call'.mode = call.mode /\ call'.cap = call.cap /\ call'.rows = rows
BY DEF Call, Steps

(* The verifiers: the rows and the frontiers are those of the drafts.      *)
LEMMA VerifyIs == MtpInv /\ SpecTyped /\ Verify => MtpInv' /\ call' # NoCall
<1> SUFFICES ASSUME MtpInv, SpecTyped, Verify PROVE MtpInv' /\ call' # NoCall
  OBVIOUS
<1>1. /\ ~Idle /\ call.step = "verify"
      /\ valid' = valid /\ logits' = logits /\ file' = file /\ faults' = faults /\ taint' = taint /\ colds' = colds
  BY DEF Verify, At
<1>2. /\ SessionTyped /\ CallParts /\ StepParts /\ call \in Call /\ taint = "none" /\ g \in Graphs
      /\ Upto(tokens, Start) = Base /\ tokens \in Seq(Token) /\ Start <= Len(tokens) /\ Len(tokens) < Ctx
  BY <1>1, InCall
<1>3. tokens = Base /\ BaseThere /\ (NeedsSnapshot => SavedBase)
  BY <1>1, <1>2 DEF StepParts
<1>4. /\ Whole \in Seq(Token) /\ Len(Whole) = Start + Len(Drafts) /\ Len(Whole) < Ctx /\ Upto(Whole, Start) = Base
      /\ Start \in Nat \ {0} /\ Start <= Len(Whole) /\ Len(Drafts) \in Nat \ {0}
  BY <1>2, CallText
<1>5. ASSUME NEW rows, call' = [call EXCEPT !.step = "judge", !.rows = rows],
             Len(rows) = Len(Drafts), rows \in Seq(Seq(Token) \cup {Wrong}),
             \A i \in 1..Len(Drafts) : rows[i] = Upto(Whole, Start + i),
             g' \in Graphs, GraphShows(g', Whole, Start - Window, Start + Len(Drafts)),
             spec'.saved = spec.saved,
             Exact \/ Captures => FrontierOf(spec'.first, Whole, Start + 1),
             tokens' \in {Base, Whole}
      PROVE  MtpInv' /\ call' # NoCall
  <2>1. /\ call' \in Call /\ call'.step = "judge" /\ call'.from = call.from /\ call'.drafts = call.drafts
        /\ call'.mode = call.mode /\ call'.cap = call.cap /\ call'.rows = rows
    BY <1>2, <1>5, JudgeIs
  <2>2. tokens' \in Seq(Token) /\ Start <= Len(tokens') /\ Len(tokens') < Ctx /\ Upto(tokens', Start) = Base
    BY <1>2, <1>3, <1>4, <1>5
  <2>3. /\ Start' = Start /\ Base' = Base /\ Drafts' = Drafts /\ Whole' = Whole
        /\ (Exact' <=> Exact) /\ (Captures' <=> Captures) /\ (NeedsSnapshot' <=> NeedsSnapshot)
    BY <2>1, <2>2, SameCall
  <2>4. JudgeRows'
    BY <1>5, <2>1, <2>3 DEF JudgeRows
  <2>5. NeedsSnapshot' => SavedBase'
    BY <1>3, <1>5, <2>3, Zenon DEF SavedBase
  <2>6. GraphShows(g', Whole', Start' - Window, Start' + Len(Drafts'))
    BY <1>5, <2>3, Zenon
  <2>7. Exact' \/ Captures' => FrontierOf(spec'.first, Whole', Start' + 1)
    BY <1>5, <2>3, Zenon
  <2>8. StepParts'
    BY <2>1, <2>4, <2>5, <2>6, <2>7 DEF StepParts
  <2>9. MtpInv'
    BY <1>1, <1>2, <1>5, <2>1, <2>2, <2>8, Typed, InsideCall
  <2> QED BY <2>1, <2>9, CallAssumption
<1>6. CASE Exact
  <2>1. PICK two : two = DecodeTwoTo(g, Whole, Layers)
    OBVIOUS
  <2>2. PICK a, b : /\ a = (IF two.right[1] THEN Append(Base, Drafts[1]) ELSE Wrong)
                    /\ b = (IF two.right[2] THEN Whole ELSE Wrong)
    OBVIOUS
  <2>3. /\ two.ok /\ g' = two.g /\ tokens' = tokens
        /\ spec' = [spec EXCEPT !.first = Frontier(two.first)]
        /\ call' = [call EXCEPT !.step = "judge", !.rows = <<a, b>>]
    BY <1>6, <2>1, <2>2, Zenon DEF Verify
  <2>4. Len(Drafts) = 2
    BY <1>6 DEF Exact
  <2>5. /\ two.g \in Graphs /\ GraphShows(two.g, Whole, Start - Window, Start + 2)
        /\ FrontierOf(Frontier(two.first), Whole, Start + 1)
        /\ a = Upto(Whole, Start + 1) /\ b = Upto(Whole, Start + 2)
    BY <1>1, <1>3, <2>1, <2>2, <2>3, <2>4, TwoVerified, Zenon
  <2>6. spec'.first = Frontier(two.first) /\ spec'.saved = spec.saved
    BY <2>3, SetFirst, Zenon
  <2>7. PICK rows : rows = <<a, b>>
    OBVIOUS
  <2>8. rows \in Seq(Seq(Token) \cup {Wrong}) /\ Len(rows) = Len(Drafts) /\ \A i \in 1..Len(Drafts) : rows[i] = Upto(Whole, Start + i)
    <3>1. Start + 1 \in 0..Len(Whole) /\ Start + 2 \in 0..Len(Whole)
      BY <1>4, <2>4
    <3>2. a \in Seq(Token) /\ b \in Seq(Token)
      BY <1>4, <2>5, <3>1, UptoIs
    <3>3. rows[1] = Upto(Whole, Start + 1) /\ rows[2] = Upto(Whole, Start + 2)
      BY <2>5, <2>7
    <3>4. rows \in Seq(Seq(Token) \cup {Wrong}) /\ Len(rows) = 2
      BY <2>7, <3>2
    <3>5. \A i \in 1..2 : i = 1 \/ i = 2
      OBVIOUS
    <3> QED BY <2>4, <3>3, <3>4, <3>5, Zenon
  <2>9. g' \in Graphs /\ GraphShows(g', Whole, Start - Window, Start + Len(Drafts)) /\ FrontierOf(spec'.first, Whole, Start + 1)
    BY <2>3, <2>4, <2>5, <2>6, Zenon
  <2>10. call' = [call EXCEPT !.step = "judge", !.rows = rows] /\ tokens' \in {Base, Whole}
    BY <1>3, <2>3, <2>7
  <2> QED BY <1>5, <2>6, <2>8, <2>9, <2>10
<1>7. CASE ~Exact
  <2>1. PICK n \in Nat \ {0} : n = Len(Drafts)
    BY <1>4
  <2>2. PICK all : all = Batch(g, Whole, Start, n)
    OBVIOUS
  <2>3. PICK rows : rows = [i \in 1..n |-> LogitsAt(all, Whole, Start + i - 1)]
    OBVIOUS
  <2>4. /\ all.ok /\ g' = all.g /\ tokens' = Whole
        /\ IF Captures
           THEN spec' = [spec EXCEPT !.first = Frontier(FirstOf(g, all, Start, n, NewGraph.unit))]
           ELSE spec' = spec
        /\ call' = [call EXCEPT !.step = "judge", !.rows = rows]
    BY <1>7, <2>1, <2>2, <2>3, Zenon DEF Verify
  <2>5. /\ all.g \in Graphs /\ GraphShows(all.g, Whole, Start - Window, Start + n)
        /\ \A i \in 1..n : LogitsAt(all, Whole, Start + i - 1) = Upto(Whole, Start + i)
        /\ n = 2 => FrontierOf(Frontier(FirstOf(g, all, Start, n, NewGraph.unit)), Whole, Start + 1)
    BY <1>1, <1>3, <2>1, <2>2, <2>4, AllVerified, Zenon
  <2>6. \A i \in 1..n : rows[i] = Upto(Whole, Start + i)
    BY <2>3, <2>5
  <2>7. rows \in Seq(Seq(Token) \cup {Wrong}) /\ Len(rows) = n
    <3>1. ASSUME NEW i \in 1..n PROVE rows[i] \in Seq(Token)
      <4>1. Start + i \in 0..Len(Whole)
        BY <1>4, <2>1
      <4> QED BY <1>4, <2>6, <4>1, UptoIs
    <3>2. rows = [i \in 1..n |-> rows[i]]
      BY <2>3
    <3> QED BY <3>1, <3>2
  <2>8. spec'.saved = spec.saved /\ (Captures => FrontierOf(spec'.first, Whole, Start + 1))
    <3>1. CASE Captures
      <4>1. n = 2
        BY <2>1, <3>1 DEF Captures
      <4>2. spec' = [spec EXCEPT !.first = Frontier(FirstOf(g, all, Start, n, NewGraph.unit))]
        BY <2>4, <3>1
      <4>3. PICK f : f = Frontier(FirstOf(g, all, Start, n, NewGraph.unit))
        OBVIOUS
      <4>4. spec'.saved = spec.saved /\ spec'.first = f
        BY <4>2, <4>3, SetFirst, Zenon
      <4> QED BY <2>5, <4>1, <4>3, <4>4, Zenon
    <3>2. CASE ~Captures
      BY <2>4, <3>2
    <3> QED BY <3>1, <3>2
  <2>9. g' \in Graphs /\ GraphShows(g', Whole, Start - Window, Start + Len(Drafts)) /\ tokens' \in {Base, Whole}
    BY <2>1, <2>4, <2>5
  <2> QED BY <1>5, <1>7, <2>1, <2>4, <2>6, <2>7, <2>8, <2>9
<1> QED BY <1>6, <1>7

(* A batch that is half done.                                              *)
BatchKeeps(h, k, pos0, n) ==
    k \in Graphs /\ (pos0 # 0 => KeepsAll(h, k, pos0, pos0 + n)) /\ (n <= PrefillCap \/ k = h)

(* By its layers.                                                          *)
LEMMA BatchToKeeps ==
    ASSUME NEW h \in Graphs, NEW s \in Seq(Token), NEW pos0 \in Nat, NEW n \in Nat \ {0}, pos0 + n <= Len(s), NEW k \in 0..Layers
    PROVE  BatchKeeps(h, BatchTo(h, s, pos0, n, k).g, pos0, n)
<1>1. /\ BatchTo(h, s, pos0, n, k).g \in Graphs
      /\ pos0 # 0 => KeepsAll(h, BatchTo(h, s, pos0, n, k).g, pos0, pos0 + n)
      /\ n <= PrefillCap \/ BatchTo(h, s, pos0, n, k).g = h
  BY BatchIs
<1> QED BY <1>1, Zenon DEF BatchKeeps

(* What a command that failed half way leaves of the base.                 *)
LEMMA BatchLeaves ==
    ASSUME MtpInv, ~Idle, BaseLeft, NEW n \in 1..Len(Drafts), NEW s \in Seq(Token), Start + n <= Len(s),
           NEW l \in 0..Layers, NEW h, h = BatchTo(g, s, Start, n, l).g
    PROVE  h \in Graphs /\ GraphHas(h, Base, Start - Window, Start)
<1>1. Start \in Nat \ {0} /\ g \in Graphs /\ n \in Nat \ {0} /\ Start # 0 /\ Start \in Nat
  BY InCall, CallText
<1>2. BatchKeeps(g, h, Start, n)
  <2>1. BatchKeeps(g, BatchTo(g, s, Start, n, l).g, Start, n)
    BY <1>1, BatchToKeeps, Zenon
  <2> QED BY <2>1, Zenon
<1>3. h = g \/ (KeepsAll(g, h, Start, Start + n) /\ (n <= PrefillCap \/ n <= 4))
  BY <1>1, <1>2, Zenon DEF BatchKeeps
<1>4. GraphHas(h, Base, Start - Window, Start)
  BY <1>3, BaseKept, Zenon
<1> QED BY <1>2, <1>4, Zenon DEF BatchKeeps

(* A decode after the base leaves what belongs to it.                      *)
LEMMA DecodeLeaves ==
    ASSUME MtpInv, ~Idle, BaseLeft, NEW s \in Seq(Token), Len(s) = Start + 1,
           NEW l \in 0..Layers, NEW h, h = DecodeTo(g, s, l).g
    PROVE  h \in Graphs /\ GraphHas(h, Base, Start - Window, Start)
<1>1. Start \in Nat \ {0} /\ g \in Graphs /\ Len(Drafts) \in Nat \ {0}
  BY InCall, CallText
<1>2. Len(s) > 0 /\ Len(s) - 1 = Start /\ 1 \in 1..Len(Drafts) /\ 1 <= 4
  BY <1>1
<1>3. h \in Graphs /\ KeepsAll(g, h, Len(s) - 1, Len(s))
  BY <1>1, <1>2, DecodeIs, Zenon
<1>4. KeepsAll(g, h, Start, Start + 1)
  BY <1>2, <1>3, Zenon
<1>5. GraphHas(h, Base, Start - Window, Start)
  BY <1>2, <1>4, BaseKept, Zenon
<1> QED BY <1>3, <1>5

(* So does the exact verifier, as far as it got.                           *)
LEMMA TwoLeaves ==
    ASSUME MtpInv, ~Idle, BaseLeft, Len(Drafts) = 2,
           NEW l \in 0..Layers, NEW h, h = DecodeTwoTo(g, Whole, l).g
    PROVE  h \in Graphs /\ GraphHas(h, Base, Start - Window, Start)
<1>1. Start \in Nat \ {0} /\ g \in Graphs /\ Whole \in Seq(Token) /\ Len(Whole) = Start + 2
  BY InCall, CallText
<1>2. Len(Whole) > 1 /\ Len(Whole) - 2 = Start /\ 2 \in 1..Len(Drafts) /\ 2 <= 4
  BY <1>1
<1>3. h \in Graphs /\ KeepsAll(g, h, Len(Whole) - 2, Len(Whole))
  BY <1>1, <1>2, DecodeTwoIs, Zenon
<1>4. KeepsAll(g, h, Start, Start + 2)
  BY <1>1, <1>2, <1>3, Zenon
<1>5. GraphHas(h, Base, Start - Window, Start)
  BY <1>2, <1>4, BaseKept, Zenon
<1> QED BY <1>3, <1>5

(* A failure with a snapshot is undone, one without ends the call.         *)
LEMMA GaveUp ==
    ASSUME MtpInv, ~Idle, call.step \in {"verify", "judge"}, GiveUp, g' \in Graphs, GraphHas(g', Base, Start - Window, Start),
           NeedsSnapshot => SavedBase, file' = file, colds' = colds, taint' = taint, faults' \in 0..MaxFaults
    PROVE  MtpInv'
<1>1. /\ call \in Call /\ taint = "none"
      /\ Upto(tokens, Start) = Base /\ tokens \in Seq(Token) /\ Start <= Len(tokens) /\ Len(tokens) < Ctx
  BY InCall
<1>2. CASE NeedsSnapshot
  <2>1. Goto("undo") /\ tokens' = tokens /\ valid' = valid /\ logits' = logits /\ spec' = spec
    BY <1>2 DEF GiveUp, session
  <2>2. Stepped(call, call', "undo")
    <3>1. "undo" \in Steps
      BY DEF Steps
    <3> QED BY <1>1, <2>1, <3>1, GotoIs
  <2>3. Start' = Start /\ Base' = Base
    BY <1>1, <2>1, <2>2, SameCall DEF Stepped
  <2>4. BaseLeft' /\ SavedBase'
    BY <1>2, <2>1, <2>3, Zenon DEF BaseLeft, SavedBase
  <2>5. StepParts'
    BY <2>2, <2>4 DEF StepParts, Stepped
  <2> QED BY <1>1, <2>1, <2>2, <2>5, InsideCall DEF Stepped
<1>3. CASE ~NeedsSnapshot
  <2>1. Failed
    BY <1>3, Zenon DEF GiveUp
  <2> QED BY <2>1, FailedIs
<1> QED BY <1>2, <1>3

(* A verifier that failed.                                                 *)
LEMMA VerifyFailsIs == MtpInv /\ VerifyFails => MtpInv'
<1> SUFFICES ASSUME MtpInv, VerifyFails PROVE MtpInv'
  OBVIOUS
<1>1. /\ ~Idle /\ call.step = "verify" /\ Fault /\ GiveUp /\ file' = file /\ taint' = taint /\ colds' = colds
  BY DEF VerifyFails, At
<1>2. /\ SessionTyped /\ CallParts /\ StepParts /\ faults' \in 0..MaxFaults
  BY <1>1, InCall, Typed
<1>3. BaseThere /\ (NeedsSnapshot => SavedBase)
  BY <1>1, <1>2 DEF StepParts
<1>4. BaseLeft
  BY <1>1, <1>3, BaseInWhole
<1>5. PICK l \in 0..Layers : g' = IF Exact THEN DecodeTwoTo(g, Whole, l).g ELSE BatchTo(g, Whole, Start, Len(Drafts), l).g
  <2>1. PICK m \in 0..(Layers - 1) : g' = IF Exact THEN DecodeTwoTo(g, Whole, m).g ELSE BatchTo(g, Whole, Start, Len(Drafts), m).g
    BY Zenon DEF VerifyFails
  <2>2. m \in 0..Layers
    BY GraphFacts
  <2> QED BY <2>1, <2>2
<1>6. g' \in Graphs /\ GraphHas(g', Base, Start - Window, Start)
  <2>1. CASE Exact
    <3>1. Len(Drafts) = 2
      BY <2>1 DEF Exact
    <3> QED BY <1>1, <1>4, <1>5, <2>1, <3>1, TwoLeaves, Zenon
  <2>2. CASE ~Exact
    <3>1. PICK n \in 1..Len(Drafts) : n = Len(Drafts) /\ Whole \in Seq(Token) /\ Start + n <= Len(Whole)
      <4>1. Len(Drafts) \in 1..Len(Drafts) /\ Whole \in Seq(Token) /\ Start + Len(Drafts) <= Len(Whole)
        BY <1>2, CallText
      <4> QED BY <4>1
    <3>2. g' = BatchTo(g, Whole, Start, n, l).g
      BY <1>5, <2>2, <3>1, Zenon
    <3> QED BY <1>1, <1>4, <3>1, <3>2, BatchLeaves, Zenon
  <2> QED BY <2>1, <2>2
<1>7. call.step \in {"verify", "judge"}
  BY <1>1
<1> QED BY <1>1, <1>2, <1>3, <1>6, <1>7, GaveUp, Zenon

(* The drafts the target agrees with are its own picks.                    *)
LEMMA AgreedTarget ==
    ASSUME MtpInv, ~Idle, JudgeRows, NEW m \in 1..Len(Drafts), Agreed(m)
    PROVE  Target(m)
<1>1. /\ Start \in Nat \ {0} /\ Len(Drafts) \in Nat \ {0} /\ Whole \in Seq(Token) /\ Len(Whole) = Start + Len(Drafts) /\ Len(Whole) < Ctx
      /\ Ctx \in Nat /\ Drafts[1] = Choice[Start]
  BY InCall, CallText DEF CallParts
<1>2. ASSUME NEW i \in 1..m PROVE Drafts[i] = Choice[Start + i - 1]
  <2>1. CASE i = 1
    BY <1>1, <2>1
  <2>2. CASE i # 1
    <3>1. PICK j \in 1..(m - 1) : i = j + 1 /\ Start + i - 1 = Start + j /\ j \in 1..Len(Drafts) /\ Start + j \in 0..Len(Whole) /\ Start + j \in 1..Ctx
      <4>1. i - 1 \in 1..(m - 1) /\ i = (i - 1) + 1
        BY <2>2
      <4>2. PICK j \in 1..(m - 1) : i = j + 1
        BY <4>1
      <4>3. m <= Len(Drafts) /\ m \in Nat
        BY <1>1
      <4>4. Start + i - 1 = Start + j /\ j \in 1..Len(Drafts) /\ Start + j \in 0..Len(Whole) /\ Start + j \in 1..Ctx
        BY <1>1, <4>2, <4>3
      <4> QED BY <4>2, <4>4
    <3>2. Drafts[j + 1] \in Tops(call.rows[j])
      BY <3>1, Zenon DEF Agreed
    <3>3. PICK r \in Seq(Token) : r = call.rows[j] /\ Len(r) = Start + j
      <4>1. call.rows[j] = Upto(Whole, Start + j)
        BY <3>1, Zenon DEF JudgeRows
      <4>2. Upto(Whole, Start + j) \in Seq(Token) /\ Len(Upto(Whole, Start + j)) = Start + j
        BY <1>1, <3>1, UptoIs
      <4> QED BY <4>1, <4>2
    <3>4. Tops(r) = {Choice[Start + j]}
      BY <3>1, <3>3, TopsIs
    <3> QED BY <3>1, <3>2, <3>3, <3>4
  <2> QED BY <2>1, <2>2
<1> QED BY <1>2, Zenon DEF Target

(* While the rows are judged, the graph has the whole text.                *)
LEMMA JudgeLeaves ==
    ASSUME MtpInv, ~Idle, GraphShows(g, Whole, Start - Window, Start + Len(Drafts))
    PROVE  BaseLeft /\ \A n \in 0..Len(Drafts) : GraphHas(g, Whole, Start - Window, Start + n)
<1>1. /\ Start \in Nat \ {0} /\ Len(Drafts) \in Nat /\ Agree(Whole, Base, Start) /\ g \in Graphs
  BY InCall, CallText
<1>2. PICK lo \in Int : lo = Start - Window
  BY <1>1, GraphFacts
<1>3. PICK N \in Nat : N = Start + Len(Drafts)
  BY <1>1
<1>4. GraphHas(g, Whole, lo, N) /\ \A u \in Unit : g.unit[u].n \in Nat
  BY <1>1, <1>2, <1>3, ShowsMeansHas, UnitParts, Zenon
<1>5. ASSUME NEW n \in 0..Len(Drafts) PROVE GraphHas(g, Whole, lo, Start + n)
  <2>1. Start + n \in 0..N
    BY <1>1, <1>3
  <2> QED BY <1>4, <2>1, FewerTokens, Zenon
<1>6. GraphHas(g, Whole, lo, Start)
  <2>1. Start \in 0..N
    BY <1>1, <1>3
  <2> QED BY <1>4, <2>1, FewerTokens, Zenon
<1>7. SameFor(Whole, Base, Start)
  <2>1. Start \in Nat
    BY <1>1
  <2> QED BY <1>1, <2>1, SameHistory, Zenon
<1> QED BY <1>2, <1>5, <1>6, <1>7, Zenon DEF SameFor, BaseLeft

(* More raw rows than the window needs.                                    *)
LEMMA ShowsExactly ==
    ASSUME MtpInv, ~Idle, NEW h \in Graphs, NEW s \in Seq(Token), NEW n \in Nat, Len(s) = Start + n,
           GraphShows(h, s, Start - Window, Start + n)
    PROVE  Exactly(h, s)
<1>1. Start \in Nat
  BY InCall, CallText
<1>2. PICK lo \in Int, hi \in Int, N \in Nat : lo = Start - Window /\ hi = Len(s) - Window /\ lo <= hi /\ N = Start + n /\ N = Len(s)
  <2>1. Start - Window \in Int /\ Len(s) - Window \in Int /\ Start - Window <= Len(s) - Window /\ Start + n \in Nat
    BY <1>1, GraphFacts
  <2> QED BY <2>1
<1>3. GraphShows(h, s, hi, N)
  <2>1. GraphShows(h, s, lo, N)
    BY <1>2, Zenon
  <2> QED BY <1>2, <2>1, FewerRows, Zenon
<1> QED BY <1>2, <1>3, Zenon DEF Exactly

(* Back to the snapshot, to take the drafts that were agreed on again.     *)
LEMMA ToRestore ==
    ASSUME MtpInv, ~Idle, call.step = "judge", NeedsSnapshot, NEW m \in 1..Len(Drafts), Agreed(m),
           call' = [call EXCEPT !.step = "restore", !.seen = m],
           g' = g, tokens' = tokens, valid' = valid, logits' = logits, spec' = spec, file' = file, taint' = taint, colds' = colds,
           faults' \in 0..MaxFaults
    PROVE  MtpInv'
<1>1. /\ SessionTyped /\ CallParts /\ StepParts /\ call \in Call /\ taint = "none" /\ g \in Graphs
      /\ Upto(tokens, Start) = Base /\ tokens \in Seq(Token) /\ Start <= Len(tokens) /\ Len(tokens) < Ctx
  BY InCall
<1>2. SavedBase /\ JudgeRows /\ GraphShows(g, Whole, Start - Window, Start + Len(Drafts))
  BY <1>1 DEF StepParts
<1>3. BaseLeft /\ Target(m)
  BY <1>2, JudgeLeaves, AgreedTarget
<1>4. m \in Nat
  OBVIOUS
<1>5. /\ call' \in Call /\ call'.step = "restore" /\ call'.from = call.from /\ call'.drafts = call.drafts
      /\ call'.mode = call.mode /\ call'.cap = call.cap /\ call'.seen = m
  BY <1>1, <1>4 DEF Call, Steps
<1>6. Start' = Start /\ Base' = Base /\ Drafts' = Drafts
  BY <1>1, <1>5, SameCall
<1>7. BaseLeft' /\ SavedBase'
  BY <1>2, <1>3, <1>6, Zenon DEF BaseLeft, SavedBase
<1>8. SeenSome'
  BY <1>3, <1>5, <1>6 DEF SeenSome, Target
<1>9. StepParts'
  BY <1>5, <1>7, <1>8 DEF StepParts
<1> QED BY <1>1, <1>5, <1>9, InsideCall

(* Some drafts were agreed on.                                             *)
LEMMA PartialIs ==
    ASSUME MtpInv, NEW m \in 1..Depth, Partial(m)
    PROVE  MtpInv'
<1>1. /\ ~Idle /\ call.step = "judge" /\ NeedsSnapshot /\ m < Len(Drafts) /\ Agreed(m)
      /\ call' = [call EXCEPT !.step = "restore", !.seen = m]
      /\ g' = g /\ tokens' = tokens /\ valid' = valid /\ logits' = logits /\ spec' = spec
      /\ file' = file /\ taint' = taint /\ colds' = colds /\ faults' = faults
  BY DEF Partial, At, session
<1>2. Len(Drafts) \in Nat
  BY <1>1, InCall, CallText
<1>3. m \in 1..Len(Drafts)
  BY <1>1, <1>2
<1> QED BY <1>1, <1>3, Typed, ToRestore

(* All of them were.                                                       *)
LEMMA AcceptAllIs == MtpInv /\ AcceptAll => MtpInv'
<1> SUFFICES ASSUME MtpInv, AcceptAll PROVE MtpInv'
  OBVIOUS
<1>1. /\ ~Idle /\ call.step = "judge" /\ Agreed(Len(Drafts)) /\ g' = g /\ file' = file /\ taint' = taint /\ colds' = colds
  BY DEF AcceptAll, At
<1>2. /\ SessionTyped /\ CallParts /\ StepParts /\ g \in Graphs
  BY <1>1, InCall
<1>3. JudgeRows /\ GraphShows(g, Whole, Start - Window, Start + Len(Drafts))
  BY <1>1, <1>2 DEF StepParts
<1>4. PICK n \in Nat : n = Len(Drafts) /\ n \in 0..Len(Drafts) /\ n \in 1..Len(Drafts)
  <2>1. Len(Drafts) \in Nat \ {0}
    BY <1>2, CallText
  <2> QED BY <2>1
<1>5. CASE Took(n, call.rows[n]) /\ faults' = faults
  <2>1. PICK s : s = Base \o Upto(Drafts, n)
    OBVIOUS
  <2>2. s = Upto(Whole, Start + n) /\ s \in Seq(Token) /\ Len(s) = Start + n /\ Agree(Whole, s, Start + n)
    BY <1>2, <1>4, <2>1, SomeDrafts
  <2>3. call.rows[n] = s
    BY <1>3, <1>4, <2>2, Zenon DEF JudgeRows
  <2>4. s = Whole
    <3>1. Whole \in Seq(Token) /\ Len(Whole) = Start + n
      BY <1>2, <1>4, CallText
    <3> QED BY <2>2, <3>1, UptoAll, Zenon
  <2>5. GraphShows(g, s, Start - Window, Start + n)
    BY <1>3, <1>4, <2>4, Zenon
  <2>6. Exactly(g', s)
    BY <1>1, <1>2, <1>4, <2>2, <2>5, ShowsExactly, Zenon
  <2>7. Took(n, s) /\ g' \in Graphs /\ faults' \in 0..MaxFaults
    BY <1>1, <1>2, <1>5, <2>3, Typed, Zenon
  <2> QED BY <1>1, <1>4, <2>1, <2>6, <2>7, TookIs, Zenon
<1>6. CASE /\ Fault
           /\ IF NeedsSnapshot
              THEN call' = [call EXCEPT !.step = "restore", !.seen = n] /\ UNCHANGED <<session, spec>>
              ELSE Failed
  <2>1. CASE NeedsSnapshot
    <3>1. /\ call' = [call EXCEPT !.step = "restore", !.seen = n]
          /\ tokens' = tokens /\ valid' = valid /\ logits' = logits /\ spec' = spec
      BY <1>6, <2>1 DEF session
    <3>2. Agreed(n) /\ faults' \in 0..MaxFaults
      BY <1>1, <1>4, <1>6, Typed, Zenon
    <3> QED BY <1>1, <1>4, <2>1, <3>1, <3>2, ToRestore
  <2>2. CASE ~NeedsSnapshot
    <3>1. Failed /\ g' \in Graphs /\ faults' \in 0..MaxFaults
      BY <1>1, <1>2, <1>6, <2>2, Typed
    <3> QED BY <1>1, <3>1, FailedIs
  <2> QED BY <2>1, <2>2
<1> QED BY <1>4, <1>5, <1>6, Zenon DEF AcceptAll

(* The first of two was, and the captured frontier is copied back.         *)
LEMMA CommitPrefix1Is == MtpInv /\ CommitPrefix1 => MtpInv'
<1> SUFFICES ASSUME MtpInv, CommitPrefix1 PROVE MtpInv'
  OBVIOUS
<1>1. /\ ~Idle /\ call.step = "judge" /\ (Exact \/ Captures) /\ file' = file /\ taint' = taint /\ colds' = colds
  BY DEF CommitPrefix1, At
<1>2. /\ SessionTyped /\ CallParts /\ StepParts /\ g \in Graphs
  BY <1>1, InCall
<1>3. /\ JudgeRows /\ GraphShows(g, Whole, Start - Window, Start + Len(Drafts)) /\ FrontierOf(spec.first, Whole, Start + 1)
      /\ NeedsSnapshot => SavedBase
  BY <1>1, <1>2 DEF StepParts
<1>4. /\ Start \in Nat /\ Len(Drafts) = 2 /\ 1 \in 0..Len(Drafts) /\ 1 \in 1..Len(Drafts) /\ Agree(Whole, Base, Start)
      /\ Start \in 0..(Start + 1) /\ Start + 1 \in Nat
  <2>1. Len(Drafts) = 2
    BY <1>1 DEF Exact, Captures
  <2> QED BY <1>2, <2>1, CallText
<1>5. GraphHas(g, Whole, Start - Window, Start + 1)
  BY <1>1, <1>3, <1>4, JudgeLeaves, Zenon
<1>6. PICK s : s = Base \o Upto(Drafts, 1)
  OBVIOUS
<1>7. s = Upto(Whole, Start + 1) /\ s \in Seq(Token) /\ Len(s) = Start + 1 /\ Agree(Whole, s, Start + 1)
  BY <1>2, <1>4, <1>6, SomeDrafts
<1>8. CASE g' = BackTo(spec.first, Layers) /\ Took(1, call.rows[1]) /\ faults' = faults
  <2>1. Layers \in 0..Layers
    BY GraphFacts
  <2>2. g' \in Graphs /\ GraphShows(g', Whole, Start - Window, Start + 1)
    BY <1>2, <1>3, <1>5, <1>8, <2>1, BackToIs, Zenon
  <2>3. SameFor(Whole, s, Start + 1)
    BY <1>4, <1>7, SameHistory, Zenon
  <2>4. GraphShows(g', s, Start - Window, Start + 1)
    BY <2>2, <2>3, Zenon DEF SameFor
  <2>5. Exactly(g', s)
    <3>1. 1 \in Nat
      OBVIOUS
    <3> QED BY <1>1, <1>7, <2>2, <2>4, <3>1, ShowsExactly, Zenon
  <2>6. call.rows[1] = s
    BY <1>3, <1>4, <1>7, Zenon DEF JudgeRows
  <2>7. Took(1, s) /\ faults' \in 0..MaxFaults
    BY <1>8, <2>6, Typed, Zenon
  <2> QED BY <1>1, <1>4, <1>6, <2>2, <2>5, <2>7, TookIs, Zenon
<1>9. ASSUME Fault, GiveUp, NEW l \in 0..Layers, g' = BackTo(spec.first, l) PROVE MtpInv'
  <2>1. PICK lo \in Int : lo = Start - Window
    BY <1>4, GraphFacts
  <2>2. GraphHas(g, Whole, lo, Start + 1)
    BY <1>5, <2>1, Zenon
  <2>3. g' \in Graphs /\ GraphHas(g', Whole, lo, Start + 1)
    BY <1>2, <1>3, <1>9, <2>2, BackToIs, Zenon
  <2>4. \A u \in Unit : g'.unit[u].n \in Nat
    BY <2>3, UnitParts
  <2>5. GraphHas(g', Whole, lo, Start)
    BY <1>4, <2>3, <2>4, FewerTokens, Zenon
  <2>6. SameFor(Whole, Base, Start)
    BY <1>4, SameHistory, Zenon
  <2>7. GraphHas(g', Base, Start - Window, Start)
    BY <2>1, <2>5, <2>6, Zenon DEF SameFor
  <2>8. call.step \in {"verify", "judge"} /\ faults' \in 0..MaxFaults
    BY <1>1, <1>9, Typed
  <2> QED BY <1>1, <1>3, <1>9, <2>3, <2>7, <2>8, GaveUp, Zenon
<1> QED BY <1>8, <1>9, Zenon DEF CommitPrefix1

(* The snapshot is copied back before the drafts are taken again.          *)
LEMMA RestoreIs == MtpInv /\ Restore => MtpInv'
<1> SUFFICES ASSUME MtpInv, Restore PROVE MtpInv'
  OBVIOUS
<1>1. /\ ~Idle /\ call.step = "restore" /\ tokens' = Base
      /\ valid' = valid /\ logits' = logits /\ spec' = spec /\ file' = file /\ taint' = taint /\ colds' = colds
  BY DEF Restore, At
<1>2. /\ SessionTyped /\ CallParts /\ StepParts /\ g \in Graphs /\ call \in Call /\ taint = "none"
      /\ Upto(Base, Start) = Base /\ Start < Ctx
  BY <1>1, InCall
<1>3. BaseLeft /\ SavedBase /\ SeenSome
  BY <1>1, <1>2 DEF StepParts
<1>4. PICK k \in 0..Layers, step \in {"replay", "undo"} :
        /\ g' = BackTo(spec.saved, k) /\ Goto(step) /\ faults' \in 0..MaxFaults
        /\ step = "replay" => k = Layers
  <2>1. CASE g' = BackTo(spec.saved, Layers) /\ Goto("replay") /\ UNCHANGED faults
    <3>1. Layers \in 0..Layers /\ faults' \in 0..MaxFaults
      BY <2>1, GraphFacts, Typed
    <3> QED BY <2>1, <3>1
  <2>2. CASE Fault /\ Goto("undo") /\ \E l \in 0..(Layers - 1) : g' = BackTo(spec.saved, l)
    <3>1. PICK l \in 0..(Layers - 1) : g' = BackTo(spec.saved, l)
      BY <2>2
    <3>2. l \in 0..Layers /\ faults' \in 0..MaxFaults
      BY <2>2, GraphFacts, Typed
    <3> QED BY <2>2, <3>1, <3>2
  <2> QED BY <2>1, <2>2, Zenon DEF Restore
<1>5. g' \in Graphs /\ GraphHas(g', Base, Start - Window, Start) /\ (k = Layers => GraphShows(g', Base, Start - Window, Start))
  BY <1>2, <1>3, <1>4, BackToIs, Zenon DEF BaseLeft, SavedBase
<1>6. Stepped(call, call', step)
  <2>1. step \in Steps
    BY DEF Steps
  <2> QED BY <1>2, <1>4, <2>1, GotoIs
<1>7. tokens' \in Seq(Token) /\ Len(tokens') = Start /\ Start \in Nat
  BY <1>1, <1>2, CallText
<1>8. Start' = Start /\ Base' = Base /\ Drafts' = Drafts
  BY <1>1, <1>2, <1>6, SameCall DEF Stepped
<1>9. BaseLeft' /\ SavedBase' /\ tokens' = Base' /\ (step = "replay" => BaseThere')
  BY <1>1, <1>3, <1>4, <1>5, <1>8, Zenon DEF BaseLeft, SavedBase, BaseThere
<1>10. SeenSome'
  BY <1>3, <1>6, <1>8 DEF SeenSome, Target, Stepped
<1>11. StepParts'
  BY <1>6, <1>9, <1>10 DEF StepParts, Stepped
<1>12. Start <= Len(tokens') /\ Len(tokens') < Ctx /\ Upto(tokens', Start) = Base
  BY <1>1, <1>2, <1>7
<1> QED BY <1>1, <1>2, <1>4, <1>5, <1>6, <1>7, <1>11, <1>12, InsideCall DEF Stepped

(* The snapshot is copied back after a failure.                            *)
LEMMA UndoIs == MtpInv /\ Undo => MtpInv'
<1> SUFFICES ASSUME MtpInv, Undo PROVE MtpInv'
  OBVIOUS
<1>1. /\ ~Idle /\ call.step = "undo" /\ tokens' = Base /\ Goto("sequential")
      /\ valid' = valid /\ logits' = logits /\ spec' = spec /\ file' = file /\ faults' = faults /\ colds' = colds
  BY Zenon DEF Undo, At
<1>2. /\ SessionTyped /\ CallParts /\ StepParts /\ g \in Graphs /\ call \in Call /\ taint = "none"
      /\ Upto(Base, Start) = Base /\ Start < Ctx /\ faults' \in 0..MaxFaults
  BY <1>1, InCall, Typed
<1>3. BaseLeft /\ SavedBase
  BY <1>1, <1>2 DEF StepParts
<1>4. PICK k \in 0..Layers : g' = BackTo(spec.saved, k) /\ (taint' = "restore" \/ (taint' = taint /\ k = Layers))
  <2>1. CASE g' = BackTo(spec.saved, Layers) /\ taint' = taint
    <3>1. Layers \in 0..Layers
      BY GraphFacts
    <3> QED BY <2>1, <3>1
  <2>2. CASE taint' = "restore" /\ \E l \in 0..(Layers - 1) : g' = BackTo(spec.saved, l)
    <3>1. PICK l \in 0..(Layers - 1) : g' = BackTo(spec.saved, l)
      BY <2>2
    <3>2. l \in 0..Layers
      BY GraphFacts
    <3> QED BY <2>2, <3>1, <3>2
  <2> QED BY <2>1, <2>2, Zenon DEF Undo
<1>5. g' \in Graphs /\ (k = Layers => GraphShows(g', Base, Start - Window, Start))
  BY <1>2, <1>3, <1>4, BackToIs, Zenon DEF BaseLeft, SavedBase
<1>6. Stepped(call, call', "sequential")
  <2>1. "sequential" \in Steps
    BY DEF Steps
  <2> QED BY <1>1, <1>2, <2>1, GotoIs
<1>7. tokens' \in Seq(Token) /\ Len(tokens') = Start /\ Start \in Nat
  BY <1>1, <1>2, CallText
<1>8. Start' = Start /\ Base' = Base
  BY <1>1, <1>2, <1>6, SameCall DEF Stepped
<1>9. tokens' = Base' /\ (taint' = "none" => BaseThere')
  <2>1. taint' = "none" => k = Layers
    BY <1>4
  <2> QED BY <1>1, <1>5, <1>8, <2>1, Zenon DEF BaseThere
<1>10. StepParts'
  BY <1>6, <1>9 DEF StepParts, Stepped
<1>11. Start <= Len(tokens') /\ Len(tokens') < Ctx /\ Upto(tokens', Start) = Base
  BY <1>1, <1>2, <1>7
<1>12. taint' \in {"none", "restore"} /\ (taint' = "restore" => call'.step \in {"sequential", "one"})
  BY <1>2, <1>4, <1>6 DEF Stepped
<1> QED BY <1>1, <1>2, <1>5, <1>6, <1>7, <1>10, <1>11, <1>12, InsideCall DEF Stepped

(* The drafts that were agreed on are taken again.                         *)
LEMMA ReplayIs == MtpInv /\ Replay => MtpInv'
<1> SUFFICES ASSUME MtpInv, Replay PROVE MtpInv'
  OBVIOUS
<1>1. ~Idle /\ call.step = "replay" /\ file' = file /\ taint' = taint /\ colds' = colds
  BY DEF Replay, At
<1>2. /\ SessionTyped /\ CallParts /\ StepParts /\ g \in Graphs /\ call \in Call /\ taint = "none"
      /\ Upto(Base, Start) = Base /\ Upto(tokens, Start) = Base /\ tokens \in Seq(Token) /\ Start <= Len(tokens) /\ Len(tokens) < Ctx
  BY <1>1, InCall
<1>3. tokens = Base /\ BaseThere /\ SavedBase /\ SeenSome
  BY <1>1, <1>2 DEF StepParts
<1>4. BaseLeft /\ GraphShows(g, Whole, Start - Window, Start)
  BY <1>1, <1>3, BaseInWhole
<1>5. PICK n \in Nat \ {0} : n = call.seen /\ n \in 0..Len(Drafts) /\ n \in 1..Len(Drafts)
  <2>1. Len(Drafts) \in Nat /\ call.seen \in 1..Len(Drafts)
    BY <1>2, <1>3, CallText DEF SeenSome
  <2>2. call.seen \in Nat \ {0} /\ call.seen \in 0..Len(Drafts)
    BY <2>1
  <2> QED BY <2>1, <2>2
<1>6. PICK s : s = Base \o Upto(Drafts, n)
  OBVIOUS
<1>7. s \in Seq(Token) /\ Len(s) = Start + n /\ Len(s) < Ctx /\ Agree(Base, s, Start)
  BY <1>2, <1>5, <1>6, SomeDrafts
<1>8. Start \in Nat \ {0} /\ Start \in Nat /\ Len(s) <= Ctx /\ Start + n <= Len(s) /\ Len(s) > 0 /\ Len(s) - 1 = Start + n - 1 /\ Ctx \in Nat
  BY <1>2, <1>7, CallText
<1>9. PICK single \in BOOLEAN : single = (Len(Drafts) = 2 /\ n = 1)
  OBVIOUS
<1>10. CASE single /\ Decode(g, s).ok /\ g' = Decode(g, s).g /\ Took(1, LogitsOf(Decode(g, s), s)) /\ faults' = faults
  <2>1. n = 1 /\ s = Base \o Upto(Drafts, 1) /\ 1 \in 0..Len(Drafts)
    BY <1>5, <1>6, <1>9, <1>10
  <2>2. Exactly(Decode(g, s).g, s) /\ LogitsOf(Decode(g, s), s) = s /\ Decode(g, s).g \in Graphs
    BY <1>1, <1>3, <1>10, <2>1, BaseAndOne, Zenon
  <2>3. Took(1, s) /\ Exactly(g', s) /\ g' \in Graphs /\ faults' \in 0..MaxFaults
    BY <1>10, <2>2, Typed, Zenon
  <2> QED BY <1>1, <2>1, <2>3, TookIs, Zenon
<1>11. CASE /\ Batch(g, s, Start, n).ok /\ g' = Batch(g, s, Start, n).g
            /\ Took(n, LogitsAt(Batch(g, s, Start, n), s, Len(s) - 1)) /\ faults' = faults
  <2>1. SameFor(Base, s, Start)
    BY <1>7, <1>8, SameHistory, Zenon
  <2>2. GraphShows(g, s, Start - Window, Start)
    BY <1>3, <2>1, Zenon DEF SameFor, BaseThere
  <2>3. BatchExtends(Batch(g, s, Start, n), s, Start, n)
    BY <1>2, <1>5, <1>7, <1>8, <1>11, <2>2, BatchNext, Zenon
  <2>4. PICK x : x = Batch(g, s, Start, n)
    OBVIOUS
  <2>5. x.right = Start..(Start + n - 1) /\ x.g \in Graphs /\ GraphShows(x.g, s, Start - Window, Start + n)
    BY <2>3, <2>4, Zenon DEF BatchExtends
  <2>6. Len(s) - 1 \in x.right
    BY <1>8, <2>5
  <2>7. LogitsAt(x, s, Len(s) - 1) = s
    BY <1>7, <1>8, <2>6, LastRowIs
  <2>8. Exactly(x.g, s)
    <3>1. n \in Nat
      OBVIOUS
    <3> QED BY <1>1, <1>7, <2>5, <3>1, ShowsExactly, Zenon
  <2>9. Took(n, s) /\ Exactly(g', s) /\ g' \in Graphs /\ faults' \in 0..MaxFaults
    BY <1>11, <2>4, <2>5, <2>7, <2>8, Typed, Zenon
  <2> QED BY <1>1, <1>5, <1>6, <2>9, TookIs, Zenon
<1>12. ASSUME Fault, Goto("undo"), tokens' = tokens, valid' = valid, logits' = logits, spec' = spec, NEW l \in 0..Layers,
              g' = IF single THEN DecodeTo(g, s, l).g ELSE BatchTo(g, s, Start, n, l).g
       PROVE  MtpInv'
  <2>1. g' \in Graphs /\ GraphHas(g', Base, Start - Window, Start)
    <3>1. CASE single
      <4>1. Len(s) = Start + 1
        BY <1>7, <1>9, <3>1
      <4> QED BY <1>1, <1>4, <1>7, <1>12, <3>1, <4>1, DecodeLeaves, Zenon
    <3>2. CASE ~single
      BY <1>1, <1>4, <1>5, <1>7, <1>8, <1>12, <3>2, BatchLeaves, Zenon
    <3> QED BY <3>1, <3>2
  <2>2. Stepped(call, call', "undo")
    <3>1. "undo" \in Steps
      BY DEF Steps
    <3> QED BY <1>2, <1>12, <3>1, GotoIs
  <2>3. Start' = Start /\ Base' = Base
    BY <1>2, <1>12, <2>2, SameCall DEF Stepped
  <2>4. BaseLeft' /\ SavedBase'
    BY <1>3, <1>12, <2>1, <2>3, Zenon DEF BaseLeft, SavedBase
  <2>5. StepParts'
    BY <2>2, <2>4 DEF StepParts, Stepped
  <2>6. faults' \in 0..MaxFaults
    BY <1>12, Typed
  <2> QED BY <1>1, <1>2, <1>12, <2>1, <2>2, <2>5, <2>6, InsideCall DEF Stepped
<1>13. \/ /\ faults' = faults
          /\ IF single THEN Decode(g, s).ok /\ g' = Decode(g, s).g /\ Took(1, LogitsOf(Decode(g, s), s))
             ELSE /\ Batch(g, s, Start, n).ok /\ g' = Batch(g, s, Start, n).g
                  /\ Took(n, LogitsAt(Batch(g, s, Start, n), s, Len(s) - 1))
       \/ /\ Fault /\ Goto("undo") /\ tokens' = tokens /\ valid' = valid /\ logits' = logits /\ spec' = spec
          /\ \E l \in 0..Layers :
               g' = IF single THEN DecodeTo(g, s, l).g ELSE BatchTo(g, s, Start, n, l).g
  BY <1>5, <1>6, <1>9, Zenon DEF Replay, session
<1> QED BY <1>10, <1>11, <1>12, <1>13, Zenon

(* The fallback.                                                           *)
LEMMA NextText ==
    ASSUME MtpInv, ~Idle, NEW k \in 0..(Len(Drafts) - 1), tokens = Base \o Upto(Drafts, k)
    PROVE  /\ k + 1 \in 0..Len(Drafts) /\ Drafts[k + 1] \in Token /\ Append(tokens, Drafts[k + 1]) = Base \o Upto(Drafts, k + 1)
           /\ Append(tokens, Drafts[k + 1]) \in Seq(Token) /\ Len(Append(tokens, Drafts[k + 1])) = Len(tokens) + 1
           /\ Follows(Append(tokens, Drafts[k + 1]), tokens, 1)
<1>1. /\ SessionTyped /\ CallParts /\ tokens \in Seq(Token) /\ Start \in Nat /\ Drafts \in Seq(Token) /\ Len(Drafts) \in Nat \ {0}
  BY InCall, CallText
<1>2. k \in 0..Len(Drafts) /\ k + 1 \in 0..Len(Drafts) /\ Drafts[k + 1] \in Token /\ k \in Nat
  BY <1>1
<1>3. Len(tokens) = Start + k /\ (\A i \in 1..Start : tokens[i] = Base[i]) /\ (\A i \in 1..k : tokens[Start + i] = Drafts[i])
  BY <1>1, <1>2, SomeDrafts
<1>4. PICK a : a = Append(tokens, Drafts[k + 1])
  OBVIOUS
<1>5. AppendedIs(a, tokens, Drafts[k + 1])
  BY <1>1, <1>2, <1>4, Appended, Zenon
<1>6. a \in Seq(Token) /\ Len(a) = Start + k + 1 /\ a[Start + k + 1] = Drafts[k + 1] /\ (\A i \in 1..(Start + k) : a[i] = tokens[i])
  BY <1>3, <1>5 DEF AppendedIs
<1>7. PICK b : b = Base \o Upto(Drafts, k + 1)
  OBVIOUS
<1>8. /\ b \in Seq(Token) /\ Len(b) = Start + (k + 1) /\ (\A i \in 1..Start : b[i] = Base[i])
      /\ (\A i \in 1..(k + 1) : b[Start + i] = Drafts[i])
  BY <1>1, <1>2, <1>7, SomeDrafts
<1>9. ASSUME NEW i \in 1..Len(a) PROVE a[i] = b[i]
  <2>1. CASE i \in 1..Start
    <3>1. i \in 1..(Start + k)
      BY <1>1, <1>2, <2>1
    <3> QED BY <1>3, <1>6, <1>8, <2>1, <3>1, Zenon
  <2>2. CASE i \notin 1..Start
    <3>1. PICK j \in 1..(k + 1) : i = Start + j
      <4>1. i - Start \in 1..(k + 1) /\ i = Start + (i - Start)
        BY <1>1, <1>2, <1>6, <2>2
      <4> QED BY <4>1
    <3>2. CASE j = k + 1
      <4>1. i = Start + k + 1
        BY <1>1, <1>2, <3>1, <3>2
      <4> QED BY <1>6, <1>8, <3>1, <3>2, <4>1, Zenon
    <3>3. CASE j # k + 1
      <4>1. j \in 1..k /\ i \in 1..(Start + k)
        BY <1>1, <1>2, <3>1, <3>3
      <4> QED BY <1>3, <1>6, <1>8, <3>1, <4>1, Zenon
    <3> QED BY <3>2, <3>3
  <2> QED BY <2>1, <2>2
<1>10. a = b
  <2>1. Len(a) = Len(b)
    BY <1>1, <1>2, <1>6, <1>8
  <2> QED BY <1>6, <1>8, <1>9, <2>1, SameText
<1> QED BY <1>2, <1>4, <1>5, <1>7, <1>10, Zenon DEF AppendedIs

(* The fallback begins at the base.                                        *)
LEMMA SequentialStartIs == MtpInv /\ SequentialStart => MtpInv'
<1> SUFFICES ASSUME MtpInv, SequentialStart PROVE MtpInv'
  OBVIOUS
<1>1. /\ ~Idle /\ call.step = "sequential" /\ call' = [call EXCEPT !.step = "one", !.seen = 0, !.rows = <<>>]
      /\ g' = g /\ tokens' = tokens /\ valid' = valid /\ logits' = logits
      /\ file' = file /\ faults' = faults /\ taint' = taint /\ colds' = colds
  BY Zenon DEF SequentialStart, At, session
<1>2. /\ SessionTyped /\ CallParts /\ StepParts /\ call \in Call /\ g \in Graphs
      /\ Upto(tokens, Start) = Base /\ tokens \in Seq(Token) /\ Start <= Len(tokens) /\ Len(tokens) < Ctx
      /\ taint \in {"none", "restore"}
  BY <1>1, InCall
<1>3. tokens = Base /\ (taint = "none" => Exactly(g, Base))
  <2>1. tokens = Base /\ (taint = "none" => BaseThere)
    BY <1>1, <1>2 DEF StepParts
  <2> QED BY <1>1, <2>1, BaseExact
<1>4. Base = Base \o Upto(Drafts, 0) /\ Len(Drafts) \in Nat \ {0} /\ 0 \in 0..Len(Drafts)
  <2>1. Len(Drafts) \in Nat \ {0} /\ 0 \in 0..Len(Drafts) /\ Base \in Seq(Token) /\ Len(Base) = Start /\ Start \in Nat
    BY <1>2, CallText
  <2>2. PICK s : s = Base \o Upto(Drafts, 0)
    OBVIOUS
  <2>3. s \in Seq(Token) /\ Len(s) = Start + 0 /\ \A i \in 1..Start : s[i] = Base[i]
    BY <1>2, <2>1, <2>2, SomeDrafts, Zenon
  <2>4. s = Base
    BY <2>1, <2>3, SameText
  <2> QED BY <2>1, <2>2, <2>4
<1>5. /\ call' \in Call /\ call'.step = "one" /\ call'.from = call.from /\ call'.drafts = call.drafts
      /\ call'.mode = call.mode /\ call'.cap = call.cap /\ call'.seen = 0 /\ call'.rows = <<>>
  <2>1. <<>> \in Seq(Seq(Token) \cup {Wrong}) /\ 0 \in Nat
    OBVIOUS
  <2> QED BY <1>1, <1>2, <2>1 DEF Call, Steps
<1>6. Start' = Start /\ Base' = Base /\ Drafts' = Drafts
  BY <1>1, <1>2, <1>5, SameCall
<1>7. /\ call'.seen \in 0..Len(Drafts') /\ tokens' = Base' \o Upto(Drafts', call'.seen)
      /\ taint' = "none" => Target(call.seen)' /\ Exactly(g', tokens') /\ call'.rows = <<>>
  <2>1. call'.seen \in 0..Len(Drafts') /\ tokens' = Base' \o Upto(Drafts', call'.seen)
    BY <1>1, <1>3, <1>4, <1>5, <1>6
  <2>2. taint' = "none" => Exactly(g', tokens')
    BY <1>1, <1>3
  <2>3. Target(call.seen)'
    BY <1>5 DEF Target
  <2> QED BY <1>5, <2>1, <2>2, <2>3
<1>8. StepParts'
  <2>1. taint' = "none" => Target(call.seen)'
    BY <1>5 DEF Target
  <2> QED BY <1>5, <1>7, <2>1 DEF StepParts
<1>9. faults' \in 0..MaxFaults
  BY <1>1, Typed
<1> QED BY <1>1, <1>2, <1>5, <1>8, <1>9, InsideCall

(* What the fallback reads next, while nothing is wrong.                   *)
LEMMA LastRowOf ==
    ASSUME MtpInv, ~Idle, call.step = "one", taint = "none"
    PROVE  LastRow = tokens /\ Exactly(g, tokens) /\ Target(call.seen)
<1>1. /\ StepParts /\ logits = Base /\ SessionTyped /\ CallParts /\ tokens \in Seq(Token)
  BY InCall
<1>2. /\ call.seen \in 0..Len(Drafts) /\ tokens = Base \o Upto(Drafts, call.seen)
      /\ Target(call.seen) /\ Exactly(g, tokens)
      /\ call.rows = IF call.seen = 0 THEN <<>> ELSE <<tokens>>
  BY <1>1 DEF StepParts
<1>3. CASE call.seen = 0
  <2>1. Base \in Seq(Token) /\ Len(Base) = Start /\ Start \in Nat /\ Len(tokens) = Start + 0 /\ \A i \in 1..Start : tokens[i] = Base[i]
    BY <1>1, <1>2, <1>3, CallText, SomeDrafts
  <2>2. tokens = Base
    BY <1>1, <2>1, SameText
  <2> QED BY <1>1, <1>2, <1>3, <2>2 DEF LastRow
<1>4. CASE call.seen # 0
  BY <1>2, <1>4 DEF LastRow
<1> QED BY <1>2, <1>3, <1>4

(* It takes a draft the target picks, or fails.                            *)
LEMMA SequentialStepIs == MtpInv /\ SequentialStep => MtpInv' /\ (call' # NoCall \/ valid' = FALSE)
<1> SUFFICES ASSUME MtpInv, SequentialStep PROVE MtpInv' /\ (call' # NoCall \/ valid' = FALSE)
  OBVIOUS
<1>1. ~Idle /\ call.step = "one" /\ Continues /\ NextDraft \in Tops(LastRow) /\ file' = file /\ taint' = taint /\ colds' = colds
  BY Zenon DEF SequentialStep, At
<1>2. /\ SessionTyped /\ CallParts /\ StepParts /\ call \in Call /\ g \in Graphs
      /\ Upto(tokens, Start) = Base /\ tokens \in Seq(Token) /\ Start <= Len(tokens) /\ Len(tokens) < Ctx
      /\ taint \in {"none", "restore"}
  BY <1>1, InCall
<1>3. /\ Start \in Nat \ {0} /\ Len(Drafts) \in Nat \ {0} /\ Len(Whole) = Start + Len(Drafts) /\ Len(Whole) < Ctx
      /\ Ctx \in Nat /\ Base \in Seq(Token)
  BY <1>2, CallText
<1>4. PICK k \in 0..(Len(Drafts) - 1) : k = call.seen /\ k \in Nat /\ k \in 0..Len(Drafts) /\ k + 1 \in Nat
  <2>1. call.seen \in 0..Len(Drafts) /\ call.seen < Len(Drafts)
    BY <1>1, <1>2 DEF StepParts, Continues
  <2>2. call.seen \in 0..(Len(Drafts) - 1) /\ call.seen \in Nat /\ call.seen + 1 \in Nat
    BY <1>3, <2>1
  <2> QED BY <2>1, <2>2
<1>5. tokens = Base \o Upto(Drafts, k)
  BY <1>1, <1>2, <1>4 DEF StepParts
<1>6. PICK s : s = Append(tokens, Drafts[k + 1])
  OBVIOUS
<1>7. /\ k + 1 \in 0..Len(Drafts) /\ s = Base \o Upto(Drafts, k + 1) /\ s \in Seq(Token) /\ Len(s) = Len(tokens) + 1
      /\ Follows(s, tokens, 1)
  BY <1>1, <1>5, <1>6, NextText, Zenon
<1>8. Len(s) = Start + (k + 1) /\ Len(s) < Ctx /\ Len(s) <= Ctx /\ Len(s) > 0 /\ Upto(s, Start) = Base /\ Start <= Len(s)
  <2>1. Len(s) = Start + (k + 1) /\ Len(s) < Ctx /\ Upto(s, Start) = Base
    BY <1>2, <1>7, SomeDrafts, Zenon
  <2> QED BY <1>3, <2>1
<1>9. PICK x : x = Decode(g, s)
  OBVIOUS
<1>10. x.g \in Graphs /\ LogitsOf(x, s) \in Seq(Token) \cup {Wrong}
  <2>1. x \in Decodings
    BY <1>2, <1>7, <1>8, <1>9, DecodeIs, Zenon
  <2> QED BY <1>7, <2>1 DEF Decodings, LogitsOf
<1>11. CASE /\ x.ok /\ g' = x.g /\ tokens' = s
            /\ call' = [call EXCEPT !.seen = call.seen + 1, !.rows = <<LogitsOf(x, s)>>]
            /\ valid' = valid /\ logits' = logits /\ faults' = faults
  <2>1. /\ call' \in Call /\ call'.step = "one" /\ call'.from = call.from /\ call'.drafts = call.drafts
        /\ call'.mode = call.mode /\ call'.cap = call.cap /\ call'.seen = k + 1 /\ call'.rows = <<LogitsOf(x, s)>>
    <3>1. <<LogitsOf(x, s)>> \in Seq(Seq(Token) \cup {Wrong})
      BY <1>10
    <3> QED BY <1>1, <1>2, <1>4, <1>11, <3>1 DEF Call
  <2>2. Start' = Start /\ Base' = Base /\ Drafts' = Drafts
    BY <1>8, <1>11, <2>1, SameCall
  <2>3. call'.seen \in 0..Len(Drafts') /\ tokens' = Base' \o Upto(Drafts', call'.seen)
    BY <1>7, <1>11, <2>1, <2>2
  <2>4. ASSUME taint' = "none" PROVE Target(call.seen)' /\ Exactly(g', tokens') /\ call'.rows = <<tokens'>>
    <3>1. taint = "none"
      BY <1>1, <2>4
    <3>2. LastRow = tokens /\ Exactly(g, tokens) /\ Target(call.seen)
      BY <1>1, <3>1, LastRowOf
    <3>3. Exactly(x.g, s) /\ LogitsOf(x, s) = s
      BY <1>2, <1>7, <1>8, <1>9, <1>11, <3>2, DecodedText, Zenon
    <3>4. Drafts[k + 1] = Choice[Start + k]
      <4>1. Len(tokens) = Start + k
        BY <1>2, <1>4, <1>5, SomeDrafts, Zenon
      <4>2. Len(tokens) \in 1..Ctx
        BY <1>2, <1>3, <1>4, <4>1
      <4>3. Tops(tokens) = {Choice[Len(tokens)]}
        BY <1>2, <4>2, TopsIs
      <4> QED BY <1>1, <1>4, <3>2, <4>1, <4>3 DEF NextDraft
    <3>5. ASSUME NEW i \in 1..(k + 1) PROVE Drafts[i] = Choice[Start + i - 1]
      <4>1. CASE i = k + 1
        <5>1. Start + i - 1 = Start + k
          BY <1>3, <1>4, <4>1
        <5> QED BY <3>4, <4>1, <5>1
      <4>2. CASE i # k + 1
        <5>1. i \in 1..k
          BY <1>4, <4>2
        <5> QED BY <1>4, <3>2, <5>1 DEF Target
      <4> QED BY <4>1, <4>2
    <3>6. Target(call.seen)'
      BY <2>1, <2>2, <3>5 DEF Target
    <3> QED BY <1>11, <2>1, <3>3, <3>6
  <2>5. StepParts'
    <3>1. call'.seen # 0
      BY <1>4, <2>1
    <3> QED BY <2>1, <2>3, <2>4, <3>1 DEF StepParts
  <2>6. faults' \in 0..MaxFaults
    BY <1>11, Typed
  <2>7. MtpInv'
    BY <1>1, <1>2, <1>7, <1>8, <1>10, <1>11, <2>1, <2>5, <2>6, InsideCall
  <2> QED BY <2>1, <2>7, CallAssumption
<1>12. ASSUME Fault, Return, valid' = FALSE, tokens' = tokens, NEW l \in 0..(Layers - 1), g' = DecodeTo(g, s, l).g
       PROVE  MtpInv' /\ valid' = FALSE
  <2>1. l \in 0..Layers
    BY GraphFacts
  <2>2. g' \in Graphs
    BY <1>2, <1>7, <1>8, <1>12, <2>1, DecodeIs, Zenon
  <2>3. call' = NoCall
    BY <1>12 DEF Return
  <2> QED BY <1>1, <1>2, <1>12, <2>2, <2>3, Typed, OutsideCall
<1>13. \/ /\ x.ok /\ g' = x.g /\ tokens' = s
          /\ call' = [call EXCEPT !.seen = call.seen + 1, !.rows = <<LogitsOf(x, s)>>]
          /\ valid' = valid /\ logits' = logits /\ faults' = faults
       \/ /\ Fault /\ Return /\ valid' = FALSE /\ tokens' = tokens
          /\ \E l \in 0..(Layers - 1) : g' = DecodeTo(g, s, l).g
  BY <1>4, <1>6, <1>9, Zenon DEF SequentialStep, NextDraft
<1> QED BY <1>11, <1>12, <1>13, Zenon

(* It ends with the last token it took.                                    *)
LEMMA SequentialEndIs == MtpInv /\ SequentialEnd => MtpInv'
<1> SUFFICES ASSUME MtpInv, SequentialEnd PROVE MtpInv'
  OBVIOUS
<1>1. /\ ~Idle /\ call.step = "one" /\ call' = NoCall /\ (valid' = valid \/ valid' = FALSE)
      /\ (logits' = LastRow \/ valid' = FALSE) /\ (faults' = faults \/ Fault)
      /\ g' = g /\ tokens' = tokens /\ file' = file /\ taint' = taint /\ colds' = colds
  BY Zenon DEF SequentialEnd, At, Return
<1>2. taint = "none" => LastRow = tokens /\ Exactly(g, tokens)
  BY <1>1, LastRowOf
<1>3. faults' \in 0..MaxFaults /\ valid' \in BOOLEAN
  BY <1>1, Typed
<1> QED BY <1>1, <1>2, <1>3, Typed, OutsideCall

-----------------------------------------------------------------------------
(* Every step of a session keeps the invariant.                            *)
LEMMA StutterIs == MtpInv /\ UNCHANGED vars => MtpInv'
<1> SUFFICES ASSUME MtpInv, UNCHANGED vars PROVE MtpInv'
  OBVIOUS
<1>1. /\ g' = g /\ tokens' = tokens /\ valid' = valid /\ logits' = logits /\ call' = call /\ spec' = spec
      /\ file' = file /\ faults' = faults /\ colds' = colds /\ taint' = taint
  BY DEF vars
<1>2. SessionTyped'
  BY <1>1, Typed DEF SessionTyped
<1>3. SettledRight'
  BY <1>1, Zenon DEF MtpInv, SettledRight, Settled, Idle
<1>4. CallRight'
  <2>1. Start' = Start /\ Base' = Base /\ Drafts' = Drafts /\ Whole' = Whole
    BY <1>1, Zenon DEF Start, Base, Drafts, Whole
  <2>2. (Exact' <=> Exact) /\ (Captures' <=> Captures) /\ (NeedsSnapshot' <=> NeedsSnapshot)
    BY <1>1, Zenon DEF Exact, Captures, NeedsSnapshot, Drafts
  <2>3. (BaseThere' <=> BaseThere) /\ (BaseLeft' <=> BaseLeft) /\ (SavedBase' <=> SavedBase) /\ (SeenSome' <=> SeenSome) /\ (JudgeRows' <=> JudgeRows)
    BY <1>1, <2>1, Zenon DEF BaseThere, BaseLeft, SavedBase, SeenSome, JudgeRows, Target
  <2>4. Target(call.seen)' <=> Target(call.seen)
    BY <1>1, <2>1, Zenon DEF Target
  <2>5. CallParts => CallParts'
    BY <1>1, <2>1, Zenon DEF CallParts
  <2>6. StepParts => StepParts'
    BY <1>1, <2>1, <2>2, <2>3, <2>4, Zenon DEF StepParts
  <2> QED BY <1>1, <2>5, <2>6, Zenon DEF MtpInv, CallRight, Idle
<1> QED BY <1>2, <1>3, <1>4, Zenon DEF MtpInv

IInv == MtpInv /\ SpecTyped

(* By cases on the step.                                                   *)
LEMMA Steady == IInv /\ [Next]_vars => IInv'
<1> SUFFICES ASSUME MtpInv, SpecTyped, [Next]_vars PROVE MtpInv'
  BY SpecTypedIs, Zenon DEF IInv
<1>1. CASE UNCHANGED vars
  BY <1>1, StutterIs, Zenon
<1>2. ASSUME NEW p \in Prompts, SyncResume(p) \/ SyncCold(p) \/ SyncDecode(p) \/ SyncDecodeFails(p) \/ SyncFails(p) \/ SyncTooShort(p)
      PROVE  MtpInv'
  BY <1>2, SyncResumeIs, SyncColdIs, SyncDecodeIs, SyncDecodeFailsIs, SyncFailsIs, SyncTooShortIs, Zenon
<1>3. ASSUME NEW t \in Sampled, Eval(t) \/ EvalFails(t) PROVE MtpInv'
  BY <1>3, EvalIs, EvalFailsIs, Zenon
<1>4. ASSUME NEW t \in Token, NEW max \in {1, Depth + 1}, Speculate(t, max) PROVE MtpInv'
  BY <1>4, SpeculateIs, Zenon
<1>5. CASE Draft \/ DraftFails \/ MarginSkip \/ SnapshotFrontier \/ Verify \/ VerifyFails
  BY <1>5, DraftIs, DraftFailsIs, MarginSkipIs, SnapshotFrontierIs, VerifyIs, VerifyFailsIs, Zenon
<1>6. CASE AcceptAll \/ CommitPrefix1 \/ Restore \/ Replay \/ Undo
  BY <1>6, AcceptAllIs, CommitPrefix1Is, RestoreIs, ReplayIs, UndoIs, Zenon
<1>7. ASSUME NEW m \in 1..Depth, Partial(m) PROVE MtpInv'
  BY <1>7, PartialIs, Zenon
<1>8. CASE SequentialStart \/ SequentialStep \/ SequentialEnd
  BY <1>8, SequentialStartIs, SequentialStepIs, SequentialEndIs, Zenon
<1>9. CASE Invalidate \/ Save \/ Load \/ LoadFails
  BY <1>9, InvalidateIs, SaveIs, LoadStepIs, LoadFailsIs, Zenon
<1> QED BY <1>1, <1>2, <1>3, <1>4, <1>5, <1>6, <1>7, <1>8, <1>9, Zenon DEF Next, CallStep

(* And a new session has it.                                               *)
LEMMA Starts == Init => IInv
<1>1. Init => SpecTyped
  <2>1. PICK a, b : NoSpec = [saved |-> a, first |-> b]
    BY Zenon DEF NoSpec
  <2>2. NoSpec.saved = a /\ NoSpec.first = b
    BY <2>1
  <2> QED BY <2>1, <2>2, Zenon DEF Init, SpecTyped
<1> QED BY <1>1, InitIs, Zenon DEF IInv

-----------------------------------------------------------------------------
(* What the invariant says of the session, in the words of its properties. *)
(* The rows of an unfinished window are those the next pooled row needs.   *)
LEMMA PendingShows ==
    ASSUME NEW u \in Unit, NEW state, NEW s, NEW n \in Nat \ {0}, WindowShows(u, state, s, n), NEW r \in Pending(u, n)
    PROVE  state[r] = StateOf(u, s, n - 1)[IF RatioOf(u) = 4 /\ n % 4 = 0 THEN 4 + r ELSE r]
<1>1. PICK R \in Nat \ {0, 1, 2} : R = RatioOf(u) /\ DOMAIN Empty(u) = 0..((IF R = 4 THEN 8 ELSE R) - 1)
  BY UnitFacts
<1>2. PICK f \in Nat, p \in Nat, first \in Nat :
        /\ f = n % R /\ f <= R - 1 /\ p = n - 1 /\ p + 1 = n /\ first = p - (p % R)
        /\ first = (IF f = 0 THEN n - R ELSE n - f)
  <2>1. n - 1 \in Nat /\ n \in Nat
    OBVIOUS
  <2>2. PICK p \in Nat : p = n - 1 /\ p + 1 = n
    BY <2>1
  <2>3. n % R \in 0..(R - 1)
    BY <1>1, <2>1, ClosesIs, Zenon
  <2>4. PICK a, b : a = p % R /\ b = n % R
    OBVIOUS
  <2>5. /\ p - a \in Nat /\ a \in 0..(R - 1)
        /\ Closes(u, p) => a = R - 1 /\ b = 0
        /\ ~Closes(u, p) => b = a + 1
    <3>1. /\ p % RatioOf(u) \in 0..(RatioOf(u) - 1) /\ p - (p % RatioOf(u)) \in Nat
          /\ Closes(u, p) => p % RatioOf(u) = RatioOf(u) - 1 /\ (p + 1) % RatioOf(u) = 0
          /\ ~Closes(u, p) => (p + 1) % RatioOf(u) = (p % RatioOf(u)) + 1
      BY ClosesIs
    <3>2. RatioOf(u) = R /\ (p + 1) % R = b /\ p % R = a
      BY <1>1, <2>2, <2>4, Zenon
    <3> QED BY <3>1, <3>2
  <2>6. (Closes(u, p) \/ ~Closes(u, p)) /\ b \in Nat /\ b <= R - 1
    BY <2>3, <2>4
  <2>7. p - a = (IF b = 0 THEN n - R ELSE n - b)
    <3>1. CASE Closes(u, p)
      BY <2>2, <2>5, <3>1
    <3>2. CASE ~Closes(u, p)
      BY <2>2, <2>5, <3>2
    <3> QED BY <3>1, <3>2
  <2> QED BY <2>2, <2>4, <2>5, <2>6, <2>7
<1> DEFINE q(i) == first + (IF R = 4 THEN i - 4 ELSE i)
<1>3. ASSUME NEW i \in 0..((IF R = 4 THEN 8 ELSE R) - 1)
      PROVE  StateOf(u, s, p)[i] = IF q(i) < 0 \/ q(i) > p THEN NoRow ELSE RowOf(s, q(i))
  <2>1. i \in DOMAIN Empty(u)
    BY <1>1
  <2> QED BY <1>1, <1>2, <2>1, Zenon DEF StateOf
<1>4. CASE R # 4
  <2>1. r \in 0..(f - 1) /\ (\A i \in 0..(f - 1) : state[i] = RowOf(s, n - f + i))
    BY <1>1, <1>2, <1>4, Zenon DEF Pending, WindowShows
  <2>2. r \in 0..((IF R = 4 THEN 8 ELSE R) - 1) /\ q(r) = n - f + r /\ ~(q(r) < 0 \/ q(r) > p)
    BY <1>2, <1>4, <2>1
  <2> HIDE DEF q
  <2> QED BY <1>1, <1>2, <1>3, <1>4, <2>1, <2>2, Zenon
<1>5. CASE R = 4
  <2>1. /\ r \in (IF f = 0 THEN 0..3 ELSE 0..(3 + f))
        /\ \A i \in 0..3 : state[i] = IF n < 4 THEN NoRow ELSE RowOf(s, n - f - 4 + i)
        /\ \A i \in 0..(f - 1) : state[4 + i] = RowOf(s, n - f + i)
    BY <1>1, <1>2, <1>5, Zenon DEF Pending, WindowShows, Previous
  <2>2. n < 4 => f = n
    BY <1>2, <1>5
  <2>3. CASE f = 0
    <3>1. r \in 0..3 /\ n >= 4 /\ ~(n < 4)
      BY <1>2, <2>1, <2>2, <2>3
    <3>2. 4 + r \in 0..((IF R = 4 THEN 8 ELSE R) - 1) /\ q(4 + r) = n - f - 4 + r /\ ~(q(4 + r) < 0 \/ q(4 + r) > p)
      BY <1>2, <1>5, <2>3, <3>1
    <3> HIDE DEF q
    <3> QED BY <1>1, <1>2, <1>3, <1>5, <2>1, <2>3, <3>1, <3>2, Zenon
  <2>4. CASE f # 0
    <3>1. r \in 0..((IF R = 4 THEN 8 ELSE R) - 1) /\ r \in Nat
      BY <1>2, <1>5, <2>1, <2>4
    <3>2. CASE r \in 0..3
      <4>1. CASE n < 4
        <5>1. q(r) < 0
          BY <1>2, <1>5, <2>2, <2>4, <3>2, <4>1
        <5> HIDE DEF q
        <5> QED BY <1>1, <1>2, <1>3, <1>5, <2>1, <2>4, <3>1, <3>2, <4>1, <5>1, Zenon
      <4>2. CASE ~(n < 4)
        <5>0. n - f \in Nat /\ n - f >= 4
          <6>1. n = 4 \/ n = 5 \/ n = 6 \/ n >= 7
            BY <4>2
          <6> QED BY <1>2, <1>5, <4>2, <6>1
        <5>1. q(r) = n - f - 4 + r /\ ~(q(r) < 0 \/ q(r) > p)
          BY <1>2, <1>5, <2>4, <3>2, <5>0
        <5> HIDE DEF q
        <5> QED BY <1>1, <1>2, <1>3, <1>5, <2>1, <2>4, <3>1, <3>2, <4>2, <5>1, Zenon
      <4> QED BY <4>1, <4>2
    <3>3. CASE r \notin 0..3
      <4>1. PICK j \in 0..(f - 1) : r = 4 + j
        <5>1. r - 4 \in 0..(f - 1) /\ r = 4 + (r - 4)
          BY <1>2, <2>1, <2>4, <3>1, <3>3
        <5> QED BY <5>1
      <4>2. q(r) = n - f + j /\ ~(q(r) < 0 \/ q(r) > p)
        BY <1>2, <1>5, <2>4, <4>1
      <4> HIDE DEF q
      <4> QED BY <1>1, <1>2, <1>3, <1>5, <2>1, <2>4, <3>1, <4>1, <4>2, Zenon
    <3> QED BY <3>2, <3>3
  <2> QED BY <2>3, <2>4
<1> QED BY <1>4, <1>5

NextPooled(u, state, s, n) ==
    \A r \in Pending(u, n) : state[r] = StateOf(u, s, n - 1)[IF RatioOf(u) = 4 /\ n % 4 = 0 THEN 4 + r ELSE r]

(* The same for the whole of it.                                           *)
LEMMA PendingAll ==
    ASSUME NEW u \in Unit, NEW state, NEW s, NEW n \in Nat \ {0}, WindowShows(u, state, s, n)
    PROVE  NextPooled(u, state, s, n)
<1>1. ASSUME NEW r \in Pending(u, n)
      PROVE  state[r] = StateOf(u, s, n - 1)[IF RatioOf(u) = 4 /\ n % 4 = 0 THEN 4 + r ELSE r]
  BY PendingShows
<1> QED BY <1>1, Zenon DEF NextPooled

(* A graph that is exact after the tokens.                                 *)
LEMMA ExactIs ==
    ASSUME Exactly(g, tokens), tokens \in Seq(Token), Len(tokens) > 0
    PROVE  RawExact /\ \A u \in Unit : RowsExact(u) /\ StateExact(u)
<1>1. PICK n \in Nat \ {0} : n = Len(tokens)
  OBVIOUS
<1>2. \A l \in Layer : LayerShows(g, l, tokens, n - Window, n)
  BY <1>1, Zenon DEF Exactly, GraphShows
<1>3. RawExact
  <2>1. ASSUME NEW l \in Layer, NEW p \in 0..(n - 1), p + Window >= n PROVE g.raw[l][p % RawCap] = RowOf(tokens, p)
    <3>1. RingShows(g.raw[l], tokens, n - Window, n)
      BY <1>2, Zenon DEF LayerShows
    <3>2. n - Window <= p
      BY <2>1, GraphFacts
    <3> QED BY <3>1, <3>2, Zenon DEF RingShows
  <2> QED BY <1>1, <2>1, Zenon DEF RawExact
<1>4. ASSUME NEW u \in Unit PROVE RowsExact(u) /\ StateExact(u)
  <2>1. UnitShows(u, g.unit[u], tokens, n)
    BY <1>2, UnitFacts, Zenon DEF LayerShows
  <2>2. g.unit[u].n = n \div RatioOf(u) /\ Pools(u, g.unit[u], tokens, n \div RatioOf(u)) /\ WindowShows(u, g.unit[u].state, tokens, n)
    BY <2>1, Zenon DEF UnitShows
  <2>3. RowsExact(u)
    <3>1. PICK count : count = n \div RatioOf(u)
      OBVIOUS
    <3>2. g.unit[u].n = count /\ RowsRight(u, g.unit[u], tokens, count)
      BY <2>2, <3>1, Zenon DEF RowsRight, Pools
    <3>3. RowsRight(u, g.unit[u], tokens, g.unit[u].n)
      BY <3>2, Zenon
    <3> QED BY <1>1, <3>1, <3>2, <3>3, Zenon DEF RowsExact
  <2>4. StateExact(u)
    <3>1. PICK state : state = g.unit[u].state
      OBVIOUS
    <3>2. WindowShows(u, state, tokens, n)
      BY <2>2, <3>1, Zenon
    <3>3. NextPooled(u, state, tokens, n)
      BY <3>2, PendingAll, Zenon
    <3> QED BY <1>1, <3>1, <3>3, Zenon DEF StateExact, NextPooled
  <2> QED BY <2>3, <2>4
<1> QED BY <1>3, <1>4

(* The invariant has the property.                                         *)
LEMMA ImpliesGraphExact == IInv => GraphExact
<1> SUFFICES ASSUME MtpInv PROVE GraphExact
  BY Zenon DEF IInv
<1>1. TypeOK
  <2>1. ASSUME NEW l \in Layer PROVE DOMAIN g.raw[l] = 0..(RawCap - 1)
    <3>1. g.raw[l] \in Rings
      BY Typed, GraphParts, Zenon
    <3> QED BY <3>1 DEF Rings
  <2>2. ASSUME NEW u \in Unit
        PROVE  /\ g.unit[u].n \in 0..CompCap
               /\ DOMAIN g.unit[u].rows = 0..(CompCap - 1) /\ DOMAIN g.unit[u].state = DOMAIN Empty(u)
    <3>1. g.unit[u] \in Compressor(u)
      BY Typed, GraphParts, Zenon
    <3> QED BY <3>1, UnitFacts DEF Compressor, Counted, Windows
  <2> QED BY <2>1, <2>2, Typed, Zenon DEF TypeOK
<1>2. ASSUME Settled PROVE LogitsTrue /\ RawExact /\ \A u \in Unit : RowsExact(u) /\ StateExact(u)
  <2>1. valid /\ Len(tokens) > 0 /\ tokens \in Seq(Token) /\ logits = tokens /\ Exactly(g, tokens)
    BY <1>2, Typed, Zenon DEF Settled
  <2> QED BY <2>1, ExactIs, Zenon DEF LogitsTrue
<1> QED BY <1>1, <1>2, Zenon DEF GraphExact

-----------------------------------------------------------------------------
(* A call that returns with its drafts agreed has spoken as the target.    *)
LEMMA SpokenIs ==
    ASSUME MtpInv, ~Idle, NEW n \in 0..Len(Drafts), Target(n), tokens' = Base \o Upto(Drafts, n)
    PROVE  Speaks
<1>1. /\ SessionTyped /\ CallParts /\ Start \in Nat \ {0} /\ Len(Drafts) \in Nat \ {0} /\ Base[Start] # Eos
      /\ \A i \in 1..(Len(Drafts) - 1) : Drafts[i] # Eos
  BY InCall, CallText DEF CallParts
<1>2. PICK s : s = Base \o Upto(Drafts, n)
  OBVIOUS
<1>3. /\ Len(s) = Start + n /\ Upto(s, Start) = Base
      /\ (\A i \in 1..Start : s[i] = Base[i]) /\ (\A i \in 1..n : s[Start + i] = Drafts[i])
  BY <1>1, <1>2, SomeDrafts, Zenon
<1>4. ASSUME NEW i \in Start..(Len(s) - 1) PROVE s[i + 1] = Choice[i] /\ s[i] # Eos
  <2>1. PICK j \in 1..n : i + 1 = Start + j /\ i = Start + j - 1
    <3>1. i - Start + 1 \in 1..n /\ i + 1 = Start + (i - Start + 1) /\ i = Start + (i - Start + 1) - 1
      BY <1>1, <1>3
    <3> QED BY <3>1
  <2>2. s[i + 1] = Choice[i]
    BY <1>3, <2>1, Zenon DEF Target
  <2>3. s[i] # Eos
    <3>1. CASE j = 1
      <4>1. i = Start /\ Start \in 1..Start
        BY <1>1, <2>1, <3>1
      <4> QED BY <1>1, <1>3, <4>1, Zenon
    <3>2. CASE j # 1
      <4>1. PICK k \in 1..n : i = Start + k /\ k \in 1..(Len(Drafts) - 1)
        <5>1. j - 1 \in 1..n /\ i = Start + (j - 1) /\ j - 1 \in 1..(Len(Drafts) - 1)
          BY <1>1, <2>1, <3>2
        <5> QED BY <5>1
      <4> QED BY <1>1, <1>3, <4>1, Zenon
    <3> QED BY <3>1, <3>2
  <2> QED BY <2>2, <2>3
<1> QED BY <1>2, <1>3, <1>4, Zenon DEF Speaks

(* A call that takes nothing.                                              *)
LEMMA SpokenBase ==
    ASSUME MtpInv, ~Idle, tokens' = Base
    PROVE  Speaks
<1>1. Upto(Base, Start) = Base /\ Len(Base) = Start /\ Start \in Nat
  BY InCall, CallText
<1>2. \A i \in Start..(Len(tokens') - 1) : FALSE
  BY <1>1
<1> QED BY <1>1, <1>2, Zenon DEF Speaks

(* Every step of a call.                                                   *)
LEMMA SpeaksIs == IInv /\ [Next]_vars => Speaks
<1> SUFFICES ASSUME MtpInv, SpecTyped, [Next]_vars, ~Idle, call' = NoCall, valid' = TRUE, taint' = "none" PROVE Speaks
  <2>1. IInv' => valid' \in BOOLEAN
    BY Zenon DEF IInv, MtpInv, SessionTyped
  <2>2. IInv /\ [Next]_vars /\ valid' => valid' = TRUE
    BY <2>1, Steady
  <2> QED BY <2>2, Zenon DEF Speaks, IInv
<1>1. call # NoCall /\ call \in Call /\ SessionTyped /\ CallParts /\ StepParts /\ Len(Drafts) \in Nat \ {0}
  BY InCall, CallText DEF Idle
<1>2. ASSUME NEW step \in Steps, Goto(step) PROVE FALSE
  BY <1>1, <1>2, GotoIs, CallAssumption DEF Stepped
<1>3. CallStep
  BY <1>1, Zenon DEF Next, vars, SyncResume, SyncCold, SyncDecode, SyncDecodeFails, SyncFails, SyncTooShort, Syncable,
     Eval, EvalFails, Speculate, MayEval, Invalidate, Save, Load, LoadFails, Idle
<1>4. call.step = "judge" => JudgeRows
  BY <1>1 DEF StepParts
<1>5. ASSUME NEW n \in 0..Len(Drafts), NEW row, Took(n, row), Target(n) PROVE Speaks
  BY <1>5, SpokenIs, Zenon DEF Took
<1>6. Target(1) /\ 1 \in 0..Len(Drafts) /\ 1 \in 1..Len(Drafts) /\ Len(Drafts) \in 1..Len(Drafts) /\ Len(Drafts) \in 0..Len(Drafts)
  <2>1. 1 \in 0..Len(Drafts) /\ 1 \in 1..Len(Drafts) /\ Len(Drafts) \in 1..Len(Drafts) /\ Len(Drafts) \in 0..Len(Drafts)
    BY <1>1
  <2>2. Drafts[1] = Choice[Start] /\ Start \in Nat
    BY <1>1, CallText DEF CallParts
  <2>3. \A i \in 1..1 : i = 1
    OBVIOUS
  <2>4. Start + 1 - 1 = Start
    BY <2>2
  <2> QED BY <2>1, <2>2, <2>3, <2>4 DEF Target
<1>7. CASE Draft \/ DraftFails
  <2>1. call.step = "draft" /\ tokens' = tokens
    BY <1>7, Zenon DEF Draft, DraftFails, At, session
  <2>2. tokens = Base
    BY <1>1, <2>1 DEF StepParts
  <2> QED BY <2>1, <2>2, SpokenBase
<1>8. CASE SnapshotFrontier \/ SequentialStart
  <2>1. call.step \in {"snapshot", "sequential"} /\ tokens' = tokens
    BY <1>8, Zenon DEF SnapshotFrontier, SequentialStart, At, session
  <2>2. tokens = Base
    BY <1>1, <2>1 DEF StepParts
  <2> QED BY <2>1, <2>2, SpokenBase
<1>9. CASE Restore \/ Undo
  BY <1>9, SpokenBase, Zenon DEF Restore, Undo
<1>10. CASE MarginSkip
  BY <1>5, <1>6, <1>10, Zenon DEF MarginSkip, Failed
<1>11. CASE Verify
  BY <1>11, VerifyIs
<1>12. "undo" \in Steps
  BY DEF Steps
<1>13. GiveUp => FALSE
  BY <1>2, <1>12, Zenon DEF GiveUp, Failed
<1>14. CASE VerifyFails
  BY <1>13, <1>14, Zenon DEF VerifyFails
<1>15. ASSUME NEW m \in 1..Len(Drafts), call' = [call EXCEPT !.step = "restore", !.seen = m] PROVE FALSE
  <2>1. m \in Nat
    BY <1>1
  <2>2. call \in Call
    BY <1>1
  <2>3. call' \in Call
    BY <1>15, <2>1, <2>2 DEF Call, Steps
  <2> QED BY <2>3, CallAssumption
<1>16. CASE AcceptAll
  <2>1. call.step = "judge" /\ Agreed(Len(Drafts))
    BY <1>16 DEF AcceptAll, At
  <2>2. Target(Len(Drafts))
    BY <1>4, <1>6, <2>1, AgreedTarget
  <2> QED BY <1>5, <1>6, <1>15, <1>16, <2>2, Zenon DEF AcceptAll, Failed
<1>17. CASE CommitPrefix1
  BY <1>5, <1>6, <1>13, <1>17, Zenon DEF CommitPrefix1
<1>18. ASSUME NEW m \in 1..Depth, Partial(m) PROVE Speaks
  <2>1. m \in 1..Len(Drafts) /\ call' = [call EXCEPT !.step = "restore", !.seen = m]
    BY <1>1, <1>18, MtpAssumption DEF Partial
  <2> QED BY <1>15, <2>1
<1>19. CASE Replay
  <2>1. SeenSome
    BY <1>1, <1>19 DEF StepParts, Replay, At
  <2>2. call.seen \in 0..Len(Drafts) /\ Target(call.seen)
    BY <1>1, <2>1 DEF SeenSome
  <2>3. Took(1, LogitsOf(Decode(g, Base \o Upto(Drafts, call.seen)), Base \o Upto(Drafts, call.seen))) \/ \E row : Took(call.seen, row)
    BY <1>2, <1>12, <1>19, Zenon DEF Replay
  <2> QED BY <1>5, <1>6, <2>2, <2>3, Zenon
<1>20. CASE SequentialStep
  BY <1>20, SequentialStepIs
<1>21. CASE SequentialEnd
  <2>1. call.step = "one" /\ tokens' = tokens /\ taint = "none"
    BY <1>21, Zenon DEF SequentialEnd, At
  <2>2. call.seen \in 0..Len(Drafts) /\ tokens = Base \o Upto(Drafts, call.seen) /\ Target(call.seen)
    BY <1>1, <2>1 DEF StepParts
  <2> QED BY <2>1, <2>2, SpokenIs
<1> QED BY <1>3, <1>7, <1>8, <1>9, <1>10, <1>11, <1>14, <1>16, <1>17, <1>18, <1>19, <1>20, <1>21, Zenon DEF CallStep

-----------------------------------------------------------------------------
-----------------------------------------------------------------------------
(* The reference path.  A compressor of the CPU stands for one of the      *)
(* graph: the same state, its rows as a sequence.                          *)
Kept(u) == Windows(u) \cup {NoRow}

Stands(u, c, d) ==
    /\ c = [rows |-> c.rows, state |-> d.state]
    /\ c.rows \in Seq(Kept(u)) /\ Len(c.rows) = d.n
    /\ \A k \in 1..d.n : c.rows[k] = d.rows[k - 1]

CpuUnit(u, c, s, n) == \E d \in Counted(u, Nat) : Stands(u, c, d) /\ UnitShows(u, d, s, n)

(* An empty compressor is that of no tokens.                               *)
LEMMA CpuUnitEmpty ==
    ASSUME NEW u \in Unit, NEW s
    PROVE  CpuUnit(u, [rows |-> <<>>, state |-> Empty(u)], s, 0)
<1> DEFINE e == [rows |-> [k \in 0..(CompCap - 1) |-> NoRow], n |-> 0, state |-> Empty(u)]
           c == [rows |-> <<>>, state |-> Empty(u)]
<1>1. e \in Compressor(u)
  <2>1. Empty(u) \in Windows(u)
    BY UnitFacts DEF Empty, Windows, Rows
  <2>2. 0 \in 0..CompCap
    BY GraphFacts
  <2> QED BY <2>1, <2>2 DEF Compressor, Counted
<1>2. PICK d : d = Seed(u, e, 0) /\ d = e
  BY DEF Seed
<1>3. d \in Counted(u, Nat) /\ UnitShows(u, d, s, 0) /\ d.n = 0 /\ d.state = Empty(u)
  <2>0. e.n = 0 /\ e.state = Empty(u)
    OBVIOUS
  <2> HIDE DEF e
  <2>1. 0 \in Nat
    OBVIOUS
  <2>2. /\ Seed(u, e, 0) \in Counted(u, Nat) /\ \A t : UnitShows(u, Seed(u, e, 0), t, 0)
    BY <1>1, <2>1, SeedIs
  <2> QED BY <1>2, <2>0, <2>2, Zenon
<1>4. Stands(u, c, d)
  <2>1. c.rows = <<>> /\ c.state = d.state /\ c = [rows |-> c.rows, state |-> d.state]
    BY <1>3
  <2>2. <<>> \in Seq(Kept(u)) /\ Len(<<>>) = 0 /\ \A k \in 1..0 : FALSE
    OBVIOUS
  <2> HIDE DEF c
  <2> QED BY <1>3, <2>1, <2>2 DEF Stands
<1> QED BY <1>3, <1>4, Zenon DEF CpuUnit, c

OneMade(R, c, p, st) ==
    IF (p + 1) % R # 0 THEN [c EXCEPT !.state = st]
    ELSE [rows |-> Append(c.rows, st),
          state |-> IF R = 4 THEN [r \in DOMAIN st |-> IF r < R THEN st[R + r] ELSE st[r]] ELSE st]

(* A token does to it what it does to the one of the graph.                *)
LEMMA OneStands ==
    ASSUME NEW u \in Unit, NEW d \in Counted(u, Nat), NEW c, Stands(u, c, d), NEW p \in Nat, NEW row \in Rows,
           Closes(u, p) => d.n < CompCap
    PROVE  Stands(u, CompressorOne(u, c, p, row), Update(u, d, p, row))
<1>1. PICK R \in Nat \ {0, 1, 2} : R = RatioOf(u) /\ StateRows(u) = IF R = 4 THEN 8 ELSE R
  BY UnitFacts
<1>2. PICK st \in Windows(u) : st = Stored(u, d.state, p, row)
  <2>1. d.state \in Windows(u)
    BY DEF Counted
  <2> QED BY <2>1, StoredIs
<1>3. DOMAIN st = 0..(StateRows(u) - 1)
  BY DEF Windows
<1> DEFINE kept == [r \in DOMAIN st |-> IF r < R THEN st[R + r] ELSE st[r]]
           next == IF R = 4 THEN kept ELSE st
<1>4. c.state = d.state /\ c = [rows |-> c.rows, state |-> d.state] /\ c.rows \in Seq(Kept(u))
  BY DEF Stands
<1>5. [c.state EXCEPT ![(IF R = 4 THEN R ELSE 0) + (p % R)] = row] = st
  <2>1. CASE R = 4
    BY <1>1, <1>2, <1>4, <2>1 DEF Stored
  <2>2. CASE R # 4
    <3>0. p % R \in 0..(R - 1)
      BY <1>1, DivMod
    <3>1. p % R \in Nat /\ 0 + (p % R) = p % R
      BY <1>1, <3>0
    <3> QED BY <1>1, <1>2, <1>4, <2>2, <3>1 DEF Stored
  <2> QED BY <2>1, <2>2
<1>6. PICK e : e = CompressorOne(u, c, p, row)
  OBVIOUS
<1>7. e = IF (p + 1) % R # 0 THEN [c EXCEPT !.state = st] ELSE [rows |-> Append(c.rows, st), state |-> next]
  <2>1. e = OneMade(RatioOf(u), c, p,
                    [c.state EXCEPT ![(IF RatioOf(u) = 4 THEN RatioOf(u) ELSE 0) + (p % RatioOf(u))] = row])
    BY <1>6 DEF CompressorOne, OneMade
  <2>2. e = OneMade(R, c, p, st)
    BY <1>1, <1>5, <2>1, Zenon
  <2> QED BY <2>2 DEF OneMade
<1>8. PICK f : f = Update(u, d, p, row) /\ f \in Counted(u, Nat)
               /\ (~Closes(u, p) => UpdateOpen(u, d, p, row, f)) /\ (Closes(u, p) => UpdateClosed(u, d, p, row, f))
  <2>1. Nat \in SUBSET Nat
    OBVIOUS
  <2> QED BY <2>1, UpdateIs
<1>9. CASE ~Closes(u, p)
  <2>1. (p + 1) % R # 0
    BY <1>1, <1>9 DEF Closes
  <2>2. f.rows = d.rows /\ f.n = d.n /\ f.state = st
    BY <1>2, <1>8, <1>9, Zenon DEF UpdateOpen
  <2>3. e = [rows |-> c.rows, state |-> f.state] /\ e.rows = c.rows
    BY <1>4, <1>7, <2>1, <2>2
  <2> QED BY <1>6, <1>8, <2>2, <2>3, Zenon DEF Stands
<1>10. CASE Closes(u, p)
  <2>1. (p + 1) % R = 0
    BY <1>1, <1>10 DEF Closes
  <2>2. /\ f.n = d.n + 1 /\ \A k \in 0..(CompCap - 1) : f.rows[k] = IF k = d.n THEN st ELSE d.rows[k]
        /\ R # 4 => f.state = st
        /\ R = 4 => \A r \in 0..7 : f.state[r] = st[4 + (r % 4)]
    BY <1>1, <1>2, <1>8, <1>10, Zenon DEF UpdateClosed
  <2>3. f.state = next
    <3>1. CASE R # 4
      BY <2>2, <3>1
    <3>2. CASE R = 4
      <4>1. f.state \in Windows(u) /\ StateRows(u) = 8
        BY <1>1, <1>8, <3>2 DEF Counted
      <4>2. DOMAIN f.state = 0..7 /\ f.state = [r \in 0..7 |-> f.state[r]] /\ DOMAIN st = 0..7
        BY <1>3, <4>1 DEF Windows
      <4>3. ASSUME NEW r \in 0..7 PROVE f.state[r] = IF r < 4 THEN st[4 + r] ELSE st[r]
        <5>1. 4 + (r % 4) = IF r < 4 THEN 4 + r ELSE r
          OBVIOUS
        <5>2. f.state[r] = st[4 + (r % 4)]
          BY <2>2, <3>2
        <5> QED BY <5>1, <5>2
      <4>4. kept = [r \in 0..7 |-> IF r < 4 THEN st[4 + r] ELSE st[r]]
        BY <3>2, <4>2
      <4> HIDE DEF kept
      <4>5. f.state = kept
        BY <4>2, <4>3, <4>4
      <4> QED BY <3>2, <4>5
    <3> QED BY <3>1, <3>2
  <2> HIDE DEF next, kept
  <2>4. e = [rows |-> Append(c.rows, st), state |-> f.state]
    BY <1>7, <2>1, <2>3, Zenon
  <2>5. PICK rows : rows = Append(c.rows, st)
    OBVIOUS
  <2>6. st \in Kept(u) /\ d.n \in Nat /\ d.n < CompCap /\ CompCap \in Nat
    BY <1>10, GraphFacts DEF Kept, Counted
  <2>7. /\ rows \in Seq(Kept(u)) /\ Len(rows) = d.n + 1 /\ rows[d.n + 1] = st
        /\ \A k \in 1..d.n : rows[k] = c.rows[k]
    <3>1. Len(c.rows) = d.n
      BY DEF Stands
    <3> QED BY <1>4, <2>5, <2>6, <3>1
  <2>8. ASSUME NEW k \in 1..(d.n + 1) PROVE rows[k] = f.rows[k - 1]
    <3>1. k - 1 \in 0..(CompCap - 1)
      BY <2>6
    <3>2. CASE k = d.n + 1
      <4>1. k - 1 = d.n
        BY <2>6, <3>2
      <4> QED BY <2>2, <2>7, <3>1, <3>2, <4>1
    <3>3. CASE k # d.n + 1
      <4>1. k \in 1..d.n /\ k - 1 # d.n
        BY <2>6, <3>3
      <4>2. c.rows[k] = d.rows[k - 1]
        BY <4>1 DEF Stands
      <4> QED BY <2>2, <2>7, <3>1, <4>1, <4>2
    <3> QED BY <3>2, <3>3
  <2>9. e.rows = rows /\ e = [rows |-> e.rows, state |-> f.state]
    BY <2>4, <2>5
  <2> QED BY <1>6, <1>8, <2>2, <2>7, <2>8, <2>9, Zenon DEF Stands
<1> QED BY <1>9, <1>10

(* A token through a compressor of the CPU.                                *)
LEMMA CpuUnitNext ==
    ASSUME NEW u \in Unit, NEW c, NEW s, NEW n \in Nat, RowOf(s, n) \in Rows, CpuUnit(u, c, s, n),
           (n + 1) \div RatioOf(u) <= CompCap
    PROVE  CpuUnit(u, CompressorOne(u, c, n, RowOf(s, n)), s, n + 1)
<1>1. PICK d \in Counted(u, Nat) : Stands(u, c, d) /\ UnitShows(u, d, s, n)
  BY Zenon DEF CpuUnit
<1>2. UnitShows(u, Update(u, d, n, RowOf(s, n)), s, n + 1)
  BY <1>1, UpdateShows
<1>3. Update(u, d, n, RowOf(s, n)) \in Counted(u, Nat)
  <2>1. Nat \in SUBSET Nat
    OBVIOUS
  <2> QED BY <2>1, UpdateIs
<1>4. Closes(u, n) => d.n < CompCap
  <2>1. d.n = n \div RatioOf(u)
    BY <1>1, Zenon DEF UnitShows
  <2>2. Closes(u, n) => (n + 1) \div RatioOf(u) = n \div RatioOf(u) + 1
    BY ClosesIs
  <2>3. n \div RatioOf(u) \in Nat /\ CompCap \in Nat
    BY ClosesIs, GraphFacts
  <2> QED BY <2>1, <2>2, <2>3
<1>5. Stands(u, CompressorOne(u, c, n, RowOf(s, n)), Update(u, d, n, RowOf(s, n)))
  BY <1>1, <1>4, OneStands
<1> QED BY <1>2, <1>3, <1>5, Zenon DEF CpuUnit


(* Its rows, in the words of the attention that reads them.                *)
LEMMA CpuUnitRows ==
    ASSUME NEW u \in Unit, NEW c, NEW s, NEW t, NEW n \in Nat, CpuUnit(u, c, s, n), Agree(s, t, n)
    PROVE  /\ c.rows = [k \in 1..(n \div RatioOf(u)) |-> CompRowOf(u, t, k - 1)]
           /\ Len(c.rows) = n \div RatioOf(u)
<1>1. PICK d \in Counted(u, Nat) : Stands(u, c, d) /\ UnitShows(u, d, s, n)
  BY Zenon DEF CpuUnit
<1>2. PICK q \in Nat : q = n \div RatioOf(u)
  BY ClosesIs
<1>3. d.n = q /\ Pools(u, d, s, q)
  BY <1>1, <1>2, Zenon DEF UnitShows
<1>4. PICK rows \in Seq(Kept(u)) : rows = c.rows /\ Len(rows) = q /\ \A k \in 1..q : rows[k] = d.rows[k - 1]
  BY <1>1, <1>3 DEF Stands
<1>5. ASSUME NEW k \in 1..q PROVE rows[k] = CompRowOf(u, t, k - 1)
  <2>1. k - 1 \in 0..(q - 1)
    BY <1>2
  <2>2. d.rows[k - 1] = CompRowOf(u, s, k - 1)
    BY <1>3, <2>1, Zenon DEF Pools
  <2>3. CompRowOf(u, s, k - 1) = CompRowOf(u, t, k - 1)
    BY <1>2, <2>1, CompRowKept
  <2> QED BY <1>4, <2>2, <2>3
<1>6. rows = [k \in 1..q |-> rows[k]]
  BY <1>4
<1>7. rows = [k \in 1..q |-> CompRowOf(u, t, k - 1)]
  BY <1>5, <1>6, Zenon
<1> QED BY <1>2, <1>4, <1>7, Zenon

(* The raw rows: the last ones, as many as are kept.                       *)
CpuRaw(raw, s, n) ==
    LET m == Least(CpuRawCap, n) IN
    raw \in Seq(Rows) /\ Len(raw) = m /\ \A i \in 1..m : raw[i] = RowOf(s, n - m + i - 1)

(* At least one raw row is kept, and no more than a window of them.        *)
LEMMA CpuRawCapIs == CpuRawCap \in Nat \ {0} /\ CpuRawCap <= Window
<1>1. Window \in Nat \ {0} /\ Ctx \in Nat \ {0}
  BY GraphFacts, MtpAssumption
<1> QED BY <1>1 DEF CpuRawCap, Least

(* A new row comes last, and one goes when there were enough.              *)
LEMMA PushRawIs ==
    ASSUME NEW raw, NEW s, NEW n \in Nat, CpuRaw(raw, s, n), RowOf(s, n) \in Rows
    PROVE  CpuRaw(PushRaw(raw, RowOf(s, n)), s, n + 1)
<1>1. PICK W \in Nat \ {0} : W = CpuRawCap
  BY CpuRawCapIs
<1>2. PICK m : m = Least(W, n)
  OBVIOUS
<1>3. raw \in Seq(Rows) /\ Len(raw) = m /\ \A i \in 1..m : raw[i] = RowOf(s, n - m + i - 1)
  BY <1>1, <1>2, Zenon DEF CpuRaw
<1>4. PICK row \in Rows : row = RowOf(s, n)
  OBVIOUS
<1>5. CASE n < W
  <2>1. m = n /\ Least(W, n + 1) = n + 1
    BY <1>2, <1>5 DEF Least
  <2>2. PICK e : e = Append(raw, row)
    OBVIOUS
  <2>3. PushRaw(raw, RowOf(s, n)) = e
    BY <1>1, <1>3, <1>4, <1>5, <2>1, <2>2 DEF PushRaw
  <2>4. e \in Seq(Rows) /\ Len(e) = n + 1 /\ e[n + 1] = row /\ \A i \in 1..n : e[i] = raw[i]
    BY <1>3, <2>1, <2>2
  <2>5. ASSUME NEW i \in 1..(n + 1) PROVE e[i] = RowOf(s, (n + 1) - (n + 1) + i - 1)
    <3>1. (n + 1) - (n + 1) + i - 1 = i - 1
      OBVIOUS
    <3>2. CASE i = n + 1
      <4>1. i - 1 = n
        BY <3>2
      <4>2. e[i] = row
        BY <2>4, <3>2
      <4> QED BY <1>4, <3>1, <4>1, <4>2
    <3>3. CASE i # n + 1
      <4>1. i \in 1..n
        BY <3>3
      <4>2. n - n + i - 1 = i - 1
        OBVIOUS
      <4>3. raw[i] = RowOf(s, i - 1)
        BY <1>3, <2>1, <4>1, <4>2
      <4> QED BY <2>4, <3>1, <4>1, <4>3
    <3> QED BY <3>2, <3>3
  <2>6. CpuRaw(e, s, n + 1)
    BY <1>1, <2>1, <2>4, <2>5, Zenon DEF CpuRaw
  <2> QED BY <2>3, <2>6
<1>6. CASE ~(n < W)
  <2>1. m = W /\ Least(W, n + 1) = W /\ W <= n
    BY <1>2, <1>6 DEF Least
  <2>2. PICK e : e = Append(Tail(raw), row)
    OBVIOUS
  <2>3. PushRaw(raw, RowOf(s, n)) = e
    BY <1>1, <1>3, <1>4, <2>1, <2>2 DEF PushRaw
  <2>4. raw # <<>> /\ Len(raw) = W
    BY <1>3, <2>1
  <2>5. PICK q \in Seq(Rows) : q = Tail(raw) /\ Len(q) = W - 1 /\ \A i \in 1..(W - 1) : q[i] = raw[i + 1]
    <3>1. Tail(raw) \in Seq(Rows)
      BY <1>3, <2>4
    <3>2. Len(Tail(raw)) = W - 1
      BY <1>3, <2>4
    <3>3. \A i \in 1..(W - 1) : Tail(raw)[i] = raw[i + 1]
      BY <1>3, <2>4
    <3> QED BY <3>1, <3>2, <3>3
  <2>6. e \in Seq(Rows) /\ Len(e) = W /\ e[W] = row /\ \A i \in 1..(W - 1) : e[i] = raw[i + 1]
    BY <2>2, <2>5
  <2>7. ASSUME NEW i \in 1..W PROVE e[i] = RowOf(s, (n + 1) - W + i - 1)
    <3>1. CASE i = W
      <4>1. (n + 1) - W + i - 1 = n
        BY <3>1
      <4>2. e[i] = row
        BY <2>6, <3>1
      <4> QED BY <1>4, <4>1, <4>2
    <3>2. CASE i # W
      <4>1. i \in 1..(W - 1) /\ i + 1 \in 1..W /\ n - W + (i + 1) - 1 = (n + 1) - W + i - 1
        BY <3>2
      <4>2. raw[i + 1] = RowOf(s, n - W + (i + 1) - 1)
        BY <1>3, <2>1, <4>1
      <4> QED BY <2>6, <4>1, <4>2
    <3> QED BY <3>1, <3>2
  <2>8. CpuRaw(e, s, n + 1)
    BY <1>1, <2>1, <2>6, <2>7, Zenon DEF CpuRaw
  <2> QED BY <2>3, <2>8
<1> QED BY <1>5, <1>6

(* The raw rows, in the words of the attention that reads them.            *)
LEMMA CpuRawRows ==
    ASSUME NEW raw, NEW s, NEW t, NEW n \in Nat, CpuRaw(raw, s, n), Agree(s, t, n)
    PROVE  raw = [i \in 1..Least(CpuRawCap, n) |-> RowOf(t, n - Least(CpuRawCap, n) + i - 1)]
<1>1. PICK m \in Nat : m = Least(CpuRawCap, n) /\ m <= n
  BY CpuRawCapIs DEF Least
<1>2. raw \in Seq(Rows) /\ Len(raw) = m /\ \A i \in 1..m : raw[i] = RowOf(s, n - m + i - 1)
  BY <1>1, Zenon DEF CpuRaw
<1>3. ASSUME NEW i \in 1..m PROVE raw[i] = RowOf(t, n - m + i - 1)
  <2>1. n - m + i - 1 \in 0..(n - 1)
    BY <1>1
  <2>2. RowOf(s, n - m + i - 1) = RowOf(t, n - m + i - 1)
    BY <2>1 DEF Agree
  <2> QED BY <1>2, <2>2
<1>4. raw = [i \in 1..m |-> raw[i]]
  BY <1>2
<1>5. raw = [i \in 1..m |-> RowOf(t, n - m + i - 1)]
  BY <1>3, <1>4, Zenon
<1> QED BY <1>1, <1>5, Zenon


(* A cache whose layer l has the first depth[l] tokens of s.               *)
CpuShows(c, l, s, n) ==
    CpuRaw(c.raw[l], s, n) /\ \A u \in Unit : u[1] = l => CpuUnit(u, c.unit[u], s, n)

CpuAt(c, s, depth) ==
    /\ c = [raw |-> c.raw, unit |-> c.unit] /\ DOMAIN c.raw = Layer
    /\ \A l \in Layer : CpuShows(c, l, s, depth[l])

(* A result that is right so far.                                          *)
Well(y, s, depth) ==
    /\ y = [c |-> y.c, ok |-> y.ok, right |-> y.right] /\ y.ok /\ y.right
    /\ CpuAt(y.c, s, depth)

TextFits(s) == \A u \in Unit : Len(s) \div RatioOf(u) <= CompCap

(* No compressor overflows.                                                *)
LEMMA RowsFit ==
    ASSUME NEW u \in Unit, NEW s \in Seq(Token), Len(s) <= Ctx, TextFits(s), NEW n \in 0..Len(s)
    PROVE  n \div RatioOf(u) <= CompCap /\ n \div RatioOf(u) <= CpuCompCap(u)
<1>1. PICK R \in Nat \ {0} : R = RatioOf(u)
  BY UnitFacts
<1>2. PICK m \in Nat : m = Len(s) /\ n \in Nat /\ n <= m /\ m <= Ctx /\ Ctx \in Nat
  BY GraphFacts
<1>3. n \div R <= m \div R /\ n \div R <= Ctx \div R
  <2>1. n <= Ctx
    BY <1>2
  <2> QED BY <1>1, <1>2, <2>1, QuotientOrder
<1>4. n \div R \in Nat /\ m \div R \in Nat /\ Ctx \div R \in Nat /\ CompCap \in Nat
  BY <1>1, <1>2, DivMod, GraphFacts
<1>5. m \div R <= CompCap
  BY <1>1, <1>2 DEF TextFits
<1>6. n \div R <= CompCap
  BY <1>3, <1>4, <1>5
<1>7. n \div R <= (Ctx \div R) + 2
  BY <1>3, <1>4
<1> QED BY <1>1, <1>6, <1>7 DEF CpuCompCap

(* What CpuLayer does, by its parts.                                       *)
CpuLayerParts(x, l, t, row, y) ==
    /\ y = [c |-> y.c, ok |-> y.ok, right |-> y.right] /\ y.c = [raw |-> y.c.raw, unit |-> y.c.unit]
    /\ y.c.raw = [x.c.raw EXCEPT ![l] = PushRaw(x.c.raw[l], row)]
    /\ y.c.unit = [u \in Unit |-> IF u[1] = l THEN CompressorOne(u, x.c.unit[u], Len(t) - 1, row) ELSE x.c.unit[u]]
    /\ y.ok = (x.ok /\ \A u \in Unit : Len(y.c.unit[u].rows) <= CpuCompCap(u))
    /\ y.right = (x.right /\ CpuRight(PushRaw(x.c.raw[l], row), y.c.unit, l, t))

(* A token through a layer, part by part.                                  *)
LEMMA CpuLayerIs ==
    ASSUME NEW x, x.right, NEW l, NEW t
    PROVE  CpuLayerParts(x, l, t, RowOf(t, Len(t) - 1), CpuLayer(x, l, t))
<1> DEFINE row == RowOf(t, Len(t) - 1)
           raw == PushRaw(x.c.raw[l], row)
           unit == [u \in Unit |-> IF u[1] = l THEN CompressorOne(u, x.c.unit[u], Len(t) - 1, row) ELSE x.c.unit[u]]
           c == [raw |-> [x.c.raw EXCEPT ![l] = raw], unit |-> unit]
           ok == x.ok /\ \A u \in Unit : Len(unit[u].rows) <= CpuCompCap(u)
           right == x.right /\ CpuRight(raw, unit, l, t)
<1>1. CpuLayer(x, l, t) = [c |-> c, ok |-> ok, right |-> right]
  BY DEF CpuLayer
<1>2. c.raw = [x.c.raw EXCEPT ![l] = raw] /\ c.unit = unit
  OBVIOUS
<1>5. c = [raw |-> c.raw, unit |-> c.unit]
  BY <1>2
<1> HIDE DEF c, row
<1>3. /\ CpuLayer(x, l, t).c = c
      /\ CpuLayer(x, l, t).ok = ok
      /\ CpuLayer(x, l, t).right = right
  <2> HIDE DEF ok, right
  <2> QED BY <1>1
<1>6. CpuLayer(x, l, t) = [c |-> CpuLayer(x, l, t).c, ok |-> CpuLayer(x, l, t).ok, right |-> CpuLayer(x, l, t).right]
  <2> HIDE DEF ok, right
  <2> QED BY <1>1
<1> HIDE DEF raw
<1>4. CpuLayer(x, l, t).c.raw = [x.c.raw EXCEPT ![l] = raw] /\ CpuLayer(x, l, t).c.unit = unit
  BY <1>2, <1>3, Zenon
<1> HIDE DEF unit
<1> QED BY <1>3, <1>4, <1>5, <1>6, Zenon DEF CpuLayerParts, row, raw, unit

CpuDeeper(depth, l) == [depth EXCEPT ![l] = depth[l] + 1]

(* The next token through a layer: it reads its own rows, and the layer    *)
(* has one token more.                                                     *)
LEMMA CpuLayerNext ==
    ASSUME NEW s \in Seq(Token), Len(s) <= Ctx, TextFits(s), NEW l \in Layer,
           NEW depth \in [Layer -> 0..Len(s)], depth[l] < Len(s),
           NEW x, x.ok, x.right, CpuAt(x.c, s, depth),
           NEW y, y = CpuLayer(x, l, Upto(s, depth[l] + 1))
    PROVE  Well(y, s, CpuDeeper(depth, l))
<1>1. PICK n \in Nat : n = depth[l] /\ n + 1 \in 0..Len(s) /\ n \in 0..(Len(s) - 1)
  OBVIOUS
<1>2. PICK t \in Seq(Token) : t = Upto(s, n + 1) /\ Len(t) = n + 1 /\ Len(t) - 1 = n
  <2>1. PICK k \in 0..Len(s) : k = n + 1 /\ k - 1 = n
    BY <1>1
  <2>2. Upto(s, k) \in Seq(Token) /\ Len(Upto(s, k)) = k
    BY UptoIs, Zenon
  <2> QED BY <2>1, <2>2, Zenon
<1>3. Agree(t, s, n + 1)
  BY <1>1, <1>2, AgreeUpto, Zenon
<1>4. PICK row \in Rows : row = RowOf(t, n) /\ row = RowOf(s, n)
  <2>1. RowOf(t, n) = RowOf(s, n)
    <3>1. n \in 0..((n + 1) - 1)
      BY <1>1
    <3> QED BY <1>3, <3>1 DEF Agree
  <2>2. RowOf(s, n) \in Seq(Token)
    BY <1>1, RowOfType
  <2> QED BY <2>1, <2>2 DEF Rows
<1>5. CpuLayerParts(x, l, t, row, y)
  <2>1. CpuLayerParts(x, l, t, RowOf(t, Len(t) - 1), CpuLayer(x, l, t))
    BY CpuLayerIs
  <2> QED BY <1>1, <1>2, <1>4, <2>1, Zenon
<1>6. PICK raw : raw = PushRaw(x.c.raw[l], row) /\ y.c.raw = [x.c.raw EXCEPT ![l] = raw] /\ DOMAIN x.c.raw = Layer
  BY <1>5, Zenon DEF CpuLayerParts, CpuAt
<1>7. y.c.raw[l] = raw /\ DOMAIN y.c.raw = Layer /\ \A m \in Layer : m # l => y.c.raw[m] = x.c.raw[m]
  BY <1>6
<1>8. ASSUME NEW u \in Unit
      PROVE  y.c.unit[u] = IF u[1] = l THEN CompressorOne(u, x.c.unit[u], n, row) ELSE x.c.unit[u]
  <2>1. y.c.unit = [v \in Unit |-> IF v[1] = l THEN CompressorOne(v, x.c.unit[v], Len(t) - 1, row) ELSE x.c.unit[v]]
    BY <1>5, Zenon DEF CpuLayerParts
  <2>2. y.c.unit[u] = IF u[1] = l THEN CompressorOne(u, x.c.unit[u], Len(t) - 1, row) ELSE x.c.unit[u]
    BY <2>1, Zenon
  <2> QED BY <1>2, <2>2, Zenon
<1>9. CpuRaw(raw, s, n + 1)
  <2>1. CpuRaw(x.c.raw[l], s, n)
    BY <1>1, Zenon DEF CpuAt, CpuShows
  <2>2. RowOf(s, n) \in Rows
    BY <1>4
  <2>3. CpuRaw(PushRaw(x.c.raw[l], RowOf(s, n)), s, n + 1)
    BY <2>1, <2>2, PushRawIs
  <2> QED BY <1>4, <1>6, <2>3, Zenon
<1>10. ASSUME NEW u \in Unit, u[1] = l PROVE CpuUnit(u, y.c.unit[u], s, n + 1)
  <2>1. CpuUnit(u, x.c.unit[u], s, n)
    BY <1>1, <1>10, Zenon DEF CpuAt, CpuShows
  <2>2. RowOf(s, n) \in Rows /\ (n + 1) \div RatioOf(u) <= CompCap
    BY <1>1, <1>4, RowsFit
  <2>3. CpuUnit(u, CompressorOne(u, x.c.unit[u], n, RowOf(s, n)), s, n + 1)
    BY <2>1, <2>2, CpuUnitNext
  <2> QED BY <1>4, <1>8, <1>10, <2>3, Zenon
<1>11. PICK deeper : /\ deeper = CpuDeeper(depth, l) /\ deeper[l] = n + 1 /\ deeper \in [Layer -> 0..Len(s)]
                     /\ \A m \in Layer : m # l => deeper[m] = depth[m]
  <2>1. CpuDeeper(depth, l) = [depth EXCEPT ![l] = n + 1]
    BY <1>1 DEF CpuDeeper
  <2> QED BY <1>1, <2>1
<1>12. ASSUME NEW m \in Layer PROVE CpuShows(y.c, m, s, deeper[m])
  <2>1. CASE m = l
    BY <1>7, <1>9, <1>10, <1>11, <2>1, Zenon DEF CpuShows
  <2>2. CASE m # l
    <3>1. CpuShows(x.c, m, s, depth[m])
      BY Zenon DEF CpuAt
    <3>2. \A u \in Unit : u[1] = m => y.c.unit[u] = x.c.unit[u]
      BY <1>8, <2>2, Zenon
    <3> QED BY <1>7, <1>11, <2>2, <3>1, <3>2, Zenon DEF CpuShows
  <2> QED BY <2>1, <2>2
<1>13. CpuAt(y.c, s, deeper)
  BY <1>5, <1>7, <1>12, Zenon DEF CpuAt, CpuLayerParts
<1>14. y.ok
  <2>1. ASSUME NEW u \in Unit PROVE Len(y.c.unit[u].rows) <= CpuCompCap(u)
    <3>1. u[1] \in Layer
      BY UnitFacts
    <3>2. PICK k \in 0..Len(s) : k = deeper[u[1]]
      BY <1>11, <3>1
    <3>3. CpuUnit(u, y.c.unit[u], s, k)
      BY <1>12, <3>1, <3>2, Zenon DEF CpuShows
    <3>4. k \in Nat
      OBVIOUS
    <3>5. Agree(s, s, k)
      BY DEF Agree
    <3>6. Len(y.c.unit[u].rows) = k \div RatioOf(u)
      BY <3>3, <3>4, <3>5, CpuUnitRows
    <3>7. k \div RatioOf(u) <= CpuCompCap(u)
      BY RowsFit
    <3> QED BY <3>6, <3>7, Zenon
  <2> QED BY <1>5, <2>1, Zenon DEF CpuLayerParts
<1>15. y.right
  <2>1. PICK N \in Nat : N = n + 1 /\ N = Len(t)
    BY <1>2
  <2>2. Agree(s, t, N)
    BY <1>3, <2>1, Zenon DEF Agree
  <2>3. raw = [i \in 1..Least(CpuRawCap, N) |-> RowOf(t, N - Least(CpuRawCap, N) + i - 1)]
    BY <1>9, <2>1, <2>2, CpuRawRows
  <2>4. ASSUME NEW u \in Unit, u[1] = l
        PROVE  y.c.unit[u].rows = [k \in 1..(N \div RatioOf(u)) |-> CompRowOf(u, t, k - 1)]
    <3>1. CpuUnit(u, y.c.unit[u], s, N)
      BY <1>10, <2>1, <2>4, Zenon
    <3> QED BY <2>2, <3>1, CpuUnitRows
  <2>5. CpuRight(raw, y.c.unit, l, t)
    BY <2>1, <2>3, <2>4, Zenon DEF CpuRight
  <2> QED BY <1>5, <1>6, <2>5, Zenon DEF CpuLayerParts
<1>16. y = [c |-> y.c, ok |-> y.ok, right |-> y.right]
  BY <1>5, Zenon DEF CpuLayerParts
<1> QED BY <1>11, <1>13, <1>14, <1>15, <1>16, Zenon DEF Well


(* One token through every layer, layer by layer.                          *)
IsForward(f, c, s) ==
    /\ CpuForward(c, s) = f[Layers]
    /\ f[0] = [c |-> c, ok |-> TRUE, right |-> TRUE]
    /\ \A l \in (0 + 1)..Layers : f[l] = CpuLayer(f[l - 1], l, s)

(* The recursive function of CpuForward, step by step.                     *)
LEMMA ForwardUnfold ==
    ASSUME NEW c, NEW s
    PROVE  \E f : IsForward(f, c, s)
<1> DEFINE base == [c |-> c, ok |-> TRUE, right |-> TRUE]
           Body(f, k) == IF k = 0 THEN base ELSE CpuLayer(f[k - 1], k, s)
           Solves(f, m) == f = [k \in 0..m |-> Body(f, k)]
           T == {j \in Nat : \E f : Solves(f, 0 + j)}
<1> HIDE DEF base
<1>0. 0 \in Nat /\ Layers \in Nat /\ 0 <= Layers
  BY GraphFacts
<1>1. 0 \in T
  <2> DEFINE f == [k \in 0..(0 + 0) |-> base]
  <2>1. \A k \in 0..(0 + 0) : Body(f, k) = base
    BY <1>0
  <2>2. Solves(f, 0 + 0)
    BY <2>1
  <2> QED BY <2>2
<1>2. ASSUME NEW j \in Nat, j \in T PROVE j + 1 \in T
  <2>0. PICK m \in Nat : m = 0 + j /\ 0 <= m /\ m + 1 = 0 + (j + 1)
    BY <1>0
  <2>1. PICK f : Solves(f, m)
    BY <1>2, <2>0
  <2> DEFINE e == [k \in 0..(m + 1) |-> IF k = m + 1 THEN CpuLayer(f[m], m + 1, s) ELSE f[k]]
  <2>01. \A k \in 0..m : e[k] = f[k]
    BY <1>0, <2>0
  <2>2. \A k \in 0..m : f[k] = Body(f, k) /\ e[k] = f[k]
    <3> HIDE DEF e, Body
    <3> QED BY <2>01, <2>1
  <2>3. e[m + 1] = Body(e, m + 1)
    BY <1>0, <2>0, <2>2
  <2>4. ASSUME NEW k \in 0..m PROVE e[k] = Body(e, k)
    <3>1. k = 0 \/ k - 1 \in 0..m
      BY <1>0
    <3>2. Body(f, k) = Body(e, k)
      BY <2>2, <3>1
    <3> HIDE DEF e, Body
    <3> QED BY <2>2, <3>2
  <2>6. e = [k \in 0..(m + 1) |-> e[k]]
    OBVIOUS
  <2> HIDE DEF e, Body
  <2>5. \A k \in 0..(m + 1) : e[k] = Body(e, k)
    BY <1>0, <2>0, <2>3, <2>4
  <2>7. Solves(e, m + 1)
    BY <2>5, <2>6
  <2> QED BY <2>0, <2>7
<1>3. Layers - 0 \in T
  <2> HIDE DEF T
  <2>1. Layers - 0 \in Nat
    BY <1>0
  <2> QED BY <1>1, <1>2, <2>1, NatInduct
<1> DEFINE F == CHOOSE f : Solves(f, Layers)
<1>4. Solves(F, Layers)
  <2>1. 0 + (Layers - 0) = Layers
    BY <1>0
  <2>2. \E f : Solves(f, Layers)
    BY <1>3, <2>1
  <2> HIDE DEF Solves
  <2> QED BY <2>2
<1>5. CpuForward(c, s) = F[Layers]
  BY DEF CpuForward, base
<1> HIDE DEF F
<1>6. \A k \in 0..Layers : F[k] = Body(F, k)
  BY <1>4
<1>7. F[0] = base
  BY <1>0, <1>6
<1>8. ASSUME NEW k \in (0 + 1)..Layers PROVE F[k] = CpuLayer(F[k - 1], k, s)
  <2>1. k \in 0..Layers /\ k # 0
    BY <1>0
  <2> QED BY <1>6, <2>1
<1> QED BY <1>5, <1>7, <1>8, Zenon DEF IsForward, base

(* The tokens of a prompt through one layer.                               *)
TokenNext(prev, l, s, i) ==
    LET one == CpuLayer([c |-> prev.c, ok |-> prev.ok, right |-> prev.right[i]], l, Upto(s, i)) IN
    [c |-> one.c, ok |-> one.ok, right |-> [prev.right EXCEPT ![i] = one.right]]

LayerTokens(x, l, s) ==
    LET token[i \in 0..Len(s)] == IF i = 0 THEN x ELSE TokenNext(token[i - 1], l, s, i) IN token[Len(s)]

IsTokens(f, x, l, s) ==
    /\ LayerTokens(x, l, s) = f[Len(s)]
    /\ f[0] = x
    /\ \A i \in (0 + 1)..Len(s) : f[i] = TokenNext(f[i - 1], l, s, i)

(* Their recursive function, step by step.                                 *)
LEMMA TokensUnfold ==
    ASSUME NEW x, NEW l, NEW s \in Seq(Token)
    PROVE  \E f : IsTokens(f, x, l, s)
<1> DEFINE base == x
           Body(f, k) == IF k = 0 THEN base ELSE TokenNext(f[k - 1], l, s, k)
           Solves(f, m) == f = [k \in 0..m |-> Body(f, k)]
           T == {j \in Nat : \E f : Solves(f, 0 + j)}
<1> HIDE DEF base
<1>0. 0 \in Nat /\ Len(s) \in Nat /\ 0 <= Len(s)
  OBVIOUS
<1>1. 0 \in T
  <2> DEFINE f == [k \in 0..(0 + 0) |-> base]
  <2>1. \A k \in 0..(0 + 0) : Body(f, k) = base
    BY <1>0
  <2>2. Solves(f, 0 + 0)
    BY <2>1
  <2> QED BY <2>2
<1>2. ASSUME NEW j \in Nat, j \in T PROVE j + 1 \in T
  <2>0. PICK m \in Nat : m = 0 + j /\ 0 <= m /\ m + 1 = 0 + (j + 1)
    BY <1>0
  <2>1. PICK f : Solves(f, m)
    BY <1>2, <2>0
  <2> DEFINE e == [k \in 0..(m + 1) |-> IF k = m + 1 THEN TokenNext(f[m], l, s, m + 1) ELSE f[k]]
  <2>01. \A k \in 0..m : e[k] = f[k]
    BY <1>0, <2>0
  <2>2. \A k \in 0..m : f[k] = Body(f, k) /\ e[k] = f[k]
    <3> HIDE DEF e, Body
    <3> QED BY <2>01, <2>1
  <2>3. e[m + 1] = Body(e, m + 1)
    BY <1>0, <2>0, <2>2
  <2>4. ASSUME NEW k \in 0..m PROVE e[k] = Body(e, k)
    <3>1. k = 0 \/ k - 1 \in 0..m
      BY <1>0
    <3>2. Body(f, k) = Body(e, k)
      BY <2>2, <3>1
    <3> HIDE DEF e, Body
    <3> QED BY <2>2, <3>2
  <2>6. e = [k \in 0..(m + 1) |-> e[k]]
    OBVIOUS
  <2> HIDE DEF e, Body
  <2>5. \A k \in 0..(m + 1) : e[k] = Body(e, k)
    BY <1>0, <2>0, <2>3, <2>4
  <2>7. Solves(e, m + 1)
    BY <2>5, <2>6
  <2> QED BY <2>0, <2>7
<1>3. Len(s) - 0 \in T
  <2> HIDE DEF T
  <2>1. Len(s) - 0 \in Nat
    BY <1>0
  <2> QED BY <1>1, <1>2, <2>1, NatInduct
<1> DEFINE F == CHOOSE f : Solves(f, Len(s))
<1>4. Solves(F, Len(s))
  <2>1. 0 + (Len(s) - 0) = Len(s)
    BY <1>0
  <2>2. \E f : Solves(f, Len(s))
    BY <1>3, <2>1
  <2> HIDE DEF Solves
  <2> QED BY <2>2
<1>5. LayerTokens(x, l, s) = F[Len(s)]
  BY DEF LayerTokens, base
<1> HIDE DEF F
<1>6. \A k \in 0..Len(s) : F[k] = Body(F, k)
  BY <1>4
<1>7. F[0] = base
  BY <1>0, <1>6
<1>8. ASSUME NEW k \in (0 + 1)..Len(s) PROVE F[k] = TokenNext(F[k - 1], l, s, k)
  <2>1. k \in 0..Len(s) /\ k # 0
    BY <1>0
  <2> QED BY <1>6, <2>1
<1> QED BY <1>5, <1>7, <1>8, Zenon DEF IsTokens, base

(* A prompt through one layer after the other.                             *)
PrefillBase(s) == [c |-> NewCpu, ok |-> TRUE, right |-> [i \in 1..Len(s) |-> TRUE]]

LayersTo(s) ==
    LET f[l \in 0..Layers] == IF l = 0 THEN PrefillBase(s) ELSE LayerTokens(f[l - 1], l, s) IN f[Layers]

IsLayers(f, s) ==
    /\ LayersTo(s) = f[Layers]
    /\ f[0] = PrefillBase(s)
    /\ \A l \in (0 + 1)..Layers : f[l] = LayerTokens(f[l - 1], l, s)

(* The recursive function of CpuPrefill, step by step.                     *)
LEMMA LayersUnfold ==
    ASSUME NEW s
    PROVE  \E f : IsLayers(f, s)
<1> DEFINE base == PrefillBase(s)
           Body(f, k) == IF k = 0 THEN base ELSE LayerTokens(f[k - 1], k, s)
           Solves(f, m) == f = [k \in 0..m |-> Body(f, k)]
           T == {j \in Nat : \E f : Solves(f, 0 + j)}
<1> HIDE DEF base
<1>0. 0 \in Nat /\ Layers \in Nat /\ 0 <= Layers
  BY GraphFacts
<1>1. 0 \in T
  <2> DEFINE f == [k \in 0..(0 + 0) |-> base]
  <2>1. \A k \in 0..(0 + 0) : Body(f, k) = base
    BY <1>0
  <2>2. Solves(f, 0 + 0)
    BY <2>1
  <2> QED BY <2>2
<1>2. ASSUME NEW j \in Nat, j \in T PROVE j + 1 \in T
  <2>0. PICK m \in Nat : m = 0 + j /\ 0 <= m /\ m + 1 = 0 + (j + 1)
    BY <1>0
  <2>1. PICK f : Solves(f, m)
    BY <1>2, <2>0
  <2> DEFINE e == [k \in 0..(m + 1) |-> IF k = m + 1 THEN LayerTokens(f[m], m + 1, s) ELSE f[k]]
  <2>01. \A k \in 0..m : e[k] = f[k]
    BY <1>0, <2>0
  <2>2. \A k \in 0..m : f[k] = Body(f, k) /\ e[k] = f[k]
    <3> HIDE DEF e, Body
    <3> QED BY <2>01, <2>1
  <2>3. e[m + 1] = Body(e, m + 1)
    BY <1>0, <2>0, <2>2
  <2>4. ASSUME NEW k \in 0..m PROVE e[k] = Body(e, k)
    <3>1. k = 0 \/ k - 1 \in 0..m
      BY <1>0
    <3>2. Body(f, k) = Body(e, k)
      BY <2>2, <3>1
    <3> HIDE DEF e, Body
    <3> QED BY <2>2, <3>2
  <2>6. e = [k \in 0..(m + 1) |-> e[k]]
    OBVIOUS
  <2> HIDE DEF e, Body
  <2>5. \A k \in 0..(m + 1) : e[k] = Body(e, k)
    BY <1>0, <2>0, <2>3, <2>4
  <2>7. Solves(e, m + 1)
    BY <2>5, <2>6
  <2> QED BY <2>0, <2>7
<1>3. Layers - 0 \in T
  <2> HIDE DEF T
  <2>1. Layers - 0 \in Nat
    BY <1>0
  <2> QED BY <1>1, <1>2, <2>1, NatInduct
<1> DEFINE F == CHOOSE f : Solves(f, Layers)
<1>4. Solves(F, Layers)
  <2>1. 0 + (Layers - 0) = Layers
    BY <1>0
  <2>2. \E f : Solves(f, Layers)
    BY <1>3, <2>1
  <2> HIDE DEF Solves
  <2> QED BY <2>2
<1>5. LayersTo(s) = F[Layers]
  BY DEF LayersTo, base
<1> HIDE DEF F
<1>6. \A k \in 0..Layers : F[k] = Body(F, k)
  BY <1>4
<1>7. F[0] = base
  BY <1>0, <1>6
<1>8. ASSUME NEW k \in (0 + 1)..Layers PROVE F[k] = LayerTokens(F[k - 1], k, s)
  <2>1. k \in 0..Layers /\ k # 0
    BY <1>0
  <2> QED BY <1>6, <2>1
<1> QED BY <1>5, <1>7, <1>8, Zenon DEF IsLayers, base

(* A prompt goes through all layers, and then what is left of windows is    *)
(* emptied.                                                                *)
LEMMA PrefillIs ==
    ASSUME NEW s
    PROVE  LET all == LayersTo(s) IN
           CpuPrefill(s) =
             [c |-> [all.c EXCEPT !.unit = [u \in Unit |->
                        [all.c.unit[u] EXCEPT !.state = Finished(u, all.c.unit[u].state, Len(s))]]],
              ok |-> all.ok, right |-> all.right[Len(s)]]
BY DEF CpuPrefill, LayersTo, LayerTokens, TokenNext, PrefillBase

(* A prompt of some tokens and the others one by one.                         *)
RunNext(prev, s, k) ==
    LET one == CpuForward(prev.c, Upto(s, k)) IN
    [one EXCEPT !.ok = prev.ok /\ one.ok, !.right = prev.right /\ one.right]

IsRun(f, s, from) ==
    /\ CpuRun(s, from) = f[Len(s)]
    /\ f[from] = CpuPrefill(Upto(s, from))
    /\ \A k \in (from + 1)..Len(s) : f[k] = RunNext(f[k - 1], s, k)

(* The recursive function of CpuRun, step by step.                         *)
LEMMA RunUnfold ==
    ASSUME NEW s \in Seq(Token), NEW from \in 0..Len(s)
    PROVE  \E f : IsRun(f, s, from)
<1> DEFINE base == CpuPrefill(Upto(s, from))
           Body(f, k) == IF k = from THEN base ELSE RunNext(f[k - 1], s, k)
           Solves(f, m) == f = [k \in from..m |-> Body(f, k)]
           T == {j \in Nat : \E f : Solves(f, from + j)}
<1> HIDE DEF base
<1>0. from \in Nat /\ Len(s) \in Nat /\ from <= Len(s)
  OBVIOUS
<1>1. 0 \in T
  <2> DEFINE f == [k \in from..(from + 0) |-> base]
  <2>1. \A k \in from..(from + 0) : Body(f, k) = base
    BY <1>0
  <2>2. Solves(f, from + 0)
    BY <2>1
  <2> QED BY <2>2
<1>2. ASSUME NEW j \in Nat, j \in T PROVE j + 1 \in T
  <2>0. PICK m \in Nat : m = from + j /\ from <= m /\ m + 1 = from + (j + 1)
    BY <1>0
  <2>1. PICK f : Solves(f, m)
    BY <1>2, <2>0
  <2> DEFINE e == [k \in from..(m + 1) |-> IF k = m + 1 THEN RunNext(f[m], s, m + 1) ELSE f[k]]
  <2>01. \A k \in from..m : e[k] = f[k]
    BY <1>0, <2>0
  <2>2. \A k \in from..m : f[k] = Body(f, k) /\ e[k] = f[k]
    <3> HIDE DEF e, Body
    <3> QED BY <2>01, <2>1
  <2>3. e[m + 1] = Body(e, m + 1)
    BY <1>0, <2>0, <2>2
  <2>4. ASSUME NEW k \in from..m PROVE e[k] = Body(e, k)
    <3>1. k = from \/ k - 1 \in from..m
      BY <1>0
    <3>2. Body(f, k) = Body(e, k)
      BY <2>2, <3>1
    <3> HIDE DEF e, Body
    <3> QED BY <2>2, <3>2
  <2>6. e = [k \in from..(m + 1) |-> e[k]]
    OBVIOUS
  <2> HIDE DEF e, Body
  <2>5. \A k \in from..(m + 1) : e[k] = Body(e, k)
    BY <1>0, <2>0, <2>3, <2>4
  <2>7. Solves(e, m + 1)
    BY <2>5, <2>6
  <2> QED BY <2>0, <2>7
<1>3. Len(s) - from \in T
  <2> HIDE DEF T
  <2>1. Len(s) - from \in Nat
    BY <1>0
  <2> QED BY <1>1, <1>2, <2>1, NatInduct
<1> DEFINE F == CHOOSE f : Solves(f, Len(s))
<1>4. Solves(F, Len(s))
  <2>1. from + (Len(s) - from) = Len(s)
    BY <1>0
  <2>2. \E f : Solves(f, Len(s))
    BY <1>3, <2>1
  <2> HIDE DEF Solves
  <2> QED BY <2>2
<1>5. CpuRun(s, from) = F[Len(s)]
  BY DEF CpuRun, RunNext, base
<1> HIDE DEF F
<1>6. \A k \in from..Len(s) : F[k] = Body(F, k)
  BY <1>4
<1>7. F[from] = base
  BY <1>0, <1>6
<1>8. ASSUME NEW k \in (from + 1)..Len(s) PROVE F[k] = RunNext(F[k - 1], s, k)
  <2>1. k \in from..Len(s) /\ k # from
    BY <1>0
  <2> QED BY <1>6, <2>1
<1> QED BY <1>5, <1>7, <1>8, Zenon DEF IsRun, base


(* Every layer at the same depth; a token on its way through the layers.   *)
Flat(n) == [l \in Layer |-> n]
Wave(n, k) == [l \in Layer |-> IF l <= k THEN n + 1 ELSE n]

(* A cache right for n tokens is right for n + 1 after one more token.     *)
LEMMA CpuForwardIs ==
    ASSUME NEW s \in Seq(Token), Len(s) <= Ctx, TextFits(s), NEW n \in 0..(Len(s) - 1), NEW c, CpuAt(c, s, Flat(n))
    PROVE  Well(CpuForward(c, Upto(s, n + 1)), s, Flat(n + 1))
<1>1. PICK t : t = Upto(s, n + 1)
  OBVIOUS
<1>2. PICK f : IsForward(f, c, t)
  BY ForwardUnfold
<1>3. /\ CpuForward(c, t) = f[Layers] /\ f[0] = [c |-> c, ok |-> TRUE, right |-> TRUE]
      /\ \A l \in 1..Layers : f[l] = CpuLayer(f[l - 1], l, t)
  <2>1. 0 + 1 = 1
    OBVIOUS
  <2> QED BY <1>2, <2>1, Zenon DEF IsForward
<1>4. Layers \in Nat /\ Layer = 1..Layers
  BY GraphFacts
<1> DEFINE T == {k \in Nat : k <= Layers => Well(f[k], s, Wave(n, k))}
<1>5. 0 \in T
  <2>1. PICK b : b = [c |-> c, ok |-> TRUE, right |-> TRUE] /\ b = f[0]
    BY <1>3
  <2>2. b.c = c /\ b.ok /\ b.right /\ b = [c |-> b.c, ok |-> b.ok, right |-> b.right]
    BY <2>1
  <2>3. Wave(n, 0) = Flat(n)
    <3>1. \A l \in Layer : ~(l <= 0)
      BY <1>4
    <3> QED BY <3>1 DEF Wave, Flat
  <2>4. Well(b, s, Wave(n, 0))
    BY <2>2, <2>3, Zenon DEF Well
  <2>5. Well(f[0], s, Wave(n, 0))
    BY <2>1, <2>4, Zenon
  <2> QED BY <2>5
<1>6. ASSUME NEW j \in Nat, j \in T PROVE j + 1 \in T
  <2>1. SUFFICES ASSUME j + 1 <= Layers PROVE Well(f[j + 1], s, Wave(n, j + 1))
    OBVIOUS
  <2>2. PICK l \in Layer : l = j + 1 /\ l - 1 = j /\ l \in 1..Layers
    <3>1. j + 1 \in 1..Layers /\ (j + 1) - 1 = j
      BY <1>4, <2>1
    <3> QED BY <1>4, <3>1
  <2>3. PICK x : x = f[j] /\ Well(x, s, Wave(n, j))
    <3>1. j <= Layers
      BY <1>4, <2>1
    <3> QED BY <1>6, <3>1
  <2>4. PICK y : y = f[l] /\ y = CpuLayer(x, l, t)
    BY <1>3, <2>2, <2>3, Zenon
  <2>5. PICK depth \in [Layer -> 0..Len(s)] :
          depth = Wave(n, j) /\ depth[l] = n /\ CpuDeeper(depth, l) = Wave(n, j + 1) /\ depth[l] < Len(s)
    <3>1. n \in 0..Len(s) /\ n + 1 \in 0..Len(s)
      OBVIOUS
    <3>2. Wave(n, j) \in [Layer -> 0..Len(s)]
      BY <3>1 DEF Wave
    <3>3. Wave(n, j)[l] = n
      BY <2>2 DEF Wave
    <3>4. ASSUME NEW m \in Layer PROVE (IF m <= j + 1 THEN n + 1 ELSE n) = IF m = l THEN n + 1 ELSE IF m <= j THEN n + 1 ELSE n
      BY <1>4, <2>2
    <3>5. CpuDeeper(Wave(n, j), l) = [m \in Layer |-> IF m = l THEN n + 1 ELSE IF m <= j THEN n + 1 ELSE n]
      BY <3>3 DEF CpuDeeper, Wave
    <3>6. CpuDeeper(Wave(n, j), l) = Wave(n, j + 1)
      BY <3>4, <3>5 DEF Wave
    <3>7. n < Len(s)
      OBVIOUS
    <3> QED BY <3>2, <3>3, <3>6, <3>7
  <2>6. /\ x.ok /\ x.right /\ CpuAt(x.c, s, depth) /\ y = CpuLayer(x, l, Upto(s, depth[l] + 1))
    BY <1>1, <2>3, <2>4, <2>5, Zenon DEF Well
  <2>7. Well(y, s, CpuDeeper(depth, l))
    BY <2>5, <2>6, CpuLayerNext
  <2> QED BY <2>2, <2>4, <2>5, <2>7, Zenon
<1>7. Layers \in T
  <2> HIDE DEF T
  <2> QED BY <1>4, <1>5, <1>6, NatInduct
<1>8. Well(f[Layers], s, Wave(n, Layers))
  BY <1>4, <1>7
<1>9. Wave(n, Layers) = Flat(n + 1)
  BY <1>4 DEF Wave, Flat
<1> QED BY <1>1, <1>3, <1>8, <1>9, Zenon


(* A prompt of n tokens on its way: the layers before l have all of it,    *)
(* layer l has i tokens, the others none.                                  *)
Stage(n, l, i) == [m \in Layer |-> IF m < l THEN n ELSE IF m = l THEN i ELSE 0]

AllRight(right, n) == DOMAIN right = 1..n /\ \A i \in 1..n : right[i]

Staged(x, s, depth) ==
    /\ x = [c |-> x.c, ok |-> x.ok, right |-> x.right] /\ x.ok /\ AllRight(x.right, Len(s))
    /\ CpuAt(x.c, s, depth)

(* One token of a prompt through a layer.                                  *)
LEMMA TokenNextIs ==
    ASSUME NEW s \in Seq(Token), Len(s) <= Ctx, TextFits(s), NEW l \in Layer, NEW i \in 1..Len(s),
           NEW prev, Staged(prev, s, Stage(Len(s), l, i - 1))
    PROVE  Staged(TokenNext(prev, l, s, i), s, Stage(Len(s), l, i))
<1>1. PICK n \in Nat : n = Len(s) /\ i \in 1..n /\ i - 1 \in 0..n /\ (i - 1) + 1 = i /\ i - 1 < n
  OBVIOUS
<1>2. PICK depth \in [Layer -> 0..Len(s)] :
        depth = Stage(n, l, i - 1) /\ depth[l] = i - 1 /\ depth[l] < Len(s) /\ CpuDeeper(depth, l) = Stage(n, l, i)
  <2>1. l \in Nat
    BY GraphFacts
  <2>2. n \in 0..Len(s) /\ 0 \in 0..Len(s) /\ i - 1 \in 0..Len(s)
    BY <1>1
  <2>3. Stage(n, l, i - 1) \in [Layer -> 0..Len(s)]
    BY <2>2 DEF Stage
  <2>4. Stage(n, l, i - 1)[l] = i - 1
    BY <2>1 DEF Stage
  <2>5. CpuDeeper(Stage(n, l, i - 1), l) = [Stage(n, l, i - 1) EXCEPT ![l] = i]
    BY <1>1, <2>4, Zenon DEF CpuDeeper
  <2>6. [Stage(n, l, i - 1) EXCEPT ![l] = i] = Stage(n, l, i)
    <3>1. ASSUME NEW m \in Layer
          PROVE  (IF m < l THEN n ELSE IF m = l THEN i ELSE 0) = IF m = l THEN i ELSE Stage(n, l, i - 1)[m]
      <4>1. m \in Nat
        BY GraphFacts
      <4> QED BY <2>1, <4>1 DEF Stage
    <3>2. [Stage(n, l, i - 1) EXCEPT ![l] = i] = [m \in Layer |-> IF m = l THEN i ELSE Stage(n, l, i - 1)[m]]
      <4>1. DOMAIN Stage(n, l, i - 1) = Layer
        BY DEF Stage
      <4> QED BY <4>1
    <3>3. [m \in Layer |-> IF m = l THEN i ELSE Stage(n, l, i - 1)[m]] = Stage(n, l, i)
      BY <3>1, Zenon DEF Stage
    <3> QED BY <3>2, <3>3
  <2> QED BY <1>1, <2>3, <2>4, <2>5, <2>6
<1> DEFINE x == [c |-> prev.c, ok |-> prev.ok, right |-> prev.right[i]]
<1>3. PICK one : one = CpuLayer(x, l, Upto(s, i))
  OBVIOUS
<1>4. /\ prev.ok /\ DOMAIN prev.right = 1..n /\ (\A k \in 1..n : prev.right[k]) /\ CpuAt(prev.c, s, depth)
  BY <1>1, <1>2, Zenon DEF Staged, AllRight
<1>5. x.ok /\ x.right /\ CpuAt(x.c, s, depth)
  BY <1>1, <1>4
<1>6. Well(one, s, Stage(n, l, i))
  <2> HIDE DEF x
  <2>1. one = CpuLayer(x, l, Upto(s, depth[l] + 1))
    BY <1>1, <1>2, <1>3, Zenon
  <2>2. Well(one, s, CpuDeeper(depth, l))
    BY <1>2, <1>5, <2>1, CpuLayerNext
  <2> QED BY <1>2, <2>2, Zenon
<1>7. PICK right : right = [prev.right EXCEPT ![i] = one.right]
  OBVIOUS
<1>8. PICK y : y = TokenNext(prev, l, s, i) /\ y = [c |-> one.c, ok |-> one.ok, right |-> right]
  BY <1>3, <1>7 DEF TokenNext
<1>9. one.ok /\ one.right /\ CpuAt(one.c, s, Stage(n, l, i))
  BY <1>6, Zenon DEF Well
<1>10. AllRight(right, n)
  <2>1. DOMAIN right = 1..n /\ right[i] = one.right
    BY <1>1, <1>4, <1>7
  <2>2. ASSUME NEW k \in 1..n, k # i PROVE right[k] = prev.right[k]
    BY <1>4, <1>7, <2>2
  <2>3. ASSUME NEW k \in 1..n PROVE right[k]
    <3>1. CASE k = i
      BY <1>9, <2>1, <3>1, Zenon
    <3>2. CASE k # i
      BY <1>4, <2>2, <3>2, Zenon
    <3> QED BY <3>1, <3>2
  <2> QED BY <2>1, <2>3, Zenon DEF AllRight
<1>11. y.c = one.c /\ y.ok = one.ok /\ y.right = right /\ y = [c |-> y.c, ok |-> y.ok, right |-> y.right]
  BY <1>8
<1>12. Staged(y, s, Stage(n, l, i))
  BY <1>1, <1>9, <1>10, <1>11, Zenon DEF Staged
<1> QED BY <1>1, <1>8, <1>12, Zenon

(* All tokens of a prompt through a layer.                                 *)
LEMMA LayerTokensIs ==
    ASSUME NEW s \in Seq(Token), Len(s) <= Ctx, TextFits(s), NEW l \in Layer,
           NEW x, Staged(x, s, Stage(Len(s), l, 0))
    PROVE  Staged(LayerTokens(x, l, s), s, Stage(Len(s), l, Len(s)))
<1>1. PICK f : IsTokens(f, x, l, s)
  BY TokensUnfold
<1>2. PICK n \in Nat : n = Len(s)
  OBVIOUS
<1>3. /\ LayerTokens(x, l, s) = f[n] /\ f[0] = x
      /\ \A i \in 1..n : f[i] = TokenNext(f[i - 1], l, s, i)
  <2>1. 0 + 1 = 1
    OBVIOUS
  <2> QED BY <1>1, <1>2, <2>1, Zenon DEF IsTokens
<1> DEFINE T == {i \in Nat : i <= n => Staged(f[i], s, Stage(n, l, i))}
<1>4. 0 \in T
  <2>1. Staged(f[0], s, Stage(n, l, 0))
    BY <1>2, <1>3, Zenon
  <2> QED BY <2>1
<1>5. ASSUME NEW j \in Nat, j \in T PROVE j + 1 \in T
  <2>1. SUFFICES ASSUME j + 1 <= n PROVE Staged(f[j + 1], s, Stage(n, l, j + 1))
    OBVIOUS
  <2>2. PICK i \in 1..n : i = j + 1 /\ i - 1 = j /\ i \in 1..Len(s)
    <3>1. j + 1 \in 1..n /\ (j + 1) - 1 = j
      BY <2>1
    <3> QED BY <1>2, <3>1
  <2>3. Staged(f[i - 1], s, Stage(n, l, i - 1))
    <3>1. j <= n
      BY <1>2, <2>1
    <3> QED BY <1>5, <2>2, <3>1
  <2>4. Staged(TokenNext(f[i - 1], l, s, i), s, Stage(n, l, i))
    <3>1. Staged(f[i - 1], s, Stage(Len(s), l, i - 1))
      BY <1>2, <2>3, Zenon
    <3>2. Staged(TokenNext(f[i - 1], l, s, i), s, Stage(Len(s), l, i))
      BY <2>2, <3>1, TokenNextIs
    <3> QED BY <1>2, <3>2, Zenon
  <2> QED BY <1>3, <2>2, <2>4, Zenon
<1>6. n \in T
  <2> HIDE DEF T
  <2> QED BY <1>4, <1>5, NatInduct
<1>7. Staged(f[n], s, Stage(n, l, n))
  BY <1>6
<1> QED BY <1>2, <1>3, <1>7, Zenon

(* A prompt through all layers.                                            *)
LEMMA LayersToIs ==
    ASSUME NEW s \in Seq(Token), Len(s) <= Ctx, TextFits(s)
    PROVE  Staged(LayersTo(s), s, Flat(Len(s)))
<1>1. PICK f : IsLayers(f, s)
  BY LayersUnfold
<1>2. PICK n \in Nat : n = Len(s)
  OBVIOUS
<1>3. /\ LayersTo(s) = f[Layers] /\ f[0] = PrefillBase(s)
      /\ \A l \in 1..Layers : f[l] = LayerTokens(f[l - 1], l, s)
  <2>1. 0 + 1 = 1
    OBVIOUS
  <2> QED BY <1>1, <2>1, Zenon DEF IsLayers
<1>4. Layers \in Nat /\ Layer = 1..Layers
  BY GraphFacts
<1> DEFINE T == {k \in Nat : k <= Layers => Staged(f[k], s, Stage(n, k, n))}
<1>5. 0 \in T
  <2>1. PICK b : b = PrefillBase(s) /\ b = f[0]
    BY <1>3
  <2>2. b.c = NewCpu /\ b.ok /\ b.right = [i \in 1..n |-> TRUE] /\ b = [c |-> b.c, ok |-> b.ok, right |-> b.right]
    BY <1>2, <2>1 DEF PrefillBase
  <2>3. AllRight(b.right, n)
    BY <2>2 DEF AllRight
  <2>4. PICK depth : depth = Stage(n, 0, n) /\ \A l \in Layer : depth[l] = 0
    <3>1. ASSUME NEW l \in Layer PROVE Stage(n, 0, n)[l] = 0
      <4>1. ~(l < 0) /\ l # 0
        BY <1>4
      <4> QED BY <4>1 DEF Stage
    <3> QED BY <3>1
  <2>5. ASSUME NEW l \in Layer PROVE CpuShows(NewCpu, l, s, 0)
    <3>1. NewCpu.raw[l] = <<>>
      BY DEF NewCpu
    <3>2. \A u \in Unit : NewCpu.unit[u] = [rows |-> <<>>, state |-> Empty(u)]
      BY DEF NewCpu
    <3>3. CpuRaw(<<>>, s, 0)
      <4>1. Least(CpuRawCap, 0) = 0
        BY CpuRawCapIs DEF Least
      <4>2. <<>> \in Seq(Rows) /\ Len(<<>>) = 0 /\ \A i \in 1..0 : FALSE
        OBVIOUS
      <4> QED BY <4>1, <4>2, Zenon DEF CpuRaw
    <3>4. ASSUME NEW u \in Unit PROVE CpuUnit(u, NewCpu.unit[u], s, 0)
      <4>1. CpuUnit(u, [rows |-> <<>>, state |-> Empty(u)], s, 0)
        BY CpuUnitEmpty
      <4> QED BY <3>2, <4>1, Zenon
    <3> QED BY <3>1, <3>3, <3>4, Zenon DEF CpuShows
  <2>6. NewCpu = [raw |-> NewCpu.raw, unit |-> NewCpu.unit] /\ DOMAIN NewCpu.raw = Layer
    BY DEF NewCpu
  <2>7. CpuAt(NewCpu, s, depth)
    BY <2>4, <2>5, <2>6, Zenon DEF CpuAt
  <2>8. Staged(b, s, depth)
    BY <1>2, <2>2, <2>3, <2>7, Zenon DEF Staged
  <2>9. Staged(f[0], s, Stage(n, 0, n))
    BY <2>1, <2>4, <2>8, Zenon
  <2> QED BY <2>9
<1>6. ASSUME NEW j \in Nat, j \in T PROVE j + 1 \in T
  <2>1. SUFFICES ASSUME j + 1 <= Layers PROVE Staged(f[j + 1], s, Stage(n, j + 1, n))
    OBVIOUS
  <2>2. PICK l \in Layer : l = j + 1 /\ l - 1 = j /\ l \in 1..Layers
    <3>1. j + 1 \in 1..Layers /\ (j + 1) - 1 = j
      BY <1>4, <2>1
    <3> QED BY <1>4, <3>1
  <2>3. Staged(f[j], s, Stage(n, j, n))
    <3>1. j <= Layers
      BY <1>4, <2>1
    <3> QED BY <1>6, <3>1
  <2>4. Stage(n, j, n) = Stage(n, l, 0)
    <3>1. ASSUME NEW m \in Layer
          PROVE  (IF m < j THEN n ELSE IF m = j THEN n ELSE 0) = IF m < l THEN n ELSE IF m = l THEN 0 ELSE 0
      BY <1>4, <2>2
    <3> QED BY <3>1 DEF Stage
  <2>5. Staged(f[j], s, Stage(Len(s), l, 0))
    BY <1>2, <2>3, <2>4, Zenon
  <2>6. Staged(LayerTokens(f[j], l, s), s, Stage(Len(s), l, Len(s)))
    BY <2>5, LayerTokensIs
  <2>7. f[l] = LayerTokens(f[j], l, s)
    BY <1>3, <2>2, Zenon
  <2> QED BY <1>2, <2>2, <2>6, <2>7, Zenon
<1>7. Layers \in T
  <2> HIDE DEF T
  <2> QED BY <1>4, <1>5, <1>6, NatInduct
<1>8. Staged(f[Layers], s, Stage(n, Layers, n))
  BY <1>4, <1>7
<1>9. Stage(n, Layers, n) = Flat(n)
  <2>1. ASSUME NEW m \in Layer PROVE (IF m < Layers THEN n ELSE IF m = Layers THEN n ELSE 0) = n
    BY <1>4
  <2> QED BY <2>1 DEF Stage, Flat
<1> QED BY <1>2, <1>3, <1>8, <1>9, Zenon


(* Emptying what the window being filled has left over disturbs no row     *)
(* that is still to be pooled.                                             *)
LEMMA FinishedIs ==
    ASSUME NEW u \in Unit, NEW c, NEW s, NEW n \in Nat, CpuUnit(u, c, s, n)
    PROVE  CpuUnit(u, [c EXCEPT !.state = Finished(u, c.state, n)], s, n)
<1>1. PICK d \in Counted(u, Nat) : Stands(u, c, d) /\ UnitShows(u, d, s, n)
  BY Zenon DEF CpuUnit
<1>2. PICK R \in Nat \ {0, 1, 2} : R = RatioOf(u) /\ StateRows(u) = (IF R = 4 THEN 8 ELSE R)
  BY UnitFacts
<1>3. PICK f \in 0..(R - 1) : f = n % R
  BY <1>2, DivMod
<1>4. PICK from \in Nat : from = (IF R = 4 THEN R ELSE 0) + f
  BY <1>2
<1>5. PICK st : st = Finished(u, c.state, n)
  OBVIOUS
<1>6. st = [r \in DOMAIN c.state |-> IF r >= from THEN NoRow ELSE c.state[r]]
  <2>1. from = (IF RatioOf(u) = 4 THEN RatioOf(u) ELSE 0) + (n % RatioOf(u))
    BY <1>2, <1>3, <1>4, Zenon
  <2> QED BY <1>5, <2>1, Zenon DEF Finished
<1>7. /\ d = [rows |-> d.rows, n |-> d.n, state |-> d.state] /\ d.n \in Nat /\ d.state \in Windows(u)
      /\ d.rows \in [0..(CompCap - 1) -> Windows(u) \cup {NoRow}]
  BY DEF Counted
<1>8. c.state = d.state /\ c = [rows |-> c.rows, state |-> c.state] /\ DOMAIN c.state = 0..(StateRows(u) - 1)
  BY <1>1, <1>7 DEF Stands, Windows
<1>9. st \in Windows(u) /\ \A r \in 0..(StateRows(u) - 1) : r < from => st[r] = d.state[r]
  <2>1. \A r \in 0..(StateRows(u) - 1) : st[r] = IF r >= from THEN NoRow ELSE d.state[r]
    BY <1>6, <1>8
  <2>2. st = [r \in 0..(StateRows(u) - 1) |-> st[r]]
    BY <1>6, <1>8
  <2>3. \A r \in 0..(StateRows(u) - 1) : st[r] \in Rows
    BY <1>7, <2>1 DEF Windows, Rows
  <2>4. \A r \in 0..(StateRows(u) - 1) : r < from => st[r] = d.state[r]
    <3>1. StateRows(u) \in Nat
      BY <1>2
    <3> QED BY <1>4, <2>1, <3>1
  <2>5. st \in Windows(u)
    BY <2>2, <2>3 DEF Windows
  <2> QED BY <2>4, <2>5
<1>10. PICK e : e = [rows |-> d.rows, n |-> d.n, state |-> st]
  OBVIOUS
<1>11. e \in Counted(u, Nat) /\ e.rows = d.rows /\ e.n = d.n /\ e.state = st
  BY <1>7, <1>9, <1>10 DEF Counted
<1>12. UnitShows(u, e, s, n)
  <2>1. WindowShows(u, d.state, s, n) /\ d.n = n \div RatioOf(u) /\ Pools(u, d, s, n \div RatioOf(u))
    BY <1>1, Zenon DEF UnitShows
  <2>2. CASE R = 4
    <3>1. /\ \A r \in 0..3 : d.state[r] = Previous(s, n, r)
          /\ \A r \in 0..(f - 1) : d.state[4 + r] = RowOf(s, n - f + r)
      BY <1>2, <1>3, <2>1, <2>2, Zenon DEF WindowShows
    <3>2. \A r \in 0..3 : st[r] = d.state[r]
      BY <1>2, <1>4, <1>9, <2>2
    <3>3. \A r \in 0..(f - 1) : st[4 + r] = d.state[4 + r]
      BY <1>2, <1>3, <1>4, <1>9, <2>2
    <3>4. WindowShows(u, st, s, n)
      BY <1>2, <1>3, <2>2, <3>1, <3>2, <3>3, Zenon DEF WindowShows
    <3>5. Pools(u, e, s, n \div RatioOf(u))
      BY <1>11, <2>1, Zenon DEF Pools
    <3> QED BY <1>11, <2>1, <3>4, <3>5, Zenon DEF UnitShows
  <2>3. CASE R # 4
    <3>1. \A r \in 0..(f - 1) : d.state[r] = RowOf(s, n - f + r)
      BY <1>2, <1>3, <2>1, <2>3, Zenon DEF WindowShows
    <3>2. \A r \in 0..(f - 1) : st[r] = d.state[r]
      BY <1>2, <1>3, <1>4, <1>9, <2>3
    <3>3. WindowShows(u, st, s, n)
      BY <1>2, <1>3, <2>3, <3>1, <3>2, Zenon DEF WindowShows
    <3>4. Pools(u, e, s, n \div RatioOf(u))
      BY <1>11, <2>1, Zenon DEF Pools
    <3> QED BY <1>11, <2>1, <3>3, <3>4, Zenon DEF UnitShows
  <2> QED BY <2>2, <2>3
<1>13. PICK b : b = [c EXCEPT !.state = st] /\ b = [rows |-> c.rows, state |-> st]
  <2>1. PICK rows, state : rows = c.rows /\ c = [rows |-> rows, state |-> state]
    BY <1>8, Zenon
  <2>2. [c EXCEPT !.state = st] = [rows |-> rows, state |-> st]
    BY <2>1
  <2> QED BY <2>1, <2>2, Zenon
<1>14. Stands(u, b, e)
  <2>1. b.rows = c.rows /\ b = [rows |-> b.rows, state |-> e.state]
    BY <1>11, <1>13
  <2>2. c.rows \in Seq(Kept(u)) /\ Len(c.rows) = d.n /\ \A k \in 1..d.n : c.rows[k] = d.rows[k - 1]
    BY <1>1, Zenon DEF Stands
  <2> QED BY <1>11, <2>1, <2>2, Zenon DEF Stands
<1>15. CpuUnit(u, b, s, n)
  BY <1>11, <1>12, <1>14, Zenon DEF CpuUnit
<1> QED BY <1>5, <1>13, <1>15, Zenon

(* A prompt leaves a cache that is right for all of it.                    *)
LEMMA CpuPrefillIs ==
    ASSUME NEW s \in Seq(Token), Len(s) > 0, Len(s) <= Ctx, TextFits(s)
    PROVE  Well(CpuPrefill(s), s, Flat(Len(s)))
<1>1. PICK n \in Nat \ {0} : n = Len(s)
  OBVIOUS
<1>2. PICK all : all = LayersTo(s) /\ Staged(all, s, Flat(n))
  BY <1>1, LayersToIs
<1>3. PICK unit : unit = [u \in Unit |-> [all.c.unit[u] EXCEPT !.state = Finished(u, all.c.unit[u].state, n)]]
  OBVIOUS
<1>4. PICK y : y = CpuPrefill(s) /\ y = [c |-> [all.c EXCEPT !.unit = unit], ok |-> all.ok, right |-> all.right[n]]
  <2>1. CpuPrefill(s) =
          [c |-> [all.c EXCEPT !.unit = [u \in Unit |->
                     [all.c.unit[u] EXCEPT !.state = Finished(u, all.c.unit[u].state, Len(s))]]],
           ok |-> all.ok, right |-> all.right[Len(s)]]
    BY <1>2, PrefillIs
  <2> QED BY <1>1, <1>3, <2>1
<1>5. /\ all.ok /\ all.right[n] /\ CpuAt(all.c, s, Flat(n))
  <2>1. n \in 1..n
    BY <1>1
  <2> QED BY <1>1, <1>2, <2>1, Zenon DEF Staged, AllRight
<1>6. /\ all.c = [raw |-> all.c.raw, unit |-> all.c.unit] /\ DOMAIN all.c.raw = Layer
      /\ \A l \in Layer : CpuShows(all.c, l, s, n)
  <2>1. \A l \in Layer : Flat(n)[l] = n
    BY DEF Flat
  <2> QED BY <1>5, <2>1, Zenon DEF CpuAt
<1>7. PICK c : c = [raw |-> all.c.raw, unit |-> unit] /\ c = [all.c EXCEPT !.unit = unit]
  <2>1. PICK raw, old : raw = all.c.raw /\ all.c = [raw |-> raw, unit |-> old]
    BY <1>6, Zenon
  <2>2. [all.c EXCEPT !.unit = unit] = [raw |-> raw, unit |-> unit]
    BY <2>1
  <2> QED BY <2>1, <2>2, Zenon
<1>8. c.raw = all.c.raw /\ c.unit = unit /\ c = [raw |-> c.raw, unit |-> c.unit]
  BY <1>7
<1>9. ASSUME NEW l \in Layer PROVE CpuShows(c, l, s, n)
  <2>1. CpuRaw(c.raw[l], s, n)
    BY <1>6, <1>8, Zenon DEF CpuShows
  <2>2. ASSUME NEW u \in Unit, u[1] = l PROVE CpuUnit(u, c.unit[u], s, n)
    <3>1. CpuUnit(u, all.c.unit[u], s, n)
      BY <1>6, <2>2, Zenon DEF CpuShows
    <3>2. CpuUnit(u, [all.c.unit[u] EXCEPT !.state = Finished(u, all.c.unit[u].state, n)], s, n)
      BY <3>1, FinishedIs
    <3>3. c.unit[u] = [all.c.unit[u] EXCEPT !.state = Finished(u, all.c.unit[u].state, n)]
      BY <1>3, <1>8, Zenon
    <3> QED BY <3>2, <3>3, Zenon
  <2> QED BY <2>1, <2>2, Zenon DEF CpuShows
<1>10. CpuAt(c, s, Flat(n))
  <2>1. \A l \in Layer : Flat(n)[l] = n
    BY DEF Flat
  <2> QED BY <1>6, <1>8, <1>9, <2>1, Zenon DEF CpuAt
<1>11. y.c = c /\ y.ok = all.ok /\ y.right = all.right[n] /\ y = [c |-> y.c, ok |-> y.ok, right |-> y.right]
  BY <1>4, <1>7
<1>12. Well(y, s, Flat(n))
  BY <1>5, <1>10, <1>11, Zenon DEF Well
<1> QED BY <1>1, <1>4, <1>12, Zenon

(* A cache for a text is one for a longer text, as far as it goes.         *)
LEMMA CpuAtKept ==
    ASSUME NEW s, NEW t, NEW n \in Nat, Agree(s, t, n), NEW c, CpuAt(c, s, Flat(n))
    PROVE  CpuAt(c, t, Flat(n))
<1>1. \A l \in Layer : Flat(n)[l] = n
  BY DEF Flat
<1>2. ASSUME NEW l \in Layer PROVE CpuShows(c, l, t, n)
  <2>1. CpuShows(c, l, s, n)
    BY <1>1, Zenon DEF CpuAt
  <2>2. CpuRaw(c.raw[l], t, n)
    <3>1. PICK m \in Nat : m = Least(CpuRawCap, n) /\ m <= n
      BY CpuRawCapIs DEF Least
    <3>2. PICK raw : /\ raw = c.raw[l] /\ raw \in Seq(Rows) /\ Len(raw) = m
                     /\ \A i \in 1..m : raw[i] = RowOf(s, n - m + i - 1)
      BY <2>1, <3>1, Zenon DEF CpuShows, CpuRaw
    <3>3. ASSUME NEW i \in 1..m PROVE raw[i] = RowOf(t, n - m + i - 1)
      <4>1. n - m + i - 1 \in 0..(n - 1)
        BY <3>1
      <4>2. RowOf(s, n - m + i - 1) = RowOf(t, n - m + i - 1)
        BY <4>1 DEF Agree
      <4> QED BY <3>2, <4>2
    <3> QED BY <3>1, <3>2, <3>3, Zenon DEF CpuRaw
  <2>3. ASSUME NEW u \in Unit, u[1] = l PROVE CpuUnit(u, c.unit[u], t, n)
    <3>1. PICK d \in Counted(u, Nat) : Stands(u, c.unit[u], d) /\ UnitShows(u, d, s, n)
      BY <2>1, <2>3, Zenon DEF CpuShows, CpuUnit
    <3>2. UnitShows(u, d, t, n)
      BY <3>1, SameHistory, Zenon DEF SameFor
    <3> QED BY <3>1, <3>2, Zenon DEF CpuUnit
  <2> QED BY <2>2, <2>3, Zenon DEF CpuShows
<1> QED BY <1>1, <1>2, Zenon DEF CpuAt

(* A prompt of any length and the rest one by one.                         *)
LEMMA CpuRunIs ==
    ASSUME NEW s \in Seq(Token), Len(s) <= Ctx, TextFits(s), NEW from \in 1..Len(s)
    PROVE  Well(CpuRun(s, from), s, Flat(Len(s)))
<1>0. PICK n \in Nat : n = Len(s) /\ from \in 1..n /\ from \in 0..Len(s) /\ from <= n /\ from \in Nat
  OBVIOUS
<1>1. PICK f : IsRun(f, s, from)
  BY <1>0, RunUnfold
<1>2. /\ CpuRun(s, from) = f[n] /\ f[from] = CpuPrefill(Upto(s, from))
      /\ \A k \in (from + 1)..n : f[k] = RunNext(f[k - 1], s, k)
  BY <1>0, <1>1, Zenon DEF IsRun
<1>3. Well(f[from], s, Flat(from))
  <2>1. PICK t \in Seq(Token) : t = Upto(s, from) /\ Len(t) = from
    BY <1>0, UptoIs
  <2>2. Len(t) > 0 /\ Len(t) <= Ctx
    BY <1>0, <2>1, GraphFacts
  <2>3. TextFits(t)
    BY <1>0, <2>1, RowsFit DEF TextFits
  <2>4. Well(CpuPrefill(t), t, Flat(from))
    BY <2>1, <2>2, <2>3, CpuPrefillIs
  <2>5. Agree(t, s, from)
    BY <1>0, <2>1, AgreeUpto, Zenon
  <2>6. CpuAt(CpuPrefill(t).c, s, Flat(from))
    BY <1>0, <2>4, <2>5, CpuAtKept, Zenon DEF Well
  <2> QED BY <1>2, <2>1, <2>4, <2>6, Zenon DEF Well
<1> DEFINE T == {j \in Nat : from + j <= n => Well(f[from + j], s, Flat(from + j))}
<1>4. 0 \in T
  <2>1. from + 0 = from
    BY <1>0
  <2> QED BY <1>3, <2>1
<1>5. ASSUME NEW j \in Nat, j \in T PROVE j + 1 \in T
  <2>1. SUFFICES ASSUME from + (j + 1) <= n PROVE Well(f[from + (j + 1)], s, Flat(from + (j + 1)))
    OBVIOUS
  <2>2. PICK k \in Nat : k = from + j /\ k + 1 = from + (j + 1) /\ k \in 0..(Len(s) - 1) /\ k + 1 \in (from + 1)..n
                         /\ k <= n /\ (k + 1) - 1 = k
    BY <1>0, <2>1
  <2>3. PICK prev : prev = f[k] /\ Well(prev, s, Flat(k))
    BY <1>5, <2>2
  <2>4. PICK one : one = CpuForward(prev.c, Upto(s, k + 1)) /\ Well(one, s, Flat(k + 1))
    <3>1. CpuAt(prev.c, s, Flat(k))
      BY <2>3, Zenon DEF Well
    <3> QED BY <2>2, <3>1, CpuForwardIs
  <2>5. PICK y : y = f[k + 1] /\ y = RunNext(prev, s, k + 1)
    BY <1>2, <2>2, <2>3, Zenon
  <2>6. PICK ok, right : ok = (prev.ok /\ one.ok) /\ right = (prev.right /\ one.right)
    OBVIOUS
  <2>7. y = [one EXCEPT !.ok = ok, !.right = right]
    BY <2>4, <2>5, <2>6, Zenon DEF RunNext
  <2>8. /\ one = [c |-> one.c, ok |-> one.ok, right |-> one.right] /\ one.ok /\ one.right /\ prev.ok /\ prev.right
        /\ CpuAt(one.c, s, Flat(k + 1))
    BY <2>3, <2>4, Zenon DEF Well
  <2>9. y = [c |-> one.c, ok |-> ok, right |-> right]
    BY <2>7, <2>8
  <2>10. y.c = one.c /\ y.ok = ok /\ y.right = right /\ y = [c |-> y.c, ok |-> y.ok, right |-> y.right]
    BY <2>9
  <2>11. ok /\ right
    BY <2>6, <2>8, Zenon
  <2>12. Well(y, s, Flat(k + 1))
    BY <2>8, <2>10, <2>11, Zenon DEF Well
  <2> QED BY <2>2, <2>5, <2>12, Zenon
<1>6. n - from \in T
  <2> HIDE DEF T
  <2>1. n - from \in Nat
    BY <1>0
  <2> QED BY <1>4, <1>5, <2>1, NatInduct
<1>7. Well(f[n], s, Flat(n))
  <2>1. from + (n - from) = n
    BY <1>0
  <2> QED BY <1>6, <2>1
<1> QED BY <1>0, <1>2, <1>7, Zenon


(* The graph has room for what it holds.                                   *)
LEMMA RoomIs ==
    ASSUME NEW h, NEW s \in Seq(Token), Exactly(h, s)
    PROVE  TextFits(s)
<1>1. ASSUME NEW u \in Unit PROVE Len(s) \div RatioOf(u) <= CompCap
  <2>1. h \in Graphs /\ UnitShows(u, h.unit[u], s, Len(s))
    BY UnitFacts, Zenon DEF Exactly, GraphShows, LayerShows
  <2>2. h.unit[u] \in Compressor(u)
    BY <2>1, GraphParts, Zenon
  <2>3. h.unit[u].n \in 0..CompCap /\ h.unit[u].n = Len(s) \div RatioOf(u)
    BY <2>1, <2>2 DEF Compressor, Counted, UnitShows
  <2> QED BY <2>3, GraphFacts
<1> QED BY <1>1 DEF TextFits

(* A cache and a graph for the same text show the same.                    *)
LEMMA SameRowsIs ==
    ASSUME Exactly(g, tokens), tokens \in Seq(Token), Len(tokens) > 0,
           NEW c, CpuAt(c, tokens, Flat(Len(tokens)))
    PROVE  SameRows(c)
<1>1. PICK n \in Nat \ {0} : n = Len(tokens)
  OBVIOUS
<1>2. RawExact /\ \A u \in Unit : RowsExact(u) /\ StateExact(u)
  BY ExactIs
<1>3. \A l \in Layer : CpuShows(c, l, tokens, n)
  <2>1. \A l \in Layer : Flat(n)[l] = n
    BY DEF Flat
  <2> QED BY <1>1, <2>1, Zenon DEF CpuAt
<1>4. ASSUME NEW l \in Layer, NEW i \in 1..Len(c.raw[l])
      PROVE  c.raw[l][i] = g.raw[l][(n - Len(c.raw[l]) + i - 1) % RawCap]
  <2>1. PICK m \in Nat : m = Least(CpuRawCap, n) /\ m <= n /\ m <= Window
    BY CpuRawCapIs, GraphFacts DEF Least
  <2>2. Len(c.raw[l]) = m /\ \A k \in 1..m : c.raw[l][k] = RowOf(tokens, n - m + k - 1)
    BY <1>3, <2>1, Zenon DEF CpuShows, CpuRaw
  <2>3. PICK p \in 0..(n - 1) : p = n - m + i - 1 /\ p + Window >= n
    <3>1. i \in 1..m
      BY <2>2
    <3>2. PICK w \in Nat : w = Window /\ m <= w
      BY <2>1, GraphFacts
    <3>3. n - m + i - 1 \in 0..(n - 1) /\ (n - m + i - 1) + w >= n
      BY <2>1, <3>1, <3>2
    <3> QED BY <3>2, <3>3, Zenon
  <2>4. c.raw[l][i] = RowOf(tokens, p)
    <3>1. i \in 1..m
      BY <2>2
    <3> QED BY <2>2, <2>3, <3>1
  <2>5. g.raw[l][p % RawCap] = RowOf(tokens, p)
    BY <1>1, <1>2, <2>3, Zenon DEF RawExact
  <2>6. n - Len(c.raw[l]) + i - 1 = p
    BY <2>2, <2>3, Zenon
  <2> QED BY <2>4, <2>5, <2>6, Zenon
<1>5. ASSUME NEW u \in Unit
      PROVE  /\ Len(c.unit[u].rows) = g.unit[u].n
             /\ \A k \in 1..g.unit[u].n : c.unit[u].rows[k] = g.unit[u].rows[k - 1]
             /\ \A r \in Pending(u, n) : c.unit[u].state[r] = g.unit[u].state[r]
  <2>1. PICK d \in Counted(u, Nat) : Stands(u, c.unit[u], d) /\ UnitShows(u, d, tokens, n)
    <3>1. u[1] \in Layer
      BY UnitFacts
    <3> QED BY <1>3, <3>1, Zenon DEF CpuShows, CpuUnit
  <2>2. PICK q \in Nat : q = n \div RatioOf(u) /\ d.n = q /\ Pools(u, d, tokens, q) /\ WindowShows(u, d.state, tokens, n)
    <3>1. n \div RatioOf(u) \in Nat
      BY ClosesIs
    <3> QED BY <2>1, <3>1, Zenon DEF UnitShows
  <2>3. g.unit[u].n = q /\ RowsRight(u, g.unit[u], tokens, q)
    BY <1>1, <1>2, <2>2, Zenon DEF RowsExact
  <2>4. Len(c.unit[u].rows) = q /\ c.unit[u].state = d.state /\ \A k \in 1..q : c.unit[u].rows[k] = d.rows[k - 1]
    BY <2>1, <2>2 DEF Stands
  <2>5. ASSUME NEW k \in 1..q PROVE c.unit[u].rows[k] = g.unit[u].rows[k - 1]
    <3>1. k - 1 \in 0..(q - 1)
      OBVIOUS
    <3> QED BY <2>2, <2>3, <2>4, <3>1, Zenon DEF Pools, RowsRight
  <2>6. ASSUME NEW r \in Pending(u, n) PROVE c.unit[u].state[r] = g.unit[u].state[r]
    <3>1. NextPooled(u, d.state, tokens, n)
      BY <2>2, PendingAll
    <3>2. PICK i : i = IF RatioOf(u) = 4 /\ n % 4 = 0 THEN 4 + r ELSE r
      OBVIOUS
    <3>3. d.state[r] = StateOf(u, tokens, n - 1)[i]
      BY <3>1, <3>2, Zenon DEF NextPooled
    <3>4. g.unit[u].state[r] = StateOf(u, tokens, n - 1)[i]
      BY <1>1, <1>2, <3>2, Zenon DEF StateExact
    <3> QED BY <2>4, <3>3, <3>4, Zenon
  <2> QED BY <2>3, <2>4, <2>5, <2>6, Zenon
<1> QED BY <1>1, <1>4, <1>5, Zenon DEF SameRows

(* A graph that is right shows what the reference path shows.              *)
LEMMA ImpliesSameAsCpu == IInv => SameAsCpu
<1> SUFFICES ASSUME MtpInv, Settled, tokens # <<>>
             PROVE  \A m \in {1, Len(tokens)} : LET x == CpuRun(tokens, m) IN x.ok /\ x.right /\ SameRows(x.c)
  BY Zenon DEF IInv, SameAsCpu
<1>1. valid /\ Len(tokens) > 0 /\ Len(tokens) <= Ctx /\ tokens \in Seq(Token) /\ Exactly(g, tokens)
  <2>1. valid /\ Len(tokens) > 0 /\ Len(tokens) < Ctx /\ tokens \in Seq(Token) /\ Exactly(g, tokens)
    BY Typed, Zenon DEF Settled
  <2> QED BY <2>1, GraphFacts
<1>2. ASSUME NEW m \in {1, Len(tokens)}
      PROVE  LET x == CpuRun(tokens, m) IN x.ok /\ x.right /\ SameRows(x.c)
  <2>1. m \in 1..Len(tokens)
    BY <1>1
  <2>2. Well(CpuRun(tokens, m), tokens, Flat(Len(tokens)))
    BY <1>1, <2>1, RoomIs, CpuRunIs
  <2>3. SameRows(CpuRun(tokens, m).c)
    BY <1>1, <2>2, SameRowsIs, Zenon DEF Well
  <2> QED BY <2>2, <2>3, Zenon DEF Well
<1> QED BY <1>2

-----------------------------------------------------------------------------
(* Between calls, whatever was prefilled, drafted, rejected, replayed,     *)
(* failed, saved or loaded before, the graph of a session that is not      *)
(* known to be wrong has the rows, the windows and the logits of its       *)
(* tokens, and its counters never leave their arrays.                      *)
THEOREM GraphIsExact == Spec => []GraphExact
<1>1. IInv /\ [Next]_vars => IInv'
  BY Steady
<1> QED BY <1>1, Starts, ImpliesGraphExact, PTL DEF Spec

(* A speculative call appends what the target would have picked one token  *)
(* at a time, however the drafts were verified, and nothing after its end. *)
THEOREM SpeaksTheTarget == Spec => SpeaksAsTarget
<1>1. IInv /\ [Next]_vars => IInv'
  BY Steady
<1>2. IInv /\ [Next]_vars => [Speaks]_vars
  BY SpeaksIs
<1> QED BY <1>1, <1>2, Starts, PTL DEF Spec, SpeaksAsTarget

(* Between calls, the graph of a session that is not known to be wrong     *)
(* holds the raw, pooled and pending rows that the reference path, given   *)
(* the same tokens as one prompt or as one token and the rest one by one,  *)
(* ends up with; and on that path no compressor overflows and the last     *)
(* token attends to the rows it should.                                    *)
THEOREM AgreesWithCpu == Spec => []SameAsCpu
<1>1. IInv /\ [Next]_vars => IInv'
  BY Steady
<1> QED BY <1>1, Starts, ImpliesSameAsCpu, PTL DEF Spec
=============================================================================
