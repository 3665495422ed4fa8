--------------------------- MODULE FrontierProofs ---------------------------
(***************************************************************************)
(* Proofs about a Persisted Collector over an overlapping source, for any  *)
(* finite set of events, any instants, jitter and depth, whatever fails:   *)
(*                                                                         *)
(*   - the laws of TimeFrontier, the Position it is built on;              *)
(*   - Base, the inductive invariant of the Store and the two writers,     *)
(*     and from it StoredOnce and SeenAtBoundary;                          *)
(*   - DeliveredInv on top of Base, and from it DeliveredOnce;             *)
(*   - LostInv on top of Base, and from it NothingLost.                    *)
(***************************************************************************)
EXTENDS Frontier, WellFoundedInduction, FiniteSetTheorems, TLAPS

(* Every non-empty set of naturals has a least element.                    *)
LEMMA Least ==
  ASSUME NEW T \in SUBSET Nat, T # {}
  PROVE  \E x \in T : \A y \in T : x <= y
<1>1. PICK x \in T : \A y \in T : ~ (<<y, x>> \in OpToRel(<, Nat))
  BY NatLessThanWellFounded, WFMin
<1>2. \A y \in T : ~(y < x)
  BY <1>1 DEF OpToRel
<1> QED BY <1>2

(* A set of naturals that holds 0 and is closed under successor is Nat:    *)
(* induction as a fact about a set, which the provers can instantiate.     *)
LEMMA Induction ==
  ASSUME NEW T \in SUBSET Nat, 0 \in T, \A n \in T : n + 1 \in T
  PROVE  T = Nat
<1> SUFFICES ASSUME Nat \ T # {} PROVE FALSE
  OBVIOUS
<1>1. PICK x \in Nat \ T : \A y \in Nat \ T : x <= y
  BY Least
<1>2. x # 0 /\ x - 1 \in T
  BY <1>1
<1> QED BY <1>1, <1>2


(* A bounded, nonempty set of natural numbers has a greatest element.      *)
LEMMA Greatest ==
  ASSUME NEW T \in SUBSET Nat, T # {}, NEW n \in Nat, \A t \in T : t <= n
  PROVE  \E x \in T : \A y \in T : y <= x
<1> DEFINE U == {u \in Nat : \A y \in T : y <= u}
<1>1. PICK x \in U : \A y \in U : x <= y
  BY Least
<1>2. SUFFICES ASSUME x \notin T PROVE FALSE
  BY <1>1
<1>3. PICK t \in T : TRUE
  OBVIOUS
<1>4. x # 0
  BY <1>1, <1>2, <1>3
<1>5. x - 1 \in U
  <2>1. ASSUME NEW y \in T PROVE y <= x - 1
    <3>1. y \in Nat /\ x \in Nat /\ y <= x /\ y # x
      BY <1>1, <1>2, <2>1
    <3> QED BY <3>1
  <2>2. x - 1 \in Nat
    BY <1>1, <1>4
  <2> QED BY <2>1, <2>2
<1>6. x <= x - 1
  BY <1>1, <1>5
<1> QED BY <1>1, <1>6

(* So does a finite, nonempty set of integers.                             *)
LEMMA FiniteGreatest ==
  \A n \in Nat : \A S \in SUBSET Int :
    IsFiniteSet(S) /\ Cardinality(S) = n + 1 => \E x \in S : \A y \in S : y <= x
<1> DEFINE Has(S) == \E x \in S : \A y \in S : y <= x
           T == {n \in Nat : \A S \in SUBSET Int : IsFiniteSet(S) /\ Cardinality(S) = n + 1 => Has(S)}
<1>1. 0 \in T
  <2>1. ASSUME NEW S \in SUBSET Int, IsFiniteSet(S), Cardinality(S) = 1 PROVE Has(S)
    <3>1. PICK x : S = {x}
      BY <2>1, FS_Singleton
    <3>2. x \in S /\ x \in Int /\ \A y \in S : y = x
      BY <3>1
    <3> QED BY <3>2
  <2> QED BY <2>1
<1>2. ASSUME NEW n \in T PROVE n + 1 \in T
  <2>1. ASSUME NEW S \in SUBSET Int, IsFiniteSet(S), Cardinality(S) = n + 2 PROVE Has(S)
    <3>0. n \in Nat
      OBVIOUS
    <3>1. S # {}
      BY <2>1, <3>0, FS_EmptySet
    <3>2. PICK z \in S : TRUE
      BY <3>1
    <3>3. IsFiniteSet(S \ {z}) /\ Cardinality(S \ {z}) = n + 1
      BY <2>1, <3>0, FS_RemoveElement
    <3>4. PICK x \in S \ {z} : \A y \in S \ {z} : y <= x
      <4>1. S \ {z} \in SUBSET Int
        OBVIOUS
      <4> QED BY <3>3, <4>1
    <3>5. z \in Int /\ x \in Int
      BY <3>2, <3>4
    <3>6. CASE z <= x
      BY <3>4, <3>6
    <3>7. CASE x <= z
      <4>1. ASSUME NEW y \in S PROVE y <= z
        <5>1. y \in Int
          OBVIOUS
        <5>2. y = z \/ y <= x
          BY <3>4
        <5> QED BY <3>5, <3>7, <5>1, <5>2
      <4> QED BY <3>2, <4>1
    <3> QED BY <3>5, <3>6, <3>7
  <2>2. n + 1 \in Nat /\ (n + 1) + 1 = n + 2
    OBVIOUS
  <2> QED BY <2>1, <2>2
<1> HIDE DEF T
<1>3. T = Nat
  <2>1. T \in SUBSET Nat
    BY DEF T
  <2> QED BY <1>1, <1>2, <2>1, Induction
<1> QED BY <1>3 DEF T

-----------------------------------------------------------------------------
(* The persisted text of a frontier.                                       *)

(* The orders JsonArray chooses from.                                      *)
Listings(S) == {s \in [1..Cardinality(S) -> S] : \A i, j \in DOMAIN s : i < j => s[i] < s[j]}

(* Every finite set of integers can be listed in order.                    *)
LEMMA Listed ==
  \A n \in Nat : \A S \in SUBSET Int :
    IsFiniteSet(S) /\ Cardinality(S) = n => Listings(S) # {}
<1> DEFINE Can(S) == Listings(S) # {}
           T == {n \in Nat : \A S \in SUBSET Int : IsFiniteSet(S) /\ Cardinality(S) = n => Can(S)}
<1>1. 0 \in T
  <2>1. ASSUME NEW S \in SUBSET Int, IsFiniteSet(S), Cardinality(S) = 0 PROVE Can(S)
    <3>1. 1..0 = {}
      OBVIOUS
    <3>2. [i \in 1..0 |-> 0] \in [1..0 -> S]
      BY <3>1
    <3>3. \A i, j \in 1..0 : i < j => [k \in 1..0 |-> 0][i] < [k \in 1..0 |-> 0][j]
      BY <3>1
    <3>4. [i \in 1..0 |-> 0] \in Listings(S)
      BY <2>1, <3>2, <3>3 DEF Listings
    <3> QED BY <3>4
  <2> QED BY <2>1
<1>2. ASSUME NEW n \in T PROVE n + 1 \in T
  <2>0. n \in Nat
    OBVIOUS
  <2>1. ASSUME NEW S \in SUBSET Int, IsFiniteSet(S), Cardinality(S) = n + 1 PROVE Can(S)
    <3>1. PICK x \in S : \A y \in S : y <= x
      BY <2>0, <2>1, FiniteGreatest
    <3>2. IsFiniteSet(S \ {x}) /\ Cardinality(S \ {x}) = n
      BY <2>0, <2>1, <3>1, FS_RemoveElement
    <3>3. S \ {x} \in SUBSET Int
      OBVIOUS
    <3>4. PICK s : s \in Listings(S \ {x})
      BY <3>2, <3>3
    <3>5. /\ s \in [1..n -> S \ {x}]
          /\ \A i, j \in 1..n : i < j => s[i] < s[j]
      BY <3>2, <3>4 DEF Listings
    <3> DEFINE r == [i \in 1..(n + 1) |-> IF i = n + 1 THEN x ELSE s[i]]
    <3>6. ASSUME NEW i \in 1..(n + 1), i # n + 1 PROVE r[i] \in S /\ r[i] < x /\ r[i] = s[i] /\ i \in 1..n
      <4>1. i \in 1..n
        BY <2>0, <3>6
      <4>2. r[i] = s[i] /\ s[i] \in S \ {x}
        BY <3>5, <3>6, <4>1
      <4>3. s[i] <= x /\ s[i] # x /\ s[i] \in Int /\ x \in Int
        BY <3>1, <4>2
      <4> QED BY <4>1, <4>2, <4>3
    <3>7. r[n + 1] = x
      BY <2>0
    <3>8. r \in [1..(n + 1) -> S]
      BY <3>1, <3>5, <2>0
    <3>9. ASSUME NEW i \in 1..(n + 1), NEW j \in 1..(n + 1), i < j PROVE r[i] < r[j]
      <4>1. i # n + 1
        BY <2>0, <3>9
      <4>2. r[i] < x /\ r[i] = s[i] /\ i \in 1..n
        BY <3>6, <4>1
      <4>3. CASE j = n + 1
        BY <3>7, <4>2, <4>3
      <4>4. CASE j # n + 1
        <5>1. r[j] = s[j] /\ j \in 1..n
          BY <3>6, <4>4
        <5>2. s[i] < s[j]
          BY <3>5, <3>9, <4>2, <5>1
        <5> QED BY <4>2, <5>1, <5>2
      <4> QED BY <4>3, <4>4
    <3>10. DOMAIN r = 1..(n + 1)
      OBVIOUS
    <3> HIDE DEF r
    <3>11. r \in Listings(S)
      BY <2>1, <3>8, <3>9, <3>10 DEF Listings
    <3> QED BY <3>11
  <2> QED BY <2>0, <2>1
<1> HIDE DEF T
<1>3. T = Nat
  <2>1. T \in SUBSET Nat
    BY DEF T
  <2> QED BY <1>1, <1>2, <2>1, Induction
<1> QED BY <1>3 DEF T

(* The array lists exactly the set.                                        *)
LEMMA JsonArrayLists ==
  ASSUME NEW S \in SUBSET Int, IsFiniteSet(S)
  PROVE  {JsonArray(S)[i] : i \in DOMAIN JsonArray(S)} = S
<1> DEFINE n == Cardinality(S)
           s == JsonArray(S)
<1>1. n \in Nat
  BY FS_CardinalityType
<1>2. Listings(S) # {}
  BY <1>1, Listed
<1>3. s \in [1..n -> S] /\ \A i, j \in DOMAIN s : i < j => s[i] < s[j]
  BY <1>2 DEF Listings, JsonArray
<1>4. DOMAIN s = 1..n
  BY <1>3
<1> HIDE DEF s
<1>5. ASSUME NEW i \in 1..n, NEW j \in 1..n, s[i] = s[j] PROVE i = j
  <2>1. s[i] \in Int /\ s[j] \in Int /\ i \in Int /\ j \in Int
    <3> HIDE DEF n
    <3>1. s[i] \in S /\ s[j] \in S
      BY <1>3
    <3>2. i \in Int /\ j \in Int
      BY <1>1
    <3> QED BY <3>1, <3>2
  <2>2. ~(i < j) /\ ~(j < i)
    BY <1>3, <1>4, <1>5, <2>1
  <2> QED BY <2>1, <2>2
<1>6. s \in Injection(1..n, S)
  BY <1>3, <1>5 DEF Injection, IsInjective
<1>7. IsFiniteSet(1..n) /\ Cardinality(1..n) = n
  BY <1>1, FS_Interval
<1>8. s \in Surjection(1..n, S)
  BY <1>6, <1>7, FS_Injection
<1>9. \A x \in S : \E i \in 1..n : s[i] = x
  BY <1>8 DEF Surjection
<1>10. {s[i] : i \in DOMAIN s} = S
  BY <1>3, <1>4, <1>9
<1> QED BY <1>10 DEF s

Frontiers == [time_ms : Nat \cup {Unbounded}, seen : SUBSET Identity]

(* What was encoded decodes to itself.                                     *)
LEMMA DecodeEncode ==
  ASSUME NEW p \in Frontiers
  PROVE  decode(encode(p)) = p /\ encode(p) # NoText
<1>1. p.seen \in SUBSET Int /\ IsFiniteSet(p.seen)
  BY FrontierAssumption, FS_Subset DEF Frontiers
<1>2. {JsonArray(p.seen)[i] : i \in DOMAIN JsonArray(p.seen)} = p.seen
  BY <1>1, JsonArrayLists
<1>3. encode(p).time_ms = p.time_ms /\ encode(p).seen = JsonArray(p.seen) /\ encode(p).kind = "json"
  BY DEF encode
<1>4. decode(encode(p)) = [time_ms |-> p.time_ms, seen |-> p.seen]
  BY <1>2, <1>3 DEF decode
<1>5. decode(encode(p)) = p
  BY <1>4 DEF Frontiers
<1>6. NoText.kind = "null"
  BY DEF NoText
<1> QED BY <1>3, <1>5, <1>6

-----------------------------------------------------------------------------
(* The laws of frontiers, with Option::None as the frontier below all.     *)

(* The fold of two frontiers: a frontier, at the later of the instants,    *)
(* with the identities both saw at it.                                     *)
LEMMA FrontierAdvance ==
  ASSUME NEW a \in Frontiers, NEW b \in Frontiers
  PROVE  /\ advance(a, b) \in Frontiers
         /\ a.time_ms <= advance(a, b).time_ms
         /\ b.time_ms <= advance(a, b).time_ms
         /\ a.time_ms < b.time_ms => advance(a, b) = b
         /\ b.time_ms < a.time_ms => advance(a, b) = a
         /\ a.time_ms = b.time_ms => /\ advance(a, b).time_ms = a.time_ms
                                     /\ advance(a, b).seen = a.seen \cup b.seen
  BY DEF Frontiers, advance, Unbounded

(* The absent position lies below every instant.                           *)
LEMMA NoneFrontier == None \in Frontiers /\ None.time_ms = -1 /\ None.seen = {}
  BY DEF None, Frontiers, Unbounded

(* A frontier is its instant and its identities.                           *)
LEMMA FrontierTime ==
  ASSUME NEW p \in Frontiers
  PROVE  /\ p.time_ms \in Int /\ p.time_ms >= -1 /\ p.seen \subseteq Identity
         /\ p = [time_ms |-> p.time_ms, seen |-> p.seen]
  BY DEF Frontiers, Unbounded

(* Two frontiers are equal when their parts are.                           *)
LEMMA FrontierEqual ==
  ASSUME NEW a \in Frontiers, NEW b \in Frontiers,
         a.time_ms = b.time_ms, a.seen = b.seen
  PROVE  a = b
  BY FrontierTime

(* The fold of three frontiers does not depend on the order of folds.      *)
LEMMA FrontierAssociative ==
  ASSUME NEW a \in Frontiers, NEW b \in Frontiers, NEW c \in Frontiers
  PROVE  advance(advance(a, b), c) = advance(a, advance(b, c))
<1> DEFINE ab == advance(a, b)
           bc == advance(b, c)
<1>1. {a.time_ms, b.time_ms, c.time_ms} \subseteq Int
  BY FrontierTime
<1>2. ab \in Frontiers /\ bc \in Frontiers
  BY FrontierAdvance
<1>3. advance(ab, c) \in Frontiers /\ advance(a, bc) \in Frontiers
  BY <1>2, FrontierAdvance
<1>4. CASE a.time_ms = b.time_ms /\ b.time_ms = c.time_ms
  <2>1. ab.time_ms = a.time_ms /\ bc.time_ms = b.time_ms
    BY <1>4, FrontierAdvance
  <2>2. ab.seen = a.seen \cup b.seen /\ bc.seen = b.seen \cup c.seen
    BY <1>4, FrontierAdvance
  <2>3. /\ advance(ab, c).time_ms = ab.time_ms
        /\ advance(ab, c).seen = ab.seen \cup c.seen
    BY <1>2, <1>4, <2>1, FrontierAdvance
  <2>4. /\ advance(a, bc).time_ms = a.time_ms
        /\ advance(a, bc).seen = a.seen \cup bc.seen
    BY <1>2, <1>4, <2>1, FrontierAdvance
  <2>5. advance(ab, c).seen = advance(a, bc).seen
    BY <2>2, <2>3, <2>4
  <2>6. advance(ab, c).time_ms = advance(a, bc).time_ms
    BY <2>1, <2>3, <2>4
  <2> QED BY <1>3, <2>5, <2>6, FrontierEqual
<1>5. CASE a.time_ms = b.time_ms /\ b.time_ms # c.time_ms
  BY <1>1, <1>2, <1>5, FrontierAdvance
<1>6. CASE a.time_ms # b.time_ms
  BY <1>1, <1>2, <1>6, FrontierAdvance
<1> QED BY <1>4, <1>5, <1>6

(* Time frontiers keep the laws of the Position trait (position.rs): the   *)
(* fold never regresses and covers what was folded in; what is covered     *)
(* changes nothing; nothing covered is forgotten, also by a fold that      *)
(* merges the identities of an instant; the order of folds does not        *)
(* matter; and a resume, which reads the boundary instant itself again,    *)
(* reads everything that is not covered.                                   *)
THEOREM TimeFrontierLaws ==
  ASSUME NEW w \in TimeFrontiers, NEW p \in TimeFrontiers, NEW q \in TimeFrontiers
  PROVE  /\ sort_key(w) <= sort_key(advance(w, p))
         /\ contains(advance(w, p), p)
         /\ contains(w, p) <=> advance(w, p) = w
         /\ contains(w, p) => contains(advance(w, q), p)
         /\ advance(advance(w, p), q) = advance(w, advance(p, q))
         /\ ~contains(w, p) => resume_key(w) <= sort_key(p)
<1>0. w \in Frontiers /\ p \in Frontiers /\ q \in Frontiers
  BY DEF TimeFrontiers, Frontiers
<1>1. {w.time_ms, p.time_ms, q.time_ms} \subseteq Int
  BY <1>0, FrontierTime
<1>2. sort_key(w) <= sort_key(advance(w, p))
  BY <1>0, FrontierAdvance DEF sort_key
<1>3. contains(advance(w, p), p)
  BY <1>0, <1>1, FrontierAdvance DEF contains
<1>4. contains(w, p) <=> advance(w, p) = w
  <2>1. CASE w.time_ms = p.time_ms
    <3>1. contains(w, p) <=> p.seen \subseteq w.seen
      BY <1>1, <2>1 DEF contains
    <3>2. p.seen \subseteq w.seen <=> w.seen \cup p.seen = w.seen
      OBVIOUS
    <3>3. /\ advance(w, p) \in Frontiers
          /\ advance(w, p).time_ms = w.time_ms
          /\ advance(w, p).seen = w.seen \cup p.seen
      BY <1>0, <2>1, FrontierAdvance
    <3>4. w.seen \cup p.seen = w.seen => advance(w, p) = w
      BY <1>0, <3>3, FrontierEqual
    <3>5. advance(w, p) = w => w.seen \cup p.seen = w.seen
      BY <3>3
    <3> QED BY <3>1, <3>2, <3>4, <3>5
  <2>2. CASE w.time_ms # p.time_ms
    BY <1>0, <1>1, <2>2, FrontierAdvance DEF contains
  <2> QED BY <2>1, <2>2
<1>5. contains(w, p) => contains(advance(w, q), p)
  <2>1. CASE w.time_ms = q.time_ms
    BY <1>0, <1>1, <2>1, FrontierAdvance DEF contains
  <2>2. CASE w.time_ms # q.time_ms
    BY <1>0, <1>1, <2>2, FrontierAdvance DEF contains
  <2> QED BY <2>1, <2>2
<1>6. advance(advance(w, p), q) = advance(w, advance(p, q))
  BY <1>0, FrontierAssociative
<1>7. ~contains(w, p) => resume_key(w) <= sort_key(p)
  BY <1>1 DEF contains, resume_key, sort_key
<1> QED BY <1>2, <1>3, <1>4, <1>5, <1>6, <1>7

(* Whether a frontier covers an event, published as a says.                *)
Covers(a, p, h) == a[h] < p.time_ms \/ (a[h] = p.time_ms /\ h \in p.seen)

(* contains, for the position of one event.                                *)
LEMMA ContainsIs ==
  ASSUME NEW p, NEW h
  PROVE  contains(p, item(h)) <=> Covers(at, p, h)
  BY DEF Covers, contains, item

(* A fold covers what either of its parts covers.                          *)
LEMMA CoversAdvance ==
  ASSUME NEW p \in Frontiers, NEW q \in Frontiers, NEW a, NEW h, a[h] \in Int
  PROVE  Covers(a, advance(p, q), h) <=> Covers(a, p, h) \/ Covers(a, q, h)
<1>1. p.time_ms \in Int /\ q.time_ms \in Int
  BY FrontierTime
<1>2. CASE p.time_ms < q.time_ms
  BY <1>1, <1>2, FrontierAdvance DEF Covers
<1>3. CASE q.time_ms < p.time_ms
  BY <1>1, <1>3, FrontierAdvance DEF Covers
<1>4. CASE p.time_ms = q.time_ms
  BY <1>1, <1>4, FrontierAdvance DEF Covers
<1> QED BY <1>1, <1>2, <1>3, <1>4

-----------------------------------------------------------------------------
(* Sequences of identities.                                                *)

Elems(s) == {s[i] : i \in DOMAIN s}

Distinct(s) == \A i, j \in DOMAIN s : s[i] = s[j] => i = j

(* The empty sequence.                                                     *)
LEMMA ElemsEmpty == Elems(<<>>) = {} /\ Distinct(<<>>)
  BY DEF Elems, Distinct

(* A sequence of one.                                                      *)
LEMMA ElemsOne ==
  ASSUME NEW h \in Identity
  PROVE  /\ Elems(<<h>>) = {h} /\ Distinct(<<h>>) /\ <<h>> # <<>>
         /\ <<h>> \in Seq(Identity)
  BY DEF Elems, Distinct

(* What Append adds.                                                       *)
LEMMA ElemsAppend ==
  ASSUME NEW s \in Seq(Identity), NEW h \in Identity
  PROVE  /\ Append(s, h) \in Seq(Identity) /\ Append(s, h) # <<>>
         /\ Elems(Append(s, h)) = Elems(s) \cup {h}
         /\ Distinct(s) /\ h \notin Elems(s) => Distinct(Append(s, h))
<1> DEFINE r == Append(s, h)
<1>1. /\ Len(s) \in Nat /\ DOMAIN s = 1..Len(s)
      /\ r \in Seq(Identity) /\ DOMAIN r = 1..(Len(s) + 1) /\ r # <<>>
      /\ \A i \in 1..Len(s) : r[i] = s[i]
      /\ r[Len(s) + 1] = h
  OBVIOUS
<1> HIDE DEF r
<1>2. Elems(r) = Elems(s) \cup {h}
  <2>1. ASSUME NEW x \in Elems(r) PROVE x \in Elems(s) \cup {h}
    <3>1. PICK i \in 1..(Len(s) + 1) : x = r[i]
      BY <1>1 DEF Elems
    <3>2. i = Len(s) + 1 \/ i \in 1..Len(s)
      BY <1>1
    <3> QED BY <1>1, <3>1, <3>2 DEF Elems
  <2>2. ASSUME NEW x \in Elems(s) PROVE x \in Elems(r)
    <3>1. PICK i \in 1..Len(s) : x = s[i]
      BY <1>1 DEF Elems
    <3>2. i \in 1..(Len(s) + 1) /\ r[i] = x
      BY <1>1, <3>1
    <3> QED BY <1>1, <3>2 DEF Elems
  <2>3. h \in Elems(r)
    BY <1>1 DEF Elems
  <2> QED BY <2>1, <2>2, <2>3
<1>3. ASSUME Distinct(s), h \notin Elems(s), NEW i \in DOMAIN r, NEW j \in DOMAIN r, r[i] = r[j] PROVE i = j
  <2>1. \A k \in 1..Len(s) : r[k] = s[k] /\ s[k] # h
    BY <1>1, <1>3 DEF Elems
  <2>2. i = Len(s) + 1 \/ i \in 1..Len(s)
    BY <1>1
  <2>3. j = Len(s) + 1 \/ j \in 1..Len(s)
    BY <1>1
  <2>4. CASE i \in 1..Len(s) /\ j \in 1..Len(s)
    BY <1>1, <1>3, <2>4 DEF Distinct
  <2> QED BY <1>1, <1>3, <2>1, <2>2, <2>3, <2>4
<1>4. Distinct(s) /\ h \notin Elems(s) => Distinct(r)
  BY <1>3 DEF Distinct
<1> QED BY <1>1, <1>2, <1>4 DEF r

(* What Tail leaves.                                                       *)
LEMMA ElemsTail ==
  ASSUME NEW s \in Seq(Identity), s # <<>>
  PROVE  /\ Tail(s) \in Seq(Identity)
         /\ Head(s) \in Identity
         /\ Elems(s) = {Head(s)} \cup Elems(Tail(s))
         /\ DOMAIN Tail(s) = 1..(Len(s) - 1) /\ DOMAIN s = 1..Len(s) /\ Len(s) \in Nat \ {0}
         /\ \A i \in DOMAIN Tail(s) : i + 1 \in DOMAIN s /\ Tail(s)[i] = s[i + 1]
         /\ Head(s) = s[1]
<1> DEFINE r == Tail(s)
<1>1. /\ Len(s) \in Nat \ {0} /\ DOMAIN s = 1..Len(s)
      /\ r \in Seq(Identity) /\ DOMAIN r = 1..(Len(s) - 1)
      /\ \A i \in 1..(Len(s) - 1) : r[i] = s[i + 1]
      /\ Head(s) = s[1] /\ Head(s) \in Identity
  OBVIOUS
<1> HIDE DEF r
<1>2. \A i \in DOMAIN r : i + 1 \in DOMAIN s /\ r[i] = s[i + 1]
  BY <1>1
<1>3. ASSUME NEW x \in Elems(s) PROVE x = Head(s) \/ x \in Elems(r)
  <2>1. PICK i \in 1..Len(s) : x = s[i]
    BY <1>1 DEF Elems
  <2>2. CASE i = 1
    BY <1>1, <2>1, <2>2
  <2>3. CASE i # 1
    <3>1. i - 1 \in DOMAIN r /\ (i - 1) + 1 = i
      BY <1>1, <2>3
    <3>2. r[i - 1] = x
      BY <1>2, <2>1, <3>1
    <3> QED BY <3>1, <3>2 DEF Elems
  <2> QED BY <2>2, <2>3
<1>4. ASSUME NEW x \in Elems(r) PROVE x \in Elems(s)
  <2>1. PICK i \in DOMAIN r : x = r[i]
    BY DEF Elems
  <2> QED BY <1>2, <2>1 DEF Elems
<1>5. Head(s) \in Elems(s)
  BY <1>1 DEF Elems
<1>6. Elems(s) = {Head(s)} \cup Elems(r)
  BY <1>3, <1>4, <1>5
<1> QED BY <1>1, <1>2, <1>6 DEF r

(* How often an identity occurs in a sequence without repetitions.         *)
LEMMA OccursOnce ==
  ASSUME NEW s, Distinct(s), NEW h
  PROVE  /\ h \in Elems(s) => Occurs(h, s) = 1
         /\ h \notin Elems(s) => Occurs(h, s) = 0
<1> DEFINE I == {i \in DOMAIN s : s[i] = h}
<1>1. ASSUME h \in Elems(s) PROVE Occurs(h, s) = 1
  <2>1. PICK i \in DOMAIN s : s[i] = h
    BY <1>1 DEF Elems
  <2>2. I = {i}
    BY <2>1 DEF Distinct
  <2>3. Cardinality({i}) = 1
    BY FS_Singleton
  <2> QED BY <2>2, <2>3 DEF Occurs
<1>2. ASSUME h \notin Elems(s) PROVE Occurs(h, s) = 0
  <2>1. I = {}
    BY <1>2 DEF Elems
  <2>2. Cardinality({}) = 0
    BY FS_EmptySet
  <2> QED BY <2>1, <2>2 DEF Occurs
<1> QED BY <1>1, <1>2

-----------------------------------------------------------------------------
(***************************************************************************)
(* The inductive invariant of the store and the writers.                   *)
(***************************************************************************)

Groups == [position : Frontiers, rows : Seq(Identity)]
Pendings == UNION {[D -> Groups] : D \in SUBSET Instants}

BeforeReady == {"idle", "attached", "tip"}
Filling == {"ready", "backfill"}

TypeOK ==
  /\ at \in [Identity -> Instants \cup {Unbounded}]
  /\ feed \in Seq(Identity)
  /\ stored_position \in Frontiers
  /\ to_block \in Instants \cup {Unbounded}
  /\ phase \in BeforeReady \cup Filling \cup {"live"}
  /\ tip \in Nat /\ last \in Frontiers
  /\ fetched \in Seq(Identity) /\ cursor \in Nat
  /\ settled \in [healthy : BOOLEAN, current : Frontiers, buffer : Seq(Identity),
                  watermark : Frontiers]
  /\ window \in [healthy : BOOLEAN, pending : Pendings, head : Instants \cup {Unbounded},
                 watermark : Frontiers, maturing : SUBSET Instants]
  /\ delivered \in [Identity -> Nat]

(* At most one row of an event, none of an event that was not published    *)
(* or lies above the stored frontier, and the frontier lists the rows at   *)
(* its instant.                                                            *)
StoreInv ==
  /\ rows \in [Identity -> {0, 1}]
  /\ \A h \in Identity :
       /\ rows[h] = 1 => at[h] # Unbounded /\ at[h] <= stored_position.time_ms
       /\ h \in stored_position.seen <=> rows[h] = 1 /\ at[h] = stored_position.time_ms

(* A group that is not written yet: events of one instant, each once, none *)
(* of them stored, under a position that lists them.                       *)
Group(a, r, pos, hs, t) ==
  /\ t \in Instants
  /\ pos = [time_ms |-> t, seen |-> Elems(hs)]
  /\ hs # <<>> /\ Distinct(hs)
  /\ \A h \in Elems(hs) : a[h] = t /\ r[h] = 0

(* The settled writer of a backfill knows what is stored, and its open     *)
(* group lies between the stored frontier and the cut.                     *)
SettledInv ==
  phase \in Filling /\ settled.healthy =>
    /\ settled.watermark = stored_position
    /\ settled.current = None => settled.buffer = <<>>
    /\ settled.current # None =>
         /\ Group(at, rows, settled.current, settled.buffer, settled.current.time_ms)
         /\ stored_position.time_ms <= settled.current.time_ms
         /\ settled.current.time_ms <= final_cut

(* What the feed delivers was published, a backfill nothing above its tip. *)
SourceInv ==
  /\ \A h \in Elems(fetched) : at[h] # Unbounded /\ at[h] <= effective_tip
  /\ \A h \in Elems(feed) : at[h] # Unbounded

(* Where subscribe has got to.                                             *)
OpenedInv ==
  /\ phase \in BeforeReady =>
       /\ settled = NewSettled(None) /\ window = NewWindow(None)
       /\ fetched = <<>> /\ cursor = 0 /\ delivered = [h \in Identity |-> 0]
  /\ phase \in Filling => cursor = 0
  /\ phase = "ready" =>
       /\ last = stored_position /\ settled = NewSettled(stored_position)
       /\ window.pending = NoGroups /\ delivered = [h \in Identity |-> 0]

(* The groups of the window: a backfill matures none of them, and of those *)
(* that mature the lowest go first.                                        *)
PendingInv ==
  /\ ~window.healthy => window.pending = NoGroups /\ window.maturing = {}
  /\ phase \in Filling => window.maturing = {} /\ window.head <= tip
  /\ window.maturing \subseteq DOMAIN window.pending
  /\ \A k \in window.maturing : window.head >= k + Depth
  /\ \A j \in DOMAIN window.pending, k \in window.maturing : j < k => j \in window.maturing
  /\ \A k \in DOMAIN window.pending :
       /\ Group(at, rows, window.pending[k].position, window.pending[k].rows, k)
       /\ window.watermark.time_ms <= k
       /\ phase \in Filling => final_cut < k /\ k <= tip

(* The watermark of a healthy window covers what is stored; during a       *)
(* backfill, what is stored above the cut.                                 *)
WatermarkInv ==
  window.healthy /\ phase \notin BeforeReady =>
    /\ stored_position.time_ms <= window.watermark.time_ms
    /\ phase \in Filling => final_cut <= window.watermark.time_ms
    /\ \A h \in Identity :
         rows[h] = 1 /\ (phase \in Filling => at[h] > final_cut) => Covers(at, window.watermark, h)

Base == TypeOK /\ StoreInv /\ SettledInv /\ SourceInv /\ OpenedInv /\ PendingInv /\ WatermarkInv

-----------------------------------------------------------------------------
(* The assumptions on the constants.                                       *)
LEMMA Depths == Depth \in Nat /\ Depth > 0 /\ Jitter \in Nat /\ MaxTime \in Nat
  BY FrontierAssumption

(* Instants are naturals, and Unbounded is none of them.                   *)
LEMMA InstantInts == Instants \subseteq Nat /\ Unbounded = -1 /\ Unbounded \notin Instants
  BY Depths DEF Instants, Unbounded

(* Instants are ordered as integers are.                                   *)
LEMMA InstantInt ==
  ASSUME NEW t \in Instants \cup {Unbounded}
  PROVE  t \in Int /\ t >= -1
  BY Depths DEF Instants, Unbounded

(* When an event was published, if it was.                                 *)
LEMMA AtInt ==
  ASSUME TypeOK, NEW h \in Identity
  PROVE  at[h] \in Int /\ at[h] \in Instants \cup {Unbounded} /\ at[h] >= -1
<1>1. at[h] \in Instants \cup {Unbounded}
  BY DEF TypeOK
<1> QED BY <1>1, InstantInt

(* An empty window.                                                        *)
LEMMA NoGroupsFacts == NoGroups \in Pendings /\ DOMAIN NoGroups = {}
<1>1. DOMAIN NoGroups = {}
  BY DEF NoGroups
<1>2. NoGroups \in [{} -> Groups]
  BY DEF NoGroups
<1> QED BY <1>1, <1>2 DEF Pendings

(* What a window of groups holds.                                          *)
LEMMA PendingFacts ==
  ASSUME NEW f \in Pendings
  PROVE  /\ DOMAIN f \subseteq Instants
         /\ \A k \in DOMAIN f : f[k] \in Groups /\ f[k].rows \in Seq(Identity)
                                /\ f[k].position \in Frontiers
<1>1. PICK D \in SUBSET Instants : f \in [D -> Groups]
  BY DEF Pendings
<1> QED BY <1>1 DEF Groups

(* A function from instants to groups is a window of groups.               *)
LEMMA PendingIntro ==
  ASSUME NEW D \in SUBSET Instants, NEW f \in [D -> Groups]
  PROVE  f \in Pendings
  BY DEF Pendings

(* The newest instant of the feed exists.                                  *)
LEMMA NewestIs ==
  ASSUME TypeOK
  PROVE  /\ Newest \in Instants \cup {Unbounded}
         /\ \A h \in Identity : at[h] <= Newest
         /\ Newest = Unbounded \/ \E h \in Identity : at[h] = Newest
<1> DEFINE X == {at[h] + 1 : h \in Identity} \cup {0}
           Y == {at[h] : h \in Identity} \cup {Unbounded}
<1>1. X \in SUBSET Nat /\ \A x \in X : x <= MaxTime + 1
  <2>1. ASSUME NEW h \in Identity PROVE at[h] + 1 \in Nat /\ at[h] + 1 <= MaxTime + 1
    <3>1. at[h] \in Instants \cup {Unbounded}
      BY AtInt
    <3> QED BY <3>1, Depths DEF Instants, Unbounded
  <2> QED BY <2>1, Depths
<1>2. PICK x \in X : \A y \in X : y <= x
  <2>1. X # {} /\ MaxTime + 1 \in Nat
    BY Depths
  <2> HIDE DEF X
  <2> QED BY <1>1, <2>1, Greatest
<1>3. x \in Nat
  BY <1>1
<1>4. x - 1 \in Y
  <2>1. CASE x = 0
    BY <2>1 DEF Unbounded
  <2>2. ASSUME NEW h \in Identity, x = at[h] + 1 PROVE x - 1 \in Y
    <3>1. x - 1 = at[h]
      BY <2>2, AtInt
    <3> QED BY <3>1
  <2> QED BY <1>2, <2>1, <2>2
<1>5. ASSUME NEW h \in Identity PROVE at[h] <= x - 1
  <2>1. at[h] + 1 <= x
    BY <1>2
  <2> QED BY <2>1, <1>3, AtInt
<1>6. Y \subseteq Instants \cup {Unbounded}
  BY AtInt
<1>7. \E t \in Instants \cup {Unbounded} : t \in Y /\ \A h \in Identity : at[h] <= t
  BY <1>4, <1>5, <1>6
<1>8. /\ Newest \in Instants \cup {Unbounded}
      /\ Newest \in Y /\ \A h \in Identity : at[h] <= Newest
  BY <1>7 DEF Newest
<1> QED BY <1>8

(* The tip lags the newest instant by the jitter, and stops at zero.       *)
LEMMA TipIs ==
  ASSUME TypeOK
  PROVE  /\ tip_ms \in Nat
         /\ tip_ms >= Newest - Jitter
         /\ tip_ms = 0 \/ tip_ms = Newest - Jitter
<1>1. Newest \in Int
  BY NewestIs, InstantInt
<1> QED BY <1>1, Depths DEF tip_ms

(* The cut of a backfill.                                                  *)
LEMMA CutFacts ==
  ASSUME TypeOK
  PROVE  /\ effective_tip \in Nat /\ effective_tip <= tip
         /\ final_cut \in Nat \cup {Unbounded} /\ final_cut <= effective_tip
         /\ Bounded => final_cut = effective_tip
         /\ ~Bounded => effective_tip = tip /\ final_cut < tip /\ \A k \in Nat : k > final_cut => k + Depth > tip
<1>1. tip \in Nat /\ to_block \in Nat \cup {-1} /\ Depth \in Nat /\ Depth > 0
  BY InstantInts, Depths DEF TypeOK
<1>2. effective_tip \in Nat /\ effective_tip <= tip /\ (~Bounded => effective_tip = tip)
  BY <1>1 DEF effective_tip, Bounded, Unbounded
<1>3. CASE Bounded
  BY <1>2, <1>3, <1>1 DEF final_cut
<1>4. CASE ~Bounded
  BY <1>2, <1>4, <1>1 DEF final_cut, Unbounded
<1> QED BY <1>2, <1>3, <1>4

(* The cut depends on the tip and the cap alone.                           *)
LEMMA CutSame ==
  ASSUME tip' = tip, to_block' = to_block
  PROVE  final_cut' = final_cut /\ effective_tip' = effective_tip /\ Bounded' = Bounded
  BY DEF final_cut, effective_tip, Bounded

(* The types of the parts of the two writers.                              *)
LEMMA SettledFields ==
  ASSUME TypeOK
  PROVE  /\ settled.healthy \in BOOLEAN /\ settled.current \in Frontiers
         /\ settled.buffer \in Seq(Identity) /\ settled.watermark \in Frontiers
         /\ settled.current.time_ms \in Int /\ settled.watermark.time_ms \in Int
         /\ window.healthy \in BOOLEAN /\ window.pending \in Pendings
         /\ window.head \in Int /\ window.watermark \in Frontiers
         /\ window.watermark.time_ms \in Int
         /\ stored_position \in Frontiers /\ stored_position.time_ms \in Int
  BY FrontierTime, InstantInts DEF TypeOK

(* One transaction of the Store, for a group that is not below the stored  *)
(* frontier: its rows join, the frontier moves to its instant.             *)
LEMMA Wrote ==
  ASSUME TypeOK, StoreInv, at' = at,
         NEW pos \in Frontiers, NEW hs \in Seq(Identity), NEW t, Group(at, rows, pos, hs, t),
         stored_position.time_ms <= t, write(pos, hs)
  PROVE  /\ stored_position' = advance(stored_position, pos)
         /\ stored_position' \in Frontiers
         /\ stored_position'.time_ms = t
         /\ StoreInv'
         /\ \A h \in Identity : rows'[h] = 1 <=> rows[h] = 1 \/ h \in Elems(hs)
<1>1. /\ advance(stored_position, pos) \in Frontiers
      /\ pos.time_ms = t /\ pos.seen = Elems(hs) /\ t \in Int
      /\ stored_position \in Frontiers /\ stored_position.time_ms \in Int
  BY FrontierAdvance, SettledFields, InstantInts DEF Group
<1>2. stored_position' = advance(stored_position, pos)
  <2>1. progress' = encode(advance(stored_position, pos))
    BY DEF write
  <2>2. decode(progress') = advance(stored_position, pos) /\ progress' # NoText
    BY <1>1, <2>1, DecodeEncode
  <2> QED BY <2>2 DEF stored_position
<1>3. /\ advance(stored_position, pos).time_ms = t
      /\ stored_position.time_ms = t =>
           advance(stored_position, pos).seen = stored_position.seen \cup Elems(hs)
      /\ stored_position.time_ms < t => advance(stored_position, pos).seen = Elems(hs)
  BY <1>1, FrontierAdvance
<1>4. ASSUME NEW h \in Identity
      PROVE  /\ h \in Elems(hs) => rows'[h] = 1 /\ at[h] = t
             /\ h \notin Elems(hs) => rows'[h] = rows[h]
             /\ rows'[h] \in {0, 1} /\ rows[h] \in {0, 1}
  <2>1. rows'[h] = rows[h] + Occurs(h, hs)
    BY DEF write
  <2>2. rows[h] \in {0, 1}
    BY DEF StoreInv
  <2>3. Distinct(hs)
    BY DEF Group
  <2>4. CASE h \in Elems(hs)
    <3>1. rows[h] = 0 /\ at[h] = t
      BY <2>4 DEF Group
    <3>2. Occurs(h, hs) = 1
      BY <2>3, <2>4, OccursOnce
    <3> QED BY <2>1, <2>2, <2>4, <3>1, <3>2
  <2>5. CASE h \notin Elems(hs)
    <3>1. Occurs(h, hs) = 0
      BY <2>3, <2>5, OccursOnce
    <3> QED BY <2>1, <2>2, <2>5, <3>1
  <2> QED BY <2>4, <2>5
<1>5. \A h \in Identity : rows'[h] = 1 <=> rows[h] = 1 \/ h \in Elems(hs)
  BY <1>4
<1>6. rows' \in [Identity -> {0, 1}]
  <2>1. rows' = [h \in Identity |-> rows[h] + Occurs(h, hs)]
    BY DEF write
  <2>2. DOMAIN rows' = Identity /\ rows' = [h \in Identity |-> rows'[h]]
    BY <2>1
  <2> QED BY <1>4, <2>2
<1>7. ASSUME NEW h \in Identity
      PROVE  /\ rows'[h] = 1 => at[h] # Unbounded /\ at[h] <= t
             /\ h \in stored_position'.seen <=> rows'[h] = 1 /\ at[h] = t
  <2>1. /\ rows[h] = 1 => at[h] # Unbounded /\ at[h] <= stored_position.time_ms
        /\ h \in stored_position.seen <=> rows[h] = 1 /\ at[h] = stored_position.time_ms
    BY DEF StoreInv
  <2>2. t \in Instants /\ at[h] \in Int
    BY AtInt DEF Group
  <2>3. rows'[h] = 1 => at[h] # Unbounded /\ at[h] <= t
    BY <1>1, <1>4, <2>1, <2>2, InstantInts
  <2>4. CASE stored_position.time_ms = t
    BY <1>2, <1>3, <1>4, <2>1, <2>3, <2>4
  <2>5. CASE stored_position.time_ms < t
    <3>1. rows[h] = 1 => at[h] # t
      BY <1>1, <2>1, <2>2, <2>5
    <3> QED BY <1>2, <1>3, <1>4, <2>3, <2>5, <3>1
  <2> QED BY <1>1, <2>3, <2>4, <2>5
<1>8. StoreInv'
  BY <1>2, <1>3, <1>6, <1>7 DEF StoreInv
<1> QED BY <1>1, <1>2, <1>3, <1>5, <1>8

-----------------------------------------------------------------------------
(***************************************************************************)
(* The steps that leave the writers alone.                                 *)
(***************************************************************************)

(* A group stays one while its events keep their instants and their rows.  *)
LEMMA GroupKept ==
  ASSUME NEW a, NEW b, NEW r, NEW s, NEW pos, NEW hs, NEW t, Group(a, r, pos, hs, t),
         \A h \in Elems(hs) : b[h] = a[h] /\ s[h] = r[h]
  PROVE  Group(b, s, pos, hs, t)
  BY DEF Group

(* The stored position is what the progress row says.                      *)
LEMMA StoredSame == ASSUME progress' = progress PROVE stored_position' = stored_position
  BY DEF stored_position

(* The two writers as subscribe makes them.                                *)
LEMMA NewWriters ==
  ASSUME NEW p \in Frontiers
  PROVE  /\ NewSettled(p) \in [healthy : BOOLEAN, current : Frontiers, buffer : Seq(Identity),
                              watermark : Frontiers]
         /\ NewWindow(p) \in [healthy : BOOLEAN, pending : Pendings,
                             head : Instants \cup {Unbounded}, watermark : Frontiers,
                             maturing : SUBSET Instants]
         /\ NewSettled(p).healthy /\ NewSettled(p).current = None
         /\ NewSettled(p).buffer = <<>> /\ NewSettled(p).watermark = p
         /\ NewWindow(p).healthy /\ NewWindow(p).pending = NoGroups
         /\ NewWindow(p).head = -1 /\ NewWindow(p).watermark = p /\ NewWindow(p).maturing = {}
<1>1. <<>> \in Seq(Identity)
  OBVIOUS
<1> QED BY <1>1, NoGroupsFacts, NoneFrontier DEF NewSettled, NewWindow, Unbounded

(* The state before subscribe.                                             *)
LEMMA IdleBase ==
  ASSUME phase = "idle", tip = 0, last = None, fetched = <<>>, cursor = 0,
         settled = NewSettled(None), window = NewWindow(None),
         delivered = [h \in Identity |-> 0],
         at \in [Identity -> Instants \cup {Unbounded}], feed \in Seq(Identity),
         stored_position \in Frontiers, to_block \in Instants \cup {Unbounded},
         StoreInv, \A h \in Elems(feed) : at[h] # Unbounded
  PROVE  Base
<1>1. TypeOK
  <2>1. <<>> \in Seq(Identity) /\ [h \in Identity |-> 0] \in [Identity -> Nat]
    OBVIOUS
  <2> QED BY <2>1, NewWriters, NoneFrontier DEF TypeOK, BeforeReady
<1>2. SettledInv
  BY DEF SettledInv, Filling
<1>3. SourceInv
  BY ElemsEmpty DEF SourceInv
<1>4. OpenedInv
  BY DEF OpenedInv, BeforeReady, Filling
<1>5. PendingInv
  BY NewWriters, NoneFrontier, NoGroupsFacts DEF PendingInv, Filling
<1>6. WatermarkInv
  BY DEF WatermarkInv, BeforeReady
<1> QED BY <1>1, <1>2, <1>3, <1>4, <1>5, <1>6 DEF Base

(* Nothing is published, stored or subscribed to.                          *)
LEMMA InitBase == ASSUME Init PROVE Base
<1>1. stored_position = None /\ stored_position \in Frontiers
  BY NoneFrontier DEF Init, stored_position
<1>2. StoreInv
  BY <1>1, NoneFrontier, InstantInts DEF Init, StoreInv
<1>3. at \in [Identity -> Instants \cup {Unbounded}] /\ feed \in Seq(Identity) /\ Elems(feed) = {}
  BY ElemsEmpty DEF Init
<1> QED BY <1>1, <1>2, <1>3, IdleBase DEF Init

(* A step that does not write.                                             *)
LEMMA StoreFrame ==
  ASSUME StoreInv, at' = at, UNCHANGED storeVars
  PROVE  StoreInv' /\ stored_position' = stored_position /\ rows' = rows
  BY StoredSame DEF StoreInv, storeVars

(* The stream is dropped, or the process dies; the Store stays.            *)
LEMMA ClosedBase ==
  ASSUME Base, Closed, UNCHANGED <<sourceVars, storeVars>>, to_block' \in Instants \cup {Unbounded}
  PROVE  Base'
<1>1. /\ StoreInv' /\ stored_position' = stored_position /\ stored_position \in Frontiers
      /\ at' = at /\ feed' = feed
  BY StoreFrame DEF Base, TypeOK, sourceVars
<1>2. /\ (phase = "idle")' /\ (tip = 0)' /\ (last = None)' /\ (fetched = <<>>)' /\ (cursor = 0)'
      /\ (settled = NewSettled(None))' /\ (window = NewWindow(None))'
      /\ (delivered = [h \in Identity |-> 0])'
  BY DEF Closed, NewSettled, NewWindow, None, NoGroups
<1>3. /\ (at \in [Identity -> Instants \cup {Unbounded}])' /\ (feed \in Seq(Identity))'
      /\ (stored_position \in Frontiers)' /\ (to_block \in Instants \cup {Unbounded})'
      /\ (\A h \in Elems(feed) : at[h] # Unbounded)'
  BY <1>1 DEF Base, TypeOK, SourceInv, Instants, Unbounded, Frontiers
<1> QED BY <1>1, <1>2, <1>3, IdleBase, PTL

(* The first two awaits of subscribe.                                      *)
LEMMA SubscribeBase == ASSUME Base, subscribe_live \/ read_tip PROVE Base'
<1>1. /\ at' = at /\ feed' = feed /\ UNCHANGED storeVars /\ to_block' = to_block
      /\ phase \in BeforeReady /\ phase' \in BeforeReady
      /\ last' = last /\ fetched' = fetched /\ cursor' = cursor /\ settled' = settled
      /\ window' = window /\ delivered' = delivered
      /\ tip' = tip \/ tip' = tip_ms
  BY DEF subscribe_live, read_tip, BeforeReady, sourceVars
<1>2. TypeOK /\ StoreInv /\ OpenedInv /\ SourceInv /\ PendingInv
  BY DEF Base
<1>3. StoreInv' /\ stored_position' = stored_position
  BY <1>1, <1>2, StoreFrame
<1>4. tip' \in Nat
  BY <1>1, <1>2, TipIs DEF TypeOK
<1>5. TypeOK'
  BY <1>1, <1>2, <1>3, <1>4 DEF TypeOK
<1>6. phase' \notin Filling
  BY <1>1 DEF BeforeReady, Filling
<1>7. /\ settled = NewSettled(None) /\ window = NewWindow(None)
      /\ fetched = <<>> /\ cursor = 0 /\ delivered = [h \in Identity |-> 0]
  BY <1>1, <1>2 DEF OpenedInv
<1>8. SettledInv'
  BY <1>6 DEF SettledInv
<1>9. SourceInv'
  BY <1>1, <1>2, <1>7, ElemsEmpty DEF SourceInv
<1>10. OpenedInv'
  <2>1. phase' # "ready"
    BY <1>6 DEF Filling
  <2>2. settled' = NewSettled(None) /\ window' = NewWindow(None)
    BY <1>1, <1>7
  <2> QED BY <1>1, <1>6, <1>7, <2>1, <2>2 DEF OpenedInv, NewSettled, NewWindow, None, NoGroups
<1>11. PendingInv'
  BY <1>1, <1>6, <1>7, NewWriters, NoneFrontier, NoGroupsFacts DEF PendingInv
<1>12. WatermarkInv'
  BY <1>1 DEF WatermarkInv
<1> QED BY <1>3, <1>5, <1>8, <1>9, <1>10, <1>11, <1>12 DEF Base

(* A published event is new: nothing the state mentions moves.             *)
LEMMA PublishFacts ==
  ASSUME TypeOK, publish
  PROVE  /\ at' \in [Identity -> Instants \cup {Unbounded}]
         /\ feed' \in Seq(Identity)
         /\ UNCHANGED <<sorts, storeVars, streamVars, to_block, replayed, settled, window, delivered>>
         /\ stored_position' = stored_position
         /\ \E h \in Identity, t \in Instants :
              /\ at[h] = Unbounded /\ at'[h] = t /\ t >= tip_ms /\ feed' = Append(feed, h)
              /\ \A g \in Identity : g # h => at'[g] = at[g]
         /\ \A g \in Identity : at[g] # Unbounded => at'[g] = at[g]
<1>1. PICK h \in Identity, t \in Instants :
        /\ at[h] = Unbounded /\ t >= tip_ms
        /\ at' = [at EXCEPT ![h] = t] /\ feed' = Append(feed, h)
        /\ UNCHANGED <<sorts, storeVars, streamVars, to_block, replayed, settled, window, delivered>>
  BY DEF publish
<1>2. at \in [Identity -> Instants \cup {Unbounded}] /\ feed \in Seq(Identity)
  BY DEF TypeOK
<1>3. at' \in [Identity -> Instants \cup {Unbounded}] /\ at'[h] = t
      /\ \A g \in Identity : g # h => at'[g] = at[g]
  BY <1>1, <1>2
<1>4. feed' \in Seq(Identity)
  BY <1>1, <1>2, ElemsAppend
<1>5. stored_position' = stored_position
  BY <1>1, StoredSame DEF storeVars
<1> QED BY <1>1, <1>3, <1>4, <1>5

(* An event is published: no group, row or frontier mentions it.           *)
LEMMA PublishBase == ASSUME Base, publish PROVE Base'
<1>1. TypeOK /\ StoreInv /\ SettledInv /\ SourceInv /\ OpenedInv /\ PendingInv /\ WatermarkInv
  BY DEF Base
<1>2. /\ at' \in [Identity -> Instants \cup {Unbounded}] /\ feed' \in Seq(Identity)
      /\ rows' = rows /\ stored_position' = stored_position
      /\ phase' = phase /\ tip' = tip /\ last' = last /\ fetched' = fetched /\ cursor' = cursor
      /\ to_block' = to_block /\ settled' = settled /\ window' = window /\ delivered' = delivered
  BY <1>1, PublishFacts DEF storeVars, streamVars
<1>3. PICK h \in Identity, t \in Instants :
        /\ at[h] = Unbounded /\ at'[h] = t /\ t >= tip_ms /\ feed' = Append(feed, h)
        /\ \A g \in Identity : g # h => at'[g] = at[g]
  BY <1>1, PublishFacts
<1>4. \A g \in Identity : at[g] # Unbounded => at'[g] = at[g]
  BY <1>1, PublishFacts
<1>5. final_cut' = final_cut /\ effective_tip' = effective_tip
  BY <1>2, CutSame
<1>6. TypeOK'
  BY <1>1, <1>2 DEF TypeOK
<1>7. StoreInv'
  <2>1. ASSUME NEW g \in Identity
        PROVE  /\ rows[g] = 1 => at'[g] # Unbounded /\ at'[g] <= stored_position.time_ms
               /\ g \in stored_position.seen <=> rows[g] = 1 /\ at'[g] = stored_position.time_ms
    <3>1. /\ rows[g] = 1 => at[g] # Unbounded /\ at[g] <= stored_position.time_ms
          /\ g \in stored_position.seen <=> rows[g] = 1 /\ at[g] = stored_position.time_ms
      BY <1>1 DEF StoreInv
    <3> QED BY <1>4, <3>1
  <2> QED BY <1>1, <1>2, <2>1 DEF StoreInv
<1>8. ASSUME NEW pos, NEW hs \in Seq(Identity), NEW k, Group(at, rows, pos, hs, k)
      PROVE  Group(at', rows', pos, hs, k)
  <2>1. ASSUME NEW g \in Elems(hs) PROVE at'[g] = at[g] /\ rows'[g] = rows[g]
    <3>1. g \in Identity
      BY DEF Elems
    <3>2. at[g] = k /\ k \in Instants
      BY <1>8 DEF Group
    <3> QED BY <1>2, <1>4, <3>1, <3>2, InstantInts
  <2> QED BY <1>8, <2>1, GroupKept
<1>9. SettledInv'
  <2>1. settled.buffer \in Seq(Identity)
    BY <1>1, SettledFields
  <2> QED BY <1>1, <1>2, <1>5, <1>8, <2>1 DEF SettledInv
<1>10. SourceInv'
  <2>1. Elems(feed') = Elems(feed) \cup {h}
    BY <1>1, <1>3, ElemsAppend DEF TypeOK
  <2>2. \A g \in Elems(fetched) : g \in Identity
    BY <1>1 DEF TypeOK, Elems
  <2>3. \A g \in Elems(feed) : g \in Identity
    BY <1>1 DEF TypeOK, Elems
  <2> QED BY <1>1, <1>2, <1>3, <1>4, <1>5, <2>1, <2>2, <2>3, InstantInts DEF SourceInv
<1>11. OpenedInv'
  BY <1>1, <1>2 DEF OpenedInv
<1>12. PendingInv'
  <2>1. \A k \in DOMAIN window.pending : window.pending[k].rows \in Seq(Identity)
    BY <1>1, SettledFields, PendingFacts
  <2> QED BY <1>1, <1>2, <1>5, <1>8, <2>1 DEF PendingInv
<1>13. WatermarkInv'
  <2>1. ASSUME NEW g \in Identity, rows[g] = 1 PROVE at'[g] = at[g]
    BY <1>1, <1>4, <2>1 DEF StoreInv
  <2> QED BY <1>1, <1>2, <1>5, <2>1 DEF WatermarkInv, Covers
<1> QED BY <1>6, <1>7, <1>9, <1>10, <1>11, <1>12, <1>13 DEF Base

-----------------------------------------------------------------------------
(***************************************************************************)
(* subscribe opens the segments.                                           *)
(***************************************************************************)

(* A query returns the published events of the range, each of them.        *)
LEMMA QueryFacts ==
  ASSUME NEW from, NEW to, NEW q \in query_range(from, to)
  PROVE  /\ q \in Seq(Identity)
         /\ Elems(q) = {h \in Published : from <= at[h] /\ at[h] <= to}
         /\ sorts => \A i, j \in DOMAIN q : i < j => at[q[i]] <= at[q[j]]
<1> DEFINE S == {h \in Published : from <= at[h] /\ at[h] <= to}
<1>1. /\ q \in [1..Cardinality(S) -> S] /\ \A h \in S : \E i \in DOMAIN q : q[i] = h
      /\ sorts => \A i, j \in DOMAIN q : i < j => at[q[i]] <= at[q[j]]
  BY DEF query_range, Orders
<1>2. S \in SUBSET Identity
  BY DEF Published
<1>3. Cardinality(S) \in Nat
  BY <1>2, FrontierAssumption, FS_Subset, FS_CardinalityType
<1> HIDE DEF S
<1>4. q \in Seq(Identity)
  <2>1. q \in Seq(S)
    <3> DEFINE n == Cardinality(S)
    <3>1. n \in Nat /\ q \in [1..n -> S]
      BY <1>1, <1>3
    <3> HIDE DEF n
    <3> QED BY <3>1
  <2> QED BY <1>2, <2>1
<1>5. Elems(q) = S
  BY <1>1 DEF Elems
<1> QED BY <1>1, <1>4, <1>5 DEF S

(* What the window starts from: the stored frontier, or the cut.           *)
WindowSeed(p) == IF final_cut = Unbounded THEN p ELSE advance(p, from_sort_key(final_cut))

(* What the window starts from covers what is stored, and what lies below  *)
(* the cut.                                                                *)
LEMMA SeedFacts ==
  ASSUME TypeOK, NEW p \in Frontiers
  PROVE  /\ WindowSeed(p) \in Frontiers
         /\ p.time_ms <= WindowSeed(p).time_ms /\ final_cut <= WindowSeed(p).time_ms
         /\ \A h \in Identity :
              Covers(at, WindowSeed(p), h) <=> Covers(at, p, h) \/ at[h] < final_cut
<1>1. final_cut \in Int /\ p.time_ms \in Int /\ p.time_ms >= -1 /\ Unbounded = -1
  BY CutFacts, FrontierTime, InstantInts
<1>2. CASE final_cut = Unbounded
  BY <1>1, <1>2, AtInt DEF WindowSeed
<1>3. CASE final_cut # Unbounded
  <2> DEFINE q == from_sort_key(final_cut)
  <2>1. q \in Frontiers /\ q.time_ms = final_cut /\ q.seen = {}
    BY <1>3, CutFacts DEF from_sort_key, Frontiers
  <2>2. WindowSeed(p) = advance(p, q)
    BY <1>3 DEF WindowSeed
  <2> HIDE DEF q
  <2>3. ASSUME NEW h \in Identity
        PROVE  Covers(at, advance(p, q), h) <=> Covers(at, p, h) \/ at[h] < final_cut
    <3>1. Covers(at, advance(p, q), h) <=> Covers(at, p, h) \/ Covers(at, q, h)
      BY <2>1, AtInt, CoversAdvance
    <3>2. Covers(at, q, h) <=> at[h] < final_cut
      BY <2>1 DEF Covers
    <3> QED BY <3>1, <3>2
  <2> QED BY <2>1, <2>2, <2>3, FrontierAdvance
<1> QED BY <1>2, <1>3

(* What the query fetches, and the writers it is fetched for.              *)
LEMMA OpenFacts ==
  ASSUME TypeOK, open_segments
  PROVE  /\ phase = "tip" /\ phase' = "ready"
         /\ UNCHANGED <<sourceVars, storeVars, tip, cursor, to_block, replayed, delivered>>
         /\ last' = stored_position /\ last' \in Frontiers
         /\ settled' = NewSettled(stored_position)
         /\ window' = NewWindow(WindowSeed(stored_position))
         /\ fetched' \in Seq(Identity)
         /\ \A h \in Elems(fetched') : h \in Published /\ at[h] <= effective_tip
         /\ \A h \in Published : at[h] <= effective_tip /\ stored_position.time_ms <= at[h] => h \in Elems(fetched')
         /\ sorts => \A i, j \in DOMAIN fetched' : i < j => at[fetched'[i]] <= at[fetched'[j]]
<1> DEFINE from == backfill_from(stored_position)
<1>1. /\ phase = "tip" /\ phase' = "ready"
      /\ UNCHANGED <<sourceVars, storeVars, tip, cursor, to_block, replayed, delivered>>
      /\ last' = stored_position
      /\ settled' = NewSettled(stored_position)
      /\ window' = NewWindow(WindowSeed(stored_position))
      /\ fetched' \in IF from > effective_tip THEN {<<>>} ELSE query_range(from, effective_tip)
  BY DEF open_segments, WindowSeed
<1>2. stored_position \in Frontiers /\ stored_position.time_ms \in Int /\ effective_tip \in Int
  BY SettledFields, CutFacts
<1>3. \A h \in Published : stored_position.time_ms <= at[h] => from <= at[h]
  <2>1. CASE stored_position = None
    <3>1. \A h \in Published : at[h] \in Nat
      BY InstantInts DEF TypeOK, Published
    <3>2. from = 0
      BY <2>1 DEF backfill_from
    <3> QED BY <3>1, <3>2
  <2>2. CASE stored_position # None
    BY <2>2 DEF backfill_from, resume_key
  <2> QED BY <2>1, <2>2
<1>4. \A h \in Published : at[h] \in Int /\ h \in Identity
  BY AtInt DEF Published
<1>5. from \in Int
  BY <1>2 DEF backfill_from, resume_key
<1> HIDE DEF from
<1>6. CASE from > effective_tip
  <2>1. fetched' = <<>>
    BY <1>1, <1>6
  <2>2. fetched' \in Seq(Identity) /\ Elems(fetched') = {} /\ DOMAIN fetched' = {}
    BY <2>1, ElemsEmpty
  <2>3. \A h \in Published : ~(at[h] <= effective_tip /\ stored_position.time_ms <= at[h])
    BY <1>2, <1>3, <1>4, <1>5, <1>6
  <2> QED BY <1>1, <1>2, <2>2, <2>3
<1>7. CASE ~(from > effective_tip)
  <2>1. fetched' \in query_range(from, effective_tip)
    BY <1>1, <1>7
  <2>2. /\ fetched' \in Seq(Identity)
        /\ Elems(fetched') = {h \in Published : from <= at[h] /\ at[h] <= effective_tip}
        /\ sorts => \A i, j \in DOMAIN fetched' : i < j => at[fetched'[i]] <= at[fetched'[j]]
    BY <2>1, QueryFacts
  <2> QED BY <1>1, <1>2, <1>3, <2>2
<1> QED BY <1>6, <1>7

(* The writers start from the stored frontier.                             *)
LEMMA OpenBase == ASSUME Base, open_segments PROVE Base'
<1>1. TypeOK /\ StoreInv /\ SettledInv /\ SourceInv /\ OpenedInv /\ PendingInv /\ WatermarkInv
  BY DEF Base
<1>2. /\ phase = "tip" /\ phase' = "ready"
      /\ at' = at /\ feed' = feed /\ tip' = tip /\ cursor' = cursor /\ to_block' = to_block
      /\ delivered' = delivered
      /\ last' = stored_position /\ last' \in Frontiers
      /\ settled' = NewSettled(stored_position)
      /\ window' = NewWindow(WindowSeed(stored_position))
      /\ fetched' \in Seq(Identity)
      /\ \A h \in Elems(fetched') : h \in Published /\ at[h] <= effective_tip
  BY <1>1, OpenFacts DEF sourceVars
<1>3. StoreInv' /\ stored_position' = stored_position /\ rows' = rows
  BY <1>1, OpenFacts, StoreFrame DEF sourceVars
<1>4. final_cut' = final_cut /\ effective_tip' = effective_tip
  BY <1>2, CutSame
<1>5. /\ stored_position \in Frontiers
      /\ WindowSeed(stored_position) \in Frontiers
      /\ stored_position.time_ms <= WindowSeed(stored_position).time_ms
      /\ final_cut <= WindowSeed(stored_position).time_ms
      /\ \A h \in Identity : Covers(at, WindowSeed(stored_position), h) <=>
                               Covers(at, stored_position, h) \/ at[h] < final_cut
  BY <1>1, SettledFields, SeedFacts
<1>6. TypeOK'
  BY <1>1, <1>2, <1>3, <1>5, NewWriters DEF TypeOK, Filling
<1>7. /\ settled'.watermark = stored_position /\ settled'.current = None
      /\ settled'.buffer = <<>>
      /\ window'.healthy /\ window'.pending = NoGroups /\ window'.head = -1
      /\ window'.watermark = WindowSeed(stored_position) /\ window'.maturing = {}
  BY <1>2, <1>5, NewWriters
<1>8. SettledInv'
  BY <1>3, <1>7 DEF SettledInv, None
<1>9. SourceInv'
  BY <1>1, <1>2, <1>4 DEF SourceInv, Published
<1>10. OpenedInv'
  <2>1. cursor = 0 /\ delivered = [h \in Identity |-> 0]
    BY <1>1, <1>2 DEF OpenedInv, BeforeReady
  <2>2. settled' = NewSettled(stored_position')
    BY <1>2, <1>3
  <2> QED BY <1>2, <1>3, <1>7, <2>1, <2>2 DEF OpenedInv, BeforeReady, NewSettled, None, NoGroups
<1>11. PendingInv'
  <2>1. window'.head <= tip'
    BY <1>1, <1>2, <1>7 DEF TypeOK
  <2> QED BY <1>7, <2>1, NoGroupsFacts DEF PendingInv
<1>12. WatermarkInv'
  <2>1. ASSUME NEW h \in Identity, rows[h] = 1 PROVE Covers(at, stored_position, h)
    <3>1. at[h] <= stored_position.time_ms /\ (at[h] = stored_position.time_ms => h \in stored_position.seen)
      BY <1>1, <2>1 DEF StoreInv
    <3>2. at[h] \in Int /\ stored_position.time_ms \in Int
      BY <1>1, AtInt, SettledFields
    <3> QED BY <3>1, <3>2 DEF Covers
  <2> QED BY <1>2, <1>3, <1>4, <1>5, <1>7, <2>1 DEF WatermarkInv
<1> QED BY <1>3, <1>6, <1>8, <1>9, <1>10, <1>11, <1>12 DEF Base

(* The replay only delivers.                                               *)
LEMMA ReplayBase == ASSUME Base, poll_replay PROVE Base'
<1>1. TypeOK /\ StoreInv /\ SettledInv /\ SourceInv /\ OpenedInv /\ PendingInv /\ WatermarkInv
  BY DEF Base
<1>2. /\ phase = "ready" /\ phase' = "backfill" /\ phase \in Filling /\ phase' \in Filling
      /\ at' = at /\ feed' = feed /\ tip' = tip /\ cursor' = cursor /\ to_block' = to_block
      /\ last' = last /\ fetched' = fetched /\ settled' = settled /\ window' = window
      /\ UNCHANGED storeVars
      /\ delivered' = IF replayed THEN delivered ELSE Deliver(replay_stored)
  BY DEF poll_replay, sourceVars, Filling
<1>3. StoreInv' /\ stored_position' = stored_position /\ rows' = rows
  BY <1>1, <1>2, StoreFrame
<1>4. final_cut' = final_cut /\ effective_tip' = effective_tip
  BY <1>2, CutSame
<1>5. delivered' \in [Identity -> Nat]
  BY <1>1, <1>2 DEF TypeOK, Deliver
<1>6. TypeOK'
  BY <1>1, <1>2, <1>3, <1>5 DEF TypeOK
<1>7. SettledInv'
  BY <1>1, <1>2, <1>3, <1>4 DEF SettledInv
<1>8. SourceInv'
  BY <1>1, <1>2, <1>4 DEF SourceInv
<1>9. OpenedInv'
  BY <1>1, <1>2 DEF OpenedInv, Filling, BeforeReady
<1>10. PendingInv'
  BY <1>1, <1>2, <1>3, <1>4 DEF PendingInv
<1>11. WatermarkInv'
  BY <1>1, <1>2, <1>3, <1>4 DEF WatermarkInv, BeforeReady
<1> QED BY <1>3, <1>6, <1>7, <1>8, <1>9, <1>10, <1>11 DEF Base

-----------------------------------------------------------------------------
(***************************************************************************)
(* One backfill event.                                                     *)
(***************************************************************************)

Suppressed(h) ==
  /\ at[h] <= final_cut => settled.healthy /\ block_covered(item(h))
  /\ at[h] > final_cut => window.healthy /\ covered(item(h))
  /\ UNCHANGED <<storeVars, settled, window, delivered>>

(* A writer that has halted lets the event pass.                           *)
PassesBy(h) ==
  /\ at[h] <= final_cut => ~settled.healthy
  /\ at[h] > final_cut => ~window.healthy
  /\ UNCHANGED <<storeVars, settled, window>>
  /\ delivered' = Deliver({h})

(* The settled writer halts, and nothing is written.                       *)
BlockHalts(h) ==
  /\ at[h] <= final_cut /\ settled.healthy /\ SettledHalts /\ UNCHANGED window
  /\ delivered' = Deliver({h})

BlockJoins(h) ==
  /\ at[h] <= final_cut /\ settled.healthy /\ ~block_covered(item(h))
  /\ settled.current = None \/ settled.current.time_ms = at[h]
  /\ settled' = [settled EXCEPT !.current = advance(@, item(h)), !.buffer = Append(@, h)]
  /\ UNCHANGED <<storeVars, window>>
  /\ delivered' = Deliver({h})

BlockRolls(h) ==
  /\ at[h] <= final_cut /\ settled.healthy /\ ~block_covered(item(h))
  /\ settled.current # None /\ at[h] > settled.current.time_ms
  /\ write(settled.current, settled.buffer)
  /\ settled' = [settled EXCEPT !.watermark = advance(@, settled.current),
                                !.current = item(h), !.buffer = <<h>>]
  /\ UNCHANGED window
  /\ delivered' = Deliver({h})

(* The write fails, whether or not it took effect.                         *)
BlockFails(h) ==
  /\ settled.healthy /\ settled.current # None
  /\ at[h] <= final_cut /\ at[h] > settled.current.time_ms
  /\ UNCHANGED storeVars \/ write(settled.current, settled.buffer)
  /\ settled' = [settled EXCEPT !.healthy = FALSE, !.current = None, !.buffer = <<>>]
  /\ UNCHANGED window
  /\ delivered' = Deliver({h})

WindowHalts(h) ==
  /\ window.healthy
  /\ window' = [window EXCEPT !.healthy = FALSE, !.pending = NoGroups]
  /\ UNCHANGED <<storeVars, settled>>
  /\ delivered' = Deliver({h})

HeadWith(h) == IF at[h] > window.head THEN at[h] ELSE window.head

WindowJoins(h) ==
  /\ window.healthy /\ ~covered(item(h))
  /\ window' = [window EXCEPT !.pending = Joined(h), !.head = HeadWith(h),
                              !.maturing = Matured(Joined(h), HeadWith(h))]
  /\ UNCHANGED <<storeVars, settled>>
  /\ delivered' = Deliver({h})

(* What becomes of one backfill event, case by case.                       *)
LEMMA BackfillCases ==
  ASSUME TypeOK, poll_backfill, NEW h, h = Head(fetched)
  PROVE  /\ phase = "backfill" /\ phase' = "backfill" /\ window.maturing = {}
         /\ fetched # <<>> /\ fetched' = Tail(fetched) /\ h \in Identity
         /\ UNCHANGED <<sourceVars, tip, last, cursor, to_block>>
         /\ \/ Suppressed(h)
            \/ PassesBy(h)
            \/ BlockHalts(h)
            \/ BlockJoins(h)
            \/ BlockRolls(h)
            \/ BlockFails(h)
            \/ WindowHalts(h) /\ at[h] > final_cut
            \/ WindowJoins(h) /\ at[h] > final_cut
<1>1. /\ phase = "backfill" /\ phase' = "backfill" /\ window.maturing = {}
      /\ fetched # <<>> /\ fetched' = Tail(fetched)
      /\ UNCHANGED <<sourceVars, tip, last, cursor, to_block>>
  BY DEF poll_backfill
<1>2. h \in Identity /\ at[h] \in Int /\ final_cut \in Int
  BY SMTT(30), <1>1, ElemsTail, AtInt, CutFacts, InstantInts DEF TypeOK
<1> DEFINE supp == IF at[h] <= final_cut THEN settled.healthy /\ block_covered(item(h))
                                         ELSE window.healthy /\ covered(item(h))
<1>3. \/ supp /\ UNCHANGED <<storeVars, settled, window, delivered>>
      \/ /\ ~supp
         /\ IF at[h] <= final_cut THEN block_record(h) /\ UNCHANGED window
                                  ELSE record(h) /\ UNCHANGED settled
         /\ delivered' = Deliver({h})
  BY DEF poll_backfill, record_seeded
<1>4. CASE supp /\ UNCHANGED <<storeVars, settled, window, delivered>>
  BY <1>1, <1>2, <1>4 DEF Suppressed
<1>5. CASE at[h] <= final_cut /\ ~supp /\ block_record(h) /\ UNCHANGED window /\ delivered' = Deliver({h})
  <2>1. item(h).time_ms = at[h]
    BY DEF item
  <2>2. CASE ~settled.healthy /\ UNCHANGED <<settled, storeVars>>
    BY <1>1, <1>2, <1>5, <2>2 DEF PassesBy
  <2>3. CASE settled.healthy /\ SettledHalts
    BY <1>1, <1>2, <1>5, <2>3 DEF BlockHalts
  <2>4. CASE /\ settled.healthy
             /\ settled.current = None \/ settled.current.time_ms = at[h]
             /\ settled' = [settled EXCEPT !.current = advance(@, item(h)), !.buffer = Append(@, h)]
             /\ UNCHANGED storeVars
    BY <1>1, <1>2, <1>5, <2>4 DEF BlockJoins
  <2>5. CASE /\ settled.healthy
             /\ settled.current # None /\ at[h] > settled.current.time_ms
             /\ write(settled.current, settled.buffer)
             /\ settled' = [settled EXCEPT !.watermark = advance(@, settled.current),
                                           !.current = item(h), !.buffer = <<h>>]
    BY <1>1, <1>2, <1>5, <2>5 DEF BlockRolls
  <2>6. CASE /\ settled.healthy
             /\ settled.current # None /\ at[h] > settled.current.time_ms
             /\ failed_write(settled.current, settled.buffer)
             /\ settled' = [settled EXCEPT !.healthy = FALSE, !.current = None, !.buffer = <<>>]
    BY <1>1, <1>2, <1>5, <2>6 DEF BlockFails, failed_write
  <2> QED BY <1>5, <2>1, <2>2, <2>3, <2>4, <2>5, <2>6 DEF block_record
<1>6. CASE ~(at[h] <= final_cut) /\ ~supp /\ record(h) /\ UNCHANGED settled /\ delivered' = Deliver({h})
  <2>1. at[h] > final_cut
    BY <1>2, <1>6
  <2>2. CASE ~window.healthy /\ UNCHANGED window
    BY <1>1, <1>2, <1>6, <2>1, <2>2 DEF PassesBy, record
  <2>3. CASE window.healthy /\ window' = [window EXCEPT !.healthy = FALSE, !.pending = NoGroups]
    BY <1>1, <1>2, <1>6, <2>1, <2>3 DEF WindowHalts, record
  <2>4. CASE /\ window.healthy
             /\ window' = [window EXCEPT !.pending = Joined(h), !.head = HeadWith(h),
                                         !.maturing = Matured(Joined(h), HeadWith(h))]
    BY <1>1, <1>2, <1>6, <2>1, <2>4 DEF WindowJoins, record
  <2> QED BY <1>6, <2>2, <2>3, <2>4 DEF record, HeadWith
<1> QED BY <1>3, <1>4, <1>5, <1>6

(* The types of one pending group.                                         *)
LEMMA PendingOf ==
  ASSUME TypeOK, NEW k \in DOMAIN window.pending
  PROVE  /\ k \in Instants /\ k \in Int
         /\ window.pending[k].rows \in Seq(Identity) /\ window.pending[k].position \in Frontiers
<1>1. window.pending \in Pendings
  BY SettledFields
<1>2. /\ k \in Instants
      /\ window.pending[k].rows \in Seq(Identity) /\ window.pending[k].position \in Frontiers
  BY <1>1, PendingFacts
<1>3. k \in Int
  BY <1>2, InstantInt
<1> QED BY <1>2, <1>3

(* The group an event joins.                                               *)
LEMMA JoinedIs ==
  ASSUME TypeOK, PendingInv, NEW h \in Identity, at[h] # Unbounded, ~covered(item(h)), rows[h] = 0
  PROVE  /\ Joined(h) \in Pendings
         /\ DOMAIN Joined(h) = DOMAIN window.pending \cup {at[h]}
         /\ \A k \in DOMAIN Joined(h) : k # at[h] => k \in DOMAIN window.pending /\ Joined(h)[k] = window.pending[k]
         /\ Group(at, rows, Joined(h)[at[h]].position, Joined(h)[at[h]].rows, at[h])
         /\ Elems(Joined(h)[at[h]].rows) =
              (IF at[h] \in DOMAIN window.pending THEN Elems(window.pending[at[h]].rows) ELSE {}) \cup {h}
<1> DEFINE t == at[h]
           P == window.pending
           old == IF t \in DOMAIN P THEN P[t] ELSE [position |-> None, rows |-> <<>>]
           new == [position |-> advance(old.position, item(h)), rows |-> Append(old.rows, h)]
<1>1. P \in Pendings /\ t \in Instants /\ t \in Int
  BY SettledFields, AtInt
<1>2. /\ DOMAIN P \subseteq Instants
      /\ \A k \in DOMAIN P : P[k] \in Groups /\ P[k].rows \in Seq(Identity) /\ P[k].position \in Frontiers
  BY <1>1, PendingFacts
<1>3. item(h) \in Frontiers /\ item(h) = [time_ms |-> t, seen |-> {h}]
  BY <1>1, InstantInts DEF item, Frontiers
<1>4. /\ old.rows \in Seq(Identity) /\ old.position \in Frontiers
      /\ Distinct(old.rows) /\ h \notin Elems(old.rows)
      /\ \A g \in Elems(old.rows) : at[g] = t /\ rows[g] = 0
      /\ advance(old.position, item(h)) = [time_ms |-> t, seen |-> Elems(old.rows) \cup {h}]
      /\ Elems(old.rows) = IF t \in DOMAIN P THEN Elems(P[t].rows) ELSE {}
  <2>1. CASE t \in DOMAIN P
    <3>1. Group(at, rows, P[t].position, P[t].rows, t) /\ old = P[t]
      BY <2>1 DEF PendingInv
    <3>2. P[t].position = [time_ms |-> t, seen |-> Elems(P[t].rows)]
      BY <3>1 DEF Group
    <3>3. h \notin Elems(P[t].rows)
      BY <2>1, <3>2, <1>3 DEF covered, contains
    <3>4. advance(P[t].position, item(h)) = [time_ms |-> t, seen |-> Elems(P[t].rows) \cup {h}]
      BY <1>1, <1>3, <3>2 DEF advance
    <3> QED BY <1>2, <2>1, <3>1, <3>3, <3>4 DEF Group
  <2>2. CASE t \notin DOMAIN P
    <3>1. old.rows = <<>> /\ old.position = None
      BY <2>2
    <3>2. advance(None, item(h)) = item(h)
      BY <1>1, <1>3, InstantInts DEF advance, None
    <3>3. <<>> \in Seq(Identity) /\ Elems(<<>>) = {} /\ Distinct(<<>>)
      BY ElemsEmpty
    <3>4. advance(old.position, item(h)) = [time_ms |-> t, seen |-> {} \cup {h}]
      BY <1>3, <3>1, <3>2
    <3> HIDE DEF old
    <3> QED BY <2>2, <3>1, <3>3, <3>4, NoneFrontier
  <2> QED BY <2>1, <2>2
<1> HIDE DEF old
<1>5. /\ new.rows \in Seq(Identity) /\ new.rows # <<>> /\ Distinct(new.rows)
      /\ Elems(new.rows) = Elems(old.rows) \cup {h}
  BY <1>4, ElemsAppend
<1>6. new.position = [time_ms |-> t, seen |-> Elems(new.rows)] /\ new.position \in Frontiers
  BY <1>3, <1>4, <1>5, FrontierAdvance
<1>7. \A g \in Elems(new.rows) : at[g] = t /\ rows[g] = 0
  BY <1>4, <1>5
<1>8. Group(at, rows, new.position, new.rows, t) /\ new \in Groups
  BY <1>1, <1>5, <1>6, <1>7 DEF Group, Groups
<1>9. Joined(h) = [k \in DOMAIN P \cup {t} |-> IF k = t THEN new ELSE P[k]]
  BY DEF Joined, old
<1> HIDE DEF new
<1>10. DOMAIN P \cup {t} \in SUBSET Instants /\ Joined(h) \in [DOMAIN P \cup {t} -> Groups]
  BY <1>1, <1>2, <1>8, <1>9
<1>11. Joined(h) \in Pendings
  BY <1>10, PendingIntro
<1>12. Joined(h)[t] = new
  BY <1>9
<1> QED BY <1>4, <1>5, <1>8, <1>9, <1>11, <1>12

(* The settled writer writes its group: a backfill write disturbs nothing  *)
(* above the cut.                                                          *)
LEMMA BlockWrote ==
  ASSUME Base, phase \in Filling, settled.healthy, settled.current # None, at' = at,
         write(settled.current, settled.buffer)
  PROVE  /\ stored_position' = advance(stored_position, settled.current)
         /\ stored_position' \in Frontiers
         /\ stored_position'.time_ms = settled.current.time_ms
         /\ settled.current.time_ms <= final_cut
         /\ StoreInv'
         /\ \A h \in Identity : rows'[h] = 1 <=> rows[h] = 1 \/ h \in Elems(settled.buffer)
         /\ \A h \in Identity : at[h] > settled.current.time_ms => rows'[h] = rows[h]
         /\ \A k \in DOMAIN window.pending :
              Group(at, rows', window.pending[k].position, window.pending[k].rows, k)
<1>1. TypeOK /\ StoreInv /\ SettledInv /\ PendingInv
  BY DEF Base
<1>2. /\ Group(at, rows, settled.current, settled.buffer, settled.current.time_ms)
      /\ stored_position.time_ms <= settled.current.time_ms
      /\ settled.current.time_ms <= final_cut
  BY <1>1 DEF SettledInv
<1>3. /\ settled.current \in Frontiers /\ settled.buffer \in Seq(Identity)
      /\ settled.current.time_ms \in Int /\ final_cut \in Int
  BY <1>1, SettledFields, CutFacts, InstantInts
<1>4. /\ stored_position' = advance(stored_position, settled.current)
      /\ stored_position' \in Frontiers
      /\ stored_position'.time_ms = settled.current.time_ms
      /\ StoreInv'
      /\ \A h \in Identity : rows'[h] = 1 <=> rows[h] = 1 \/ h \in Elems(settled.buffer)
  BY <1>1, <1>2, <1>3, Wrote
<1>5. ASSUME NEW h \in Identity, at[h] > settled.current.time_ms PROVE rows'[h] = rows[h]
  <2>1. h \notin Elems(settled.buffer)
    BY <1>2, <1>3, <1>5 DEF Group
  <2>2. rows[h] \in {0, 1} /\ rows'[h] \in {0, 1}
    BY <1>1, <1>4 DEF StoreInv
  <2> QED BY <1>4, <2>1, <2>2
<1>6. ASSUME NEW k \in DOMAIN window.pending
      PROVE  Group(at, rows', window.pending[k].position, window.pending[k].rows, k)
  <2>1. Group(at, rows, window.pending[k].position, window.pending[k].rows, k) /\ final_cut < k
    BY <1>1 DEF PendingInv
  <2>2. window.pending[k].rows \in Seq(Identity) /\ k \in Int
    BY <1>1, PendingOf
  <2>3. ASSUME NEW h \in Elems(window.pending[k].rows) PROVE rows'[h] = rows[h]
    <3>1. h \in Identity
      BY <2>2 DEF Elems
    <3>2. at[h] = k
      BY <2>1 DEF Group
    <3> QED BY <1>2, <1>3, <1>5, <2>1, <2>2, <3>1, <3>2
  <2> QED BY <2>1, <2>3, GroupKept
<1> QED BY <1>2, <1>4, <1>5, <1>6

(* Deliveries are counted.                                                 *)
LEMMA DeliverType == ASSUME TypeOK, NEW S PROVE Deliver(S) \in [Identity -> Nat]
  BY DEF TypeOK, Deliver

(* A step that leaves the window alone, and does not write.                *)
LEMMA WindowFrame ==
  ASSUME PendingInv, WatermarkInv, UNCHANGED <<at, storeVars, window, tip, to_block>>,
         phase' = phase
  PROVE  PendingInv' /\ WatermarkInv'
<1>1. /\ rows' = rows /\ stored_position' = stored_position /\ final_cut' = final_cut
      /\ at' = at /\ window' = window /\ tip' = tip
  BY StoredSame, CutSame DEF storeVars
<1>2. PendingInv'
  BY <1>1 DEF PendingInv
<1>3. WatermarkInv'
  BY <1>1 DEF WatermarkInv
<1> QED BY <1>2, <1>3

(* A write of the settled writer does not disturb the window.              *)
LEMMA BlockWroteWindow ==
  ASSUME Base, phase \in Filling, settled.healthy, settled.current # None,
         UNCHANGED <<at, window, tip, to_block>>, phase' = phase,
         write(settled.current, settled.buffer)
  PROVE  PendingInv' /\ WatermarkInv'
<1>1. TypeOK /\ PendingInv /\ WatermarkInv
  BY DEF Base
<1>2. final_cut' = final_cut /\ at' = at /\ window' = window /\ tip' = tip
  BY CutSame
<1>3. /\ stored_position'.time_ms = settled.current.time_ms
      /\ settled.current.time_ms <= final_cut
      /\ \A h \in Identity : at[h] > settled.current.time_ms => rows'[h] = rows[h]
      /\ \A k \in DOMAIN window.pending :
           Group(at, rows', window.pending[k].position, window.pending[k].rows, k)
  BY <1>2, BlockWrote
<1>4. PendingInv'
  BY <1>1, <1>2, <1>3 DEF PendingInv
<1>5. WatermarkInv'
  <2>1. /\ settled.current.time_ms \in Int /\ final_cut \in Int
        /\ window.watermark.time_ms \in Int
        /\ \A h \in Identity : at[h] \in Int
    BY <1>1, SettledFields, CutFacts, InstantInts, AtInt
  <2>2. ASSUME NEW h \in Identity, at[h] > final_cut PROVE rows'[h] = rows[h]
    BY <1>3, <2>1, <2>2
  <2> QED BY <1>1, <1>2, <1>3, <2>1, <2>2 DEF WatermarkInv
<1> QED BY <1>4, <1>5

(* What every backfill step keeps.                                         *)
LEMMA BackfillFrame ==
  ASSUME Base, poll_backfill
  PROVE  /\ SourceInv' /\ OpenedInv'
         /\ Head(fetched) \in Identity /\ at[Head(fetched)] # Unbounded
         /\ at[Head(fetched)] <= effective_tip
         /\ UNCHANGED <<at, feed, tip, last, cursor, to_block>>
         /\ phase = "backfill" /\ phase' = phase /\ phase \in Filling
         /\ final_cut' = final_cut /\ effective_tip' = effective_tip
         /\ fetched' \in Seq(Identity)
         /\ delivered' \in [Identity -> Nat]
<1>1. TypeOK /\ SourceInv /\ OpenedInv
  BY DEF Base
<1>2. /\ phase = "backfill" /\ phase' = phase /\ phase \in Filling
      /\ UNCHANGED <<at, feed, tip, last, cursor, to_block>>
      /\ fetched # <<>> /\ fetched' = Tail(fetched)
  BY DEF poll_backfill, sourceVars, Filling
<1>3. final_cut' = final_cut /\ effective_tip' = effective_tip
  BY <1>2, CutSame
<1>4. /\ fetched' \in Seq(Identity) /\ Head(fetched) \in Identity
      /\ Elems(fetched) = {Head(fetched)} \cup Elems(fetched')
  BY <1>1, <1>2, ElemsTail DEF TypeOK
<1>5. SourceInv' /\ at[Head(fetched)] # Unbounded /\ at[Head(fetched)] <= effective_tip
  BY <1>1, <1>2, <1>3, <1>4 DEF SourceInv
<1>6. OpenedInv'
  BY <1>1, <1>2 DEF OpenedInv, BeforeReady, Filling
<1>7. delivered' \in [Identity -> Nat]
  <2>1. delivered' = delivered \/ \E S : delivered' = Deliver(S)
    BY DEF poll_backfill
  <2> QED BY <1>1, <2>1, DeliverType DEF TypeOK
<1> QED BY <1>2, <1>3, <1>4, <1>5, <1>6, <1>7

(* An event the settled writer does not cover is not stored yet.           *)
LEMMA BlockFresh ==
  ASSUME Base, phase \in Filling, settled.healthy, NEW h \in Identity, ~block_covered(item(h))
  PROVE  /\ rows[h] = 0 /\ stored_position.time_ms <= at[h]
         /\ settled.current.time_ms = at[h] => h \notin Elems(settled.buffer)
<1>1. TypeOK /\ StoreInv /\ SettledInv
  BY DEF Base
<1>2. settled.watermark = stored_position
  BY <1>1 DEF SettledInv
<1>3. ~Covers(at, stored_position, h)
  BY <1>2, ContainsIs DEF block_covered
<1>4. at[h] \in Int /\ stored_position.time_ms \in Int
  BY <1>1, AtInt, SettledFields
<1>5. rows[h] = 0 /\ stored_position.time_ms <= at[h]
  BY <1>1, <1>3, <1>4 DEF StoreInv, Covers
<1>6. ASSUME settled.current.time_ms = at[h] PROVE h \notin Elems(settled.buffer)
  <2>1. h \notin settled.current.seen
    BY <1>6 DEF block_covered, contains, item
  <2>2. CASE settled.current = None
    BY <1>1, <2>2, ElemsEmpty DEF SettledInv
  <2>3. CASE settled.current # None
    <3>1. settled.current = [time_ms |-> settled.current.time_ms, seen |-> Elems(settled.buffer)]
      BY <1>1, <2>3 DEF SettledInv, Group
    <3> QED BY <2>1, <3>1
  <2> QED BY <2>2, <2>3
<1> QED BY <1>5, <1>6

(* The event opens the group, or joins it.                                 *)
LEMMA BlockJoinsBase ==
  ASSUME Base, poll_backfill, BlockJoins(Head(fetched))
  PROVE  TypeOK' /\ StoreInv' /\ SettledInv'
<1> DEFINE h == Head(fetched)
           c == advance(settled.current, item(h))
           b == Append(settled.buffer, h)
<1>1. TypeOK /\ StoreInv /\ SettledInv
  BY DEF Base
<1>2. /\ h \in Identity /\ at[h] # Unbounded
      /\ UNCHANGED <<at, feed, tip, last, cursor, to_block>>
      /\ phase = "backfill" /\ phase' = phase /\ phase \in Filling
      /\ final_cut' = final_cut /\ fetched' \in Seq(Identity) /\ delivered' \in [Identity -> Nat]
  BY BackfillFrame
<1>3. /\ at[h] <= final_cut /\ settled.healthy /\ ~block_covered(item(h))
      /\ settled.current = None \/ settled.current.time_ms = at[h]
      /\ settled' = [settled EXCEPT !.current = c, !.buffer = b]
      /\ UNCHANGED storeVars /\ window' = window
  BY DEF BlockJoins
<1> HIDE DEF h, c, b
<1>4. StoreInv' /\ stored_position' = stored_position /\ rows' = rows
  BY <1>1, <1>2, <1>3, StoreFrame
<1>5. /\ rows[h] = 0 /\ stored_position.time_ms <= at[h]
      /\ settled.current.time_ms = at[h] => h \notin Elems(settled.buffer)
  BY <1>2, <1>3, BlockFresh
<1>6. at[h] \in Instants /\ at[h] \in Int /\ at[h] \in Nat
  BY <1>1, <1>2, AtInt, InstantInts
<1>7. item(h) = [time_ms |-> at[h], seen |-> {h}] /\ item(h) \in Frontiers
  BY <1>2, <1>6 DEF item, Frontiers
<1>8. /\ settled.buffer \in Seq(Identity) /\ settled.current \in Frontiers
      /\ h \notin Elems(settled.buffer) /\ Distinct(settled.buffer)
      /\ \A g \in Elems(settled.buffer) : at[g] = at[h] /\ rows[g] = 0
      /\ c = [time_ms |-> at[h], seen |-> Elems(settled.buffer) \cup {h}]
  <2>1. settled.buffer \in Seq(Identity) /\ settled.current \in Frontiers
    BY <1>1, SettledFields
  <2>2. CASE settled.current = None
    <3>1. settled.buffer = <<>>
      BY <1>1, <1>2, <1>3, <2>2 DEF SettledInv
    <3>2. c = item(h)
      BY <1>6, <1>7, <2>2 DEF c, advance, None
    <3> QED BY <1>7, <2>1, <3>1, <3>2, ElemsEmpty
  <2>3. CASE settled.current # None
    <3>1. /\ Group(at, rows, settled.current, settled.buffer, settled.current.time_ms)
          /\ settled.current.time_ms = at[h]
      BY <1>1, <1>2, <1>3, <2>3 DEF SettledInv
    <3>2. settled.current = [time_ms |-> at[h], seen |-> Elems(settled.buffer)]
      BY <3>1 DEF Group
    <3>3. c = [time_ms |-> at[h], seen |-> Elems(settled.buffer) \cup {h}]
      BY <1>6, <1>7, <3>2 DEF c, advance
    <3> QED BY <1>5, <2>1, <3>1, <3>3 DEF Group
  <2> QED BY <2>2, <2>3
<1>9. /\ b \in Seq(Identity) /\ b # <<>> /\ Distinct(b) /\ Elems(b) = Elems(settled.buffer) \cup {h}
  BY <1>2, <1>8, ElemsAppend DEF b
<1>10. Group(at, rows, c, b, at[h]) /\ c.time_ms = at[h] /\ c \in Frontiers
  <2>1. \A g \in Elems(b) : at[g] = at[h] /\ rows[g] = 0
    BY <1>5, <1>8, <1>9
  <2>2. c \in Frontiers
    BY <1>7, <1>8, FrontierAdvance DEF c
  <2> QED BY <1>6, <1>8, <1>9, <2>1, <2>2 DEF Group
<1>11. /\ settled' \in [healthy : BOOLEAN, current : Frontiers, buffer : Seq(Identity),
                        watermark : Frontiers]
       /\ settled'.current = c /\ settled'.buffer = b
       /\ settled'.watermark = settled.watermark /\ settled'.healthy
  BY <1>1, <1>3, <1>9, <1>10 DEF TypeOK
<1>12. TypeOK'
  BY <1>1, <1>2, <1>3, <1>4, <1>11 DEF TypeOK
<1>13. c # None
  BY <1>6, <1>10, NoneFrontier
<1>14. SettledInv'
  <2>1. settled.watermark = stored_position
    BY <1>1, <1>2, <1>3 DEF SettledInv
  <2> QED BY <1>2, <1>3, <1>4, <1>5, <1>10, <1>11, <1>13, <2>1 DEF SettledInv, None
<1> QED BY <1>4, <1>12, <1>14

(* The group is complete: it is written, and the event opens the next one. *)
LEMMA BlockRollsBase ==
  ASSUME Base, poll_backfill, BlockRolls(Head(fetched))
  PROVE  TypeOK' /\ StoreInv' /\ SettledInv'
<1> DEFINE h == Head(fetched)
<1>1. TypeOK /\ StoreInv /\ SettledInv
  BY DEF Base
<1>2. /\ h \in Identity /\ at[h] # Unbounded
      /\ UNCHANGED <<at, feed, tip, last, cursor, to_block>>
      /\ phase = "backfill" /\ phase' = phase /\ phase \in Filling
      /\ final_cut' = final_cut /\ fetched' \in Seq(Identity) /\ delivered' \in [Identity -> Nat]
  BY BackfillFrame
<1>3. /\ at[h] <= final_cut /\ settled.healthy /\ ~block_covered(item(h))
      /\ settled.current # None /\ at[h] > settled.current.time_ms
      /\ write(settled.current, settled.buffer)
      /\ settled' = [settled EXCEPT !.watermark = advance(settled.watermark, settled.current),
                                    !.current = item(h), !.buffer = <<h>>]
      /\ window' = window
  BY DEF BlockRolls
<1> HIDE DEF h
<1>4. /\ stored_position' = advance(stored_position, settled.current)
      /\ stored_position' \in Frontiers
      /\ stored_position'.time_ms = settled.current.time_ms
      /\ StoreInv'
      /\ \A g \in Identity : at[g] > settled.current.time_ms => rows'[g] = rows[g]
  BY <1>2, <1>3, BlockWrote
<1>5. rows[h] = 0 /\ rows'[h] = 0
  BY <1>2, <1>3, <1>4, BlockFresh
<1>6. at[h] \in Instants /\ at[h] \in Int /\ at[h] \in Nat /\ settled.current.time_ms \in Int
  BY <1>1, <1>2, AtInt, InstantInts, SettledFields
<1>7. item(h) = [time_ms |-> at[h], seen |-> {h}] /\ item(h) \in Frontiers
  BY <1>2, <1>6 DEF item, Frontiers
<1>8. settled.watermark = stored_position /\ settled.watermark \in Frontiers
  BY <1>1, <1>2, <1>3, SettledFields DEF SettledInv
<1>9. Elems(<<h>>) = {h} /\ Distinct(<<h>>) /\ <<h>> # <<>> /\ <<h>> \in Seq(Identity)
  BY <1>2, ElemsOne
<1>10. Group(at, rows', item(h), <<h>>, at[h])
  BY <1>5, <1>6, <1>7, <1>9 DEF Group
<1>11. /\ settled' \in [healthy : BOOLEAN, current : Frontiers, buffer : Seq(Identity),
                        watermark : Frontiers]
       /\ settled'.current = item(h) /\ settled'.buffer = <<h>>
       /\ settled'.watermark = stored_position' /\ settled'.healthy
  BY <1>1, <1>3, <1>4, <1>7, <1>8, <1>9 DEF TypeOK
<1>12. TypeOK'
  BY <1>1, <1>2, <1>3, <1>4, <1>11 DEF TypeOK
<1>13. item(h) # None /\ item(h).time_ms = at[h]
  BY <1>6, <1>7, NoneFrontier
<1>14. SettledInv'
  BY <1>2, <1>3, <1>4, <1>6, <1>10, <1>11, <1>13 DEF SettledInv, None
<1> QED BY <1>4, <1>12, <1>14

(* An event the window does not cover is not stored yet.                   *)
LEMMA WindowFresh ==
  ASSUME Base, phase \notin BeforeReady, window.healthy, NEW h \in Identity, ~covered(item(h)),
         phase \in Filling => at[h] > final_cut
  PROVE  rows[h] = 0 /\ window.watermark.time_ms <= at[h]
<1>1. TypeOK /\ StoreInv /\ WatermarkInv
  BY DEF Base
<1>2. ~Covers(at, window.watermark, h)
  BY ContainsIs DEF covered
<1>3. at[h] \in Int /\ window.watermark.time_ms \in Int /\ rows[h] \in {0, 1}
  BY <1>1, AtInt, SettledFields DEF StoreInv
<1> QED BY <1>1, <1>2, <1>3 DEF WatermarkInv, Covers

(* The window takes an event in, during a backfill or after it.            *)
LEMMA JoinsBase ==
  ASSUME Base, phase \notin BeforeReady, NEW h \in Identity, at[h] # Unbounded, WindowJoins(h),
         phase \in Filling => at[h] > final_cut /\ at[h] <= effective_tip,
         UNCHANGED <<at, tip, to_block>>, phase' = phase
  PROVE  /\ window' \in [healthy : BOOLEAN, pending : Pendings, head : Instants \cup {Unbounded},
                         watermark : Frontiers, maturing : SUBSET Instants]
         /\ window'.healthy /\ window'.pending = Joined(h) /\ window'.head = HeadWith(h)
         /\ window'.watermark = window.watermark /\ window'.maturing = Matured(Joined(h), HeadWith(h))
         /\ StoreInv' /\ stored_position' = stored_position /\ rows' = rows
         /\ rows[h] = 0 /\ window.watermark.time_ms <= at[h]
         /\ PendingInv' /\ WatermarkInv'
<1>1. TypeOK /\ StoreInv /\ PendingInv /\ WatermarkInv
  BY DEF Base
<1>2. /\ window.healthy /\ ~covered(item(h))
      /\ window' = [window EXCEPT !.pending = Joined(h), !.head = HeadWith(h),
                                  !.maturing = Matured(Joined(h), HeadWith(h))]
      /\ UNCHANGED storeVars
  BY DEF WindowJoins
<1>3. rows[h] = 0 /\ window.watermark.time_ms <= at[h]
  BY <1>2, WindowFresh
<1>4. /\ Joined(h) \in Pendings
      /\ DOMAIN Joined(h) = DOMAIN window.pending \cup {at[h]}
      /\ \A k \in DOMAIN Joined(h) : k # at[h] => k \in DOMAIN window.pending /\ Joined(h)[k] = window.pending[k]
      /\ Group(at, rows, Joined(h)[at[h]].position, Joined(h)[at[h]].rows, at[h])
  BY <1>1, <1>2, <1>3, JoinedIs
<1>5. DOMAIN Joined(h) \subseteq Instants
  BY <1>4, PendingFacts
<1>6. HeadWith(h) \in Instants \cup {Unbounded} /\ HeadWith(h) \in Int
  <2>1. window.head \in Instants \cup {Unbounded} /\ at[h] \in Instants \cup {Unbounded}
    BY <1>1, AtInt DEF TypeOK
  <2> QED BY <2>1, InstantInt DEF HeadWith
<1>7. Matured(Joined(h), HeadWith(h)) = {k \in DOMAIN Joined(h) : HeadWith(h) >= k + Depth}
  BY DEF Matured
<1>8. /\ window' \in [healthy : BOOLEAN, pending : Pendings, head : Instants \cup {Unbounded},
                      watermark : Frontiers, maturing : SUBSET Instants]
      /\ window'.healthy /\ window'.pending = Joined(h) /\ window'.head = HeadWith(h)
      /\ window'.watermark = window.watermark /\ window'.maturing = Matured(Joined(h), HeadWith(h))
  BY <1>1, <1>2, <1>4, <1>5, <1>6, <1>7 DEF TypeOK
<1>9. /\ StoreInv' /\ stored_position' = stored_position /\ rows' = rows
      /\ final_cut' = final_cut
  BY <1>1, <1>2, StoreFrame, CutSame
<1> HIDE DEF HeadWith
<1>10. ASSUME NEW k \in DOMAIN Joined(h)
       PROVE  /\ Group(at, rows, Joined(h)[k].position, Joined(h)[k].rows, k)
              /\ window.watermark.time_ms <= k
              /\ phase \in Filling => final_cut < k /\ k <= tip
  <2>1. CASE k = at[h]
    <3>1. phase \in Filling => final_cut < k /\ k <= tip
      <4>1. at[h] \in Int /\ effective_tip \in Int /\ final_cut \in Int /\ tip \in Int /\ effective_tip <= tip
        BY <1>1, AtInt, CutFacts, InstantInts DEF TypeOK
      <4> QED BY <2>1, <4>1
    <3> QED BY <1>3, <1>4, <2>1, <3>1
  <2>2. CASE k # at[h]
    BY <1>1, <1>4, <2>2 DEF PendingInv
  <2> QED BY <2>1, <2>2
<1>11. phase \in Filling => Matured(Joined(h), HeadWith(h)) = {} /\ HeadWith(h) <= tip
  <2> SUFFICES ASSUME phase \in Filling PROVE Matured(Joined(h), HeadWith(h)) = {} /\ HeadWith(h) <= tip
    OBVIOUS
  <2>1. at[h] > final_cut /\ at[h] <= effective_tip /\ at[h] \in Int /\ effective_tip \in Int /\ final_cut \in Int
        /\ effective_tip <= tip /\ tip \in Int /\ Depth \in Int
    BY <1>1, AtInt, CutFacts, InstantInts, Depths DEF TypeOK
  <2>2. ~Bounded /\ \A k \in Nat : k > final_cut => k + Depth > tip
    BY <1>1, <2>1, CutFacts
  <2>3. window.head <= tip /\ window.head \in Int
    BY <1>1, SettledFields DEF PendingInv
  <2>4. HeadWith(h) <= tip
    BY <2>1, <2>3 DEF HeadWith
  <2>5. ASSUME NEW k \in DOMAIN Joined(h) PROVE ~(HeadWith(h) >= k + Depth)
    <3>1. k \in Nat /\ k > final_cut
      BY <1>5, <1>10, <2>1, InstantInts
    <3>2. k + Depth > tip
      BY <2>2, <3>1
    <3> QED BY <1>6, <2>1, <2>4, <3>1, <3>2
  <2> QED BY <1>7, <2>4, <2>5
<1>12. PendingInv'
  <2>1. ASSUME NEW j \in DOMAIN Joined(h), NEW k \in Matured(Joined(h), HeadWith(h)), j < k
        PROVE  j \in Matured(Joined(h), HeadWith(h))
    <3>0. k \in DOMAIN Joined(h) /\ HeadWith(h) >= k + Depth
      BY <1>7
    <3>1. j \in Int /\ k \in Int /\ Depth \in Int /\ HeadWith(h) >= k + Depth
      BY <1>5, <3>0, InstantInt, Depths
    <3>2. HeadWith(h) >= j + Depth
      BY <1>6, <2>1, <3>1
    <3> QED BY <1>7, <3>2
  <2> QED BY <1>7, <1>8, <1>9, <1>10, <1>11, <2>1 DEF PendingInv
<1>13. WatermarkInv'
  BY <1>1, <1>2, <1>8, <1>9 DEF WatermarkInv
<1> QED BY <1>3, <1>8, <1>9, <1>12, <1>13

(* The window halts.                                                       *)
LEMMA HaltsBase ==
  ASSUME Base, window.maturing = {}, UNCHANGED <<at, tip, to_block>>,
         phase \notin BeforeReady, phase' \notin BeforeReady, phase' \in Filling => phase \in Filling,
         window' = [window EXCEPT !.healthy = FALSE, !.pending = NoGroups]
  PROVE  /\ window' \in [healthy : BOOLEAN, pending : Pendings, head : Instants \cup {Unbounded},
                         watermark : Frontiers, maturing : SUBSET Instants]
         /\ ~window'.healthy
         /\ PendingInv' /\ WatermarkInv'
<1>1. TypeOK /\ PendingInv
  BY DEF Base
<1>2. /\ window' \in [healthy : BOOLEAN, pending : Pendings, head : Instants \cup {Unbounded},
                      watermark : Frontiers, maturing : SUBSET Instants]
      /\ ~window'.healthy /\ window'.pending = NoGroups /\ window'.maturing = {}
      /\ window'.head = window.head
  BY <1>1, NoGroupsFacts DEF TypeOK
<1>3. PendingInv'
  BY <1>1, <1>2, NoGroupsFacts DEF PendingInv, NoGroups, None
<1>4. WatermarkInv'
  BY <1>2 DEF WatermarkInv
<1> QED BY <1>2, <1>3, <1>4

(* Every case of a backfill event.                                         *)
LEMMA BackfillBase == ASSUME Base, poll_backfill PROVE Base'
<1> DEFINE h == Head(fetched)
<1>1. TypeOK /\ StoreInv /\ SettledInv /\ SourceInv /\ OpenedInv /\ PendingInv /\ WatermarkInv
  BY DEF Base
<1>2. /\ SourceInv' /\ OpenedInv'
      /\ h \in Identity /\ at[h] # Unbounded /\ at[h] <= effective_tip
      /\ UNCHANGED <<at, feed, tip, last, cursor, to_block>>
      /\ phase = "backfill" /\ phase' = phase /\ phase \in Filling
      /\ final_cut' = final_cut /\ effective_tip' = effective_tip
      /\ fetched' \in Seq(Identity)
      /\ delivered' \in [Identity -> Nat]
  BY BackfillFrame
<1>3. phase \notin BeforeReady
  BY <1>2 DEF BeforeReady
<1>4. window.maturing = {}
  BY DEF poll_backfill
<1>5. \/ Suppressed(h) \/ PassesBy(h) \/ BlockHalts(h) \/ BlockJoins(h) \/ BlockRolls(h)
      \/ BlockFails(h) \/ ((WindowHalts(h) \/ WindowJoins(h)) /\ at[h] > final_cut)
  BY <1>1, BackfillCases
<1> HIDE DEF h
<1>6. ASSUME TypeOK', StoreInv', SettledInv', PendingInv', WatermarkInv' PROVE Base'
  BY <1>2, <1>6 DEF Base
<1>7. CASE Suppressed(h) \/ PassesBy(h)
  <2>1. UNCHANGED <<storeVars, settled, window>>
    BY <1>7 DEF Suppressed, PassesBy
  <2>2. StoreInv' /\ stored_position' = stored_position /\ rows' = rows
    BY <1>1, <1>2, <2>1, StoreFrame
  <2>3. TypeOK'
    BY <1>1, <1>2, <2>1, <2>2 DEF TypeOK
  <2>4. SettledInv'
    BY <1>1, <1>2, <2>1, <2>2 DEF SettledInv
  <2>5. PendingInv' /\ WatermarkInv'
    BY <1>1, <1>2, <2>1, WindowFrame
  <2> QED BY <1>6, <2>2, <2>3, <2>4, <2>5
<1>8. CASE BlockHalts(h)
  <2>1. UNCHANGED <<storeVars, window>> /\ settled' = [settled EXCEPT !.healthy = FALSE, !.buffer = <<>>]
    BY <1>8 DEF BlockHalts, SettledHalts
  <2>2. StoreInv' /\ stored_position' = stored_position /\ rows' = rows
    BY <1>1, <1>2, <2>1, StoreFrame
  <2>3. /\ settled' \in [healthy : BOOLEAN, current : Frontiers, buffer : Seq(Identity),
                         watermark : Frontiers]
        /\ ~settled'.healthy
    <3>1. <<>> \in Seq(Identity)
      OBVIOUS
    <3> QED BY <1>1, <2>1, <3>1 DEF TypeOK
  <2>4. TypeOK'
    BY <1>1, <1>2, <2>1, <2>2, <2>3 DEF TypeOK
  <2>5. SettledInv'
    BY <2>3 DEF SettledInv
  <2>6. PendingInv' /\ WatermarkInv'
    BY <1>1, <1>2, <2>1, WindowFrame
  <2> QED BY <1>6, <2>2, <2>4, <2>5, <2>6
<1>9. CASE BlockJoins(h)
  <2>1. TypeOK' /\ StoreInv' /\ SettledInv'
    BY <1>9, BlockJoinsBase DEF h
  <2>2. UNCHANGED <<storeVars, window>>
    BY <1>9 DEF BlockJoins
  <2>3. PendingInv' /\ WatermarkInv'
    BY <1>1, <1>2, <2>2, WindowFrame
  <2> QED BY <1>6, <2>1, <2>3
<1>10. CASE BlockRolls(h)
  <2>1. TypeOK' /\ StoreInv' /\ SettledInv'
    BY <1>10, BlockRollsBase DEF h
  <2>2. window' = window /\ write(settled.current, settled.buffer) /\ settled.healthy /\ settled.current # None
    BY <1>10 DEF BlockRolls
  <2>3. PendingInv' /\ WatermarkInv'
    BY <1>2, <2>2, BlockWroteWindow
  <2> QED BY <1>6, <2>1, <2>3
<1>11. CASE BlockFails(h)
  <2>1. /\ settled.healthy /\ settled.current # None /\ window' = window
        /\ settled' = [settled EXCEPT !.healthy = FALSE, !.current = None, !.buffer = <<>>]
        /\ UNCHANGED storeVars \/ write(settled.current, settled.buffer)
    BY <1>11 DEF BlockFails
  <2>2. /\ settled' \in [healthy : BOOLEAN, current : Frontiers, buffer : Seq(Identity),
                         watermark : Frontiers]
        /\ ~settled'.healthy
    <3>1. <<>> \in Seq(Identity)
      OBVIOUS
    <3> QED BY <1>1, <2>1, <3>1, NoneFrontier DEF TypeOK
  <2>3. StoreInv' /\ stored_position' \in Frontiers /\ PendingInv' /\ WatermarkInv'
    <3>1. CASE UNCHANGED storeVars
      <4>1. StoreInv' /\ stored_position' = stored_position
        BY <1>1, <1>2, <3>1, StoreFrame
      <4>2. PendingInv' /\ WatermarkInv'
        BY <1>1, <1>2, <2>1, <3>1, WindowFrame
      <4> QED BY <1>1, <4>1, <4>2 DEF TypeOK
    <3>2. CASE write(settled.current, settled.buffer)
      BY <1>2, <2>1, <3>2, BlockWrote, BlockWroteWindow
    <3> QED BY <2>1, <3>1, <3>2
  <2>4. TypeOK'
    BY <1>1, <1>2, <2>1, <2>2, <2>3 DEF TypeOK
  <2>5. SettledInv'
    BY <2>2 DEF SettledInv
  <2> QED BY <1>6, <2>3, <2>4, <2>5
<1>12. CASE WindowHalts(h)
  <2>1. UNCHANGED <<storeVars, settled>> /\ window' = [window EXCEPT !.healthy = FALSE, !.pending = NoGroups]
    BY <1>12 DEF WindowHalts
  <2>2. StoreInv' /\ stored_position' = stored_position /\ rows' = rows
    BY <1>1, <1>2, <2>1, StoreFrame
  <2>3. /\ window' \in [healthy : BOOLEAN, pending : Pendings, head : Instants \cup {Unbounded},
                         watermark : Frontiers, maturing : SUBSET Instants]
        /\ PendingInv' /\ WatermarkInv'
    BY <1>2, <1>3, <1>4, <2>1, HaltsBase
  <2>4. TypeOK'
    BY <1>1, <1>2, <2>1, <2>2, <2>3 DEF TypeOK
  <2>5. SettledInv'
    BY <1>1, <1>2, <2>1, <2>2 DEF SettledInv
  <2> QED BY <1>6, <2>2, <2>3, <2>4, <2>5
<1>13. CASE WindowJoins(h) /\ at[h] > final_cut
  <2>1. UNCHANGED <<storeVars, settled>>
    BY <1>13 DEF WindowJoins
  <2>2. /\ window' \in [healthy : BOOLEAN, pending : Pendings, head : Instants \cup {Unbounded},
                         watermark : Frontiers, maturing : SUBSET Instants]
        /\ StoreInv' /\ stored_position' = stored_position /\ rows' = rows
        /\ PendingInv' /\ WatermarkInv'
    BY <1>2, <1>3, <1>13, JoinsBase
  <2>3. TypeOK'
    BY <1>1, <1>2, <2>1, <2>2 DEF TypeOK
  <2>4. SettledInv'
    BY <1>1, <1>2, <2>1, <2>2 DEF SettledInv
  <2> QED BY <1>6, <2>2, <2>3, <2>4
<1> QED BY <1>5, <1>7, <1>8, <1>9, <1>10, <1>11, <1>12, <1>13

-----------------------------------------------------------------------------
(***************************************************************************)
(* The backfill ends.                                                      *)
(***************************************************************************)

(* The trailing group is written, or there is none.                        *)
Finishes ==
  /\ settled.healthy => \/ settled.current = None /\ UNCHANGED storeVars
                        \/ settled.current # None /\ write(settled.current, settled.buffer)
  /\ ~settled.healthy => UNCHANGED storeVars
  /\ settled'.healthy = settled.healthy
  /\ settled'.watermark = IF settled.healthy THEN stored_position' ELSE settled.watermark
  /\ settled'.current = None \/ ~settled.healthy

FinishFails ==
  /\ settled.healthy /\ ~settled'.healthy /\ settled.current # None
  /\ UNCHANGED storeVars \/ write(settled.current, settled.buffer)

(* The last write of a backfill, and the hand-over to the window.          *)
LEMMA FinishCases ==
  ASSUME Base, finish_backfill
  PROVE  /\ phase = "backfill" /\ phase' = "live" /\ window.maturing = {} /\ fetched = <<>>
         /\ UNCHANGED <<at, feed, sorts, tip, last, fetched, cursor, to_block, delivered>>
         /\ settled' \in [healthy : BOOLEAN, current : Frontiers, buffer : Seq(Identity),
                          watermark : Frontiers]
         /\ Finishes \/ FinishFails
         /\ StoreInv' /\ stored_position' \in Frontiers
         /\ stored_position.time_ms <= stored_position'.time_ms
         /\ window' = IF settled'.healthy
                      THEN [window EXCEPT !.watermark = advance(@, stored_position')]
                      ELSE [window EXCEPT !.healthy = FALSE, !.pending = NoGroups]
         /\ \A k \in DOMAIN window.pending :
              /\ Group(at, rows', window.pending[k].position, window.pending[k].rows, k)
              /\ settled'.healthy /\ window.healthy => stored_position'.time_ms <= k
<1>1. TypeOK /\ StoreInv /\ SettledInv /\ PendingInv /\ WatermarkInv
  BY DEF Base
<1>2. /\ phase = "backfill" /\ phase' = "live" /\ window.maturing = {} /\ fetched = <<>>
      /\ UNCHANGED <<at, feed, sorts, tip, last, fetched, cursor, to_block, delivered>>
      /\ finish
      /\ window' = IF settled'.healthy THEN [window EXCEPT !.watermark = advance(@, settled'.watermark)]
                   ELSE [window EXCEPT !.healthy = FALSE, !.pending = NoGroups]
      /\ phase \in Filling
  BY DEF finish_backfill, sourceVars, absorb, window_halt, Filling
<1>3. <<>> \in Seq(Identity) /\ None \in Frontiers
  BY NoneFrontier
<1>4. /\ settled \in [healthy : BOOLEAN, current : Frontiers, buffer : Seq(Identity),
                      watermark : Frontiers]
      /\ settled.current \in Frontiers /\ stored_position \in Frontiers
      /\ stored_position.time_ms \in Int /\ settled.current.time_ms \in Int
      /\ settled.watermark \in Frontiers /\ final_cut \in Int /\ window.watermark.time_ms \in Int
  BY <1>1, SettledFields, CutFacts, InstantInts DEF TypeOK
<1>5. settled.healthy => settled.watermark = stored_position
  BY <1>1, <1>2 DEF SettledInv
<1>6. settled.healthy /\ settled.current # None => settled.current.time_ms <= final_cut /\ stored_position.time_ms <= settled.current.time_ms
  BY <1>1, <1>2 DEF SettledInv
<1>7. window.healthy => /\ stored_position.time_ms <= window.watermark.time_ms
                        /\ final_cut <= window.watermark.time_ms
  BY <1>1, <1>2 DEF WatermarkInv, BeforeReady
<1>8. \A k \in DOMAIN window.pending :
        /\ Group(at, rows, window.pending[k].position, window.pending[k].rows, k)
        /\ window.watermark.time_ms <= k /\ k \in Int
  BY <1>1, PendingOf DEF PendingInv
<1>9. CASE ~settled.healthy \/ settled.current = None
  <2>1. settled' = settled /\ UNCHANGED storeVars
    BY <1>2, <1>9 DEF finish
  <2>2. StoreInv' /\ stored_position' = stored_position /\ rows' = rows
    BY <1>1, <1>2, <2>1, StoreFrame
  <2>3. Finishes
    <3>1. settled'.healthy = settled.healthy /\ settled'.watermark = settled.watermark
          /\ settled'.current = settled.current
      BY <2>1
    <3> QED BY <1>4, <1>5, <1>9, <2>1, <2>2, <3>1 DEF Finishes
  <2>4. \A k \in DOMAIN window.pending :
          /\ Group(at, rows', window.pending[k].position, window.pending[k].rows, k)
          /\ window.healthy => stored_position'.time_ms <= k
    BY <1>4, <1>7, <1>8, <2>2
  <2> QED BY <1>2, <1>4, <1>5, <2>1, <2>2, <2>3, <2>4
<1>10. CASE settled.healthy /\ settled.current # None
  <2>1. ASSUME write(settled.current, settled.buffer)
        PROVE  /\ stored_position' = advance(stored_position, settled.current)
               /\ stored_position' \in Frontiers
               /\ stored_position'.time_ms = settled.current.time_ms
               /\ settled.current.time_ms <= final_cut
               /\ StoreInv'
               /\ stored_position.time_ms <= stored_position'.time_ms
               /\ \A k \in DOMAIN window.pending :
                    /\ Group(at, rows', window.pending[k].position, window.pending[k].rows, k)
                    /\ window.healthy => stored_position'.time_ms <= k
    <3>1. /\ stored_position' = advance(stored_position, settled.current)
          /\ stored_position' \in Frontiers
          /\ stored_position'.time_ms = settled.current.time_ms
          /\ StoreInv'
          /\ \A k \in DOMAIN window.pending :
               Group(at, rows', window.pending[k].position, window.pending[k].rows, k)
      BY <1>2, <1>10, <2>1, BlockWrote
    <3>2. \A k \in DOMAIN window.pending : window.healthy => stored_position'.time_ms <= k
      BY <1>4, <1>6, <1>7, <1>8, <1>10, <3>1
    <3> QED BY <1>6, <1>10, <3>1, <3>2
  <2>2. CASE /\ write(settled.current, settled.buffer)
             /\ settled' = [settled EXCEPT !.watermark = advance(@, settled.current),
                                           !.current = None, !.buffer = <<>>]
    <3>1. /\ settled' \in [healthy : BOOLEAN, current : Frontiers, buffer : Seq(Identity),
                          watermark : Frontiers]
          /\ settled'.healthy /\ settled'.watermark = stored_position' /\ settled'.current = None
      BY <1>3, <1>4, <1>5, <1>10, <2>1, <2>2
    <3>2. Finishes
      BY <1>10, <2>2, <3>1 DEF Finishes
    <3> QED BY <1>2, <2>1, <2>2, <3>1, <3>2
  <2>3. CASE /\ failed_write(settled.current, settled.buffer)
             /\ settled' = [settled EXCEPT !.healthy = FALSE, !.current = None, !.buffer = <<>>]
    <3>1. /\ settled' \in [healthy : BOOLEAN, current : Frontiers, buffer : Seq(Identity),
                          watermark : Frontiers]
          /\ ~settled'.healthy
      BY <1>3, <1>4, <2>3
    <3>2. UNCHANGED storeVars \/ write(settled.current, settled.buffer)
      BY <2>3 DEF failed_write
    <3>3. FinishFails
      BY <1>10, <3>1, <3>2 DEF FinishFails
    <3>4. CASE UNCHANGED storeVars
      <4>1. StoreInv' /\ stored_position' = stored_position /\ rows' = rows
        BY <1>1, <1>2, <3>4, StoreFrame
      <4> QED BY <1>2, <1>4, <1>8, <3>1, <3>3, <4>1
    <3>5. CASE write(settled.current, settled.buffer)
      BY <1>2, <2>1, <3>1, <3>3, <3>5
    <3> QED BY <3>2, <3>4, <3>5
  <2> QED BY <1>2, <1>10, <2>2, <2>3 DEF finish
<1> QED BY <1>9, <1>10

(* The window covers what the settled writer stored.                       *)
LEMMA FinishBase == ASSUME Base, finish_backfill PROVE Base'
<1>1. TypeOK /\ StoreInv /\ SourceInv /\ OpenedInv /\ PendingInv /\ WatermarkInv
  BY DEF Base
<1>2. /\ phase = "backfill" /\ phase' = "live" /\ window.maturing = {} /\ fetched = <<>>
      /\ UNCHANGED <<at, feed, tip, last, fetched, cursor, to_block, delivered>>
      /\ settled' \in [healthy : BOOLEAN, current : Frontiers, buffer : Seq(Identity),
                       watermark : Frontiers]
      /\ StoreInv' /\ stored_position' \in Frontiers
      /\ window' = IF settled'.healthy
                   THEN [window EXCEPT !.watermark = advance(@, stored_position')]
                   ELSE [window EXCEPT !.healthy = FALSE, !.pending = NoGroups]
      /\ \A k \in DOMAIN window.pending :
           /\ Group(at, rows', window.pending[k].position, window.pending[k].rows, k)
           /\ settled'.healthy /\ window.healthy => stored_position'.time_ms <= k
  BY FinishCases
<1>3. final_cut' = final_cut /\ effective_tip' = effective_tip
  BY <1>2, CutSame
<1>4. phase' \notin Filling /\ phase' \notin BeforeReady /\ phase' # "ready" /\ phase \notin BeforeReady
  BY <1>2 DEF Filling, BeforeReady
<1>5. SettledInv'
  BY <1>4 DEF SettledInv
<1>6. SourceInv'
  BY <1>1, <1>2, <1>3 DEF SourceInv
<1>7. OpenedInv'
  BY <1>4 DEF OpenedInv
<1>8. /\ window' \in [healthy : BOOLEAN, pending : Pendings, head : Instants \cup {Unbounded},
                      watermark : Frontiers, maturing : SUBSET Instants]
      /\ PendingInv' /\ WatermarkInv'
  <2>1. CASE ~settled'.healthy
    BY <1>2, <1>4, <2>1, HaltsBase
  <2>2. CASE settled'.healthy
    <3> DEFINE W == advance(window.watermark, stored_position')
    <3>1. window.watermark \in Frontiers /\ window.watermark.time_ms \in Int /\ stored_position'.time_ms \in Int
      BY <1>1, <1>2, SettledFields, FrontierTime
    <3>2. /\ W \in Frontiers /\ window.watermark.time_ms <= W.time_ms /\ stored_position'.time_ms <= W.time_ms
          /\ W.time_ms = window.watermark.time_ms \/ W.time_ms = stored_position'.time_ms
      BY <1>2, <3>1, FrontierAdvance
    <3>3. /\ window' \in [healthy : BOOLEAN, pending : Pendings, head : Instants \cup {Unbounded},
                          watermark : Frontiers, maturing : SUBSET Instants]
          /\ window'.healthy = window.healthy /\ window'.pending = window.pending
          /\ window'.maturing = {} /\ window'.head = window.head /\ window'.watermark = W
      BY <1>1, <1>2, <2>2, <3>2 DEF TypeOK
    <3>4. ASSUME NEW k \in DOMAIN window.pending PROVE W.time_ms <= k
      <4>1. window.healthy
        BY <1>1, NoGroupsFacts DEF PendingInv
      <4>2. stored_position'.time_ms <= k /\ window.watermark.time_ms <= k
        BY <1>1, <1>2, <2>2, <4>1 DEF PendingInv
      <4> QED BY <3>2, <4>2
    <3> HIDE DEF W
    <3>5. PendingInv'
      BY <1>1, <1>2, <1>4, <3>3, <3>4 DEF PendingInv, NoGroups, None
    <3>6. ASSUME NEW h \in Identity, rows'[h] = 1 PROVE Covers(at, W, h)
      <4>1. at[h] <= stored_position'.time_ms /\ (at[h] = stored_position'.time_ms => h \in stored_position'.seen)
        BY <1>2, <3>6 DEF StoreInv
      <4>2. at[h] \in Int
        BY <1>1, AtInt
      <4>3. Covers(at, stored_position', h)
        BY <3>1, <4>1, <4>2 DEF Covers
      <4> QED BY <1>2, <3>1, <4>2, <4>3, CoversAdvance DEF W
    <3>7. WatermarkInv'
      BY <1>2, <1>4, <3>2, <3>3, <3>6 DEF WatermarkInv
    <3> QED BY <3>3, <3>5, <3>7
  <2> QED BY <2>1, <2>2
<1>9. TypeOK'
  BY <1>1, <1>2, <1>8 DEF TypeOK
<1> QED BY <1>2, <1>5, <1>6, <1>7, <1>8, <1>9 DEF Base

-----------------------------------------------------------------------------
(***************************************************************************)
(* The live tail.                                                          *)
(***************************************************************************)

(* What becomes of one live event, case by case.                           *)
LEMMA LiveCases ==
  ASSUME Base, live_event, NEW h, h = feed[cursor + 1]
  PROVE  /\ phase = "live" /\ phase' = phase /\ window.maturing = {} /\ ~Bounded
         /\ cursor + 1 \in DOMAIN feed /\ cursor' = cursor + 1
         /\ h \in Identity /\ h \in Elems(feed) /\ at[h] # Unbounded
         /\ UNCHANGED <<at, feed, sorts, tip, last, fetched, to_block, settled>>
         /\ \/ window.healthy /\ covered(item(h)) /\ UNCHANGED <<storeVars, window, delivered>>
            \/ ~window.healthy /\ UNCHANGED <<storeVars, window>> /\ delivered' = Deliver({h})
            \/ WindowHalts(h)
            \/ WindowJoins(h)
<1>1. TypeOK /\ SourceInv
  BY DEF Base
<1>2. /\ phase = "live" /\ phase' = phase /\ window.maturing = {} /\ ~Bounded
      /\ cursor < Len(feed) /\ cursor' = cursor + 1
      /\ UNCHANGED <<at, feed, sorts, tip, last, fetched, to_block, settled>>
      /\ \/ window.healthy /\ covered(item(h)) /\ UNCHANGED <<storeVars, window, delivered>>
         \/ ~(window.healthy /\ covered(item(h))) /\ record(h) /\ delivered' = Deliver({h})
  BY DEF live_event, sourceVars
<1>3. cursor + 1 \in DOMAIN feed /\ h \in Identity /\ h \in Elems(feed)
  <2>1. cursor \in Nat /\ feed \in Seq(Identity) /\ DOMAIN feed = 1..Len(feed) /\ Len(feed) \in Nat
    BY <1>1 DEF TypeOK
  <2>2. cursor + 1 \in 1..Len(feed)
    BY <1>2, <2>1
  <2>3. feed[cursor + 1] \in Identity
    BY <2>1, <2>2
  <2> QED BY <2>1, <2>2, <2>3 DEF Elems
<1>4. at[h] # Unbounded
  BY <1>1, <1>3 DEF SourceInv
<1>5. CASE ~(window.healthy /\ covered(item(h))) /\ record(h) /\ delivered' = Deliver({h})
  <2>1. UNCHANGED storeVars
    BY <1>5 DEF record
  <2>2. CASE ~window.healthy /\ UNCHANGED window
    BY <1>2, <1>3, <1>4, <1>5, <2>1, <2>2
  <2>3. CASE window.healthy /\ window' = [window EXCEPT !.healthy = FALSE, !.pending = NoGroups]
    BY <1>2, <1>3, <1>4, <1>5, <2>1, <2>3 DEF WindowHalts
  <2>4. CASE /\ window.healthy
             /\ window' = [window EXCEPT !.pending = Joined(h), !.head = HeadWith(h),
                                         !.maturing = Matured(Joined(h), HeadWith(h))]
    BY <1>2, <1>3, <1>4, <1>5, <2>1, <2>4 DEF WindowJoins
  <2> QED BY <1>5, <2>2, <2>3, <2>4 DEF record, HeadWith
<1> QED BY <1>2, <1>3, <1>4, <1>5

(* Every case of a live event.                                             *)
LEMMA LiveBase == ASSUME Base, live_event PROVE Base'
<1> DEFINE h == feed[cursor + 1]
<1>1. TypeOK /\ StoreInv /\ SourceInv /\ OpenedInv /\ PendingInv /\ WatermarkInv
  BY DEF Base
<1>2. /\ phase = "live" /\ phase' = phase /\ window.maturing = {}
      /\ cursor' = cursor + 1
      /\ h \in Identity /\ h \in Elems(feed) /\ at[h] # Unbounded
      /\ UNCHANGED <<at, feed, tip, last, fetched, to_block, settled>>
      /\ \/ window.healthy /\ covered(item(h)) /\ UNCHANGED <<storeVars, window, delivered>>
         \/ ~window.healthy /\ UNCHANGED <<storeVars, window>> /\ delivered' = Deliver({h})
         \/ WindowHalts(h)
         \/ WindowJoins(h)
  BY LiveCases
<1> HIDE DEF h
<1>3. final_cut' = final_cut /\ effective_tip' = effective_tip
  BY <1>2, CutSame
<1>4. phase' \notin Filling /\ phase' \notin BeforeReady /\ phase' # "ready" /\ phase \notin BeforeReady /\ phase \notin Filling
  BY <1>2 DEF Filling, BeforeReady
<1>5. SettledInv' /\ OpenedInv'
  BY <1>4 DEF SettledInv, OpenedInv
<1>6. SourceInv'
  BY <1>1, <1>2, <1>3 DEF SourceInv
<1>7. /\ window' \in [healthy : BOOLEAN, pending : Pendings, head : Instants \cup {Unbounded},
                      watermark : Frontiers, maturing : SUBSET Instants]
      /\ StoreInv' /\ stored_position' = stored_position
      /\ PendingInv' /\ WatermarkInv'
      /\ delivered' \in [Identity -> Nat]
  <2>1. CASE UNCHANGED <<storeVars, window>>
    <3>1. StoreInv' /\ stored_position' = stored_position
      BY <1>1, <1>2, <2>1, StoreFrame
    <3>2. PendingInv' /\ WatermarkInv'
      BY <1>1, <1>2, <2>1, WindowFrame
    <3>3. delivered' = delivered \/ delivered' = Deliver({h})
      BY <1>2 DEF WindowHalts, WindowJoins
    <3> QED BY <1>1, <2>1, <3>1, <3>2, <3>3, DeliverType DEF TypeOK
  <2>2. CASE WindowHalts(h)
    <3>1. /\ UNCHANGED storeVars /\ window' = [window EXCEPT !.healthy = FALSE, !.pending = NoGroups]
          /\ delivered' = Deliver({h})
      BY <2>2 DEF WindowHalts
    <3>2. StoreInv' /\ stored_position' = stored_position
      BY <1>1, <1>2, <3>1, StoreFrame
    <3>3. /\ window' \in [healthy : BOOLEAN, pending : Pendings, head : Instants \cup {Unbounded},
                          watermark : Frontiers, maturing : SUBSET Instants]
          /\ PendingInv' /\ WatermarkInv'
      BY <1>2, <1>4, <3>1, HaltsBase
    <3> QED BY <1>1, <3>1, <3>2, <3>3, DeliverType
  <2>3. CASE WindowJoins(h)
    <3>1. delivered' = Deliver({h})
      BY <2>3 DEF WindowJoins
    <3>2. /\ window' \in [healthy : BOOLEAN, pending : Pendings, head : Instants \cup {Unbounded},
                          watermark : Frontiers, maturing : SUBSET Instants]
          /\ StoreInv' /\ stored_position' = stored_position
          /\ PendingInv' /\ WatermarkInv'
      BY <1>2, <1>4, <2>3, JoinsBase
    <3> QED BY <1>1, <3>1, <3>2, DeliverType
  <2> QED BY <1>2, <2>1, <2>2, <2>3
<1>8. cursor' \in Nat
  BY <1>1, <1>2 DEF TypeOK
<1>9. TypeOK'
  BY <1>1, <1>2, <1>7, <1>8 DEF TypeOK
<1> QED BY <1>5, <1>6, <1>7, <1>9 DEF Base

(* One turn of flush_matured, for the group of instant k.                  *)
Flushes(k) ==
  /\ write(window.pending[k].position, window.pending[k].rows)
  /\ window' = [window EXCEPT !.pending = [j \in DOMAIN window.pending \ {k} |-> window.pending[j]],
                              !.watermark = advance(@, window.pending[k].position),
                              !.maturing = @ \ {k}]

FlushFails(k) ==
  /\ UNCHANGED storeVars \/ write(window.pending[k].position, window.pending[k].rows)
  /\ window' = [window EXCEPT !.healthy = FALSE, !.pending = NoGroups, !.maturing = {}]

(* The group that is written lies below all the others.                    *)
LEMMA FlushCases ==
  ASSUME Base, flush_matured
  PROVE  /\ phase = "live" /\ phase' = phase /\ window.healthy
         /\ UNCHANGED <<at, feed, sorts, tip, last, fetched, cursor, to_block, settled, delivered>>
         /\ \E k \in window.maturing :
              /\ k \in DOMAIN window.pending /\ \A j \in DOMAIN window.pending : k <= j
              /\ Flushes(k) \/ FlushFails(k)
<1>1. TypeOK /\ PendingInv /\ OpenedInv
  BY DEF Base
<1>2. PICK k \in window.maturing :
        /\ \A j \in window.maturing : k <= j
        /\ Flushes(k) \/ FlushFails(k)
  BY DEF flush_matured, Flushes, FlushFails, failed_write
<1>3. UNCHANGED <<at, feed, sorts, tip, last, fetched, cursor, to_block, settled, delivered>> /\ phase' = phase
  BY DEF flush_matured, sourceVars, streamVars
<1>4. window.healthy /\ phase \notin Filling /\ k \in DOMAIN window.pending
  BY <1>1 DEF PendingInv
<1>5. phase \notin BeforeReady
  BY <1>1, NewWriters, NoneFrontier DEF OpenedInv
<1>6. phase = "live"
  BY <1>1, <1>4, <1>5 DEF TypeOK
<1>7. ASSUME NEW j \in DOMAIN window.pending PROVE k <= j
  <2>1. k \in Int /\ j \in Int
    BY <1>1, <1>4, PendingOf
  <2>2. j < k => j \in window.maturing
    BY <1>1 DEF PendingInv
  <2> QED BY <1>2, <2>1, <2>2
<1> QED BY <1>2, <1>3, <1>4, <1>6, <1>7

(* The lowest group goes to the Store; those above it stay.                *)
LEMMA FlushWrote ==
  ASSUME Base, phase = "live", window.healthy, at' = at,
         NEW k \in DOMAIN window.pending, \A j \in DOMAIN window.pending : k <= j,
         write(window.pending[k].position, window.pending[k].rows)
  PROVE  /\ stored_position' = advance(stored_position, window.pending[k].position)
         /\ stored_position' \in Frontiers
         /\ stored_position'.time_ms = k
         /\ StoreInv'
         /\ \A h \in Identity : rows'[h] = 1 <=> rows[h] = 1 \/ h \in Elems(window.pending[k].rows)
         /\ \A j \in DOMAIN window.pending \ {k} :
              Group(at, rows', window.pending[j].position, window.pending[j].rows, j)
<1>1. TypeOK /\ StoreInv /\ PendingInv /\ WatermarkInv
  BY DEF Base
<1> DEFINE g == window.pending[k]
<1>2. /\ k \in Int /\ g.rows \in Seq(Identity) /\ g.position \in Frontiers
      /\ stored_position.time_ms \in Int /\ window.watermark.time_ms \in Int
  BY <1>1, PendingOf, SettledFields
<1>3. Group(at, rows, g.position, g.rows, k) /\ window.watermark.time_ms <= k
  BY <1>1 DEF PendingInv
<1>4. stored_position.time_ms <= window.watermark.time_ms
  BY <1>1 DEF WatermarkInv, BeforeReady
<1>5. stored_position.time_ms <= k
  BY <1>2, <1>3, <1>4
<1>6. /\ stored_position' = advance(stored_position, g.position)
      /\ stored_position' \in Frontiers
      /\ stored_position'.time_ms = k
      /\ StoreInv'
      /\ \A h \in Identity : rows'[h] = 1 <=> rows[h] = 1 \/ h \in Elems(g.rows)
  BY <1>1, <1>2, <1>3, <1>5, Wrote
<1>7. ASSUME NEW j \in DOMAIN window.pending \ {k}
      PROVE  Group(at, rows', window.pending[j].position, window.pending[j].rows, j)
  <2>1. Group(at, rows, window.pending[j].position, window.pending[j].rows, j)
    BY <1>1 DEF PendingInv
  <2>2. window.pending[j].rows \in Seq(Identity)
    BY <1>1, PendingOf
  <2>3. ASSUME NEW h \in Elems(window.pending[j].rows) PROVE rows'[h] = rows[h]
    <3>1. h \in Identity
      BY <2>2 DEF Elems
    <3>2. at[h] = j
      BY <2>1 DEF Group
    <3>3. h \notin Elems(g.rows)
      BY <1>3, <3>2 DEF Group
    <3>4. rows[h] \in {0, 1} /\ rows'[h] \in {0, 1}
      BY <1>1, <1>6, <3>1 DEF StoreInv
    <3> QED BY <1>6, <3>1, <3>3, <3>4
  <2> QED BY <2>1, <2>3, GroupKept
<1> QED BY <1>6, <1>7

(* One turn of the flush loop.                                             *)
LEMMA FlushBase == ASSUME Base, flush_matured PROVE Base'
<1>1. TypeOK /\ StoreInv /\ SourceInv /\ OpenedInv /\ PendingInv /\ WatermarkInv
  BY DEF Base
<1>2. /\ phase = "live" /\ phase' = phase /\ window.healthy
      /\ UNCHANGED <<at, feed, tip, last, fetched, cursor, to_block, settled, delivered>>
  BY FlushCases
<1>3. PICK k \in window.maturing :
        /\ k \in DOMAIN window.pending /\ \A j \in DOMAIN window.pending : k <= j
        /\ Flushes(k) \/ FlushFails(k)
  BY FlushCases
<1>4. final_cut' = final_cut /\ effective_tip' = effective_tip
  BY <1>2, CutSame
<1>5. phase' \notin Filling /\ phase' \notin BeforeReady /\ phase' # "ready" /\ phase \notin BeforeReady /\ phase \notin Filling
  BY <1>2 DEF Filling, BeforeReady
<1>6. SettledInv' /\ OpenedInv'
  BY <1>5 DEF SettledInv, OpenedInv
<1>7. SourceInv'
  BY <1>1, <1>2, <1>4 DEF SourceInv
<1>8. /\ window' \in [healthy : BOOLEAN, pending : Pendings, head : Instants \cup {Unbounded},
                      watermark : Frontiers, maturing : SUBSET Instants]
      /\ StoreInv' /\ stored_position' \in Frontiers
      /\ PendingInv' /\ WatermarkInv'
  <2>1. CASE FlushFails(k)
    <3>1. StoreInv' /\ stored_position' \in Frontiers
      <4>1. CASE UNCHANGED storeVars
        BY <1>1, <1>2, <4>1, StoreFrame DEF TypeOK
      <4>2. CASE write(window.pending[k].position, window.pending[k].rows)
        BY <1>2, <1>3, <4>2, FlushWrote
      <4> QED BY <2>1, <4>1, <4>2 DEF FlushFails
    <3>2. /\ window' \in [healthy : BOOLEAN, pending : Pendings, head : Instants \cup {Unbounded},
                          watermark : Frontiers, maturing : SUBSET Instants]
          /\ ~window'.healthy /\ window'.pending = NoGroups /\ window'.maturing = {}
      BY <1>1, <2>1, NoGroupsFacts DEF FlushFails, TypeOK
    <3>3. PendingInv'
      BY <1>5, <3>2, NoGroupsFacts DEF PendingInv, NoGroups, None
    <3>4. WatermarkInv'
      BY <3>2 DEF WatermarkInv
    <3> QED BY <3>1, <3>2, <3>3, <3>4
  <2>2. CASE Flushes(k)
    <3> DEFINE g == window.pending[k]
               rest == [j \in DOMAIN window.pending \ {k} |-> window.pending[j]]
               W == advance(window.watermark, g.position)
    <3>1. /\ stored_position' = advance(stored_position, g.position)
          /\ stored_position' \in Frontiers
          /\ stored_position'.time_ms = k
          /\ StoreInv'
          /\ \A h \in Identity : rows'[h] = 1 <=> rows[h] = 1 \/ h \in Elems(g.rows)
          /\ \A j \in DOMAIN window.pending \ {k} :
               Group(at, rows', window.pending[j].position, window.pending[j].rows, j)
      BY <1>2, <1>3, <2>2, FlushWrote DEF Flushes
    <3>2. /\ k \in Int /\ g.rows \in Seq(Identity) /\ g.position \in Frontiers
          /\ window.watermark \in Frontiers /\ window.watermark.time_ms \in Int
          /\ DOMAIN window.pending \subseteq Instants
          /\ \A j \in DOMAIN window.pending : window.pending[j] \in Groups
      BY <1>1, <1>3, PendingOf, SettledFields, PendingFacts
    <3>3. /\ Group(at, rows, g.position, g.rows, k) /\ window.watermark.time_ms <= k
          /\ g.position.time_ms = k /\ g.position.seen = Elems(g.rows)
      BY <1>1, <1>3 DEF PendingInv, Group
    <3>4. W \in Frontiers /\ W.time_ms = k
      BY <3>2, <3>3, FrontierAdvance
    <3>5. rest \in Pendings /\ DOMAIN rest = DOMAIN window.pending \ {k}
          /\ \A j \in DOMAIN rest : rest[j] = window.pending[j]
      <4>1. DOMAIN window.pending \ {k} \in SUBSET Instants /\ rest \in [DOMAIN window.pending \ {k} -> Groups]
        BY <3>2
      <4> QED BY <4>1, PendingIntro
    <3>6. window' = [window EXCEPT !.pending = rest, !.watermark = W, !.maturing = window.maturing \ {k}]
      BY <2>2 DEF Flushes
    <3>8. ASSUME NEW h \in Identity, rows'[h] = 1 PROVE Covers(at, W, h)
      <4>1. at[h] \in Int
        BY <1>1, AtInt
      <4>2. CASE rows[h] = 1
        <5>1. Covers(at, window.watermark, h)
          BY <1>1, <1>2, <1>5, <4>2 DEF WatermarkInv
        <5> QED BY <3>2, <4>1, <5>1, CoversAdvance
      <4>3. CASE h \in Elems(g.rows)
        <5>1. Covers(at, g.position, h)
          BY <3>3, <4>3 DEF Covers, Group
        <5> QED BY <3>2, <4>1, <5>1, CoversAdvance
      <4> QED BY <3>1, <3>8, <4>2, <4>3
    <3> HIDE DEF rest, W, g
    <3>7. /\ window' \in [healthy : BOOLEAN, pending : Pendings, head : Instants \cup {Unbounded},
                          watermark : Frontiers, maturing : SUBSET Instants]
          /\ window'.healthy /\ window'.pending = rest /\ window'.maturing = window.maturing \ {k}
          /\ window'.head = window.head /\ window'.watermark = W
      BY <1>1, <1>2, <3>4, <3>5, <3>6 DEF TypeOK
    <3>9. PendingInv'
      BY <1>1, <1>2, <1>3, <1>5, <3>1, <3>4, <3>5, <3>7 DEF PendingInv
    <3>10. WatermarkInv'
      BY <1>2, <1>5, <3>1, <3>2, <3>4, <3>7, <3>8 DEF WatermarkInv
    <3> QED BY <3>1, <3>7, <3>9, <3>10
  <2> QED BY <1>3, <2>1, <2>2
<1>9. TypeOK'
  BY <1>1, <1>2, <1>8 DEF TypeOK
<1> QED BY <1>6, <1>7, <1>8, <1>9 DEF Base

-----------------------------------------------------------------------------
(* A step that changes nothing.                                            *)
LEMMA StutterBase == ASSUME Base, UNCHANGED vars PROVE Base'
<1>1. /\ UNCHANGED <<at, feed, rows, progress, to_block, phase, tip, last, fetched, cursor, settled, window, delivered>>
      /\ UNCHANGED storeVars
  BY DEF vars, sourceVars, storeVars, streamVars
<1>2. stored_position' = stored_position /\ final_cut' = final_cut /\ effective_tip' = effective_tip
  BY <1>1, StoredSame, CutSame
<1> QED BY <1>1, <1>2 DEF Base, TypeOK, StoreInv, SettledInv, SourceInv, OpenedInv, PendingInv, WatermarkInv

(* Base is inductive: one case per action.                                 *)
LEMMA StepBase == ASSUME Base, [Next]_vars PROVE Base'
<1>1. CASE publish
  BY <1>1, PublishBase
<1>2. CASE subscribe_live \/ read_tip
  BY <1>2, SubscribeBase
<1>3. CASE open_segments
  BY <1>3, OpenBase
<1>4. CASE poll_replay
  BY <1>4, ReplayBase
<1>5. CASE poll_backfill
  BY <1>5, BackfillBase
<1>6. CASE finish_backfill
  BY <1>6, FinishBase
<1>7. CASE live_event
  BY <1>7, LiveBase
<1>8. CASE flush_matured
  BY <1>8, FlushBase
<1>9. CASE stream_ends \/ restart
  <2>1. Closed /\ UNCHANGED <<sourceVars, storeVars>> /\ to_block' \in Instants \cup {Unbounded}
    BY <1>9 DEF stream_ends, restart, Base, TypeOK
  <2> QED BY <2>1, ClosedBase
<1>10. CASE UNCHANGED vars
  BY <1>10, StutterBase
<1> QED BY <1>1, <1>2, <1>3, <1>4, <1>5, <1>6, <1>7, <1>8, <1>9, <1>10 DEF Next

(* In every reachable state the Store and the two writers agree: at most   *)
(* one row of an event, a frontier that lists the rows at its instant,     *)
(* groups of events that are not stored yet, and a watermark that covers   *)
(* what is stored.                                                         *)
THEOREM BaseAlways == Spec => []Base
<1>1. Init => Base
  BY InitBase
<1>2. Base /\ [Next]_vars => Base'
  BY StepBase
<1> QED BY <1>1, <1>2, PTL DEF Spec

(* However often the feed repeats itself, across overlapping resumes, live *)
(* re-deliveries, ambiguous commits and restarts, an event has at most one *)
(* row.                                                                    *)
THEOREM NeverStoredTwice == Spec => []StoredOnce
<1>1. Base => StoredOnce
  BY DEF Base, StoreInv, StoredOnce
<1> QED BY <1>1, BaseAlways, PTL

(* The stored frontier lists exactly the rows at its own instant, and no   *)
(* row lies above it: whatever was written, however ambiguously, a resume  *)
(* from the frontier tells a re-observation at the boundary from a new     *)
(* event.                                                                  *)
THEOREM FrontierIsExact == Spec => []SeenAtBoundary
<1>1. ASSUME Base PROVE SeenAtBoundary
  <2>1. TypeOK /\ StoreInv /\ stored_position.seen \subseteq Identity
    BY <1>1, FrontierTime DEF Base, TypeOK
  <2>2. ASSUME NEW h \in Identity
        PROVE  h \in stored_position.seen <=> h \in Published /\ rows[h] > 0 /\ at[h] = stored_position.time_ms
    BY <2>1 DEF StoreInv, Published
  <2>3. \A h \in Published : rows[h] > 0 => at[h] <= stored_position.time_ms
    BY <2>1 DEF StoreInv, Published
  <2>4. stored_position.seen = {h \in Published : rows[h] > 0 /\ at[h] = stored_position.time_ms}
    BY <2>1, <2>2 DEF Published
  <2> QED BY <2>3, <2>4 DEF SeenAtBoundary
<1> QED BY <1>1, BaseAlways, PTL


-----------------------------------------------------------------------------
(***************************************************************************)
(* Delivery.  While both writers are healthy, whatever the stream has      *)
(* delivered is covered by the writer that would meet it again.            *)
(***************************************************************************)

BlockHas(a, s, h) ==
  Covers(a, s.watermark, h) \/ (s.current.time_ms = a[h] /\ Covers(a, s.current, h))

WindowHas(a, w, h) ==
  \/ Covers(a, w.watermark, h)
  \/ a[h] \in DOMAIN w.pending /\ Covers(a, w.pending[a[h]].position, h)

DeliveredInv ==
  Healthy => \A h \in Identity :
    /\ delivered[h] <= 1
    /\ delivered[h] = 1 =>
         /\ at[h] # Unbounded
         /\ phase = "backfill" /\ at[h] <= final_cut => BlockHas(at, settled, h)
         /\ ~(phase = "backfill" /\ at[h] <= final_cut) => WindowHas(at, window, h)

(* The dedupe tests of the two writers.                                    *)
LEMMA CoveredIs ==
  ASSUME NEW h
  PROVE  /\ block_covered(item(h)) <=> BlockHas(at, settled, h)
         /\ covered(item(h)) <=> WindowHas(at, window, h)
<1>1. item(h).time_ms = at[h]
  BY DEF item
<1>2. block_covered(item(h)) <=> BlockHas(at, settled, h)
  BY <1>1, ContainsIs DEF block_covered, BlockHas
<1>3. covered(item(h)) <=> WindowHas(at, window, h)
  BY <1>1, ContainsIs DEF covered, WindowHas
<1> QED BY <1>2, <1>3

(* One more delivery of one event.                                         *)
LEMMA DeliverOne ==
  ASSUME TypeOK, NEW h \in Identity, delivered' = Deliver({h})
  PROVE  /\ delivered'[h] = delivered[h] + 1 /\ delivered[h] \in Nat
         /\ \A g \in Identity : g # h => delivered'[g] = delivered[g]
  BY DEF TypeOK, Deliver

(* Nothing has been delivered yet.                                         *)
LEMMA NoneDelivered == ASSUME delivered = [h \in Identity |-> 0] PROVE DeliveredInv
  BY DEF DeliveredInv

(* The state between two polls of the same stream.                         *)
LEMMA DeliveredFrame ==
  ASSUME DeliveredInv, UNCHANGED <<at, settled, window, delivered, tip, to_block>>, phase' = phase
  PROVE  DeliveredInv'
<1>1. final_cut' = final_cut
  BY CutSame
<1>2. Healthy' <=> Healthy
  BY DEF Healthy
<1> QED BY <1>1, <1>2 DEF DeliveredInv

(* What was delivered is covered as before.                                *)
LEMMA PublishDelivered == ASSUME Base, DeliveredInv, publish PROVE DeliveredInv'
<1>1. TypeOK
  BY DEF Base
<1>2. /\ phase' = phase /\ tip' = tip /\ to_block' = to_block
      /\ settled' = settled /\ window' = window /\ delivered' = delivered
  BY <1>1, PublishFacts DEF streamVars
<1>3. \A g \in Identity : at[g] # Unbounded => at'[g] = at[g]
  BY <1>1, PublishFacts
<1>4. final_cut' = final_cut
  BY <1>2, CutSame
<1>5. Healthy' <=> Healthy
  BY <1>2 DEF Healthy
<1>6. ASSUME NEW g \in Identity, at'[g] = at[g]
      PROVE  /\ BlockHas(at', settled, g) <=> BlockHas(at, settled, g)
             /\ WindowHas(at', window, g) <=> WindowHas(at, window, g)
  BY <1>6 DEF BlockHas, WindowHas, Covers
<1> QED BY <1>2, <1>3, <1>4, <1>5, <1>6 DEF DeliveredInv

(* What is replayed is stored, and both writers start from the stored      *)
(* frontier.                                                               *)
LEMMA ReplayDelivered == ASSUME Base, DeliveredInv, poll_replay PROVE DeliveredInv'
<1>1. TypeOK /\ StoreInv /\ OpenedInv /\ WatermarkInv
  BY DEF Base
<1>2. /\ phase = "ready" /\ phase' = "backfill" /\ phase \in Filling /\ phase \notin BeforeReady
      /\ at' = at /\ tip' = tip /\ to_block' = to_block /\ settled' = settled /\ window' = window
      /\ delivered' = delivered \/ delivered' = Deliver(replay_stored)
  BY DEF poll_replay, sourceVars, Filling, BeforeReady
<1>3. /\ settled.watermark = stored_position /\ window.healthy \in BOOLEAN
      /\ delivered = [h \in Identity |-> 0]
  BY <1>1, <1>2, NewWriters, SettledFields DEF OpenedInv
<1>4. final_cut' = final_cut
  BY <1>2, CutSame
<1>5. ASSUME NEW h \in Identity
      PROVE  delivered'[h] = 0 \/ (delivered'[h] = 1 /\ rows[h] = 1)
  <2>1. CASE delivered' = delivered
    BY <1>3, <2>1
  <2>2. CASE delivered' = Deliver(replay_stored)
    <3>1. delivered[h] = 0
      BY <1>3
    <3>2. h \in replay_stored => rows[h] = 1
      BY <1>1 DEF replay_stored, StoreInv
    <3> QED BY <2>2, <3>1, <3>2 DEF Deliver
  <2> QED BY <1>2, <2>1, <2>2
<1>6. ASSUME Healthy', NEW h \in Identity, rows[h] = 1
      PROVE  /\ at[h] # Unbounded
             /\ at[h] <= final_cut => BlockHas(at, settled, h)
             /\ ~(at[h] <= final_cut) => WindowHas(at, window, h)
  <2>1. /\ at[h] # Unbounded /\ at[h] <= stored_position.time_ms
        /\ at[h] = stored_position.time_ms => h \in stored_position.seen
    BY <1>1, <1>6 DEF StoreInv
  <2>2. at[h] \in Int /\ stored_position.time_ms \in Int /\ final_cut \in Int
    BY <1>1, AtInt, SettledFields, CutFacts, InstantInts
  <2>3. Covers(at, stored_position, h)
    BY <2>1, <2>2 DEF Covers
  <2>4. ~(at[h] <= final_cut) => Covers(at, window.watermark, h)
    BY <1>1, <1>2, <1>6, <2>2 DEF WatermarkInv, Healthy
  <2> QED BY <1>3, <2>1, <2>3, <2>4 DEF BlockHas, WindowHas
<1> QED BY <1>2, <1>4, <1>5, <1>6 DEF DeliveredInv

(* What the window holds it keeps when an event joins it.                  *)
LEMMA JoinsHas ==
  ASSUME Base, phase \notin BeforeReady, NEW h \in Identity, at[h] # Unbounded, WindowJoins(h),
         phase \in Filling => at[h] > final_cut /\ at[h] <= effective_tip,
         UNCHANGED <<at, tip, to_block>>, phase' = phase
  PROVE  /\ WindowHas(at, window', h)
         /\ \A g \in Identity : WindowHas(at, window, g) => WindowHas(at, window', g)
<1>1. TypeOK /\ PendingInv
  BY DEF Base
<1>2. /\ window'.pending = Joined(h) /\ window'.watermark = window.watermark /\ rows[h] = 0
      /\ PendingInv' /\ rows' = rows /\ ~covered(item(h)) /\ at' = at
  BY JoinsBase DEF WindowJoins
<1>3. /\ DOMAIN Joined(h) = DOMAIN window.pending \cup {at[h]}
      /\ \A k \in DOMAIN Joined(h) : k # at[h] => k \in DOMAIN window.pending /\ Joined(h)[k] = window.pending[k]
      /\ Group(at, rows, Joined(h)[at[h]].position, Joined(h)[at[h]].rows, at[h])
      /\ Elems(Joined(h)[at[h]].rows) =
           (IF at[h] \in DOMAIN window.pending THEN Elems(window.pending[at[h]].rows) ELSE {}) \cup {h}
  BY <1>1, <1>2, JoinedIs
<1>4. Joined(h)[at[h]].position = [time_ms |-> at[h], seen |-> Elems(Joined(h)[at[h]].rows)]
  BY <1>3 DEF Group
<1>5. WindowHas(at, window', h)
  BY <1>2, <1>3, <1>4 DEF WindowHas, Covers
<1>6. ASSUME NEW g \in Identity, WindowHas(at, window, g) PROVE WindowHas(at, window', g)
  <2>1. CASE Covers(at, window.watermark, g)
    BY <1>2, <2>1 DEF WindowHas
  <2>2. CASE at[g] \in DOMAIN window.pending /\ Covers(at, window.pending[at[g]].position, g)
    <3>1. CASE at[g] # at[h]
      BY <1>2, <1>3, <2>2, <3>1 DEF WindowHas
    <3>2. CASE at[g] = at[h]
      <4>1. window.pending[at[h]].position = [time_ms |-> at[h], seen |-> Elems(window.pending[at[h]].rows)]
        BY <1>1, <2>2, <3>2 DEF PendingInv, Group
      <4>2. at[h] \in Int
        BY <1>1, AtInt
      <4>3. g \in Elems(window.pending[at[h]].rows)
        BY <2>2, <3>2, <4>1, <4>2 DEF Covers
      <4> QED BY <1>2, <1>3, <1>4, <2>2, <3>2, <4>3 DEF WindowHas, Covers
    <3> QED BY <3>1, <3>2
  <2> QED BY <1>6, <2>1, <2>2 DEF WindowHas
<1> QED BY <1>5, <1>6

(* An event is delivered by the backfill only if its writer did not cover  *)
(* it, and is covered from then on.                                        *)
LEMMA BackfillDelivered == ASSUME Base, DeliveredInv, poll_backfill PROVE DeliveredInv'
<1> DEFINE h == Head(fetched)
<1>1. TypeOK /\ StoreInv /\ SettledInv
  BY DEF Base
<1>2. /\ h \in Identity /\ at[h] # Unbounded /\ at[h] <= effective_tip
      /\ UNCHANGED <<at, tip, to_block>>
      /\ phase = "backfill" /\ phase' = phase /\ phase \in Filling
      /\ final_cut' = final_cut
  BY BackfillFrame
<1>3. phase \notin BeforeReady
  BY <1>2 DEF BeforeReady
<1>4. \/ Suppressed(h) \/ PassesBy(h) \/ BlockHalts(h) \/ BlockJoins(h) \/ BlockRolls(h)
      \/ BlockFails(h) \/ ((WindowHalts(h) \/ WindowJoins(h)) /\ at[h] > final_cut)
  BY <1>1, BackfillCases
<1> HIDE DEF h
<1>5. at[h] \in Int /\ final_cut \in Int /\ \A g \in Identity : at[g] \in Int /\ at[g] >= -1
  BY <1>1, <1>2, AtInt, CutFacts, InstantInts
<1>6. CASE Suppressed(h)
  BY <1>2, <1>6, DeliveredFrame DEF Suppressed
<1>7. CASE PassesBy(h)
  <2>1. ~Healthy'
    BY <1>5, <1>7 DEF PassesBy, Healthy
  <2> QED BY <2>1 DEF DeliveredInv
<1>8. CASE BlockHalts(h) \/ BlockFails(h) \/ WindowHalts(h)
  <2>1. ~Healthy'
    BY <1>1, <1>8 DEF BlockHalts, SettledHalts, BlockFails, WindowHalts, Healthy, TypeOK
  <2> QED BY <2>1 DEF DeliveredInv
<1>9. CASE BlockJoins(h) \/ BlockRolls(h)
  <2>1. /\ at[h] <= final_cut /\ ~BlockHas(at, settled, h) /\ window' = window
        /\ delivered' = Deliver({h}) /\ settled.healthy
    BY <1>9, CoveredIs DEF BlockJoins, BlockRolls
  <2>2. /\ settled.current \in Frontiers /\ settled.watermark \in Frontiers
        /\ item(h) = [time_ms |-> at[h], seen |-> {h}] /\ item(h) \in Frontiers
    <3>1. at[h] \in Nat
      BY <1>1, <1>2, AtInt, InstantInts
    <3> QED BY <1>1, <1>2, <3>1, SettledFields DEF item, Frontiers
  <2>3. BlockHas(at, settled', h)
    <3>1. settled'.current = item(h) \/ (settled'.current = advance(settled.current, item(h)) /\ (settled.current = None \/ settled.current.time_ms = at[h]))
      BY <1>1, <1>9 DEF BlockJoins, BlockRolls, TypeOK
    <3>2. CASE settled'.current = item(h)
      BY <2>2, <3>2 DEF BlockHas, Covers
    <3>3. CASE settled'.current = advance(settled.current, item(h)) /\ (settled.current = None \/ settled.current.time_ms = at[h])
      <4>1. settled.current.time_ms <= at[h] /\ settled.current.time_ms \in Int
        BY <1>2, <1>5, <2>2, <3>3, NoneFrontier, FrontierTime
      <4>2. settled'.current.time_ms = at[h]
        BY <1>5, <2>2, <3>3, <4>1 DEF advance
      <4>3. Covers(at, item(h), h)
        BY <2>2 DEF Covers
      <4>4. Covers(at, settled'.current, h)
        BY <1>5, <2>2, <3>3, <4>3, CoversAdvance
      <4> QED BY <4>2, <4>4 DEF BlockHas
    <3> QED BY <3>1, <3>2, <3>3
  <2>4. ASSUME NEW g \in Identity, at[g] # Unbounded, BlockHas(at, settled, g) PROVE BlockHas(at, settled', g)
    <3>1. CASE BlockJoins(h)
      <4>1. /\ settled'.current = advance(settled.current, item(h)) /\ settled'.watermark = settled.watermark
            /\ settled.current = None \/ settled.current.time_ms = at[h]
        BY <1>1, <3>1 DEF BlockJoins, TypeOK
      <4>2. CASE Covers(at, settled.watermark, g)
        BY <4>1, <4>2 DEF BlockHas
      <4>3. CASE settled.current.time_ms = at[g] /\ Covers(at, settled.current, g)
        <5>1. settled.current.time_ms = at[h]
          BY <2>4, <4>1, <4>3, NoneFrontier, InstantInts
        <5>2. settled'.current.time_ms = at[g]
          BY <1>5, <2>2, <4>1, <4>3, <5>1, FrontierAdvance
        <5>3. Covers(at, settled'.current, g)
          BY <1>5, <2>2, <4>1, <4>3, CoversAdvance
        <5> QED BY <5>2, <5>3 DEF BlockHas
      <4> QED BY <2>4, <4>2, <4>3 DEF BlockHas
    <3>2. CASE BlockRolls(h)
      <4>1. settled'.watermark = advance(settled.watermark, settled.current)
        BY <1>1, <3>2 DEF BlockRolls, TypeOK
      <4>2. Covers(at, settled'.watermark, g)
        BY <1>5, <2>2, <2>4, <4>1, CoversAdvance DEF BlockHas
      <4> QED BY <4>2 DEF BlockHas
    <3> QED BY <1>9, <3>1, <3>2
  <2>5. SUFFICES ASSUME Healthy' PROVE DeliveredInv'
    BY DEF DeliveredInv
  <2>6. Healthy
    BY <2>1, <2>5 DEF Healthy
  <2>7. /\ delivered[h] # 1 /\ delivered[h] <= 1
    BY <1>2, <2>1, <2>6 DEF DeliveredInv
  <2>8. /\ delivered'[h] = delivered[h] + 1 /\ delivered[h] \in Nat
        /\ \A g \in Identity : g # h => delivered'[g] = delivered[g]
    BY <1>1, <1>2, <2>1, DeliverOne
  <2>9. delivered'[h] = 1
    BY <2>7, <2>8
  <2>10. ASSUME NEW g \in Identity
         PROVE  /\ delivered'[g] <= 1
                /\ delivered'[g] = 1 =>
                     /\ at[g] # Unbounded
                     /\ at[g] <= final_cut => BlockHas(at, settled', g)
                     /\ ~(at[g] <= final_cut) => WindowHas(at, window', g)
    <3>1. CASE g = h
      BY <1>2, <2>1, <2>3, <2>9, <3>1
    <3>2. CASE g # h
      BY <1>2, <2>1, <2>4, <2>6, <2>8, <3>2 DEF DeliveredInv
    <3> QED BY <3>1, <3>2
  <2> QED BY <1>2, <2>10 DEF DeliveredInv
<1>10. CASE WindowJoins(h) /\ at[h] > final_cut
  <2>1. ~WindowHas(at, window, h) /\ delivered' = Deliver({h}) /\ window.healthy /\ settled' = settled
    BY <1>10, CoveredIs DEF WindowJoins
  <2>2. /\ WindowHas(at, window', h)
        /\ \A g \in Identity : WindowHas(at, window, g) => WindowHas(at, window', g)
    BY <1>2, <1>3, <1>10, JoinsHas
  <2>3. SUFFICES ASSUME Healthy' PROVE DeliveredInv'
    BY DEF DeliveredInv
  <2>4. Healthy
    BY <2>1, <2>3 DEF Healthy
  <2>5. ~(at[h] <= final_cut)
    BY <1>5, <1>10
  <2>6. delivered[h] # 1 /\ delivered[h] <= 1
    BY <1>2, <2>1, <2>4, <2>5 DEF DeliveredInv
  <2>7. /\ delivered'[h] = delivered[h] + 1 /\ delivered[h] \in Nat
        /\ \A g \in Identity : g # h => delivered'[g] = delivered[g]
    BY <1>1, <1>2, <2>1, DeliverOne
  <2>8. delivered'[h] = 1
    BY <2>6, <2>7
  <2>9. ASSUME NEW g \in Identity
        PROVE  /\ delivered'[g] <= 1
               /\ delivered'[g] = 1 =>
                    /\ at[g] # Unbounded
                    /\ at[g] <= final_cut => BlockHas(at, settled', g)
                    /\ ~(at[g] <= final_cut) => WindowHas(at, window', g)
    <3>1. CASE g = h
      BY <1>2, <2>2, <2>5, <2>8, <3>1
    <3>2. CASE g # h
      BY <1>2, <2>1, <2>2, <2>4, <2>7, <3>2 DEF DeliveredInv
    <3> QED BY <3>1, <3>2
  <2> QED BY <1>2, <2>9 DEF DeliveredInv
<1> QED BY <1>4, <1>6, <1>7, <1>8, <1>9, <1>10

(* The window absorbs the watermark of the settled writer, so what that    *)
(* writer covered stays covered.                                           *)
LEMMA FinishDelivered == ASSUME Base, DeliveredInv, finish_backfill PROVE DeliveredInv'
<1>1. TypeOK /\ SettledInv
  BY DEF Base
<1>2. /\ phase = "backfill" /\ phase' = "live"
      /\ UNCHANGED <<at, tip, to_block, delivered>>
      /\ Finishes \/ FinishFails
      /\ stored_position' \in Frontiers
      /\ window' = IF settled'.healthy
                   THEN [window EXCEPT !.watermark = advance(@, stored_position')]
                   ELSE [window EXCEPT !.healthy = FALSE, !.pending = NoGroups]
  BY FinishCases
<1>3. SUFFICES ASSUME Healthy' PROVE DeliveredInv'
  BY DEF DeliveredInv
<1>4. settled'.healthy /\ settled.healthy /\ Finishes
  BY <1>2, <1>3 DEF Healthy, Finishes, FinishFails
<1>5. /\ window'.watermark = advance(window.watermark, stored_position')
      /\ window'.pending = window.pending /\ window'.healthy = window.healthy
  BY <1>1, <1>2, <1>4 DEF TypeOK
<1>6. Healthy
  BY <1>3, <1>4, <1>5 DEF Healthy
<1>7. /\ settled.watermark = stored_position /\ phase \in Filling
      /\ settled.current \in Frontiers /\ stored_position \in Frontiers /\ window.watermark \in Frontiers
  BY <1>1, <1>2, <1>4, SettledFields DEF SettledInv, Filling
<1>8. \A g \in Identity : at[g] \in Int
  BY <1>1, AtInt
<1>9. ASSUME NEW g \in Identity, at[g] # Unbounded, BlockHas(at, settled, g) PROVE Covers(at, stored_position', g)
  <2>1. CASE settled.current = None /\ UNCHANGED storeVars
    <3>1. stored_position' = stored_position
      BY <2>1, StoredSame DEF storeVars
    <3>2. settled.current.time_ms # at[g]
      BY <1>9, <2>1, NoneFrontier, InstantInts
    <3> QED BY <1>7, <1>9, <3>1, <3>2 DEF BlockHas
  <2>2. CASE settled.current # None /\ write(settled.current, settled.buffer)
    <3>1. stored_position' = advance(stored_position, settled.current)
      BY <1>2, <1>4, <1>7, <2>2, BlockWrote
    <3> QED BY <1>7, <1>8, <1>9, <3>1, CoversAdvance DEF BlockHas
  <2> QED BY <1>4, <2>1, <2>2 DEF Finishes
<1>10. ASSUME NEW g \in Identity, delivered[g] = 1
       PROVE  at[g] # Unbounded /\ WindowHas(at, window', g)
  <2>1. at[g] # Unbounded
    BY <1>6, <1>10 DEF DeliveredInv
  <2>2. CASE at[g] <= final_cut
    <3>1. Covers(at, stored_position', g)
      BY <1>2, <1>6, <1>9, <1>10, <2>1, <2>2 DEF DeliveredInv
    <3>2. Covers(at, window'.watermark, g)
      BY <1>2, <1>5, <1>7, <1>8, <3>1, CoversAdvance
    <3> QED BY <2>1, <3>2 DEF WindowHas
  <2>3. CASE ~(at[g] <= final_cut)
    <3>1. WindowHas(at, window, g)
      BY <1>2, <1>6, <1>10, <2>3 DEF DeliveredInv
    <3>2. Covers(at, window.watermark, g) => Covers(at, window'.watermark, g)
      BY <1>2, <1>5, <1>7, <1>8, CoversAdvance
    <3> QED BY <1>5, <2>1, <3>1, <3>2 DEF WindowHas
  <2> QED BY <2>2, <2>3
<1> QED BY <1>2, <1>6, <1>10 DEF DeliveredInv

(* An event is delivered live only if the window did not cover it, and is  *)
(* covered from then on.                                                   *)
LEMMA LiveDelivered == ASSUME Base, DeliveredInv, live_event PROVE DeliveredInv'
<1> DEFINE h == feed[cursor + 1]
<1>1. TypeOK
  BY DEF Base
<1>2. /\ phase = "live" /\ phase' = phase
      /\ h \in Identity /\ at[h] # Unbounded
      /\ UNCHANGED <<at, tip, to_block, settled>>
      /\ \/ window.healthy /\ covered(item(h)) /\ UNCHANGED <<storeVars, window, delivered>>
         \/ ~window.healthy /\ UNCHANGED <<storeVars, window>> /\ delivered' = Deliver({h})
         \/ WindowHalts(h)
         \/ WindowJoins(h)
  BY LiveCases
<1> HIDE DEF h
<1>3. phase \notin BeforeReady /\ phase \notin Filling /\ phase # "backfill" /\ phase' # "backfill"
  BY <1>2 DEF BeforeReady, Filling
<1>4. CASE UNCHANGED <<window, delivered>>
  BY <1>2, <1>4, DeliveredFrame
<1>5. CASE ~window.healthy /\ UNCHANGED window
  BY <1>5 DEF DeliveredInv, Healthy
<1>6. CASE WindowHalts(h)
  <2>1. ~window'.healthy
    BY <1>1, <1>6 DEF WindowHalts, TypeOK
  <2> QED BY <2>1 DEF DeliveredInv, Healthy
<1>7. CASE WindowJoins(h)
  <2>1. ~WindowHas(at, window, h) /\ delivered' = Deliver({h}) /\ window.healthy
    BY <1>7, CoveredIs DEF WindowJoins
  <2>2. /\ WindowHas(at, window', h)
        /\ \A g \in Identity : WindowHas(at, window, g) => WindowHas(at, window', g)
    BY <1>2, <1>3, <1>7, JoinsHas
  <2>3. SUFFICES ASSUME Healthy' PROVE DeliveredInv'
    BY DEF DeliveredInv
  <2>4. Healthy
    BY <1>2, <2>1, <2>3 DEF Healthy
  <2>5. delivered[h] # 1 /\ delivered[h] <= 1
    BY <1>2, <1>3, <2>1, <2>4 DEF DeliveredInv
  <2>6. /\ delivered'[h] = delivered[h] + 1 /\ delivered[h] \in Nat
        /\ \A g \in Identity : g # h => delivered'[g] = delivered[g]
    BY <1>1, <1>2, <2>1, DeliverOne
  <2>7. delivered'[h] = 1
    BY <2>5, <2>6
  <2>8. ASSUME NEW g \in Identity
        PROVE  /\ delivered'[g] <= 1
               /\ delivered'[g] = 1 => at[g] # Unbounded /\ WindowHas(at, window', g)
    <3>1. CASE g = h
      BY <1>2, <2>2, <2>7, <3>1
    <3>2. CASE g # h
      BY <1>3, <2>2, <2>4, <2>6, <3>2 DEF DeliveredInv
    <3> QED BY <3>1, <3>2
  <2> QED BY <1>2, <1>3, <2>8 DEF DeliveredInv
<1> QED BY <1>2, <1>4, <1>5, <1>6, <1>7

(* A group that is written is folded into the watermark.                   *)
LEMMA FlushDelivered == ASSUME Base, DeliveredInv, flush_matured PROVE DeliveredInv'
<1>1. TypeOK /\ PendingInv
  BY DEF Base
<1>2. /\ phase = "live" /\ phase' = phase /\ window.healthy
      /\ UNCHANGED <<at, tip, to_block, settled, delivered>>
  BY FlushCases
<1>3. PICK k \in window.maturing :
        /\ k \in DOMAIN window.pending /\ \A j \in DOMAIN window.pending : k <= j
        /\ Flushes(k) \/ FlushFails(k)
  BY FlushCases
<1>4. CASE FlushFails(k)
  <2>1. ~window'.healthy
    BY <1>1, <1>4 DEF FlushFails, TypeOK
  <2> QED BY <2>1 DEF DeliveredInv, Healthy
<1>5. CASE Flushes(k)
  <2>1. /\ window'.watermark = advance(window.watermark, window.pending[k].position)
        /\ window'.pending = [j \in DOMAIN window.pending \ {k} |-> window.pending[j]]
        /\ window'.healthy
    BY <1>1, <1>2, <1>5 DEF Flushes, TypeOK
  <2>2. window.watermark \in Frontiers /\ window.pending[k].position \in Frontiers
    BY <1>1, <1>3, SettledFields, PendingOf
  <2>3. ASSUME NEW g \in Identity, WindowHas(at, window, g) PROVE WindowHas(at, window', g)
    <3>1. at[g] \in Int
      BY <1>1, AtInt
    <3>2. CASE Covers(at, window.watermark, g) \/ Covers(at, window.pending[k].position, g)
      BY <2>1, <2>2, <3>1, <3>2, CoversAdvance DEF WindowHas
    <3>3. CASE at[g] # k /\ at[g] \in DOMAIN window.pending /\ Covers(at, window.pending[at[g]].position, g)
      BY <2>1, <3>3 DEF WindowHas
    <3> QED BY <2>3, <3>2, <3>3 DEF WindowHas
  <2>4. Healthy <=> Healthy'
    BY <1>2, <2>1 DEF Healthy
  <2>5. phase # "backfill" /\ phase' # "backfill"
    BY <1>2
  <2> QED BY <1>2, <2>3, <2>4, <2>5 DEF DeliveredInv
<1> QED BY <1>3, <1>4, <1>5

(* DeliveredInv is inductive relative to Base: one case per action.        *)
LEMMA StepDelivered == ASSUME Base, DeliveredInv, [Next]_vars PROVE DeliveredInv'
<1>1. CASE publish
  BY <1>1, PublishDelivered
<1>2. CASE subscribe_live \/ read_tip \/ open_segments
  <2>1. delivered' = delivered /\ phase \in BeforeReady
    BY <1>2 DEF subscribe_live, read_tip, open_segments, BeforeReady
  <2>2. delivered = [h \in Identity |-> 0]
    BY <2>1 DEF Base, OpenedInv
  <2> QED BY <2>1, <2>2 DEF DeliveredInv
<1>3. CASE poll_replay
  BY <1>3, ReplayDelivered
<1>4. CASE poll_backfill
  BY <1>4, BackfillDelivered
<1>5. CASE finish_backfill
  BY <1>5, FinishDelivered
<1>6. CASE live_event
  BY <1>6, LiveDelivered
<1>7. CASE flush_matured
  BY <1>7, FlushDelivered
<1>8. CASE stream_ends \/ restart
  <2>1. delivered' = [h \in Identity |-> 0]
    BY <1>8 DEF stream_ends, restart, Closed
  <2> QED BY <2>1 DEF DeliveredInv
<1>9. CASE UNCHANGED vars
  BY <1>9, DeliveredFrame DEF vars, sourceVars, streamVars
<1> QED BY <1>1, <1>2, <1>3, <1>4, <1>5, <1>6, <1>7, <1>8, <1>9 DEF Next

(* While both writers are healthy, one stream delivers an event at most    *)
(* once, its replay, its backfill and its live tail taken together,        *)
(* although the backfill overlaps what is stored and the live source       *)
(* repeats what the backfill fetched.                                      *)
THEOREM NeverDeliveredTwice == Spec => []DeliveredOnce
<1>1. Init => DeliveredInv
  BY NoneDelivered DEF Init
<1>2. Base /\ DeliveredInv /\ [Next]_vars => DeliveredInv'
  BY StepDelivered
<1>3. DeliveredInv => DeliveredOnce
  BY DEF DeliveredInv, DeliveredOnce
<1> QED BY <1>1, <1>2, <1>3, BaseAlways, PTL DEF Spec


-----------------------------------------------------------------------------
(***************************************************************************)
(* Completeness.  A feed that sorts what it is asked for, under a depth    *)
(* that covers its jitter, loses nothing: a watermark never covers a       *)
(* published event that is not stored.                                     *)
(***************************************************************************)

Orderly == sorts /\ Depth >= Jitter

(* Whatever the frontier p covers is stored.                               *)
Kept(a, r, p) ==
  \A h \in Identity : /\ a[h] # Unbounded /\ Covers(a, p, h) => r[h] = 1
                      /\ h \in p.seen => r[h] = 1

Holds(a, w, h) == a[h] \in DOMAIN w.pending /\ h \in Elems(w.pending[a[h]].rows)

(* The feed holds what was published, each event at most Jitter behind     *)
(* every earlier one.                                                      *)
FeedInv ==
  /\ \A h \in Identity : at[h] # Unbounded => h \in Elems(feed)
  /\ \A i, j \in DOMAIN feed : i < j => at[feed[i]] - Jitter <= at[feed[j]]

StoredKept ==
  /\ stored_position.time_ms <= tip_ms /\ Kept(at, rows, stored_position)
  /\ tip <= tip_ms

ResumeKept ==
  phase \in Filling =>
    /\ last.time_ms <= tip_ms /\ Kept(at, rows, last)
    /\ window.watermark = WindowSeed(last)

(* A backfill goes upwards; what is at or below its cut is stored, in the  *)
(* open group, or still to come.                                           *)
BlockKeeps ==
  phase \in Filling =>
    /\ \A i, j \in DOMAIN fetched : i < j => at[fetched[i]] <= at[fetched[j]]
    /\ settled.healthy =>
         /\ \A h \in Elems(fetched) : settled.current.time_ms <= at[h]
         /\ \A h \in Identity :
              at[h] # Unbounded /\ at[h] <= final_cut /\ at[h] < effective_tip =>
                rows[h] = 1 \/ h \in Elems(settled.buffer) \/ h \in Elems(fetched)

(* What is above the cut is stored, pending, or still to come.             *)
WindowKeeps ==
  phase \in Filling /\ window.healthy /\ ~Bounded =>
    \A h \in Identity :
      at[h] # Unbounded /\ at[h] > final_cut /\ at[h] < tip =>
        rows[h] = 1 \/ Holds(at, window, h) \/ h \in Elems(fetched)

(* The live tail: what is neither stored nor pending lies above the tip of *)
(* the backfill and is still to be pulled.                                 *)
LiveKeeps ==
  phase = "live" /\ window.healthy /\ ~Bounded =>
    /\ window.watermark.time_ms <= tip_ms /\ Kept(at, rows, window.watermark)
    /\ cursor <= Len(feed)
    /\ window.head <= tip \/ \E i \in DOMAIN feed : i <= cursor /\ at[feed[i]] = window.head
    /\ \A h \in Identity : at[h] # Unbounded =>
         \/ rows[h] = 1
         \/ Holds(at, window, h)
         \/ at[h] >= tip /\ \E i \in DOMAIN feed : i > cursor /\ feed[i] = h

(* A bounded wrapper settles everything.                                   *)
CappedInv == Bounded => DOMAIN window.pending = {}

LostInv ==
  /\ FeedInv /\ CappedInv
  /\ Orderly => StoredKept /\ ResumeKept /\ BlockKeeps /\ WindowKeeps /\ LiveKeeps

-----------------------------------------------------------------------------
(* Rows are never deleted.                                                 *)
LEMMA KeptGrows ==
  ASSUME NEW a, NEW r, NEW s, NEW p, Kept(a, r, p), \A h \in Identity : r[h] = 1 => s[h] = 1
  PROVE  Kept(a, s, p)
  BY DEF Kept

(* A fold covers nothing its parts do not cover.                           *)
LEMMA KeptAdvance ==
  ASSUME NEW a, \A h \in Identity : a[h] \in Int, NEW r, NEW p \in Frontiers, NEW q \in Frontiers,
         Kept(a, r, p), Kept(a, r, q)
  PROVE  Kept(a, r, advance(p, q))
<1>1. ASSUME NEW h \in Identity PROVE Covers(a, advance(p, q), h) <=> Covers(a, p, h) \/ Covers(a, q, h)
  BY CoversAdvance
<1>2. advance(p, q).seen \subseteq p.seen \cup q.seen
  BY DEF advance
<1> QED BY <1>1, <1>2 DEF Kept

(* The tip depends on what is published alone.                             *)
LEMMA TipSame == ASSUME at' = at PROVE tip_ms' = tip_ms /\ Newest' = Newest
  BY DEF tip_ms, Newest

(* Nothing is newer than Newest, and the tip lags it by the jitter.        *)
NewestBounds ==
  /\ Newest \in Int /\ Newest >= -1 /\ \A h \in Identity : at[h] <= Newest
  /\ tip_ms \in Nat /\ tip_ms >= Newest - Jitter

(* The same bounds, as a fact about a state.                               *)
LEMMA NewestBound == TypeOK => NewestBounds
  BY NewestIs, TipIs, InstantInt DEF NewestBounds

(* The arithmetic of a lagging tip.                                        *)
LEMMA Lagged ==
  ASSUME NEW n \in Int, NEW m \in Int, NEW s \in Nat, NEW t \in Nat, NEW j \in Nat,
         n <= m, s = 0 \/ s = n - j, t >= m - j
  PROVE  s <= t
  OBVIOUS

(* The tip of the feed never falls.                                        *)
LEMMA TipGrows ==
  ASSUME Base, publish
  PROVE  tip_ms <= tip_ms' /\ tip_ms \in Nat /\ tip_ms' \in Nat
<1>1. TypeOK /\ TypeOK'
  BY PublishBase DEF Base
<1>2. /\ Newest \in Int /\ Newest >= -1
      /\ Newest = Unbounded \/ \E h \in Identity : at[h] = Newest
      /\ tip_ms \in Nat /\ (tip_ms = 0 \/ tip_ms = Newest - Jitter)
  BY <1>1, NewestIs, TipIs, InstantInt
<1>3. NewestBounds'
  BY <1>1, NewestBound, PTL
<1>4. /\ Newest' \in Int /\ Newest' >= -1 /\ \A h \in Identity : at'[h] <= Newest'
      /\ tip_ms' \in Nat /\ tip_ms' >= Newest' - Jitter
  BY <1>3 DEF NewestBounds
<1>5. Newest <= Newest'
  <2>1. CASE Newest = Unbounded
    BY <1>4, <2>1, InstantInts
  <2>2. CASE Newest # Unbounded
    <3>1. PICK h \in Identity : at[h] = Newest
      BY <1>2, <2>2
    <3>2. at'[h] = at[h]
      BY <1>1, <2>2, <3>1, PublishFacts
    <3> QED BY <1>4, <3>1, <3>2
  <2> QED BY <2>1, <2>2
<1>6. Jitter \in Nat
  BY Depths
<1> QED BY <1>2, <1>4, <1>5, <1>6, Lagged

(* A new event lies at or above the tip of the feed, so above every        *)
(* frontier and at the end of the feed.                                    *)
LEMMA PublishLost == ASSUME Base, LostInv, publish PROVE LostInv'
<1>1. TypeOK /\ StoreInv /\ SourceInv /\ PendingInv /\ SettledInv
  BY DEF Base
<1>2. /\ rows' = rows /\ stored_position' = stored_position /\ sorts' = sorts
      /\ phase' = phase /\ tip' = tip /\ last' = last /\ fetched' = fetched /\ cursor' = cursor
      /\ to_block' = to_block /\ settled' = settled /\ window' = window
  BY <1>1, PublishFacts DEF storeVars, streamVars
<1>3. PICK n \in Identity, t \in Instants :
        /\ at[n] = Unbounded /\ at'[n] = t /\ t >= tip_ms /\ feed' = Append(feed, n)
        /\ \A g \in Identity : g # n => at'[g] = at[g]
  BY <1>1, PublishFacts
<1>4. /\ final_cut' = final_cut /\ effective_tip' = effective_tip /\ (Bounded' <=> Bounded)
      /\ \A p : WindowSeed(p)' = WindowSeed(p)
  BY <1>2, CutSame DEF WindowSeed
<1>5. tip_ms <= tip_ms' /\ tip_ms \in Nat /\ tip_ms' \in Nat /\ t \in Int
  BY TipGrows, InstantInt
<1>6. /\ feed \in Seq(Identity) /\ Len(feed) \in Nat /\ DOMAIN feed = 1..Len(feed)
      /\ DOMAIN feed' = 1..(Len(feed) + 1) /\ feed'[Len(feed) + 1] = n
      /\ \A i \in 1..Len(feed) : feed'[i] = feed[i] /\ feed[i] \in Identity /\ feed[i] # n
                                 /\ at[feed[i]] \in Int /\ at'[feed[i]] = at[feed[i]]
  <2>1. feed \in Seq(Identity) /\ Len(feed) \in Nat /\ DOMAIN feed = 1..Len(feed)
    BY <1>1 DEF TypeOK
  <2>2. /\ DOMAIN feed' = 1..(Len(feed) + 1) /\ feed'[Len(feed) + 1] = n
        /\ \A i \in 1..Len(feed) : feed'[i] = feed[i] /\ feed[i] \in Identity
    BY <1>3, <2>1
  <2>3. ASSUME NEW i \in 1..Len(feed) PROVE feed[i] # n /\ at[feed[i]] \in Int
    <3>1. feed[i] \in Elems(feed)
      BY <2>1 DEF Elems
    <3>2. at[feed[i]] # Unbounded
      BY <1>1, <3>1 DEF SourceInv
    <3> QED BY <1>1, <1>3, <2>2, <3>2, AtInt
  <2> QED BY <1>3, <2>1, <2>2, <2>3
<1>7. FeedInv'
  <2>1. Elems(feed') = Elems(feed) \cup {n}
    BY <1>3, <1>6, ElemsAppend
  <2>2. \A h \in Identity : at'[h] # Unbounded => h \in Elems(feed')
    BY <1>3, <2>1 DEF LostInv, FeedInv
  <2>3. ASSUME NEW i \in DOMAIN feed', NEW j \in DOMAIN feed', i < j
        PROVE  at'[feed'[i]] - Jitter <= at'[feed'[j]]
    <3>1. i \in 1..Len(feed)
      BY <1>6, <2>3
    <3>2. CASE j \in 1..Len(feed)
      <4>1. at[feed[i]] - Jitter <= at[feed[j]]
        BY <1>6, <2>3, <3>1, <3>2 DEF LostInv, FeedInv
      <4> QED BY <1>6, <3>1, <3>2, <4>1
    <3>3. CASE j = Len(feed) + 1
      <4>1. at[feed[i]] <= Newest /\ Newest \in Int /\ tip_ms >= Newest - Jitter
        BY <1>1, <1>6, <3>1, NewestIs, TipIs, InstantInt
      <4>2. at'[feed'[j]] = t /\ at'[feed'[i]] = at[feed[i]] /\ at[feed[i]] \in Int
        BY <1>3, <1>6, <3>1, <3>3
      <4> QED BY SMTT(30), <1>3, <1>5, <4>1, <4>2, Depths
    <3> QED BY <1>6, <3>2, <3>3
  <2> QED BY <2>2, <2>3 DEF FeedInv
<1>8. CappedInv'
  BY <1>2, <1>4 DEF LostInv, CappedInv
<1>9. SUFFICES ASSUME Orderly
               PROVE  StoredKept' /\ ResumeKept' /\ BlockKeeps' /\ WindowKeeps' /\ LiveKeeps'
  BY <1>2, <1>7, <1>8 DEF LostInv, Orderly
<1>10. StoredKept /\ ResumeKept /\ BlockKeeps /\ WindowKeeps /\ LiveKeeps
  BY <1>9 DEF LostInv
<1>11. rows[n] # 1 /\ \A h \in Identity : at[h] \in Int
  BY <1>1, <1>3, AtInt DEF StoreInv
<1>12. ASSUME NEW p \in Frontiers, p.time_ms <= tip_ms, Kept(at, rows, p) PROVE Kept(at', rows, p)
  <2>1. p.time_ms \in Int
    BY FrontierTime
  <2>2. ~Covers(at', p, n) /\ n \notin p.seen
    BY <1>3, <1>5, <1>11, <1>12, <2>1 DEF Kept, Covers
  <2>3. \A h \in Identity : h # n => (Covers(at', p, h) <=> Covers(at, p, h)) /\ at'[h] = at[h]
    BY <1>3 DEF Covers
  <2> QED BY <1>12, <2>2, <2>3 DEF Kept
<1>13. StoredKept'
  <2>1. stored_position \in Frontiers /\ stored_position.time_ms \in Int /\ tip \in Int
    BY <1>1, SettledFields DEF TypeOK
  <2>2. Kept(at', rows, stored_position)
    BY <1>10, <1>12, <2>1 DEF StoredKept
  <2> QED BY <1>2, <1>5, <1>10, <2>1, <2>2 DEF StoredKept
<1>14. ResumeKept'
  <2>1. last \in Frontiers /\ last.time_ms \in Int
    BY <1>1, FrontierTime DEF TypeOK
  <2>2. ASSUME phase \in Filling PROVE last.time_ms <= tip_ms' /\ Kept(at', rows, last)
    BY <1>5, <1>10, <1>12, <2>1, <2>2 DEF ResumeKept
  <2>3. phase \in Filling => window.watermark = WindowSeed(last)
    BY <1>10 DEF ResumeKept
  <2>4. window'.watermark = window.watermark /\ WindowSeed(last)' = WindowSeed(last)
    BY <1>2, <1>4 DEF WindowSeed
  <2> QED BY <1>2, <2>2, <2>3, <2>4 DEF ResumeKept
<1>15. at'[n] >= tip /\ at'[n] >= effective_tip
  <2>1. tip <= tip_ms /\ tip \in Int /\ effective_tip <= tip /\ effective_tip \in Int
    BY <1>1, <1>10, CutFacts DEF StoredKept, TypeOK
  <2> QED BY <1>3, <1>5, <2>1
<1>16. \A h \in Elems(fetched) : h \in Identity /\ at'[h] = at[h]
  <2>1. \A h \in Elems(fetched) : h \in Identity /\ at[h] # Unbounded
    BY <1>1 DEF SourceInv, TypeOK, Elems
  <2> QED BY <1>3, <2>1
<1>17. BlockKeeps'
  <2>1. \A i \in DOMAIN fetched : at'[fetched[i]] = at[fetched[i]]
    BY <1>16 DEF Elems
  <2>2. effective_tip \in Int
    BY <1>1, CutFacts
  <2>3. ~(at'[n] < effective_tip)
    BY <1>3, <1>5, <1>15, <2>2
  <2> QED BY <1>2, <1>3, <1>4, <1>10, <1>16, <2>1, <2>3 DEF BlockKeeps
<1>18. \A h \in Identity : h # n => (Holds(at', window, h) <=> Holds(at, window, h))
  BY <1>3 DEF Holds
<1>19. WindowKeeps'
  <2>1. ~(at'[n] < tip)
    BY <1>1, <1>3, <1>5, <1>15 DEF TypeOK
  <2> QED BY <1>2, <1>3, <1>4, <1>10, <1>18, <2>1 DEF WindowKeeps
<1>20. LiveKeeps'
  <2> SUFFICES ASSUME phase = "live", window.healthy, ~Bounded
               PROVE  /\ window.watermark.time_ms <= tip_ms' /\ Kept(at', rows, window.watermark)
                      /\ cursor <= Len(feed')
                      /\ window.head <= tip \/ \E i \in DOMAIN feed' : i <= cursor /\ at'[feed'[i]] = window.head
                      /\ \A h \in Identity : at'[h] # Unbounded =>
                           \/ rows[h] = 1
                           \/ Holds(at', window, h)
                           \/ at'[h] >= tip /\ \E i \in DOMAIN feed' : i > cursor /\ feed'[i] = h
    BY <1>2, <1>4 DEF LiveKeeps
  <2>1. /\ window.watermark.time_ms <= tip_ms /\ Kept(at, rows, window.watermark)
        /\ cursor <= Len(feed)
        /\ window.head <= tip \/ \E i \in DOMAIN feed : i <= cursor /\ at[feed[i]] = window.head
        /\ \A h \in Identity : at[h] # Unbounded =>
             \/ rows[h] = 1
             \/ Holds(at, window, h)
             \/ at[h] >= tip /\ \E i \in DOMAIN feed : i > cursor /\ feed[i] = h
    BY <1>10 DEF LiveKeeps
  <2>2. window.watermark \in Frontiers /\ window.watermark.time_ms \in Int
    BY <1>1, SettledFields
  <2>3. window.watermark.time_ms <= tip_ms' /\ Kept(at', rows, window.watermark)
    BY <1>5, <1>12, <2>1, <2>2
  <2>4. \A i \in DOMAIN feed : i \in DOMAIN feed' /\ feed'[i] = feed[i] /\ at'[feed'[i]] = at[feed[i]]
    BY <1>6
  <2>5. window.head <= tip \/ \E i \in DOMAIN feed' : i <= cursor /\ at'[feed'[i]] = window.head
    BY <2>1, <2>4
  <2>6. ASSUME NEW h \in Identity, at'[h] # Unbounded
        PROVE  \/ rows[h] = 1
               \/ Holds(at', window, h)
               \/ at'[h] >= tip /\ \E i \in DOMAIN feed' : i > cursor /\ feed'[i] = h
    <3>1. CASE h = n
      <4>1. PICK i \in DOMAIN feed' : i = Len(feed) + 1
        BY <1>6
      <4>2. i > cursor
        BY <1>1, <1>6, <2>1, <4>1 DEF TypeOK
      <4> QED BY <1>6, <1>15, <3>1, <4>1, <4>2
    <3>2. CASE h # n
      BY <1>3, <1>18, <2>1, <2>4, <2>6, <3>2
    <3> QED BY <3>1, <3>2
  <2>7. cursor <= Len(feed')
    <3>1. cursor \in Nat /\ Len(feed') = Len(feed) + 1
      BY <1>1, <1>3, <1>6 DEF TypeOK
    <3> QED BY <1>6, <2>1, <3>1
  <2> QED BY <2>3, <2>5, <2>6, <2>7
<1> QED BY <1>13, <1>14, <1>17, <1>19, <1>20

(* Before the segments are open there is nothing to lose but the store.    *)
LEMMA InitLost == ASSUME Init PROVE LostInv
<1>1. TypeOK
  BY InitBase DEF Base
<1>2. stored_position = None /\ stored_position.time_ms = -1 /\ stored_position.seen = {}
  BY NoneFrontier DEF Init, stored_position
<1>3. tip_ms \in Nat
  BY <1>1, TipIs
<1>4. FeedInv
  BY DEF Init, FeedInv
<1>5. CappedInv
  BY NewWriters, NoneFrontier, NoGroupsFacts DEF Init, CappedInv
<1>6. StoredKept
  BY <1>2, <1>3 DEF Init, StoredKept, Kept
<1>7. ResumeKept /\ BlockKeeps /\ WindowKeeps /\ LiveKeeps
  BY DEF Init, ResumeKept, BlockKeeps, WindowKeeps, LiveKeeps, Filling
<1> QED BY <1>4, <1>5, <1>6, <1>7 DEF LostInv

(* A state in which no segment is open.                                    *)
LEMMA EarlyLost ==
  ASSUME LostInv, UNCHANGED <<sourceVars, storeVars>>, phase' \in BeforeReady,
         window' = NewWindow(None), tip' <= tip_ms
  PROVE  LostInv'
<1>1. /\ at' = at /\ feed' = feed /\ sorts' = sorts /\ rows' = rows
      /\ stored_position' = stored_position
  BY StoredSame DEF sourceVars, storeVars
<1>2. tip_ms' = tip_ms
  BY <1>1, TipSame
<1>3. FeedInv'
  BY <1>1 DEF LostInv, FeedInv
<1>4. CappedInv'
  BY NewWriters, NoneFrontier, NoGroupsFacts DEF CappedInv
<1>5. Orderly' => StoredKept'
  BY <1>1, <1>2 DEF LostInv, Orderly, StoredKept
<1>6. phase' \notin Filling /\ phase' # "live"
  BY DEF BeforeReady, Filling
<1>7. ResumeKept' /\ BlockKeeps' /\ WindowKeeps' /\ LiveKeeps'
  BY <1>6 DEF ResumeKept, BlockKeeps, WindowKeeps, LiveKeeps
<1> QED BY <1>3, <1>4, <1>5, <1>7 DEF LostInv

(* The stream is dropped, or the process dies.                             *)
LEMMA ClosedLost ==
  ASSUME Base, LostInv, Closed, UNCHANGED <<sourceVars, storeVars>>
  PROVE  LostInv'
<1>1. tip_ms \in Nat
  BY TipIs DEF Base
<1>2. tip' <= tip_ms /\ phase' \in BeforeReady /\ window' = NewWindow(None)
  BY <1>1 DEF Closed, BeforeReady
<1> QED BY <1>2, EarlyLost

(* The tip that subscribe reads is the tip of the feed.                    *)
LEMMA SubscribeLost == ASSUME Base, LostInv, subscribe_live \/ read_tip PROVE LostInv'
<1>1. /\ UNCHANGED <<sourceVars, storeVars, window>>
      /\ phase \in BeforeReady /\ phase' \in BeforeReady
  BY DEF subscribe_live, read_tip, BeforeReady
<1>2. window = NewWindow(None) /\ tip_ms \in Nat
  BY <1>1, TipIs DEF Base, OpenedInv
<1>3. CASE Orderly
  <2>1. tip' <= tip_ms
    <3>1. CASE subscribe_live
      BY <1>3, <3>1 DEF subscribe_live, LostInv, StoredKept
    <3>2. CASE read_tip
      BY <1>2, <3>2 DEF read_tip
    <3> QED BY <3>1, <3>2
  <2> QED BY <1>1, <1>2, <2>1, EarlyLost
<1>4. CASE ~Orderly
  <2>1. ~Orderly'
    BY <1>1, <1>4 DEF Orderly, sourceVars
  <2>2. FeedInv'
    BY <1>1 DEF LostInv, FeedInv, sourceVars
  <2>3. CappedInv'
    BY <1>1, <1>2, NewWriters, NoneFrontier, NoGroupsFacts DEF CappedInv
  <2> QED BY <2>1, <2>2, <2>3 DEF LostInv
<1> QED BY <1>3, <1>4

(* A step that changes nothing of what was and is to be stored.            *)
LEMMA SameLost ==
  ASSUME LostInv, UNCHANGED <<sourceVars, storeVars, tip, last, fetched, cursor, to_block, settled, window>>,
         phase' = phase \/ (phase \in Filling /\ phase' \in Filling)
  PROVE  LostInv'
<1>1. /\ at' = at /\ feed' = feed /\ sorts' = sorts /\ rows' = rows
      /\ stored_position' = stored_position
      /\ tip' = tip /\ last' = last /\ fetched' = fetched /\ cursor' = cursor
      /\ settled' = settled /\ window' = window
  BY StoredSame DEF sourceVars, storeVars
<1>2. tip_ms' = tip_ms /\ final_cut' = final_cut /\ effective_tip' = effective_tip /\ (Bounded' <=> Bounded)
  BY <1>1, TipSame, CutSame
<1>3. WindowSeed(last)' = WindowSeed(last)
  BY <1>1, <1>2 DEF WindowSeed
<1>4. (phase' \in Filling <=> phase \in Filling) /\ (phase' = "live" <=> phase = "live")
  BY DEF Filling
<1>5. FeedInv' /\ CappedInv'
  BY <1>1, <1>2 DEF LostInv, FeedInv, CappedInv
<1>6. SUFFICES ASSUME Orderly
               PROVE  StoredKept' /\ ResumeKept' /\ BlockKeeps' /\ WindowKeeps' /\ LiveKeeps'
  BY <1>1, <1>5 DEF LostInv, Orderly
<1>7. StoredKept /\ ResumeKept /\ BlockKeeps /\ WindowKeeps /\ LiveKeeps
  BY <1>6 DEF LostInv
<1>8. StoredKept'
  BY <1>1, <1>2, <1>7 DEF StoredKept
<1>9. ResumeKept'
  BY <1>1, <1>2, <1>3, <1>4, <1>7 DEF ResumeKept
<1>10. BlockKeeps'
  BY <1>1, <1>2, <1>4, <1>7 DEF BlockKeeps
<1>11. WindowKeeps'
  BY <1>1, <1>2, <1>4, <1>7 DEF WindowKeeps
<1>12. LiveKeeps'
  BY <1>1, <1>2, <1>4, <1>7 DEF LiveKeeps
<1> QED BY <1>8, <1>9, <1>10, <1>11, <1>12

(* The query asks for everything the stored frontier does not cover.       *)
LEMMA OpenLost == ASSUME Base, LostInv, open_segments PROVE LostInv'
<1>1. TypeOK
  BY DEF Base
<1>2. /\ phase' = "ready" /\ phase' \in Filling
      /\ UNCHANGED <<sourceVars, storeVars, tip, cursor, to_block>>
      /\ last' = stored_position
      /\ settled' = NewSettled(stored_position)
      /\ window' = NewWindow(WindowSeed(stored_position))
      /\ \A h \in Elems(fetched') : h \in Published /\ at[h] <= effective_tip
      /\ \A h \in Published : at[h] <= effective_tip /\ stored_position.time_ms <= at[h] => h \in Elems(fetched')
      /\ sorts => \A i, j \in DOMAIN fetched' : i < j => at[fetched'[i]] <= at[fetched'[j]]
  BY <1>1, OpenFacts DEF Filling
<1>3. /\ at' = at /\ feed' = feed /\ sorts' = sorts /\ rows' = rows /\ tip' = tip
      /\ stored_position' = stored_position
  BY <1>2, StoredSame DEF sourceVars, storeVars
<1>4. /\ tip_ms' = tip_ms /\ final_cut' = final_cut /\ effective_tip' = effective_tip
      /\ (Bounded' <=> Bounded)
  BY <1>2, <1>3, TipSame, CutSame
<1>5. WindowSeed(last)' = WindowSeed(stored_position)
  BY <1>2, <1>4 DEF WindowSeed
<1>6. /\ stored_position \in Frontiers /\ WindowSeed(stored_position) \in Frontiers
      /\ stored_position.time_ms \in Int /\ final_cut \in Int /\ effective_tip \in Int /\ tip \in Int
      /\ final_cut <= effective_tip /\ (~Bounded => effective_tip = tip)
  BY <1>1, SettledFields, SeedFacts, CutFacts, InstantInts DEF TypeOK
<1>7. /\ settled'.current = None /\ settled'.current.time_ms = -1 /\ window'.pending = NoGroups
      /\ window'.watermark = WindowSeed(stored_position)
  BY <1>2, <1>6, NewWriters, NoneFrontier
<1>8. FeedInv' /\ CappedInv'
  BY <1>3, <1>7, NoGroupsFacts DEF LostInv, FeedInv, CappedInv
<1>9. SUFFICES ASSUME Orderly
               PROVE  StoredKept' /\ ResumeKept' /\ BlockKeeps' /\ WindowKeeps' /\ LiveKeeps'
  BY <1>3, <1>8 DEF LostInv, Orderly
<1>10. StoredKept
  BY <1>9 DEF LostInv
<1>11. StoredKept'
  BY <1>3, <1>4, <1>10 DEF StoredKept
<1>12. ResumeKept'
  BY <1>2, <1>3, <1>4, <1>5, <1>7, <1>10 DEF ResumeKept, StoredKept
<1>13. ASSUME NEW h \in Identity, at[h] # Unbounded, at[h] <= effective_tip
       PROVE  rows[h] = 1 \/ h \in Elems(fetched')
  <2>1. at[h] \in Int /\ h \in Published
    BY <1>1, <1>13, AtInt DEF Published
  <2>2. CASE stored_position.time_ms <= at[h]
    BY <1>2, <1>13, <2>1, <2>2
  <2>3. CASE at[h] < stored_position.time_ms
    BY <1>10, <1>13, <2>3 DEF StoredKept, Kept, Covers
  <2> QED BY <1>6, <2>1, <2>2, <2>3
<1>14. \A h \in Identity : at[h] \in Int /\ at[h] >= -1
  BY <1>1, AtInt
<1>15. BlockKeeps'
  <2>1. \A h \in Elems(fetched') : settled'.current.time_ms <= at[h]
    BY <1>2, <1>7, <1>14 DEF Published
  <2>2. \A i, j \in DOMAIN fetched' : i < j => at[fetched'[i]] <= at[fetched'[j]]
    BY <1>2, <1>9 DEF Orderly
  <2>3. \A h \in Identity : at[h] # Unbounded /\ at[h] < effective_tip => rows[h] = 1 \/ h \in Elems(fetched')
    BY <1>6, <1>13, <1>14
  <2> QED BY <1>3, <1>4, <2>1, <2>2, <2>3 DEF BlockKeeps
<1>16. WindowKeeps'
  <2>1. \A h \in Identity : ~Bounded /\ at[h] # Unbounded /\ at[h] < tip => rows[h] = 1 \/ h \in Elems(fetched')
    BY <1>6, <1>13, <1>14
  <2> QED BY <1>3, <1>4, <2>1 DEF WindowKeeps
<1>17. LiveKeeps'
  BY <1>2 DEF LiveKeeps
<1> QED BY <1>11, <1>12, <1>15, <1>16, <1>17

(* The replay only delivers.                                               *)
LEMMA ReplayLost == ASSUME Base, LostInv, poll_replay PROVE LostInv'
<1>1. /\ UNCHANGED <<sourceVars, storeVars, tip, last, fetched, cursor, to_block, settled, window>>
      /\ phase \in Filling /\ phase' \in Filling
  BY DEF poll_replay, Filling
<1> QED BY <1>1, SameLost

-----------------------------------------------------------------------------
(* A sequence in order of instants: so is its tail, and its head is least. *)
LEMMA SortedTail ==
  ASSUME NEW a, NEW s \in Seq(Identity), s # <<>>,
         \A i, j \in DOMAIN s : i < j => a[s[i]] <= a[s[j]]
  PROVE  /\ \A i, j \in DOMAIN Tail(s) : i < j => a[Tail(s)[i]] <= a[Tail(s)[j]]
         /\ \A g \in Elems(Tail(s)) : a[Head(s)] <= a[g]
<1>1. /\ DOMAIN Tail(s) = 1..(Len(s) - 1) /\ DOMAIN s = 1..Len(s) /\ Len(s) \in Nat \ {0}
      /\ \A i \in DOMAIN Tail(s) : i + 1 \in DOMAIN s /\ Tail(s)[i] = s[i + 1]
      /\ Head(s) = s[1]
  BY ElemsTail
<1>2. ASSUME NEW i \in DOMAIN Tail(s), NEW j \in DOMAIN Tail(s), i < j
      PROVE  a[Tail(s)[i]] <= a[Tail(s)[j]]
  <2>1. i + 1 < j + 1
    BY <1>1, <1>2
  <2>2. a[s[i + 1]] <= a[s[j + 1]]
    BY <1>1, <2>1
  <2> QED BY <1>1, <2>2
<1>3. ASSUME NEW g \in Elems(Tail(s)) PROVE a[Head(s)] <= a[g]
  <2>1. PICK i \in DOMAIN Tail(s) : g = Tail(s)[i]
    BY DEF Elems
  <2>2. 1 \in DOMAIN s /\ i + 1 \in DOMAIN s /\ 1 < i + 1
    BY <1>1
  <2>3. a[s[1]] <= a[s[i + 1]]
    BY <2>2
  <2> QED BY <1>1, <2>1, <2>3
<1> QED BY <1>2, <1>3

(* What the settled writer takes for a re-observation is stored, or is in  *)
(* its open group.                                                         *)
LEMMA BlockCoveredKept ==
  ASSUME Base, phase \in Filling, settled.healthy, StoredKept,
         NEW h \in Identity, at[h] # Unbounded, block_covered(item(h))
  PROVE  rows[h] = 1 \/ h \in Elems(settled.buffer)
<1>1. TypeOK /\ SettledInv
  BY DEF Base
<1>2. BlockHas(at, settled, h) /\ settled.watermark = stored_position
  BY <1>1, CoveredIs DEF SettledInv
<1>3. CASE Covers(at, stored_position, h)
  BY <1>3 DEF StoredKept, Kept
<1>4. CASE settled.current.time_ms = at[h] /\ Covers(at, settled.current, h)
  <2>1. settled.current # None
    BY <1>4, NoneFrontier DEF Unbounded
  <2>2. settled.current = [time_ms |-> settled.current.time_ms, seen |-> Elems(settled.buffer)]
    BY <1>1, <2>1 DEF SettledInv, Group
  <2>3. h \in settled.current.seen
    BY <1>1, <1>4, AtInt DEF Covers
  <2> QED BY <2>2, <2>3
<1> QED BY <1>2, <1>3, <1>4 DEF BlockHas

(* What the window takes for a re-observation is stored, or pending.       *)
LEMMA WindowCoveredKept ==
  ASSUME Base, NEW h \in Identity, at[h] # Unbounded, covered(item(h)),
         \/ Kept(at, rows, window.watermark)
         \/ phase \in Filling /\ ResumeKept /\ at[h] > final_cut
  PROVE  rows[h] = 1 \/ Holds(at, window, h)
<1>1. TypeOK /\ PendingInv
  BY DEF Base
<1>2. WindowHas(at, window, h)
  BY CoveredIs
<1>3. ASSUME Covers(at, window.watermark, h) PROVE rows[h] = 1
  <2>1. CASE Kept(at, rows, window.watermark)
    BY <1>3, <2>1 DEF Kept
  <2>2. CASE phase \in Filling /\ ResumeKept /\ at[h] > final_cut
    <3>1. Covers(at, WindowSeed(last), h) /\ Kept(at, rows, last)
      BY <1>3, <2>2 DEF ResumeKept
    <3>2. last \in Frontiers /\ at[h] \in Int /\ final_cut \in Int
      BY <1>1, AtInt, CutFacts, InstantInts DEF TypeOK
    <3>3. Covers(at, last, h) \/ at[h] < final_cut
      BY <1>1, <3>1, <3>2, SeedFacts
    <3>4. Covers(at, last, h)
      BY <2>2, <3>2, <3>3
    <3> QED BY <3>1, <3>4 DEF Kept
  <2> QED BY <2>1, <2>2
<1>4. ASSUME at[h] \in DOMAIN window.pending, Covers(at, window.pending[at[h]].position, h)
      PROVE  Holds(at, window, h)
  <2>1. window.pending[at[h]].position = [time_ms |-> at[h], seen |-> Elems(window.pending[at[h]].rows)]
    BY <1>1, <1>4 DEF PendingInv, Group
  <2>2. at[h] \in Int
    BY <1>1, AtInt
  <2> QED BY <1>4, <2>1, <2>2 DEF Covers, Holds
<1> QED BY <1>2, <1>3, <1>4 DEF WindowHas

(* An event that joins the window is held, and so is what was held.        *)
LEMMA JoinsHolds ==
  ASSUME Base, phase \notin BeforeReady, NEW h \in Identity, at[h] # Unbounded, WindowJoins(h),
         phase \in Filling => at[h] > final_cut /\ at[h] <= effective_tip,
         UNCHANGED <<at, tip, to_block>>, phase' = phase
  PROVE  /\ Holds(at, window', h)
         /\ \A g \in Identity : Holds(at, window, g) => Holds(at, window', g)
<1>1. TypeOK /\ PendingInv
  BY DEF Base
<1>2. window'.pending = Joined(h) /\ rows[h] = 0 /\ ~covered(item(h))
  BY JoinsBase DEF WindowJoins
<1>3. /\ DOMAIN Joined(h) = DOMAIN window.pending \cup {at[h]}
      /\ \A k \in DOMAIN Joined(h) : k # at[h] => k \in DOMAIN window.pending /\ Joined(h)[k] = window.pending[k]
      /\ Elems(Joined(h)[at[h]].rows) =
           (IF at[h] \in DOMAIN window.pending THEN Elems(window.pending[at[h]].rows) ELSE {}) \cup {h}
  BY <1>1, <1>2, JoinedIs
<1>4. Holds(at, window', h)
  BY <1>2, <1>3 DEF Holds
<1>5. ASSUME NEW g \in Identity, Holds(at, window, g) PROVE Holds(at, window', g)
  <2>1. CASE at[g] # at[h]
    BY <1>2, <1>3, <1>5, <2>1 DEF Holds
  <2>2. CASE at[g] = at[h]
    BY <1>2, <1>3, <1>5, <2>2 DEF Holds
  <2> QED BY <2>1, <2>2
<1> QED BY <1>4, <1>5

(* The settled writer writes its group only once everything below it is    *)
(* stored, so the stored frontier never passes an event over.              *)
LEMMA BlockKept ==
  ASSUME Base, StoredKept, BlockKeeps, phase \in Filling, settled.healthy, settled.current # None,
         at' = at, write(settled.current, settled.buffer)
  PROVE  /\ stored_position'.time_ms <= tip_ms
         /\ Kept(at, rows', stored_position')
         /\ \A h \in Identity : rows[h] = 1 \/ h \in Elems(settled.buffer) => rows'[h] = 1
<1> DEFINE T == settled.current.time_ms
<1>1. TypeOK /\ SettledInv
  BY DEF Base
<1>2. /\ stored_position' = advance(stored_position, settled.current)
      /\ stored_position' \in Frontiers
      /\ stored_position'.time_ms = T
      /\ T <= final_cut
      /\ StoreInv'
      /\ \A h \in Identity : rows'[h] = 1 <=> rows[h] = 1 \/ h \in Elems(settled.buffer)
  BY BlockWrote
<1>3. /\ stored_position \in Frontiers /\ settled.current \in Frontiers /\ T \in Int
      /\ final_cut \in Int /\ effective_tip \in Int /\ tip \in Int /\ tip_ms \in Int
      /\ final_cut <= effective_tip /\ effective_tip <= tip /\ tip <= tip_ms
  BY <1>1, SettledFields, CutFacts, TipIs, InstantInts DEF TypeOK, StoredKept
<1>4. settled.current.seen = Elems(settled.buffer)
  BY <1>1 DEF SettledInv, Group
<1>5. ASSUME NEW h \in Identity, at[h] # Unbounded, Covers(at, stored_position', h) PROVE rows'[h] = 1
  <2>1. at[h] \in Int
    BY <1>1, AtInt
  <2>2. Covers(at, stored_position, h) \/ Covers(at, settled.current, h)
    BY <1>2, <1>3, <1>5, <2>1, CoversAdvance
  <2>3. CASE Covers(at, stored_position, h)
    BY <1>2, <1>5, <2>3 DEF StoredKept, Kept
  <2>4. CASE at[h] = T /\ h \in settled.current.seen
    BY <1>2, <1>4, <2>4
  <2>5. CASE at[h] < T
    <3>1. at[h] <= final_cut /\ at[h] < effective_tip
      BY <1>2, <1>3, <2>1, <2>5
    <3>2. rows[h] = 1 \/ h \in Elems(settled.buffer) \/ h \in Elems(fetched)
      BY <1>5, <3>1 DEF BlockKeeps
    <3>3. h \notin Elems(fetched)
      BY <1>3, <2>1, <2>5 DEF BlockKeeps
    <3> QED BY <1>2, <3>2, <3>3
  <2> QED BY <2>2, <2>3, <2>4, <2>5 DEF Covers
<1>6. ASSUME NEW h \in Identity, h \in stored_position'.seen PROVE rows'[h] = 1
  BY <1>2, <1>6 DEF StoreInv
<1>7. stored_position'.time_ms <= tip_ms
  BY <1>2, <1>3
<1> QED BY <1>2, <1>5, <1>6, <1>7 DEF Kept

(* A backfill event is suppressed only if it is stored or held, and every  *)
(* write leaves nothing behind.                                            *)
LEMMA BackfillLost == ASSUME Base, LostInv, poll_backfill PROVE LostInv'
<1> DEFINE h == Head(fetched)
<1>1. TypeOK /\ StoreInv /\ SettledInv /\ PendingInv
  BY DEF Base
<1>2. /\ h \in Identity /\ at[h] # Unbounded /\ at[h] <= effective_tip
      /\ UNCHANGED <<at, feed, tip, last, cursor, to_block>>
      /\ phase = "backfill" /\ phase' = phase /\ phase \in Filling
      /\ final_cut' = final_cut /\ effective_tip' = effective_tip
  BY BackfillFrame
<1>3. /\ phase \notin BeforeReady /\ phase' # "live" /\ phase' \in Filling /\ (Bounded' <=> Bounded)
      /\ tip_ms' = tip_ms
  BY <1>2, CutSame, TipSame DEF BeforeReady, Filling
<1>4. /\ fetched # <<>> /\ fetched' = Tail(fetched) /\ sorts' = sorts
      /\ \/ Suppressed(h) \/ PassesBy(h) \/ BlockHalts(h) \/ BlockJoins(h) \/ BlockRolls(h)
         \/ BlockFails(h) \/ ((WindowHalts(h) \/ WindowJoins(h)) /\ at[h] > final_cut)
  BY <1>1, BackfillCases DEF sourceVars
<1>5. /\ Elems(fetched) = {h} \cup Elems(fetched') /\ fetched \in Seq(Identity)
      /\ fetched' \in Seq(Identity)
  BY <1>1, <1>4, ElemsTail DEF TypeOK
<1>6. /\ at[h] \in Int /\ final_cut \in Int /\ effective_tip \in Int /\ tip \in Int
      /\ final_cut <= effective_tip /\ (Bounded => final_cut = effective_tip)
      /\ \A g \in Identity : at[g] \in Int
  BY <1>1, <1>2, AtInt, CutFacts, InstantInts DEF TypeOK
<1> HIDE DEF h
<1>7. FeedInv'
  BY <1>2 DEF LostInv, FeedInv
<1>8. (WindowHalts(h) => window'.healthy = FALSE /\ window'.pending = NoGroups)
      /\ window'.watermark = window.watermark
  <2>1. window \in [healthy : BOOLEAN, pending : Pendings, head : Instants \cup {Unbounded},
                    watermark : Frontiers, maturing : SUBSET Instants]
    BY <1>1 DEF TypeOK
  <2>2. WindowHalts(h) => window' = [window EXCEPT !.healthy = FALSE, !.pending = NoGroups]
    BY DEF WindowHalts
  <2>3. \/ window' = window
        \/ window' = [window EXCEPT !.healthy = FALSE, !.pending = NoGroups]
        \/ window' = [window EXCEPT !.pending = Joined(h), !.head = HeadWith(h),
                                    !.maturing = Matured(Joined(h), HeadWith(h))]
    BY <1>4 DEF Suppressed, PassesBy, BlockHalts, BlockJoins, BlockRolls, BlockFails, WindowHalts, WindowJoins
  <2> QED BY <2>1, <2>2, <2>3
<1>9. CappedInv'
  <2>1. CASE WindowJoins(h) /\ at[h] > final_cut
    <3>1. ~Bounded
      BY <1>2, <1>6, <2>1
    <3> QED BY <1>3, <3>1 DEF CappedInv
  <2>2. CASE WindowHalts(h)
    BY <1>8, <2>2, NoGroupsFacts DEF CappedInv
  <2>3. CASE window' = window
    BY <1>3, <2>3 DEF LostInv, CappedInv
  <2> QED BY <1>4, <2>1, <2>2, <2>3
        DEF Suppressed, PassesBy, BlockHalts, BlockJoins, BlockRolls, BlockFails
<1>10. SUFFICES ASSUME Orderly
                PROVE  StoredKept' /\ ResumeKept' /\ BlockKeeps' /\ WindowKeeps' /\ LiveKeeps'
  BY <1>4, <1>7, <1>9 DEF LostInv, Orderly
<1>11. StoredKept /\ ResumeKept /\ BlockKeeps /\ WindowKeeps
  BY <1>10 DEF LostInv
<1>12. ASSUME write(settled.current, settled.buffer), settled.healthy, settled.current # None
       PROVE  /\ stored_position'.time_ms <= tip_ms /\ Kept(at, rows', stored_position')
              /\ \A g \in Identity : rows[g] = 1 \/ g \in Elems(settled.buffer) => rows'[g] = 1
  BY <1>2, <1>11, <1>12, BlockKept
<1>13. /\ stored_position'.time_ms <= tip_ms /\ Kept(at, rows', stored_position')
       /\ \A g \in Identity : rows[g] = 1 => rows'[g] = 1
  <2>1. CASE UNCHANGED storeVars
    <3>1. stored_position' = stored_position /\ rows' = rows
      BY <2>1, StoredSame DEF storeVars
    <3> QED BY <1>11, <3>1 DEF StoredKept
  <2>2. CASE write(settled.current, settled.buffer) /\ settled.healthy /\ settled.current # None
    BY <1>12, <2>2
  <2> QED BY <1>4, <2>1, <2>2 DEF Suppressed, PassesBy, BlockHalts, SettledHalts, BlockJoins,
            BlockRolls, BlockFails, WindowHalts, WindowJoins
<1>14. StoredKept'
  BY <1>2, <1>3, <1>11, <1>13 DEF StoredKept
<1>15. ResumeKept'
  <2>1. WindowSeed(last)' = WindowSeed(last)
    BY <1>2 DEF WindowSeed
  <2>2. Kept(at, rows', last) /\ last.time_ms <= tip_ms /\ window.watermark = WindowSeed(last)
    BY <1>2, <1>11, <1>13, KeptGrows DEF ResumeKept
  <2> QED BY <1>2, <1>3, <1>8, <2>1, <2>2 DEF ResumeKept
<1>16. /\ \A i, j \in DOMAIN fetched' : i < j => at[fetched'[i]] <= at[fetched'[j]]
       /\ \A g \in Elems(fetched') : at[h] <= at[g] /\ g \in Elems(fetched)
  <2>1. \A i, j \in DOMAIN fetched : i < j => at[fetched[i]] <= at[fetched[j]]
    BY <1>2, <1>11 DEF BlockKeeps
  <2>2. /\ \A i, j \in DOMAIN Tail(fetched) : i < j => at[Tail(fetched)[i]] <= at[Tail(fetched)[j]]
        /\ \A g \in Elems(Tail(fetched)) : at[Head(fetched)] <= at[g]
    BY <1>4, <1>5, <2>1, SortedTail
  <2> QED BY <1>4, <1>5, <2>2 DEF h
<1>17. ASSUME settled'.healthy
       PROVE  /\ \A g \in Elems(fetched') : settled'.current.time_ms <= at[g]
              /\ \A g \in Identity :
                   at[g] # Unbounded /\ at[g] <= final_cut /\ at[g] < effective_tip =>
                     rows'[g] = 1 \/ g \in Elems(settled'.buffer) \/ g \in Elems(fetched')
  <2>1. ASSUME settled.healthy
        PROVE  /\ \A g \in Elems(fetched) : settled.current.time_ms <= at[g]
               /\ \A g \in Identity :
                    at[g] # Unbounded /\ at[g] <= final_cut /\ at[g] < effective_tip =>
                      rows[g] = 1 \/ g \in Elems(settled.buffer) \/ g = h \/ g \in Elems(fetched')
    BY <1>2, <1>5, <1>11, <2>1 DEF BlockKeeps
  <2>2. /\ settled \in [healthy : BOOLEAN, current : Frontiers, buffer : Seq(Identity),
                        watermark : Frontiers]
        /\ settled.buffer \in Seq(Identity) /\ settled.current \in Frontiers
    BY <1>1, SettledFields DEF TypeOK
  <2>3. CASE settled' = settled
    <3>1. settled.healthy
      BY <1>17, <2>3
    <3>2. at[h] <= final_cut => rows[h] = 1 \/ h \in Elems(settled.buffer)
      <4>1. CASE Suppressed(h)
        BY <1>2, <1>11, <3>1, <4>1, BlockCoveredKept DEF Suppressed
      <4>2. CASE PassesBy(h)
        BY <3>1, <4>2 DEF PassesBy
      <4>3. CASE BlockHalts(h)
        <5>1. settled'.healthy = FALSE
          BY <2>2, <4>3 DEF BlockHalts, SettledHalts
        <5> QED BY <1>17, <5>1
      <4>4. CASE BlockJoins(h)
        <5>1. h \in Elems(settled'.buffer)
          <6>1. settled'.buffer = Append(settled.buffer, h)
            BY <2>2, <4>4 DEF BlockJoins
          <6> QED BY <1>2, <2>2, <6>1, ElemsAppend
        <5> QED BY <2>3, <5>1
      <4>5. CASE BlockRolls(h)
        <5>1. h \in Elems(settled'.buffer)
          <6>1. settled'.buffer = <<h>>
            BY <2>2, <4>5 DEF BlockRolls
          <6> QED BY <1>2, <6>1, ElemsOne
        <5> QED BY <2>3, <5>1
      <4>6. CASE BlockFails(h)
        <5>1. settled'.healthy = FALSE
          BY <2>2, <4>6 DEF BlockFails
        <5> QED BY <1>17, <5>1
      <4>7. CASE at[h] > final_cut
        BY <1>6, <4>7
      <4> QED BY <1>4, <4>1, <4>2, <4>3, <4>4, <4>5, <4>6, <4>7
    <3> QED BY <1>13, <1>16, <2>1, <2>3, <3>1, <3>2
  <2>4. CASE BlockHalts(h) \/ BlockFails(h)
    <3>1. settled'.healthy = FALSE
      BY <2>2, <2>4 DEF BlockHalts, SettledHalts, BlockFails
    <3> QED BY <1>17, <3>1
  <2>5. CASE BlockJoins(h)
    <3>1. /\ settled.healthy
          /\ settled'.current = advance(settled.current, item(h))
          /\ settled'.buffer = Append(settled.buffer, h)
      BY <2>2, <2>5 DEF BlockJoins
    <3>2. item(h) \in Frontiers /\ item(h).time_ms = at[h]
      <4>1. at[h] \in Nat \cup {Unbounded}
        BY <1>1, <1>2, AtInt, InstantInts
      <4> QED BY <1>2, <4>1 DEF item, Frontiers
    <3>3. settled'.current.time_ms = at[h]
      <4>1. CASE settled.current = None
        <5>1. settled.current.time_ms < item(h).time_ms
          BY <1>1, <1>2, <3>2, <4>1, NoneFrontier, AtInt DEF Unbounded
        <5> QED BY <2>2, <3>1, <3>2, <5>1, FrontierAdvance
      <4>2. CASE settled.current.time_ms = at[h]
        BY <2>2, <3>1, <3>2, <4>2, FrontierAdvance
      <4> QED BY <2>5, <4>1, <4>2 DEF BlockJoins
    <3>4. Elems(settled'.buffer) = Elems(settled.buffer) \cup {h}
      BY <1>2, <2>2, <3>1, ElemsAppend
    <3> QED BY <1>13, <1>16, <2>1, <3>1, <3>3, <3>4
  <2>6. CASE BlockRolls(h)
    <3>1. /\ settled.healthy /\ settled.current # None /\ write(settled.current, settled.buffer)
          /\ settled'.current = item(h) /\ settled'.buffer = <<h>>
      BY <2>2, <2>6 DEF BlockRolls
    <3>2. settled'.current.time_ms = at[h] /\ Elems(settled'.buffer) = {h}
      BY <1>2, <3>1, ElemsOne DEF item
    <3>3. \A g \in Identity : rows[g] = 1 \/ g \in Elems(settled.buffer) => rows'[g] = 1
      BY <1>12, <3>1
    <3> QED BY <1>16, <2>1, <3>1, <3>2, <3>3
  <2> QED BY <1>4, <2>3, <2>4, <2>5, <2>6 DEF Suppressed, PassesBy, WindowHalts, WindowJoins
<1>18. BlockKeeps'
  BY <1>2, <1>16, <1>17 DEF BlockKeeps
<1>19. ASSUME window'.healthy, ~Bounded, NEW g \in Identity, at[g] # Unbounded, at[g] > final_cut, at[g] < tip
       PROVE  rows'[g] = 1 \/ Holds(at, window', g) \/ g \in Elems(fetched')
  <2>1. CASE window' = window /\ ~WindowJoins(h)
    <3>1. rows[g] = 1 \/ Holds(at, window, g) \/ g = h \/ g \in Elems(fetched')
      BY <1>2, <1>5, <1>11, <1>19, <2>1 DEF WindowKeeps
    <3>2. CASE g = h
      <4>1. CASE Suppressed(h)
        <5>1. rows[h] = 1 \/ Holds(at, window, h)
          BY <1>2, <1>11, <1>19, <3>2, <4>1, WindowCoveredKept DEF Suppressed
        <5> QED BY <1>2, <1>13, <2>1, <3>2, <5>1
      <4>2. ~PassesBy(h)
        BY <1>19, <2>1, <3>2 DEF PassesBy
      <4>3. ~(BlockHalts(h) \/ BlockJoins(h) \/ BlockRolls(h) \/ BlockFails(h))
        BY <1>6, <1>19, <3>2 DEF BlockHalts, BlockJoins, BlockRolls, BlockFails
      <4>4. ~WindowHalts(h)
        BY <1>8, <1>19
      <4> QED BY <1>4, <2>1, <4>1, <4>2, <4>3, <4>4
    <3> QED BY <1>13, <2>1, <3>1, <3>2
  <2>2. CASE WindowJoins(h) /\ at[h] > final_cut
    <3>1. window.healthy
      BY <2>2 DEF WindowJoins
    <3>2. rows[g] = 1 \/ Holds(at, window, g) \/ g = h \/ g \in Elems(fetched')
      BY <1>2, <1>5, <1>11, <1>19, <3>1 DEF WindowKeeps
    <3>3. /\ Holds(at, window', h)
          /\ \A x \in Identity : Holds(at, window, x) => Holds(at, window', x)
      BY <1>2, <1>3, <2>2, JoinsHolds
    <3> QED BY <1>13, <3>2, <3>3
  <2>3. ~WindowHalts(h)
    BY <1>8, <1>19
  <2>4. window' = window \/ (WindowJoins(h) /\ at[h] > final_cut)
    BY <1>4, <2>3 DEF Suppressed, PassesBy, BlockHalts, BlockJoins, BlockRolls, BlockFails
  <2>5. CASE window' = window /\ WindowJoins(h) /\ ~(at[h] > final_cut)
    <3>1. rows[g] = 1 \/ Holds(at, window, g) \/ g = h \/ g \in Elems(fetched')
      BY <1>2, <1>5, <1>11, <1>19, <2>5 DEF WindowKeeps
    <3> QED BY <1>13, <1>19, <2>5, <3>1
  <2> QED BY <2>1, <2>2, <2>4, <2>5
<1>20. WindowKeeps'
  BY <1>2, <1>3, <1>19 DEF WindowKeeps
<1>21. LiveKeeps'
  BY <1>3 DEF LiveKeeps
<1> QED BY <1>14, <1>15, <1>18, <1>20, <1>21

(* The window takes over from the settled writer: what the folded          *)
(* watermark covers is stored, and the live source is pulled from its      *)
(* start.                                                                  *)
LEMMA FinishLost == ASSUME Base, LostInv, finish_backfill PROVE LostInv'
<1>1. TypeOK /\ SettledInv /\ OpenedInv /\ PendingInv
  BY DEF Base
<1>2. /\ phase = "backfill" /\ phase' = "live" /\ fetched = <<>>
      /\ UNCHANGED <<at, feed, sorts, tip, last, fetched, cursor, to_block>>
      /\ Finishes \/ FinishFails
      /\ StoreInv' /\ stored_position' \in Frontiers
      /\ window' = IF settled'.healthy
                   THEN [window EXCEPT !.watermark = advance(@, stored_position')]
                   ELSE [window EXCEPT !.healthy = FALSE, !.pending = NoGroups]
  BY FinishCases
<1>3. /\ phase \in Filling /\ phase' \notin Filling
      /\ final_cut' = final_cut /\ (Bounded' <=> Bounded) /\ tip_ms' = tip_ms
  BY <1>2, CutSame, TipSame DEF Filling
<1>4. /\ window \in [healthy : BOOLEAN, pending : Pendings, head : Instants \cup {Unbounded},
                     watermark : Frontiers, maturing : SUBSET Instants]
      /\ last \in Frontiers /\ last.time_ms \in Int /\ stored_position'.time_ms \in Int
      /\ final_cut \in Int /\ effective_tip \in Int /\ tip \in Int /\ tip_ms \in Int
      /\ final_cut <= effective_tip /\ effective_tip <= tip /\ (~Bounded => effective_tip = tip)
      /\ window.head \in Int /\ settled.healthy \in BOOLEAN
      /\ \A h \in Identity : at[h] \in Int
  <2>1. /\ window \in [healthy : BOOLEAN, pending : Pendings, head : Instants \cup {Unbounded},
                       watermark : Frontiers, maturing : SUBSET Instants]
        /\ last \in Frontiers /\ tip \in Int
    BY <1>1 DEF TypeOK
  <2>2. last.time_ms \in Int /\ stored_position'.time_ms \in Int
    BY <1>2, <2>1, FrontierTime
  <2>3. /\ final_cut \in Int /\ effective_tip \in Int /\ tip_ms \in Int
        /\ final_cut <= effective_tip /\ effective_tip <= tip /\ (~Bounded => effective_tip = tip)
    BY <1>1, CutFacts, TipIs, InstantInts
  <2>4. window.head \in Int /\ settled.healthy \in BOOLEAN /\ \A h \in Identity : at[h] \in Int
    BY <1>1, SettledFields, AtInt
  <2> QED BY <2>1, <2>2, <2>3, <2>4
<1>5. FeedInv'
  BY <1>2 DEF LostInv, FeedInv
<1>6. /\ settled'.healthy => /\ window'.pending = window.pending /\ window'.healthy = window.healthy
                             /\ window'.head = window.head
                             /\ window'.watermark = advance(window.watermark, stored_position')
      /\ ~settled'.healthy => ~window'.healthy /\ window'.pending = NoGroups
  BY <1>2, <1>4
<1>7. CappedInv'
  BY <1>3, <1>6, NoGroupsFacts DEF LostInv, CappedInv
<1>8. SUFFICES ASSUME Orderly
               PROVE  StoredKept' /\ ResumeKept' /\ BlockKeeps' /\ WindowKeeps' /\ LiveKeeps'
  BY <1>2, <1>5, <1>7 DEF LostInv, Orderly
<1>9. StoredKept /\ ResumeKept /\ BlockKeeps /\ WindowKeeps
  BY <1>8 DEF LostInv
<1>10. ASSUME write(settled.current, settled.buffer), settled.healthy, settled.current # None
       PROVE  /\ stored_position'.time_ms <= tip_ms /\ Kept(at, rows', stored_position')
              /\ \A h \in Identity : rows[h] = 1 \/ h \in Elems(settled.buffer) => rows'[h] = 1
  BY <1>2, <1>3, <1>9, <1>10, BlockKept
<1>11. /\ stored_position'.time_ms <= tip_ms /\ Kept(at, rows', stored_position')
       /\ \A h \in Identity : rows[h] = 1 => rows'[h] = 1
  <2>1. CASE UNCHANGED storeVars
    <3>1. stored_position' = stored_position /\ rows' = rows
      BY <2>1, StoredSame DEF storeVars
    <3> QED BY <1>9, <3>1 DEF StoredKept
  <2>2. CASE write(settled.current, settled.buffer) /\ settled.healthy /\ settled.current # None
    BY <1>10, <2>2
  <2> QED BY <1>2, <1>4, <2>1, <2>2 DEF Finishes, FinishFails
<1>12. StoredKept'
  BY <1>2, <1>3, <1>9, <1>11 DEF StoredKept
<1>13. ResumeKept' /\ BlockKeeps' /\ WindowKeeps'
  BY <1>3 DEF ResumeKept, BlockKeeps, WindowKeeps
<1>14. ASSUME settled'.healthy, window.healthy, ~Bounded
       PROVE  /\ window'.watermark.time_ms <= tip_ms /\ Kept(at, rows', window'.watermark)
              /\ \A h \in Identity : at[h] # Unbounded /\ at[h] < tip => rows'[h] = 1 \/ Holds(at, window, h)
  <2>1. Finishes /\ settled.healthy
    BY <1>2, <1>14 DEF Finishes, FinishFails
  <2>2. \A h \in Elems(settled.buffer) : rows'[h] = 1
    <3>1. CASE settled.current = None
      <4>1. settled.buffer = <<>>
        BY <1>1, <1>3, <2>1, <3>1 DEF SettledInv
      <4> QED BY <4>1, ElemsEmpty
    <3>2. CASE settled.current # None
      <4>1. write(settled.current, settled.buffer)
        BY <2>1, <3>2 DEF Finishes
      <4>2. \A h \in Elems(settled.buffer) : h \in Identity
        BY <1>1, SettledFields DEF Elems
      <4> QED BY <1>10, <2>1, <3>2, <4>1, <4>2
    <3> QED BY <3>1, <3>2
  <2>3. ASSUME NEW h \in Identity, at[h] # Unbounded, at[h] <= final_cut, at[h] < effective_tip
        PROVE  rows'[h] = 1
    <3>1. rows[h] = 1 \/ h \in Elems(settled.buffer) \/ h \in Elems(fetched)
      BY <1>3, <1>9, <2>1, <2>3 DEF BlockKeeps
    <3>2. h \notin Elems(fetched)
      BY <1>2, ElemsEmpty
    <3> QED BY <1>11, <2>2, <3>1, <3>2
  <2>4. window.watermark = WindowSeed(last) /\ Kept(at, rows', last) /\ last.time_ms <= tip_ms
    BY <1>3, <1>9, <1>11, KeptGrows DEF ResumeKept
  <2>5. WindowSeed(last) \in Frontiers
    BY <1>1, <1>4, SeedFacts
  <2>6. /\ WindowSeed(last).time_ms <= tip_ms
        /\ WindowSeed(last).seen \subseteq last.seen
    <3>1. tip <= tip_ms
      BY <1>9 DEF StoredKept
    <3>2. CASE final_cut = Unbounded
      BY <2>4, <3>2 DEF WindowSeed
    <3>3. CASE final_cut # Unbounded
      <4>1. WindowSeed(last) = advance(last, from_sort_key(final_cut))
        BY <3>3 DEF WindowSeed
      <4>2. from_sort_key(final_cut).time_ms = final_cut /\ from_sort_key(final_cut).seen = {}
        BY DEF from_sort_key
      <4> QED BY <1>4, <2>4, <3>1, <4>1, <4>2 DEF advance
    <3> QED BY <3>2, <3>3
  <2>7. Kept(at, rows', WindowSeed(last))
    <3>1. ASSUME NEW h \in Identity, at[h] # Unbounded, Covers(at, WindowSeed(last), h) PROVE rows'[h] = 1
      <4>1. Covers(at, last, h) \/ at[h] < final_cut
        BY <1>1, <1>4, <3>1, SeedFacts
      <4>2. CASE Covers(at, last, h)
        BY <2>4, <3>1, <4>2 DEF Kept
      <4>3. CASE at[h] < final_cut
        <5>1. at[h] <= final_cut /\ at[h] < effective_tip
          BY <1>4, <4>3
        <5> QED BY <2>3, <3>1, <5>1
      <4> QED BY <4>1, <4>2, <4>3
    <3> QED BY <2>4, <2>6, <3>1 DEF Kept
  <2>8. Kept(at, rows', window'.watermark)
    BY <1>2, <1>4, <1>6, <1>11, <1>14, <2>4, <2>5, <2>7, KeptAdvance
  <2>9. window'.watermark.time_ms <= tip_ms
    <3>1. window'.watermark = advance(WindowSeed(last), stored_position')
      BY <1>6, <1>14, <2>4
    <3> QED BY <1>11, <2>6, <3>1 DEF advance
  <2>10. ASSUME NEW h \in Identity, at[h] # Unbounded, at[h] < tip
         PROVE  rows'[h] = 1 \/ Holds(at, window, h)
    <3>1. CASE at[h] <= final_cut
      BY <1>4, <1>14, <2>3, <2>10, <3>1
    <3>2. CASE at[h] > final_cut
      <4>1. rows[h] = 1 \/ Holds(at, window, h) \/ h \in Elems(fetched)
        BY <1>3, <1>9, <1>14, <2>10, <3>2 DEF WindowKeeps
      <4> QED BY <1>2, <1>11, <4>1, ElemsEmpty
    <3> QED BY <1>4, <3>1, <3>2
  <2> QED BY <2>8, <2>9, <2>10
<1>15. LiveKeeps'
  <2> SUFFICES ASSUME settled'.healthy, window.healthy, ~Bounded
               PROVE  /\ window'.watermark.time_ms <= tip_ms /\ Kept(at, rows', window'.watermark)
                      /\ cursor <= Len(feed)
                      /\ window'.head <= tip
                      /\ \A h \in Identity : at[h] # Unbounded =>
                           \/ rows'[h] = 1
                           \/ Holds(at, window', h)
                           \/ at[h] >= tip /\ \E i \in DOMAIN feed : i > cursor /\ feed[i] = h
    BY <1>2, <1>3, <1>6 DEF LiveKeeps
  <2>1. cursor = 0 /\ Len(feed) \in Nat /\ DOMAIN feed = 1..Len(feed)
    BY <1>1, <1>3 DEF OpenedInv, TypeOK
  <2>2. window'.head <= tip
    BY <1>1, <1>3, <1>6 DEF PendingInv
  <2>3. ASSUME NEW h \in Identity, at[h] # Unbounded, at[h] >= tip
        PROVE  \E i \in DOMAIN feed : i > cursor /\ feed[i] = h
    <3>1. h \in Elems(feed)
      BY <2>3 DEF LostInv, FeedInv
    <3>2. PICK i \in DOMAIN feed : feed[i] = h
      BY <3>1 DEF Elems
    <3> QED BY <2>1, <3>2
  <2>4. ASSUME NEW h \in Identity, at[h] # Unbounded, at[h] < tip
        PROVE  rows'[h] = 1 \/ Holds(at, window', h)
    <3>1. rows'[h] = 1 \/ Holds(at, window, h)
      BY <1>14, <2>4
    <3> QED BY <1>6, <3>1 DEF Holds
  <2> QED BY <1>4, <1>14, <2>1, <2>2, <2>3, <2>4
<1> QED BY <1>12, <1>13, <1>15

(* The event that is pulled is stored, pending, or joins the window.       *)
LEMMA LiveLost == ASSUME Base, LostInv, live_event PROVE LostInv'
<1> DEFINE h == feed[cursor + 1]
<1>1. TypeOK
  BY DEF Base
<1>2. /\ phase = "live" /\ phase' = phase /\ window.maturing = {} /\ ~Bounded
      /\ cursor + 1 \in DOMAIN feed /\ cursor' = cursor + 1
      /\ h \in Identity /\ at[h] # Unbounded
      /\ UNCHANGED <<at, feed, sorts, tip, last, fetched, to_block, settled>>
      /\ \/ window.healthy /\ covered(item(h)) /\ UNCHANGED <<storeVars, window, delivered>>
         \/ ~window.healthy /\ UNCHANGED <<storeVars, window>> /\ delivered' = Deliver({h})
         \/ WindowHalts(h)
         \/ WindowJoins(h)
  BY LiveCases
<1>3. feed[cursor + 1] = h
  OBVIOUS
<1> HIDE DEF h
<1>4. /\ phase' \notin Filling /\ phase \notin Filling /\ phase \notin BeforeReady
      /\ (Bounded' <=> Bounded) /\ tip_ms' = tip_ms
  BY <1>2, CutSame, TipSame DEF Filling, BeforeReady
<1>5. stored_position' = stored_position /\ rows' = rows
  <2>1. UNCHANGED storeVars
    BY <1>2 DEF WindowHalts, WindowJoins
  <2> QED BY <2>1, StoredSame DEF storeVars
<1>6. FeedInv' /\ CappedInv'
  BY <1>2, <1>4 DEF LostInv, FeedInv, CappedInv
<1>7. SUFFICES ASSUME Orderly
               PROVE  StoredKept' /\ ResumeKept' /\ BlockKeeps' /\ WindowKeeps' /\ LiveKeeps'
  BY <1>2, <1>6 DEF LostInv, Orderly
<1>8. StoredKept /\ LiveKeeps
  BY <1>7 DEF LostInv
<1>9. StoredKept'
  BY <1>2, <1>4, <1>5, <1>8 DEF StoredKept
<1>10. ResumeKept' /\ BlockKeeps' /\ WindowKeeps'
  BY <1>4 DEF ResumeKept, BlockKeeps, WindowKeeps
<1>11. LiveKeeps'
  <2> SUFFICES ASSUME window'.healthy
               PROVE  /\ window'.watermark.time_ms <= tip_ms /\ Kept(at, rows, window'.watermark)
                      /\ cursor' <= Len(feed)
                      /\ window'.head <= tip \/ \E i \in DOMAIN feed : i <= cursor' /\ at[feed[i]] = window'.head
                      /\ \A g \in Identity : at[g] # Unbounded =>
                           \/ rows[g] = 1
                           \/ Holds(at, window', g)
                           \/ at[g] >= tip /\ \E i \in DOMAIN feed : i > cursor' /\ feed[i] = g
    BY <1>2, <1>4, <1>5 DEF LiveKeeps
  <2>1. window.healthy /\ ~WindowHalts(h)
    <3>1. ~WindowHalts(h)
      BY <1>1 DEF WindowHalts, TypeOK
    <3> QED BY <1>2, <3>1 DEF WindowJoins
  <2>2. /\ window.watermark.time_ms <= tip_ms /\ Kept(at, rows, window.watermark)
        /\ cursor <= Len(feed)
        /\ window.head <= tip \/ \E i \in DOMAIN feed : i <= cursor /\ at[feed[i]] = window.head
        /\ \A g \in Identity : at[g] # Unbounded =>
             \/ rows[g] = 1
             \/ Holds(at, window, g)
             \/ at[g] >= tip /\ \E i \in DOMAIN feed : i > cursor /\ feed[i] = g
    BY <1>2, <1>8, <2>1 DEF LiveKeeps
  <2>3. cursor \in Nat /\ DOMAIN feed = 1..Len(feed) /\ Len(feed) \in Nat
    BY <1>1 DEF TypeOK
  <2>4. /\ window'.watermark = window.watermark
        /\ window'.head = window.head \/ window'.head = at[h]
        /\ \A g \in Identity : Holds(at, window, g) => Holds(at, window', g)
        /\ rows[h] = 1 \/ Holds(at, window', h)
    <3>1. CASE covered(item(h)) /\ window' = window
      BY <1>2, <2>2, <3>1, WindowCoveredKept
    <3>2. CASE WindowJoins(h)
      <4>1. window'.watermark = window.watermark /\ window'.head = HeadWith(h)
        BY <1>2, <1>4, <3>2, JoinsBase
      <4>2. /\ Holds(at, window', h)
            /\ \A g \in Identity : Holds(at, window, g) => Holds(at, window', g)
        BY <1>2, <1>4, <3>2, JoinsHolds
      <4> QED BY <4>1, <4>2 DEF HeadWith
    <3> QED BY <1>2, <2>1, <3>1, <3>2
  <2>5. cursor' <= Len(feed)
    BY <1>2, <2>3
  <2>6. window'.head <= tip \/ \E i \in DOMAIN feed : i <= cursor' /\ at[feed[i]] = window'.head
    <3>1. CASE window'.head = at[h]
      <4>1. cursor + 1 \in DOMAIN feed /\ cursor + 1 <= cursor' /\ at[feed[cursor + 1]] = window'.head
        BY <1>2, <1>3, <2>3, <3>1
      <4> QED BY <4>1
    <3>2. CASE window'.head = window.head
      <4>1. \A i \in DOMAIN feed : i <= cursor => i <= cursor'
        BY <1>2, <2>3
      <4> QED BY <2>2, <3>2, <4>1
    <3> QED BY <2>4, <3>1, <3>2
  <2>7. ASSUME NEW g \in Identity, at[g] # Unbounded
        PROVE  \/ rows[g] = 1
               \/ Holds(at, window', g)
               \/ at[g] >= tip /\ \E i \in DOMAIN feed : i > cursor' /\ feed[i] = g
    <3>1. CASE rows[g] = 1 \/ Holds(at, window, g)
      BY <2>4, <3>1
    <3>2. CASE at[g] >= tip /\ \E i \in DOMAIN feed : i > cursor /\ feed[i] = g
      <4>1. PICK i \in DOMAIN feed : i > cursor /\ feed[i] = g
        BY <3>2
      <4>2. CASE i = cursor + 1
        BY <1>3, <2>4, <4>1, <4>2
      <4>3. CASE i > cursor + 1
        BY <1>2, <3>2, <4>1, <4>3
      <4> QED BY <2>3, <4>1, <4>2, <4>3
    <3> QED BY <2>2, <2>7, <3>1, <3>2
  <2> QED BY <2>2, <2>4, <2>5, <2>6, <2>7
<1> QED BY <1>9, <1>10, <1>11

(* The lowest matured group is written only once nothing published below   *)
(* it can still come: the head is Depth above it, an event still to come   *)
(* at most Jitter below the head.                                          *)
LEMMA FlushKept ==
  ASSUME Base, FeedInv, Orderly, StoredKept, LiveKeeps, phase = "live", window.healthy, ~Bounded,
         at' = at, NEW k \in window.maturing, k \in DOMAIN window.pending,
         \A j \in DOMAIN window.pending : k <= j,
         write(window.pending[k].position, window.pending[k].rows)
  PROVE  /\ k <= tip_ms /\ stored_position'.time_ms = k
         /\ Kept(at, rows', stored_position')
         /\ Kept(at, rows', advance(window.watermark, window.pending[k].position))
         /\ \A h \in Identity : rows[h] = 1 \/ h \in Elems(window.pending[k].rows) => rows'[h] = 1
<1> DEFINE g == window.pending[k]
<1>1. TypeOK /\ PendingInv /\ SourceInv
  BY DEF Base
<1>2. /\ stored_position' = advance(stored_position, g.position)
      /\ stored_position' \in Frontiers
      /\ stored_position'.time_ms = k
      /\ \A h \in Identity : rows'[h] = 1 <=> rows[h] = 1 \/ h \in Elems(g.rows)
  BY FlushWrote
<1>3. /\ k \in Int /\ g.position \in Frontiers /\ stored_position \in Frontiers
      /\ window.watermark \in Frontiers /\ window.head \in Int
  <2>1. k \in Int /\ g.position \in Frontiers
    BY <1>1, PendingOf
  <2>2. stored_position \in Frontiers /\ window.watermark \in Frontiers /\ window.head \in Int
    BY <1>1, SettledFields
  <2> QED BY <2>1, <2>2
<1>4. /\ g.position.time_ms = k /\ g.position.seen = Elems(g.rows)
      /\ window.head >= k + Depth
  <2>1. Group(at, rows, g.position, g.rows, k) /\ window.head >= k + Depth
    BY <1>1 DEF PendingInv
  <2>2. g.position = [time_ms |-> k, seen |-> Elems(g.rows)]
    BY <2>1 DEF Group
  <2> HIDE DEF g
  <2> QED BY <2>1, <2>2
<1>5. Depth \in Nat /\ Depth > 0 /\ Jitter \in Nat /\ Depth >= Jitter
  BY Depths DEF Orderly
<1>6. /\ Kept(at, rows, window.watermark)
      /\ window.head <= tip \/ \E i \in DOMAIN feed : i <= cursor /\ at[feed[i]] = window.head
      /\ \A h \in Identity : at[h] # Unbounded =>
           \/ rows[h] = 1
           \/ Holds(at, window, h)
           \/ at[h] >= tip /\ \E i \in DOMAIN feed : i > cursor /\ feed[i] = h
  BY DEF LiveKeeps
<1>7. /\ cursor \in Int /\ DOMAIN feed \subseteq Int /\ tip \in Int
      /\ \A h \in Identity : at[h] \in Int
      /\ \A i \in DOMAIN feed : feed[i] \in Identity
  BY <1>1, AtInt DEF TypeOK
<1>8. ASSUME NEW h \in Identity, at[h] # Unbounded, at[h] < k PROVE rows[h] = 1
  <2>1. at[h] \in Int
    BY <1>7
  <2>2. ~Holds(at, window, h)
    BY <1>3, <1>8, <2>1 DEF Holds
  <2>3. ASSUME at[h] >= tip, NEW i \in DOMAIN feed, i > cursor, feed[i] = h PROVE FALSE
    <3>1. CASE window.head <= tip
      BY <1>3, <1>4, <1>5, <1>7, <1>8, <2>1, <2>3, <3>1
    <3>2. ASSUME NEW j \in DOMAIN feed, j <= cursor, at[feed[j]] = window.head PROVE FALSE
      <4>1. j < i
        BY <1>7, <2>3, <3>2
      <4>2. at[feed[j]] - Jitter <= at[feed[i]]
        BY <4>1 DEF FeedInv
      <4>3. window.head - Jitter <= at[h]
        BY <2>3, <3>2, <4>2
      <4> QED BY <1>3, <1>4, <1>5, <1>8, <2>1, <4>3
    <3> QED BY <1>6, <3>1, <3>2
  <2> QED BY <1>6, <1>8, <2>2, <2>3
<1>9. Kept(at, rows', g.position)
  <2>1. ASSUME NEW h \in Identity, at[h] # Unbounded, Covers(at, g.position, h) PROVE rows'[h] = 1
    <3>1. CASE at[h] < k
      BY <1>2, <1>8, <2>1, <3>1
    <3>2. CASE h \in Elems(g.rows)
      BY <1>2, <3>2
    <3> QED BY <1>4, <2>1, <3>1, <3>2 DEF Covers
  <2> QED BY <1>2, <1>4, <2>1 DEF Kept
<1>10. Kept(at, rows', stored_position) /\ Kept(at, rows', window.watermark)
  BY <1>2, <1>6, KeptGrows DEF StoredKept
<1> HIDE DEF g
<1>11. Kept(at, rows', stored_position') /\ Kept(at, rows', advance(window.watermark, g.position))
  BY <1>2, <1>3, <1>7, <1>9, <1>10, KeptAdvance
<1>12. k <= tip_ms
  <2>1. NewestBounds
    BY <1>1, NewestBound
  <2>2. CASE window.head <= tip
    <3>1. tip <= tip_ms /\ tip_ms \in Int
      BY <2>1 DEF StoredKept, NewestBounds
    <3> QED BY <1>3, <1>4, <1>5, <1>7, <2>2, <3>1
  <2>3. ASSUME NEW i \in DOMAIN feed, at[feed[i]] = window.head PROVE k <= tip_ms
    <3>1. window.head <= Newest /\ Newest \in Int /\ tip_ms \in Int /\ tip_ms >= Newest - Jitter
      BY <1>7, <2>1, <2>3 DEF NewestBounds
    <3> QED BY <1>3, <1>4, <1>5, <3>1
  <2> QED BY <1>6, <2>2, <2>3
<1> QED BY <1>2, <1>11, <1>12 DEF g

(* One turn of the flush loop.                                             *)
LEMMA FlushLost == ASSUME Base, LostInv, flush_matured PROVE LostInv'
<1>1. TypeOK /\ PendingInv
  BY DEF Base
<1>2. /\ phase = "live" /\ phase' = phase /\ window.healthy
      /\ UNCHANGED <<at, feed, sorts, tip, last, fetched, cursor, to_block, settled>>
  BY FlushCases
<1>3. PICK k \in window.maturing :
        /\ k \in DOMAIN window.pending /\ \A j \in DOMAIN window.pending : k <= j
        /\ Flushes(k) \/ FlushFails(k)
  BY FlushCases
<1>4. /\ phase' \notin Filling /\ (Bounded' <=> Bounded) /\ tip_ms' = tip_ms
  BY <1>2, CutSame, TipSame DEF Filling
<1>5. ~Bounded /\ FeedInv
  BY <1>3 DEF LostInv, CappedInv
<1>6. FeedInv' /\ CappedInv'
  BY <1>2, <1>4, <1>5 DEF FeedInv, CappedInv
<1>7. SUFFICES ASSUME Orderly
               PROVE  StoredKept' /\ ResumeKept' /\ BlockKeeps' /\ WindowKeeps' /\ LiveKeeps'
  BY <1>2, <1>6 DEF LostInv, Orderly
<1>8. StoredKept /\ LiveKeeps
  BY <1>7 DEF LostInv
<1>9. ASSUME write(window.pending[k].position, window.pending[k].rows)
      PROVE  /\ k <= tip_ms /\ stored_position'.time_ms = k
             /\ Kept(at, rows', stored_position')
             /\ Kept(at, rows', advance(window.watermark, window.pending[k].position))
             /\ \A h \in Identity : rows[h] = 1 \/ h \in Elems(window.pending[k].rows) => rows'[h] = 1
  BY <1>2, <1>3, <1>5, <1>7, <1>8, <1>9, FlushKept
<1>10. StoredKept'
  <2>1. CASE UNCHANGED storeVars
    <3>1. stored_position' = stored_position /\ rows' = rows
      BY <2>1, StoredSame DEF storeVars
    <3> QED BY <1>2, <1>4, <1>8, <3>1 DEF StoredKept
  <2>2. CASE write(window.pending[k].position, window.pending[k].rows)
    BY <1>2, <1>4, <1>8, <1>9, <2>2 DEF StoredKept
  <2> QED BY <1>3, <2>1, <2>2 DEF Flushes, FlushFails
<1>11. ResumeKept' /\ BlockKeeps' /\ WindowKeeps'
  BY <1>4 DEF ResumeKept, BlockKeeps, WindowKeeps
<1>12. window \in [healthy : BOOLEAN, pending : Pendings, head : Instants \cup {Unbounded},
                   watermark : Frontiers, maturing : SUBSET Instants]
  BY <1>1 DEF TypeOK
<1>13. CASE FlushFails(k)
  <2>1. ~window'.healthy
    BY <1>12, <1>13 DEF FlushFails
  <2> QED BY <1>10, <1>11, <2>1 DEF LiveKeeps
<1>14. CASE Flushes(k)
  <2> DEFINE g == window.pending[k]
             rest == [j \in DOMAIN window.pending \ {k} |-> window.pending[j]]
             W == advance(window.watermark, g.position)
  <2>1. /\ write(g.position, g.rows)
        /\ window' = [window EXCEPT !.pending = rest, !.watermark = W, !.maturing = @ \ {k}]
    BY <1>14 DEF Flushes
  <2>2. /\ k <= tip_ms /\ Kept(at, rows', W)
        /\ \A h \in Identity : rows[h] = 1 \/ h \in Elems(g.rows) => rows'[h] = 1
    BY <1>9, <2>1
  <2>3. W.time_ms = k
    <3>1. /\ g.position \in Frontiers /\ window.watermark \in Frontiers /\ k \in Int
          /\ window.watermark.time_ms \in Int
      <4>1. g.position \in Frontiers /\ k \in Int
        BY <1>1, <1>3, PendingOf
      <4>2. window.watermark \in Frontiers /\ window.watermark.time_ms \in Int
        BY <1>1, SettledFields
      <4> QED BY <4>1, <4>2
    <3>2. g.position.time_ms = k /\ window.watermark.time_ms <= k
      <4>1. Group(at, rows, g.position, g.rows, k) /\ window.watermark.time_ms <= k
        BY <1>1, <1>3 DEF PendingInv
      <4>2. g.position = [time_ms |-> k, seen |-> Elems(g.rows)]
        BY <4>1 DEF Group
      <4> HIDE DEF g
      <4> QED BY <4>1, <4>2
    <3> QED BY <3>1, <3>2, FrontierAdvance
  <2>4. DOMAIN rest = DOMAIN window.pending \ {k} /\ \A j \in DOMAIN rest : rest[j] = window.pending[j]
    OBVIOUS
  <2> HIDE DEF rest, W
  <2>5. window'.pending = rest /\ window'.watermark = W /\ window'.head = window.head
    BY <1>12, <2>1
  <2>6. ASSUME NEW h \in Identity, Holds(at, window, h) PROVE rows'[h] = 1 \/ Holds(at, window', h)
    <3>1. CASE at[h] = k
      BY <2>2, <2>6, <3>1 DEF Holds
    <3>2. CASE at[h] # k
      BY <2>4, <2>5, <2>6, <3>2 DEF Holds
    <3> QED BY <3>1, <3>2
  <2>7. /\ cursor <= Len(feed)
        /\ window.head <= tip \/ \E i \in DOMAIN feed : i <= cursor /\ at[feed[i]] = window.head
        /\ \A h \in Identity : at[h] # Unbounded =>
             \/ rows[h] = 1
             \/ Holds(at, window, h)
             \/ at[h] >= tip /\ \E i \in DOMAIN feed : i > cursor /\ feed[i] = h
    BY <1>2, <1>5, <1>8 DEF LiveKeeps
  <2>8. \A h \in Identity : at[h] # Unbounded =>
          \/ rows'[h] = 1
          \/ Holds(at, window', h)
          \/ at[h] >= tip /\ \E i \in DOMAIN feed : i > cursor /\ feed[i] = h
    BY <2>2, <2>6, <2>7
  <2>9. LiveKeeps'
    BY <1>2, <1>4, <2>2, <2>3, <2>5, <2>7, <2>8 DEF LiveKeeps
  <2> QED BY <1>10, <1>11, <2>9
<1> QED BY <1>3, <1>13, <1>14

(* LostInv is inductive relative to Base: one case per action.             *)
LEMMA StepLost == ASSUME Base, LostInv, [Next]_vars PROVE LostInv'
<1>1. CASE publish
  BY <1>1, PublishLost
<1>2. CASE subscribe_live \/ read_tip
  BY <1>2, SubscribeLost
<1>3. CASE open_segments
  BY <1>3, OpenLost
<1>4. CASE poll_replay
  BY <1>4, ReplayLost
<1>5. CASE poll_backfill
  BY <1>5, BackfillLost
<1>6. CASE finish_backfill
  BY <1>6, FinishLost
<1>7. CASE live_event
  BY <1>7, LiveLost
<1>8. CASE flush_matured
  BY <1>8, FlushLost
<1>9. CASE stream_ends \/ restart
  BY <1>9, ClosedLost DEF stream_ends, restart
<1>10. CASE UNCHANGED vars
  <2>1. /\ UNCHANGED <<sourceVars, storeVars, tip, last, fetched, cursor, to_block, settled, window>>
        /\ phase' = phase
    BY <1>10 DEF vars, streamVars
  <2> QED BY <2>1, SameLost
<1> QED BY <1>1, <1>2, <1>3, <1>4, <1>5, <1>6, <1>7, <1>8, <1>9, <1>10 DEF Next

(* Completeness: over a feed that sorts what it is asked for, under a      *)
(* depth that covers the jitter of the feed, a healthy live tail that has  *)
(* caught up has stored, or still holds in its window, every event that    *)
(* was ever published; neither an overlapping resume, the hand-over from   *)
(* backfill to live, nor an ambiguous commit before a restart drops one.   *)
THEOREM NothingEverLost == Spec => []NothingLost
<1>1. Init => LostInv
  BY InitLost
<1>2. Base /\ LostInv /\ [Next]_vars => LostInv'
  BY StepLost
<1>3. Base /\ LostInv => NothingLost
  <2> SUFFICES ASSUME Base, LostInv, sorts, Depth >= Jitter, Healthy, phase = "live", ~Bounded,
                      cursor = Len(feed), NEW h \in Published
               PROVE  rows[h] > 0 \/ InWindow(h)
    BY DEF NothingLost
  <2>1. TypeOK /\ PendingInv
    BY DEF Base
  <2>2. h \in Identity /\ at[h] # Unbounded
    BY DEF Published
  <2>3. LiveKeeps /\ window.healthy
    BY DEF LostInv, Orderly, Healthy
  <2>4. \/ rows[h] = 1
        \/ Holds(at, window, h)
        \/ \E i \in DOMAIN feed : i > cursor
    BY <2>2, <2>3 DEF LiveKeeps
  <2>5. ~\E i \in DOMAIN feed : i > cursor
    BY <2>1 DEF TypeOK
  <2>6. ASSUME Holds(at, window, h) PROVE InWindow(h)
    <3>1. at[h] \in DOMAIN window.pending /\ h \in Elems(window.pending[at[h]].rows)
      BY <2>6 DEF Holds
    <3>2. Distinct(window.pending[at[h]].rows)
      BY <2>1, <3>1 DEF PendingInv, Group
    <3>3. Occurs(h, window.pending[at[h]].rows) = 1
      BY <3>1, <3>2, OccursOnce
    <3> QED BY <3>1, <3>3 DEF InWindow
  <2> QED BY <2>4, <2>5, <2>6
<1> QED BY <1>1, <1>2, <1>3, BaseAlways, PTL DEF Spec
=============================================================================
