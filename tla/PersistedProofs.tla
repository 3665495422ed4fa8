-------------------------- MODULE PersistedProofs --------------------------
(***************************************************************************)
(* Proofs about Persisted, for chains of any height, any depth, any start  *)
(* block, any page width, any rows and any queue: the stored blocks are a  *)
(* durable prefix of the canonical chain, downstream has had every stored  *)
(* row, what the backfill and the live tail share is delivered once, and   *)
(* the writer only stops for a reorganisation or an error.                 *)
(*                                                                         *)
(* The order is: facts on naturals and on sequences; what the recursive    *)
(* functions of the window and of the event source compute; Base, the      *)
(* control state, with one lemma per action; the parts of Inv that speak   *)
(* of the chain, with one lemma per part and action; the refinement; what  *)
(* was delivered; the boundary between backfill and live tail.             *)
(***************************************************************************)
EXTENDS PersistedBoundary, WellFoundedInduction, SequenceTheorems, FiniteSetTheorems, TLAPS

(* Every non-empty set of naturals has a least element.                    *)
LEMMA Least ==
  ASSUME NEW T \in SUBSET Nat, T # {}
  PROVE  \E x \in T : \A y \in T : x <= y
<1>1. PICK x \in T : \A y \in T : ~ (<<y, x>> \in OpToRel(<, Nat))
  BY NatLessThanWellFounded, WFMin
<1>2. \A y \in T : ~(y < x)
  BY <1>1 DEF OpToRel
<1> QED BY <1>2

(* A set of naturals that holds 0 and is closed under successor is Nat:    *)
(* induction as a fact about a set, which the provers can instantiate.     *)
LEMMA Induction ==
  ASSUME NEW T \in SUBSET Nat, 0 \in T, \A n \in T : n + 1 \in T
  PROVE  T = Nat
<1> SUFFICES ASSUME Nat \ T # {} PROVE FALSE
  OBVIOUS
<1>1. PICK x \in Nat \ T : \A y \in Nat \ T : x <= y
  BY Least
<1>2. x # 0 /\ x - 1 \in T
  BY <1>1
<1> QED BY <1>1, <1>2

-----------------------------------------------------------------------------
(***************************************************************************)
(* Items, and what it is for a queue to continue a block: after the rows   *)
(* already taken, its rest is the content of the canonical chain.          *)
(***************************************************************************)

(* The live item of a row, and below it that of a retraction.              *)
Ev(g, r) == [kind |-> "Event", key |-> g, row |-> r]

(* The notice that a log of a height was removed.                          *)
Re(g) == [kind |-> "Retract", key |-> g]

(* The items a query returns, and the items of the live source.            *)
Event == [kind : {"Event"}, key : Heights, row : Row]

(* What the live source may hold: events and retractions.                  *)
Item == Event \cup [kind : {"Retract"}, key : Heights]

(* No item of F is about height g.                                         *)
Absent(F, g) == \A j \in DOMAIN F : F[j].key # g

(* With got already taken, F delivers exactly the rest of the rows c of    *)
(* height g: as one contiguous run, which starts at once when part of it   *)
(* is taken, and nothing else of that height. Every invariant about events *)
(* in flight is stated with it.                                            *)
Continues(F, g, got, c) ==
  /\ Len(got) <= Len(c) /\ \A i \in 1..Len(got) : got[i] = c[i]
  /\ \E k \in 0..(Len(F) - (Len(c) - Len(got))) :
       /\ Len(got) \in 1..(Len(c) - 1) => k = 0
       /\ \A i \in 1..(Len(c) - Len(got)) : F[k + i] = Ev(g, c[Len(got) + i])
       /\ \A j \in DOMAIN F : F[j].key = g => j \in (k + 1)..(k + Len(c) - Len(got))

(* When nothing of the height is left in F, everything was taken.          *)
LEMMA ContinuesDone ==
  ASSUME NEW F \in Seq(Item), NEW g, NEW got \in Seq(Row), NEW c \in Seq(Row),
         Continues(F, g, got, c), Absent(F, g)
  PROVE  got = c
<1>1. PICK k \in 0..(Len(F) - (Len(c) - Len(got))) :
       /\ \A i \in 1..(Len(c) - Len(got)) : F[k + i] = Ev(g, c[Len(got) + i])
  BY DEF Continues
<1>2. Len(got) <= Len(c) /\ \A i \in 1..Len(got) : got[i] = c[i]
  BY DEF Continues
<1>3. ASSUME Len(got) < Len(c) PROVE FALSE
  <2>1. 1 \in 1..(Len(c) - Len(got)) /\ k + 1 \in DOMAIN F
    BY <1>3
  <2>2. F[k + 1] = Ev(g, c[Len(got) + 1])
    BY <1>1, <2>1
  <2>3. F[k + 1].key = g
    BY <2>2 DEF Ev
  <2> QED BY <2>1, <2>3 DEF Absent
<1> QED BY <1>2, <1>3, SeqEqual

(* A height that is complete and absent continues trivially.               *)
LEMMA ContinuesComplete ==
  ASSUME NEW F \in Seq(Item), NEW g, NEW c \in Seq(Row), Absent(F, g)
  PROVE  Continues(F, g, c, c)
BY DEF Continues, Absent

(* Taking an item of another height changes nothing.                       *)
LEMMA ContinuesTailOther ==
  ASSUME NEW F \in Seq(Item), NEW g, NEW got \in Seq(Row), NEW c \in Seq(Row),
         Continues(F, g, got, c), F # <<>>, Head(F).key # g
  PROVE  Continues(Tail(F), g, got, c)
<1>1. PICK k \in 0..(Len(F) - (Len(c) - Len(got))) :
       /\ Len(got) \in 1..(Len(c) - 1) => k = 0
       /\ \A i \in 1..(Len(c) - Len(got)) : F[k + i] = Ev(g, c[Len(got) + i])
       /\ \A j \in DOMAIN F : F[j].key = g => j \in (k + 1)..(k + Len(c) - Len(got))
  BY DEF Continues
<1>2. Len(got) <= Len(c) /\ \A i \in 1..Len(got) : got[i] = c[i]
  BY DEF Continues
<1>3. /\ Len(Tail(F)) = Len(F) - 1 /\ \A j \in DOMAIN Tail(F) : Tail(F)[j] = F[j + 1]
      /\ Len(F) \in Nat /\ Len(F) >= 1 /\ Head(F) = F[1]
      /\ DOMAIN F = 1..Len(F) /\ DOMAIN Tail(F) = 1..(Len(F) - 1)
  OBVIOUS
<1>4. CASE Len(got) = Len(c)
  <2>1. \A j \in DOMAIN F : F[j].key # g
    BY <1>1, <1>4
  <2>2. Absent(Tail(F), g)
    BY <2>1, <1>3 DEF Absent
  <2>3. got = c /\ Tail(F) \in Seq(Item)
    BY <1>2, <1>4, SeqEqual
  <2> QED BY <2>2, <2>3, ContinuesComplete
<1>5. CASE Len(got) < Len(c)
  <2>1. k # 0
    <3> SUFFICES ASSUME k = 0 PROVE FALSE
      OBVIOUS
    <3>1. F[k + 1] = Ev(g, c[Len(got) + 1])
      BY <1>1, <1>5
    <3> QED BY <3>1, <1>3 DEF Ev
  <2>2. k - 1 \in 0..(Len(Tail(F)) - (Len(c) - Len(got)))
    BY <2>1, <1>3, <1>2
  <2>3. \A i \in 1..(Len(c) - Len(got)) : Tail(F)[k - 1 + i] = Ev(g, c[Len(got) + i])
    <3> SUFFICES ASSUME NEW i \in 1..(Len(c) - Len(got)) PROVE Tail(F)[k - 1 + i] = Ev(g, c[Len(got) + i])
      OBVIOUS
    <3>1. k - 1 + i \in DOMAIN Tail(F) /\ k - 1 + i + 1 = k + i
      BY <2>2, <1>3
    <3> QED BY <3>1, <1>3, <1>1
  <2>4. \A j \in DOMAIN Tail(F) : Tail(F)[j].key = g => j \in (k - 1 + 1)..(k - 1 + Len(c) - Len(got))
    <3> SUFFICES ASSUME NEW j \in DOMAIN Tail(F), Tail(F)[j].key = g 
                 PROVE j \in (k - 1 + 1)..(k - 1 + Len(c) - Len(got))
      OBVIOUS
    <3>1. j + 1 \in DOMAIN F /\ F[j + 1].key = g
      BY <1>3
    <3>2. j + 1 \in (k + 1)..(k + Len(c) - Len(got))
      BY <3>1, <1>1
    <3> QED BY <3>2, <1>3
  <2>5. Len(got) \notin 1..(Len(c) - 1) 
    BY <2>1, <1>1
  <2> QED BY <2>2, <2>3, <2>4, <2>5, <1>2 DEF Continues
<1> QED BY <1>2, <1>4, <1>5

(* Taking the next item of the height takes its next row.                  *)
LEMMA ContinuesTailSame ==
  ASSUME NEW F \in Seq(Item), NEW g, NEW got \in Seq(Row), NEW c \in Seq(Row),
         Continues(F, g, got, c), F # <<>>, Head(F).key = g
  PROVE  /\ Head(F).kind = "Event" /\ Head(F).row \in Row
         /\ Continues(Tail(F), g, Append(got, Head(F).row), c)
<1>1. PICK k \in 0..(Len(F) - (Len(c) - Len(got))) :
       /\ Len(got) \in 1..(Len(c) - 1) => k = 0
       /\ \A i \in 1..(Len(c) - Len(got)) : F[k + i] = Ev(g, c[Len(got) + i])
       /\ \A j \in DOMAIN F : F[j].key = g => j \in (k + 1)..(k + Len(c) - Len(got))
  BY DEF Continues
<1>2. Len(got) <= Len(c) /\ \A i \in 1..Len(got) : got[i] = c[i]
  BY DEF Continues
<1>3. /\ Len(Tail(F)) = Len(F) - 1 /\ \A j \in DOMAIN Tail(F) : Tail(F)[j] = F[j + 1]
      /\ Len(F) \in Nat /\ Len(F) >= 1 /\ Head(F) = F[1]
      /\ DOMAIN F = 1..Len(F) /\ DOMAIN Tail(F) = 1..(Len(F) - 1)
  OBVIOUS
<1>4. k = 0 /\ Len(got) < Len(c)
  BY <1>1, <1>3
<1>5. F[1] = Ev(g, c[Len(got) + 1])
  BY <1>1, <1>4
<1>6. Head(F).kind = "Event" /\ Head(F).row = c[Len(got) + 1] /\ Head(F).row \in Row
  BY <1>3, <1>4, <1>5 DEF Ev
<1> DEFINE new == Append(got, Head(F).row)
<1>7. Len(new) = Len(got) + 1 /\ \A i \in 1..Len(new) : new[i] = c[i]
  BY <1>2, <1>6
<1> HIDE DEF new
<1>8. Len(new) <= Len(c)
  BY <1>4, <1>7
<1>9. 0 \in 0..(Len(Tail(F)) - (Len(c) - Len(new)))
  BY <1>1, <1>3, <1>4, <1>7
<1>10. \A i \in 1..(Len(c) - Len(new)) : Tail(F)[0 + i] = Ev(g, c[Len(new) + i])
  <2> SUFFICES ASSUME NEW i \in 1..(Len(c) - Len(new)) PROVE Tail(F)[0 + i] = Ev(g, c[Len(new) + i])
    OBVIOUS
  <2>1. i + 1 \in 1..(Len(c) - Len(got)) /\ i \in DOMAIN Tail(F)
    BY <1>7, <1>3, <1>1, <1>4
  <2>2. F[0 + (i + 1)] = Ev(g, c[Len(got) + (i + 1)])
    BY <1>1, <1>4, <2>1
  <2>3. Len(got) + (i + 1) = Len(new) + i /\ 0 + (i + 1) = i + 1 /\ 0 + i = i
    BY <1>7
  <2> QED BY <2>1, <2>2, <2>3, <1>3
<1>11. \A j \in DOMAIN Tail(F) : Tail(F)[j].key = g => j \in (0 + 1)..(0 + Len(c) - Len(new))
  <2> SUFFICES ASSUME NEW j \in DOMAIN Tail(F), Tail(F)[j].key = g 
               PROVE j \in 1..(Len(c) - Len(new))
    OBVIOUS
  <2>1. j + 1 \in DOMAIN F /\ F[j + 1].key = g
    BY <1>3
  <2>2. j + 1 \in (k + 1)..(k + Len(c) - Len(got))
    BY <2>1, <1>1
  <2> QED BY <2>2, <1>3, <1>4, <1>7
<1>12. Continues(Tail(F), g, new, c)
  BY <1>7, <1>8, <1>9, <1>10, <1>11 DEF Continues
<1> QED BY <1>6, <1>12 DEF new

(* What a concatenation holds.                                             *)
LEMMA Concat ==
  ASSUME NEW S, NEW F \in Seq(S), NEW G \in Seq(S)
  PROVE  /\ F \o G \in Seq(S) /\ Len(F \o G) = Len(F) + Len(G)
         /\ Len(F) \in Nat /\ Len(G) \in Nat
         /\ DOMAIN (F \o G) = 1..(Len(F) + Len(G)) /\ DOMAIN F = 1..Len(F) /\ DOMAIN G = 1..Len(G)
         /\ \A j \in 1..Len(F) : (F \o G)[j] = F[j]
         /\ \A j \in 1..Len(G) : (F \o G)[Len(F) + j] = G[j]
         /\ \A j \in 1..(Len(F) + Len(G)) : j > Len(F) => j - Len(F) \in 1..Len(G) /\ (F \o G)[j] = G[j - Len(F)]
<1>1. DOMAIN (F \o G) = 1..(Len(F) + Len(G)) /\ Len(F \o G) = Len(F) + Len(G) /\ F \o G \in Seq(S)
  OBVIOUS
<1>2. ASSUME NEW j \in 1..Len(F) PROVE (F \o G)[j] = F[j]
  OBVIOUS
<1>3. ASSUME NEW j \in 1..Len(G) PROVE (F \o G)[Len(F) + j] = G[j]
  OBVIOUS
<1>4. ASSUME NEW j \in 1..(Len(F) + Len(G)), j > Len(F) 
      PROVE j - Len(F) \in 1..Len(G) /\ (F \o G)[j] = G[j - Len(F)]
  BY <1>4
<1> QED BY <1>1, <1>2, <1>3, <1>4

(* Items of other heights may be appended.                                 *)
LEMMA ContinuesAppend ==
  ASSUME NEW F \in Seq(Item), NEW G \in Seq(Item), NEW g, NEW got \in Seq(Row), NEW c \in Seq(Row),
         Continues(F, g, got, c), Absent(G, g)
  PROVE  Continues(F \o G, g, got, c)
<1>1. PICK k \in 0..(Len(F) - (Len(c) - Len(got))) :
       /\ Len(got) \in 1..(Len(c) - 1) => k = 0
       /\ \A i \in 1..(Len(c) - Len(got)) : F[k + i] = Ev(g, c[Len(got) + i])
       /\ \A j \in DOMAIN F : F[j].key = g => j \in (k + 1)..(k + Len(c) - Len(got))
  BY DEF Continues
<1>2. Len(got) <= Len(c) /\ \A i \in 1..Len(got) : got[i] = c[i]
  BY DEF Continues
<1> DEFINE H == F \o G
<1>3. /\ Len(H) = Len(F) + Len(G) /\ Len(F) \in Nat /\ Len(G) \in Nat
      /\ DOMAIN H = 1..(Len(F) + Len(G)) /\ DOMAIN F = 1..Len(F) /\ DOMAIN G = 1..Len(G)
      /\ \A j \in 1..Len(F) : H[j] = F[j]
      /\ \A j \in 1..(Len(F) + Len(G)) : j > Len(F) => j - Len(F) \in 1..Len(G) /\ H[j] = G[j - Len(F)]
  BY Concat
<1> HIDE DEF H
<1>4. k \in 0..(Len(H) - (Len(c) - Len(got)))
  BY <1>3, <1>2
<1>5. ASSUME NEW i \in 1..(Len(c) - Len(got)) PROVE H[k + i] = Ev(g, c[Len(got) + i])
  <2>1. k + i \in 1..Len(F)
    BY <1>3
  <2> QED BY <2>1, <1>1, <1>3
<1>6. ASSUME NEW j \in DOMAIN H, H[j].key = g PROVE j \in (k + 1)..(k + Len(c) - Len(got))
  <2>1. CASE j > Len(F)
    <3>1. j - Len(F) \in DOMAIN G /\ G[j - Len(F)].key = g
      BY <1>3, <1>6, <2>1
    <3> QED BY <3>1 DEF Absent
  <2>2. CASE j <= Len(F)
    <3>1. j \in DOMAIN F /\ F[j].key = g
      BY <1>3, <1>6, <2>2
    <3> QED BY <3>1, <1>1
  <2> QED BY <1>3, <2>1, <2>2
<1>7. Continues(H, g, got, c)
  BY <1>1, <1>2, <1>4, <1>5, <1>6 DEF Continues
<1> QED BY <1>7 DEF H

(* A whole block may be appended when nothing of its height was there.     *)
LEMMA ContinuesFresh ==
  ASSUME NEW F \in Seq(Item), NEW G \in Seq(Item), NEW g, NEW c \in Seq(Row), NEW got,
         got = <<>>, Continues(G, g, got, c), Absent(F, g)
  PROVE  Continues(F \o G, g, got, c)
<1>0. Len(got) = 0 /\ Len(c) \in Nat
  OBVIOUS
<1>1. PICK k \in 0..(Len(G) - (Len(c) - Len(got))) :
       /\ \A i \in 1..(Len(c) - Len(got)) : G[k + i] = Ev(g, c[Len(got) + i])
       /\ \A j \in DOMAIN G : G[j].key = g => j \in (k + 1)..(k + Len(c) - Len(got))
  BY DEF Continues
<1> DEFINE H == F \o G
<1>3. /\ Len(H) = Len(F) + Len(G) /\ Len(F) \in Nat /\ Len(G) \in Nat
      /\ DOMAIN H = 1..(Len(F) + Len(G)) /\ DOMAIN F = 1..Len(F) /\ DOMAIN G = 1..Len(G)
      /\ \A j \in 1..Len(F) : H[j] = F[j]
      /\ \A j \in 1..Len(G) : H[Len(F) + j] = G[j]
      /\ \A j \in 1..(Len(F) + Len(G)) : j > Len(F) => j - Len(F) \in 1..Len(G) /\ H[j] = G[j - Len(F)]
  BY Concat
<1> HIDE DEF H
<1> DEFINE m == Len(F) + k
<1>4. m \in 0..(Len(H) - (Len(c) - Len(got)))
  BY <1>0, <1>3
<1>5. ASSUME NEW i \in 1..(Len(c) - Len(got)) PROVE H[m + i] = Ev(g, c[Len(got) + i])
  <2>1. k + i \in 1..Len(G) /\ m + i = Len(F) + (k + i)
    BY <1>0, <1>3
  <2> QED BY <2>1, <1>1, <1>3
<1>6. ASSUME NEW j \in DOMAIN H, H[j].key = g PROVE j \in (m + 1)..(m + Len(c) - Len(got))
  <2>1. j > Len(F)
    <3> SUFFICES ASSUME ~(j > Len(F)) PROVE FALSE
      OBVIOUS
    <3>1. j \in DOMAIN F /\ F[j].key = g
      BY <1>3, <1>6
    <3> QED BY <3>1 DEF Absent
  <2>2. j - Len(F) \in DOMAIN G /\ G[j - Len(F)].key = g
    BY <1>3, <1>6, <2>1
  <2>3. j - Len(F) \in (k + 1)..(k + Len(c) - Len(got))
    BY <2>2, <1>1
  <2> QED BY <2>3, <1>0, <1>3
<1> HIDE DEF m
<1>7. Continues(H, g, got, c)
  <2>1. Len(got) <= Len(c) /\ \A i \in 1..Len(got) : got[i] = c[i]
    BY DEF Continues
  <2>2. Len(got) \notin 1..(Len(c) - 1)
    BY <1>0
  <2> QED BY <2>1, <2>2, <1>4, <1>5, <1>6 DEF Continues
<1> QED BY <1>7 DEF H

-----------------------------------------------------------------------------
(***************************************************************************)
(* What the recursive function behind the items of an event source         *)
(* computes, and how a source step moves chain and queue.                  *)
(***************************************************************************)

(* The rows of a height on a fork, none above its top.                     *)
Content(fork, h) == IF h \in DOMAIN fork THEN fork[h] ELSE <<>>

(* Items, one height at a time: the unfolding of its recursive function.   *)
LEMMA ItemsStep ==
  ASSUME NEW removed, NEW fork, NEW from \in Nat, NEW to \in Int, to >= from
  PROVE  Items(removed, fork, from, to) =
           Items(removed, fork, from, to - 1) \o
             (IF to \in DOMAIN fork THEN BlockItems(removed, to, fork[to]) ELSE <<>>)
<1> DEFINE Blk(h) == IF h \in DOMAIN fork THEN BlockItems(removed, h, fork[h]) ELSE <<>>
           low == from - 1
           G(f, t) == f = [h \in low..t |-> IF h < from THEN <<>> ELSE f[h - 1] \o Blk(h)]
           The(t) == CHOOSE f : G(f, t)
<1>0. ASSUME NEW f, NEW t, G(f, t), NEW h \in low..t
      PROVE  f[h] = IF h < from THEN <<>> ELSE f[h - 1] \o Blk(h)
  <2> HIDE DEF Blk, low
  <2>1. [x \in low..t |-> IF x < from THEN <<>> ELSE f[x - 1] \o Blk(x)][h]
          = IF h < from THEN <<>> ELSE f[h - 1] \o Blk(h)
    OBVIOUS
  <2> QED BY <1>0, <2>1, Zenon
<1>1. ASSUME NEW t \in Int
      PROVE Items(removed, fork, from, t) = IF t < from THEN <<>> ELSE The(t)[t]
  BY DEF Items
<1>2. \A n \in Nat : \E f : G(f, low + n)
  <2> DEFINE T == {n \in Nat : \E f : G(f, low + n)}
  <2>1. 0 \in T
    <3> DEFINE f0 == [h \in low..(low + 0) |-> <<>>]
    <3>1. \A h \in low..(low + 0) : h < from
      OBVIOUS
    <3>2. G(f0, low + 0)
      <4> HIDE DEF Blk, low
      <4> QED BY <3>1
    <3> QED BY <3>2
  <2>2. ASSUME NEW n \in T PROVE n + 1 \in T
    <3>1. PICK f : G(f, low + n)
      OBVIOUS
    <3> DEFINE nx == low + (n + 1)
               f2 == [h \in low..nx |-> IF h = nx THEN f[h - 1] \o Blk(h) ELSE f[h]]
    <3>2. ASSUME NEW h \in low..nx
          PROVE  f2[h] = IF h < from THEN <<>> ELSE f2[h - 1] \o Blk(h)
      <4> HIDE DEF Blk
      <4>1. CASE h = nx
        <5>1. h - 1 \in low..nx /\ h - 1 # nx /\ ~(h < from)
          BY <4>1
        <5> QED BY <4>1, <5>1
      <4>2. CASE h # nx /\ h >= from
        <5>1. h \in low..(low + n) /\ h - 1 \in low..nx /\ h - 1 # nx
          BY <4>2
        <5>2. f[h] = f[h - 1] \o Blk(h)
          <6>1. ~(h < from)
            BY <4>2
          <6> HIDE DEF G, low
          <6> QED BY <1>0, <3>1, <5>1, <6>1
        <5>3. f2[h] = f[h] /\ f2[h - 1] = f[h - 1]
          BY <4>2, <5>1
        <5> HIDE DEF f2
        <5> QED BY SMTT(30), <4>2, <5>2, <5>3
      <4>3. CASE h # nx /\ h < from
        <5>1. h \in low..(low + n)
          BY <4>3
        <5>2. f[h] = <<>>
          BY <1>0, <3>1, <5>1, <4>3
        <5> QED BY <4>3, <5>1, <5>2
      <4> QED BY <4>1, <4>2, <4>3
    <3>3. G(f2, nx)
      <4>1. f2 = [h \in low..nx |-> f2[h]]
        OBVIOUS
      <4> HIDE DEF f2, Blk
      <4> QED BY <3>2, <4>1
    <3>4. nx = low + (n + 1) /\ n + 1 \in Nat
      OBVIOUS
    <3> HIDE DEF f2, G, low, nx
    <3> QED BY <3>3, <3>4
  <2> HIDE DEF T
  <2>3. T = Nat
    <3>1. T \in SUBSET Nat
      BY DEF T
    <3> QED BY <2>1, <2>2, <3>1, Induction
  <2> QED BY <2>3 DEF T
<1>3. ASSUME NEW t \in Int, t >= low PROVE G(The(t), t)
  <2>1. t - low \in Nat /\ low + (t - low) = t
    BY <1>3
  <2>2. \E f : G(f, t)
    BY <1>2, <2>1
  <2> HIDE DEF G
  <2> QED BY <2>2
<1>4. \A n \in Nat : low + n <= to - 1 => The(to)[low + n] = The(to - 1)[low + n]
  <2> DEFINE T == {n \in Nat : low + n <= to - 1 => The(to)[low + n] = The(to - 1)[low + n]}
             f == The(to)
             g == The(to - 1)
  <2>0. G(f, to) /\ G(g, to - 1)
    <3>1. to \in Int /\ to >= low /\ to - 1 \in Int /\ to - 1 >= low
      OBVIOUS
    <3> HIDE DEF G, low, The
    <3> QED BY <1>3, <3>1
  <2> HIDE DEF f, g
  <2>1. 0 \in T
    <3>1. low + 0 <= to - 1 => f[low + 0] = g[low + 0]
      <4>1. ASSUME low + 0 <= to - 1
            PROVE  low + 0 \in low..to /\ low + 0 \in low..(to - 1) /\ low + 0 < from
        BY <4>1
      <4> HIDE DEF low, Blk, G
      <4> QED BY <1>0, <2>0, <4>1
    <3> QED BY <3>1 DEF f, g
  <2>2. ASSUME NEW n \in T PROVE n + 1 \in T
    <3>1. low + (n + 1) <= to - 1 => f[low + (n + 1)] = g[low + (n + 1)]
      <4> SUFFICES ASSUME low + (n + 1) <= to - 1 PROVE f[low + (n + 1)] = g[low + (n + 1)]
        OBVIOUS
      <4>1. f[low + n] = g[low + n]
        BY DEF f, g
      <4> HIDE DEF Blk
      <4> DEFINE h == low + (n + 1)
      <4>2. h \in low..to /\ h \in low..(to - 1) /\ ~(h < from) /\ h - 1 = low + n
        OBVIOUS
      <4> HIDE DEF h
      <4>3. f[h] = f[h - 1] \o Blk(h) /\ g[h] = g[h - 1] \o Blk(h)
        <5> HIDE DEF low, G
        <5> QED BY <1>0, <2>0, <4>2
      <4> QED BY <4>1, <4>2, <4>3 DEF h
    <3> QED BY <3>1 DEF f, g
  <2> HIDE DEF T
  <2>3. T = Nat
    <3>1. T \in SUBSET Nat
      BY DEF T
    <3> QED BY <2>1, <2>2, <3>1, Induction
  <2> QED BY <2>3 DEF T
<1>5. The(to)[to] = The(to)[to - 1] \o Blk(to)
  <2> DEFINE f == The(to)
  <2>1. G(f, to)
    <3>1. to >= low
      OBVIOUS
    <3> HIDE DEF G, low, The
    <3> QED BY <1>3, <3>1
  <2>2. to \in low..to /\ ~(to < from)
    OBVIOUS
  <2> HIDE DEF f, Blk, G, low
  <2>3. f[to] = f[to - 1] \o Blk(to)
    BY <1>0, <2>1, <2>2
  <2> QED BY <2>3 DEF f
<1>6. The(to)[to - 1] = Items(removed, fork, from, to - 1)
  <2>1. CASE to = from
    <3> DEFINE f == The(to)
    <3>1. G(f, to)
      <4>1. to >= low
        OBVIOUS
      <4> HIDE DEF G, low, The
      <4> QED BY <1>3, <4>1
    <3>2. to - 1 \in low..to /\ to - 1 < from /\ to - 1 \in Int
      BY <2>1
    <3> HIDE DEF f, G, low, Blk
    <3>3. f[to - 1] = <<>>
      BY <1>0, <3>1, <3>2
    <3>4. Items(removed, fork, from, to - 1) = <<>>
      <4> HIDE DEF The
      <4> QED BY <1>1, <3>2
    <3> QED BY <3>3, <3>4 DEF f
  <2>2. CASE to > from
    <3>1. to - 1 - low \in Nat /\ low + (to - 1 - low) = to - 1
      BY <2>2
    <3>2. The(to)[to - 1] = The(to - 1)[to - 1]
      <4>1. low + (to - 1 - low) <= to - 1
        OBVIOUS
      <4>2. The(to)[low + (to - 1 - low)] = The(to - 1)[low + (to - 1 - low)]
        <5> HIDE DEF The, low
        <5> QED BY <1>4, <3>1, <4>1
      <4> HIDE DEF The, low
      <4> QED BY <3>1, <4>2
    <3>3. to - 1 \in Int /\ ~(to - 1 < from)
      BY <2>2
    <3> HIDE DEF The
    <3> QED BY <1>1, <3>2, <3>3
  <2> QED BY <2>1, <2>2
<1>7. Items(removed, fork, from, to) = The(to)[to]
  <2> HIDE DEF The
  <2> QED BY <1>1
<1> HIDE DEF The
<1> QED BY <1>5, <1>6, <1>7

(* An empty range has no items.                                            *)
LEMMA ItemsNone ==
  ASSUME NEW removed, NEW fork, NEW from \in Int, NEW to \in Int, to < from
  PROVE  Items(removed, fork, from, to) = <<>>
BY DEF Items

(* A function from heights to sequences of rows.                           *)
IsFork(f) == DOMAIN f \subseteq Heights /\ \A h \in DOMAIN f : f[h] \in Seq(Row)

(* The retraction items alone.                                             *)
Retraction == [kind : {"Retract"}, key : Heights]

(* All items of F are about heights of the range.                          *)
Within(F, from, to) == \A j \in DOMAIN F : F[j].key \in from..to

(* F is in the order of its heights.                                       *)
Sorted(F) == \A i, j \in DOMAIN F : i <= j => F[i].key <= F[j].key

(* The items of one added block are its rows, in order.                    *)
LEMMA EventBlock ==
  ASSUME NEW h \in Heights, NEW rows \in Seq(Row)
  PROVE  /\ BlockItems(FALSE, h, rows) \in Seq(Event)
         /\ Len(BlockItems(FALSE, h, rows)) = Len(rows)
         /\ DOMAIN BlockItems(FALSE, h, rows) = 1..Len(rows)
         /\ \A i \in 1..Len(rows) : BlockItems(FALSE, h, rows)[i] = Ev(h, rows[i])
<1> DEFINE b == BlockItems(FALSE, h, rows)
<1>1. b = [i \in 1..Len(rows) |-> Ev(h, rows[i])]
  BY DEF BlockItems, live_item, Ev
<1>2. \A i \in 1..Len(rows) : Ev(h, rows[i]) \in Event
  BY DEF Ev, Event
<1>3. Len(rows) \in Nat
  OBVIOUS
<1> HIDE DEF b
<1>4. b \in [1..Len(rows) -> Event]
  BY <1>1, <1>2
<1>5. b \in Seq(Event)
  BY <1>3, <1>4, SeqDef
<1>6. Len(b) = Len(rows) /\ DOMAIN b = 1..Len(rows)
  BY <1>3, <1>4, <1>5
<1>7. \A i \in 1..Len(rows) : b[i] = Ev(h, rows[i])
  BY <1>1
<1> QED BY <1>5, <1>6, <1>7 DEF b

(* The items of one removed block are retractions of its height.           *)
LEMMA RetractBlock ==
  ASSUME NEW h \in Heights, NEW rows \in Seq(Row)
  PROVE  /\ BlockItems(TRUE, h, rows) \in Seq(Retraction)
         /\ Len(BlockItems(TRUE, h, rows)) = Len(rows)
         /\ DOMAIN BlockItems(TRUE, h, rows) = 1..Len(rows)
         /\ \A i \in 1..Len(rows) : BlockItems(TRUE, h, rows)[i] = Re(h)
<1> DEFINE b == BlockItems(TRUE, h, rows)
<1>1. b = [i \in 1..Len(rows) |-> Re(h)]
  BY DEF BlockItems, live_item, Re
<1>2. Re(h) \in Retraction
  BY DEF Re, Retraction
<1>3. Len(rows) \in Nat
  OBVIOUS
<1> HIDE DEF b
<1>4. b \in [1..Len(rows) -> Retraction]
  BY <1>1, <1>2
<1>5. b \in Seq(Retraction)
  BY <1>3, <1>4, SeqDef
<1>6. Len(b) = Len(rows) /\ DOMAIN b = 1..Len(rows)
  BY <1>3, <1>4, <1>5
<1>7. \A i \in 1..Len(rows) : b[i] = Re(h)
  BY <1>1
<1> QED BY <1>5, <1>6, <1>7 DEF b

(* Sequences of events, or of retractions, are sequences of items.         *)
LEMMA EventSeqIsItemSeq == Seq(Event) \subseteq Seq(Item) /\ Seq(Retraction) \subseteq Seq(Item)
<1>1. Event \subseteq Item /\ Retraction \subseteq Item
  BY DEF Item, Retraction
<1> QED BY <1>1, SeqMonotonic

(* The items of a block deliver its rows.                                  *)
LEMMA BlockContinues ==
  ASSUME NEW h \in Heights, NEW rows \in Seq(Row), NEW got, got = <<>>
  PROVE  Continues(BlockItems(FALSE, h, rows), h, got, rows)
<1> DEFINE b == BlockItems(FALSE, h, rows)
<1>0. Len(rows) \in Nat
  OBVIOUS
<1>1. /\ Len(b) = Len(rows) /\ DOMAIN b = 1..Len(rows)
      /\ \A i \in 1..Len(rows) : b[i] = Ev(h, rows[i])
  BY EventBlock
<1> HIDE DEF b
<1>2. Len(got) = 0
  OBVIOUS
<1>3. 0 \in 0..(Len(b) - (Len(rows) - Len(got)))
  BY <1>0, <1>1, <1>2
<1>4. \A i \in 1..(Len(rows) - Len(got)) : b[0 + i] = Ev(h, rows[Len(got) + i])
  BY <1>0, <1>1, <1>2
<1>5. \A j \in DOMAIN b : b[j].key = h => j \in (0 + 1)..(0 + Len(rows) - Len(got))
  <2>1. (0 + 1)..(0 + Len(rows) - Len(got)) = 1..Len(rows)
    BY <1>0, <1>1, <1>2
  <2> QED BY <1>1, <2>1
<1>6. Continues(b, h, got, rows)
  BY <1>0, <1>1, <1>2, <1>3, <1>4, <1>5 DEF Continues
<1> QED BY <1>6 DEF b

(* What a range of a fork delivers: its events, in order, each height      *)
(* complete.                                                               *)
AddedOK(s, fork, from, to) ==
  /\ s \in Seq(Event)
  /\ Within(s, from, to)
  /\ Sorted(s)
  /\ \A g \in from..to : Continues(s, g, <<>>, Content(fork, g))

(* Items of a fork deliver that fork, by induction on the last height.     *)
LEMMA AddedItems ==
  ASSUME NEW fork, IsFork(fork), NEW from \in Nat, NEW to \in Int, to >= from - 1
  PROVE  AddedOK(Items(FALSE, fork, from, to), fork, from, to)
<1> DEFINE It(n) == Items(FALSE, fork, from, from - 1 + n)
           T == {n \in Nat : AddedOK(It(n), fork, from, from - 1 + n)}
<1>1. 0 \in T
  <2>1. It(0) = <<>>
    <3>1. from - 1 + 0 \in Int /\ from - 1 + 0 < from /\ from \in Int
      OBVIOUS
    <3> QED BY <3>1, ItemsNone
  <2> HIDE DEF It
  <2>2. AddedOK(<<>>, fork, from, from - 1 + 0)
    <3>1. <<>> \in Seq(Event) /\ DOMAIN <<>> = {} /\ from..(from - 1 + 0) = {}
      OBVIOUS
    <3> QED BY <3>1, Zenon DEF AddedOK, Within, Sorted
  <2> QED BY <2>1, <2>2
<1>2. ASSUME NEW n \in T PROVE n + 1 \in T
  <2> DEFINE h == from - 1 + (n + 1)
             F == It(n)
             G == IF h \in DOMAIN fork THEN BlockItems(FALSE, h, fork[h]) ELSE <<>>
             c == Content(fork, h)
  <2>1. It(n + 1) = F \o G
    <3>1. h \in Int /\ h >= from /\ h - 1 = from - 1 + n
      OBVIOUS
    <3> HIDE DEF h
    <3>2. Items(FALSE, fork, from, h) = Items(FALSE, fork, from, h - 1) \o G
      BY <3>1, ItemsStep
    <3> QED BY <3>1, <3>2 DEF h
  <2>2. AddedOK(F, fork, from, h - 1)
    <3>1. AddedOK(F, fork, from, from - 1 + n)
      OBVIOUS
    <3>2. h - 1 = from - 1 + n
      OBVIOUS
    <3> HIDE DEF h, F
    <3> QED BY <3>1, <3>2
  <2>3. /\ G \in Seq(Event) /\ c \in Seq(Row)
        /\ DOMAIN G = 1..Len(G) /\ \A j \in DOMAIN G : G[j].key = h
        /\ \A got : got = <<>> => Continues(G, h, got, c)
    <3>1. CASE h \in DOMAIN fork
      <4>1. h \in Heights /\ fork[h] \in Seq(Row) /\ c = fork[h] /\ G = BlockItems(FALSE, h, fork[h])
        BY <3>1 DEF IsFork, Content
      <4> HIDE DEF h, G, c
      <4>2. G \in Seq(Event) /\ DOMAIN G = 1..Len(G) /\ \A j \in DOMAIN G : G[j] = Ev(h, fork[h][j])
        BY <4>1, EventBlock
      <4>3. \A j \in DOMAIN G : G[j].key = h
        BY <4>2 DEF Ev
      <4> QED BY <4>1, <4>2, <4>3, BlockContinues
    <3>2. CASE h \notin DOMAIN fork
      <4>1. G = <<>> /\ c = <<>>
        BY <3>2 DEF Content
      <4> HIDE DEF h, G, c
      <4>2. Absent(G, h) /\ G \in Seq(Item) /\ c \in Seq(Row)
        BY <4>1 DEF Absent
      <4>3. Continues(G, h, c, c)
        BY <4>2, ContinuesComplete
      <4> QED BY <4>1, <4>2, <4>3
    <3> QED BY <3>1, <3>2
  <2>4. h \in Int /\ h >= from
    OBVIOUS
  <2> HIDE DEF h, F, G, c
  <2>5. /\ F \in Seq(Event) /\ F \in Seq(Item) /\ G \in Seq(Item)
        /\ \A j \in DOMAIN F : F[j].key \in from..(h - 1)
    BY <2>2, <2>3, EventSeqIsItemSeq DEF AddedOK, Within
  <2>6. /\ F \o G \in Seq(Event)
        /\ Len(F) \in Nat /\ Len(G) \in Nat
        /\ DOMAIN (F \o G) = 1..(Len(F) + Len(G)) /\ DOMAIN F = 1..Len(F)
        /\ \A j \in 1..Len(F) : (F \o G)[j] = F[j]
        /\ \A j \in 1..(Len(F) + Len(G)) : j > Len(F) => j - Len(F) \in 1..Len(G) /\ (F \o G)[j] = G[j - Len(F)]
    BY <2>3, <2>5, Concat
  <2> DEFINE H == F \o G
  <2>7. \A j \in DOMAIN H : IF j <= Len(F) THEN j \in DOMAIN F /\ H[j] = F[j] ELSE H[j].key = h
    BY <2>3, <2>6
  <2>8. Within(H, from, h)
    <3> SUFFICES ASSUME NEW j \in DOMAIN H PROVE H[j].key \in from..h
      BY DEF Within
    <3> HIDE DEF H
    <3> QED BY <2>4, <2>5, <2>7
  <2>9. Sorted(H)
    <3> SUFFICES ASSUME NEW i \in DOMAIN H, NEW j \in DOMAIN H, i <= j
                 PROVE  H[i].key <= H[j].key
      BY DEF Sorted
    <3>1. i \in Nat /\ j \in Nat
      BY <2>6
    <3> HIDE DEF H
    <3>2. CASE j <= Len(F)
      BY <2>2, <2>6, <2>7, <3>1, <3>2 DEF AddedOK, Sorted
    <3>3. CASE j > Len(F)
      BY <2>4, <2>5, <2>6, <2>7, <3>1, <3>3
    <3> QED BY <2>6, <3>1, <3>2, <3>3
  <2>10. ASSUME NEW g \in from..h PROVE Continues(H, g, <<>>, Content(fork, g))
    <3>1. Content(fork, g) \in Seq(Row)
      BY DEF Content, IsFork
    <3>2. CASE g = h
      <4>1. Absent(F, h)
        BY <2>4, <2>5 DEF Absent
      <4> QED BY <2>3, <2>5, <3>2, <4>1, ContinuesFresh DEF c
    <3>3. CASE g < h
      <4>1. Absent(G, g)
        BY <2>3, <2>4, <3>3 DEF Absent
      <4>2. Continues(F, g, <<>>, Content(fork, g))
        BY <2>2, <2>4, <3>3 DEF AddedOK
      <4>3. <<>> \in Seq(Row)
        OBVIOUS
      <4> QED BY <2>5, <3>1, <4>1, <4>2, <4>3, ContinuesAppend
    <3> QED BY <2>4, <3>2, <3>3
  <2>11. AddedOK(It(n + 1), fork, from, h)
    BY <2>1, <2>6, <2>8, <2>9, <2>10 DEF AddedOK
  <2>12. h = from - 1 + (n + 1) /\ n + 1 \in Nat
    BY DEF h
  <2> HIDE DEF It
  <2> QED BY <2>11, <2>12
<1> HIDE DEF T
<1>3. T = Nat
  <2>1. T \in SUBSET Nat
    BY DEF T
  <2> QED BY <1>1, <1>2, <2>1, Induction
<1>4. to - (from - 1) \in Nat /\ from - 1 + (to - (from - 1)) = to
  OBVIOUS
<1>5. to - (from - 1) \in T
  BY <1>3, <1>4
<1> QED BY <1>4, <1>5 DEF T

(* What the removal of a range of a fork delivers: a retraction at least   *)
(* for every height that held a row.                                       *)
RemovedOK(s, fork, from, to) ==
  /\ s \in Seq(Retraction)
  /\ Within(s, from, to)
  /\ \A g \in from..to : Content(fork, g) # <<>> => ~Absent(s, g)

(* Items in their removed form retract the fork, by induction on the last  *)
(* height.                                                                 *)
LEMMA RemovedItems ==
  ASSUME NEW fork, IsFork(fork), NEW from \in Nat, NEW to \in Int, to >= from - 1
  PROVE  RemovedOK(Items(TRUE, fork, from, to), fork, from, to)
<1> DEFINE It(n) == Items(TRUE, fork, from, from - 1 + n)
           T == {n \in Nat : RemovedOK(It(n), fork, from, from - 1 + n)}
<1>1. 0 \in T
  <2>1. It(0) = <<>>
    <3>1. from - 1 + 0 \in Int /\ from - 1 + 0 < from /\ from \in Int
      OBVIOUS
    <3> QED BY <3>1, ItemsNone
  <2> HIDE DEF It
  <2>2. RemovedOK(<<>>, fork, from, from - 1 + 0)
    <3>1. <<>> \in Seq(Retraction) /\ DOMAIN <<>> = {} /\ from..(from - 1 + 0) = {}
      OBVIOUS
    <3> QED BY <3>1, Zenon DEF RemovedOK, Within
  <2> QED BY <2>1, <2>2
<1>2. ASSUME NEW n \in T PROVE n + 1 \in T
  <2> DEFINE h == from - 1 + (n + 1)
             F == It(n)
             G == IF h \in DOMAIN fork THEN BlockItems(TRUE, h, fork[h]) ELSE <<>>
             c == Content(fork, h)
  <2>1. It(n + 1) = F \o G
    <3>1. h \in Int /\ h >= from /\ h - 1 = from - 1 + n
      OBVIOUS
    <3> HIDE DEF h
    <3>2. Items(TRUE, fork, from, h) = Items(TRUE, fork, from, h - 1) \o G
      BY <3>1, ItemsStep
    <3> QED BY <3>1, <3>2 DEF h
  <2>2. RemovedOK(F, fork, from, h - 1)
    <3>1. RemovedOK(F, fork, from, from - 1 + n)
      OBVIOUS
    <3>2. h - 1 = from - 1 + n
      OBVIOUS
    <3> HIDE DEF h, F
    <3> QED BY <3>1, <3>2
  <2>3. /\ G \in Seq(Retraction) /\ c \in Seq(Row) /\ Len(G) = Len(c)
        /\ \A j \in 1..Len(G) : G[j].key = h
    <3>1. CASE h \in DOMAIN fork
      <4>1. h \in Heights /\ fork[h] \in Seq(Row) /\ c = fork[h] /\ G = BlockItems(TRUE, h, fork[h])
        BY <3>1 DEF IsFork, Content
      <4> HIDE DEF h, G, c
      <4>2. G \in Seq(Retraction) /\ Len(G) = Len(c) /\ \A j \in 1..Len(G) : G[j] = Re(h)
        BY <4>1, RetractBlock
      <4>3. Re(h).key = h
        BY DEF Re
      <4> QED BY <4>1, <4>2, <4>3
    <3>2. CASE h \notin DOMAIN fork
      <4>1. G = <<>> /\ c = <<>>
        BY <3>2 DEF Content
      <4>2. <<>> \in Seq(Retraction) /\ <<>> \in Seq(Row) /\ 1..Len(<<>>) = {}
        OBVIOUS
      <4> HIDE DEF h, G, c
      <4>3. Len(G) = Len(c) /\ 1..Len(G) = {} /\ G \in Seq(Retraction) /\ c \in Seq(Row)
        BY <4>1, <4>2
      <4> QED BY <4>3
    <3> QED BY <3>1, <3>2
  <2>4. h \in Int /\ h >= from
    OBVIOUS
  <2> HIDE DEF h, F, G, c
  <2>5. F \in Seq(Retraction) /\ \A j \in DOMAIN F : F[j].key \in from..(h - 1)
    BY <2>2 DEF RemovedOK, Within
  <2> DEFINE H == F \o G
  <2>6. /\ H \in Seq(Retraction)
        /\ Len(F) \in Nat /\ Len(G) \in Nat
        /\ DOMAIN H = 1..(Len(F) + Len(G)) /\ DOMAIN F = 1..Len(F)
        /\ \A j \in 1..Len(F) : H[j] = F[j]
        /\ \A j \in 1..Len(G) : H[Len(F) + j] = G[j]
        /\ \A j \in 1..(Len(F) + Len(G)) : j > Len(F) => j - Len(F) \in 1..Len(G) /\ H[j] = G[j - Len(F)]
    BY <2>3, <2>5, Concat
  <2>7. \A j \in DOMAIN H : IF j <= Len(F) THEN j \in DOMAIN F /\ H[j] = F[j] ELSE H[j].key = h
    BY <2>3, <2>6
  <2> HIDE DEF H
  <2>8. Within(H, from, h)
    <3> SUFFICES ASSUME NEW j \in DOMAIN H PROVE H[j].key \in from..h
      BY DEF Within
    <3> QED BY <2>4, <2>5, <2>7
  <2>9. ASSUME NEW g \in from..h, Content(fork, g) # <<>> PROVE ~Absent(H, g)
    <3>1. CASE g = h
      <4>1. Len(G) >= 1
        <5>1. c # <<>>
          BY <2>9, <3>1 DEF c
        <5> QED BY <2>3, <5>1
      <4>2. Len(F) + 1 \in DOMAIN H /\ H[Len(F) + 1] = G[1] /\ G[1].key = h
        BY <2>3, <2>6, <4>1
      <4> QED BY <3>1, <4>2 DEF Absent
    <3>2. CASE g < h
      <4>1. ~Absent(F, g)
        BY <2>2, <2>4, <2>9, <3>2 DEF RemovedOK
      <4>2. PICK j \in DOMAIN F : F[j].key = g
        BY <4>1 DEF Absent
      <4>3. j \in DOMAIN H /\ H[j].key = g
        BY <2>6, <4>2
      <4> QED BY <4>3 DEF Absent
    <3> QED BY <2>4, <3>1, <3>2
  <2>10. RemovedOK(H, fork, from, h)
    BY <2>6, <2>8, <2>9 DEF RemovedOK
  <2>11. h = from - 1 + (n + 1) /\ n + 1 \in Nat
    BY DEF h
  <2>12. It(n + 1) = H
    BY <2>1 DEF H
  <2> HIDE DEF It
  <2> QED BY <2>10, <2>11, <2>12
<1> HIDE DEF T
<1>3. T = Nat
  <2>1. T \in SUBSET Nat
    BY DEF T
  <2> QED BY <1>1, <1>2, <2>1, Induction
<1>4. to - (from - 1) \in Nat /\ from - 1 + (to - (from - 1)) = to
  OBVIOUS
<1>5. to - (from - 1) \in T
  BY <1>3, <1>4
<1> QED BY <1>4, <1>5 DEF T

(* Retractions may come in either order.                                   *)
LEMMA ReversedRemoved ==
  ASSUME NEW s, NEW fork, NEW from, NEW to, RemovedOK(s, fork, from, to)
  PROVE  RemovedOK(Reversed(s), fork, from, to)
<1> DEFINE r == Reversed(s)
           n == Len(s)
<1>1. s \in Seq(Retraction) /\ n \in Nat /\ DOMAIN s = 1..n /\ \A j \in 1..n : s[j] \in Retraction
  BY DEF RemovedOK
<1> HIDE DEF n
<1>2. \A j \in 1..n : n + 1 - j \in 1..n /\ n + 1 - (n + 1 - j) = j
  BY <1>1
<1>3. r = [j \in 1..n |-> s[n + 1 - j]]
  BY DEF Reversed, n
<1> HIDE DEF r
<1>4. r \in [1..n -> Retraction]
  BY <1>1, <1>2, <1>3
<1>5. r \in Seq(Retraction) /\ DOMAIN r = 1..n
  BY <1>1, <1>4, SeqDef
<1>6. \A j \in 1..n : r[j] = s[n + 1 - j]
  BY <1>3
<1>7. Within(r, from, to)
  BY <1>1, <1>2, <1>5, <1>6 DEF RemovedOK, Within
<1>8. ASSUME NEW g, ~Absent(s, g) PROVE ~Absent(r, g)
  <2>1. PICK j \in 1..n : s[j].key = g
    BY <1>1, <1>8 DEF Absent
  <2>2. n + 1 - j \in DOMAIN r /\ r[n + 1 - j] = s[j]
    BY <1>2, <1>5, <1>6, <2>1
  <2> QED BY <2>1, <2>2 DEF Absent
<1>9. RemovedOK(r, fork, from, to)
  BY <1>5, <1>7, <1>8 DEF RemovedOK
<1> QED BY <1>9 DEF r

(* A part of a backfill window.                                            *)
Part == [from : Nat, to : Nat]

(* The types of the source's variables, with the chain a prefix of the     *)
(* heights.                                                                *)
ChainTypeOK ==
  /\ DOMAIN chain = 0..Top /\ Top \in Heights
  /\ \A h \in 0..Top : chain[h] \in Seq(Row)
  /\ peak \in Heights /\ Top <= peak
  /\ deep \in BOOLEAN /\ attached \in BOOLEAN
  /\ live \in Seq(Item)

(* Without a deep reorg the chain never loses a final block.               *)
StaysDeep == ~deep => Top >= peak - FinalDepth

(* What any step of the chain does, mined block or reorg: from the height  *)
(* from on the chain is replaced, and an attached source gets the          *)
(* retractions R of the old blocks before the events A of the new ones.    *)
Moves(from, R, A) ==
  /\ from \in 1..(Top + 1)
  /\ Top' \in Heights /\ Top' >= from - 1 /\ DOMAIN chain' = 0..Top'
  /\ \A h \in 0..Top' : chain'[h] \in Seq(Row)
  /\ \A h \in 0..(from - 1) : chain'[h] = chain[h]
  /\ peak' \in Heights /\ peak' >= peak /\ Top' <= peak'
  /\ deep' \in BOOLEAN /\ (deep => deep')
  /\ ~deep' => from > peak - FinalDepth /\ Top' >= peak' - FinalDepth
  /\ ~DeepReorgs => deep' = deep
  /\ RemovedOK(R, chain, from, Top)
  /\ AddedOK(A, chain', from, Top')
  /\ attached' = attached
  /\ live' = IF attached THEN live \o (R \o A) ELSE live

(* The height of the chain 0..n.                                           *)
LEMMA HeightTop ==
  ASSUME NEW n \in Nat
  PROVE  Cardinality(0..n) - 1 = n
BY FS_Interval

(* A mined block is such a move, with nothing removed.                     *)
LEMMA MineMoves ==
  ASSUME ChainTypeOK, StaysDeep, mine
  PROVE  \E from, R, A : Moves(from, R, A)
<1> DEFINE t == Top + 1
<1>1. PICK c \in Contents :
        /\ chain' = [h \in 0..t |-> IF h = t THEN c ELSE chain[h]]
        /\ Deliver(BlockItems(FALSE, t, c))
  BY DEF mine
<1>2. t \in Heights /\ t \in Nat /\ t >= 1 /\ t - 1 = Top /\ Top \in Nat
  BY SourceAssumption DEF mine, ChainTypeOK, Heights
<1>3. DOMAIN chain' = 0..t /\ \A h \in 0..t : chain'[h] = IF h = t THEN c ELSE chain[h]
  BY <1>1
<1>4. Top' = t
  <2>1. t \in Nat
    BY <1>2
  <2> QED BY <1>3, <2>1, HeightTop DEF Top
<1> HIDE DEF t
<1>5. c \in Seq(Row)
  BY PersistedAssumption
<1>6. \A h \in 0..t : chain'[h] \in Seq(Row)
  BY <1>2, <1>3, <1>5 DEF ChainTypeOK
<1> DEFINE A == BlockItems(FALSE, t, c)
<1>7. A \in Seq(Event) /\ DOMAIN A = 1..Len(A) /\ \A j \in DOMAIN A : A[j].key = t
  <2>1. A \in Seq(Event) /\ DOMAIN A = 1..Len(A) /\ \A j \in DOMAIN A : A[j] = Ev(t, c[j])
    BY <1>2, <1>5, EventBlock
  <2>2. \A r : Ev(t, r).key = t
    BY DEF Ev
  <2> QED BY <2>1, <2>2
<1>8. Continues(A, t, <<>>, c)
  BY <1>2, <1>5, BlockContinues
<1> HIDE DEF A
<1>9. AddedOK(A, chain', t, t)
  <2>1. Content(chain', t) = c
    BY <1>2, <1>3 DEF Content
  <2>2. Within(A, t, t) /\ Sorted(A)
    BY <1>2, <1>7 DEF Within, Sorted
  <2>3. \A g \in t..t : g = t
    BY <1>2
  <2> QED BY <1>7, <1>8, <2>1, <2>2, <2>3 DEF AddedOK
<1>10. RemovedOK(<<>>, chain, t, Top)
  <2>1. t..Top = {} /\ DOMAIN <<>> = {} /\ <<>> \in Seq(Retraction)
    BY <1>2
  <2> QED BY <2>1, Zenon DEF RemovedOK, Within
<1>11. live' = IF attached THEN live \o (<<>> \o A) ELSE live
  <2>1. <<>> \o A = A
    BY <1>7, ConcatEmptySeq
  <2> QED BY <1>1, <2>1 DEF Deliver, A
<1>12. /\ peak' \in Heights /\ peak' >= peak /\ t <= peak' /\ deep' = deep /\ attached' = attached
       /\ ~deep => t > peak - FinalDepth /\ t >= peak' - FinalDepth
  <2>1. peak' = IF t > peak THEN t ELSE peak
    BY DEF mine, t
  <2> QED BY <1>2, <2>1, SourceAssumption DEF mine, ChainTypeOK, StaysDeep, Heights
<1>13. \A h \in 0..(t - 1) : chain'[h] = chain[h]
  BY <1>2, <1>3
<1>14. Moves(t, <<>>, A)
  BY <1>2, <1>3, <1>4, <1>6, <1>9, <1>10, <1>11, <1>12, <1>13 DEF Moves, ChainTypeOK
<1> QED BY <1>14

(* So is a reorg.                                                          *)
LEMMA ReorgMoves ==
  ASSUME ChainTypeOK, StaysDeep, reorg
  PROVE  \E from, R, A : Moves(from, R, A)
<1>0. PICK fork \in 1..Top : \E top \in fork..Top : \E c \in [fork..top -> Contents] :
       /\ DeepReorgs \/ fork > peak - FinalDepth
       /\ deep' = (deep \/ fork <= peak - FinalDepth)
       /\ chain' = [h \in 0..top |-> IF h < fork THEN chain[h] ELSE c[h]]
       /\ \E r \in {Items(TRUE, chain, fork, Top), Reversed(Items(TRUE, chain, fork, Top))} :
            Deliver(r \o Items(FALSE, c, fork, top))
  BY DEF reorg
<1>a. PICK top \in fork..Top : \E c \in [fork..top -> Contents] :
       /\ DeepReorgs \/ fork > peak - FinalDepth
       /\ deep' = (deep \/ fork <= peak - FinalDepth)
       /\ chain' = [h \in 0..top |-> IF h < fork THEN chain[h] ELSE c[h]]
       /\ \E r \in {Items(TRUE, chain, fork, Top), Reversed(Items(TRUE, chain, fork, Top))} :
            Deliver(r \o Items(FALSE, c, fork, top))
  BY <1>0
<1>1. PICK c \in [fork..top -> Contents] :
       /\ DeepReorgs \/ fork > peak - FinalDepth
       /\ deep' = (deep \/ fork <= peak - FinalDepth)
       /\ chain' = [h \in 0..top |-> IF h < fork THEN chain[h] ELSE c[h]]
       /\ \E r \in {Items(TRUE, chain, fork, Top), Reversed(Items(TRUE, chain, fork, Top))} :
            Deliver(r \o Items(FALSE, c, fork, top))
  BY <1>a
<1>2. PICK R \in {Items(TRUE, chain, fork, Top), Reversed(Items(TRUE, chain, fork, Top))} :
        Deliver(R \o Items(FALSE, c, fork, top))
  BY <1>1
<1> DEFINE A == Items(FALSE, c, fork, top)
<1>3. /\ Top \in Nat /\ Top <= MaxHeight /\ MaxHeight \in Nat /\ fork \in Nat /\ top \in Nat
      /\ fork >= 1 /\ fork <= top /\ top <= Top /\ peak \in Nat /\ Top <= peak /\ FinalDepth \in Nat
  BY SourceAssumption DEF ChainTypeOK, Heights
<1>4. DOMAIN chain' = 0..top /\ \A h \in 0..top : chain'[h] = IF h < fork THEN chain[h] ELSE c[h]
  BY <1>1
<1>5. Top' = top
  BY <1>3, <1>4, HeightTop DEF Top
<1>6. \A h \in fork..top : c[h] \in Seq(Row)
  BY <1>1, PersistedAssumption
<1>7. ASSUME NEW h \in 0..top PROVE chain'[h] \in Seq(Row)
  <2>1. CASE h < fork
    <3>1. h \in 0..Top
      BY <1>3
    <3> QED BY <1>4, <2>1, <3>1 DEF ChainTypeOK
  <2>2. CASE ~(h < fork)
    <3>1. h \in fork..top
      BY <1>3, <2>2
    <3> QED BY <1>4, <1>6, <2>2, <3>1
  <2> QED BY <2>1, <2>2
<1>b. top \in Int /\ top >= fork - 1 /\ Top \in Int /\ Top >= fork - 1 /\ fork \in Nat
  BY <1>3
<1>8. AddedOK(A, c, fork, top)
  <2>1. IsFork(c)
    BY <1>1, <1>3, <1>6 DEF IsFork, Heights
  <2> QED BY <1>b, <2>1, AddedItems
<1> HIDE DEF A
<1>9. AddedOK(A, chain', fork, top)
  <2>1. \A g \in fork..top : Content(chain', g) = Content(c, g)
    BY <1>1, <1>3, <1>4 DEF Content
  <2> QED BY <1>8, <2>1 DEF AddedOK
<1>10. RemovedOK(R, chain, fork, Top)
  <2>1. IsFork(chain)
    BY <1>3 DEF IsFork, Heights, ChainTypeOK
  <2>2. RemovedOK(Items(TRUE, chain, fork, Top), chain, fork, Top)
    BY <1>b, <2>1, RemovedItems
  <2> QED BY <1>2, <2>2, ReversedRemoved
<1>11. live' = IF attached THEN live \o (R \o A) ELSE live
  BY <1>2 DEF Deliver, A
<1>12. /\ peak' = peak /\ attached' = attached /\ deep' \in BOOLEAN /\ (deep => deep')
       /\ ~deep' => fork > peak - FinalDepth
       /\ ~DeepReorgs => deep' = deep
  <2>1. fork <= peak - FinalDepth \/ fork > peak - FinalDepth
    BY <1>3
  <2>2. ~(fork <= peak - FinalDepth /\ fork > peak - FinalDepth)
    BY <1>3
  <2>3. peak' = peak /\ attached' = attached /\ deep \in BOOLEAN
    BY DEF reorg, ChainTypeOK
  <2> QED BY <1>1, <2>1, <2>2, <2>3, Zenon
<1>13. /\ fork \in 1..(Top + 1) /\ Top' \in Heights /\ Top' >= fork - 1
       /\ \A h \in 0..(fork - 1) : chain'[h] = chain[h]
       /\ peak' \in Heights /\ peak' >= peak /\ Top' <= peak'
       /\ ~deep' => Top' >= peak' - FinalDepth
  <2>1. \A h \in 0..(fork - 1) : chain'[h] = chain[h]
    <3> SUFFICES ASSUME NEW h \in 0..(fork - 1) PROVE chain'[h] = chain[h]
      OBVIOUS
    <3>1. h \in 0..top /\ h < fork
      BY <1>3
    <3> QED BY <1>4, <3>1
  <2>2. peak' = peak /\ (~deep' => fork > peak - FinalDepth)
    BY <1>12
  <2>3. peak \in Heights /\ top \in Heights
    BY <1>3 DEF Heights, ChainTypeOK
  <2>4. fork \in 1..(Top + 1) /\ top >= fork - 1 /\ peak >= peak /\ top <= peak
    BY <1>3
  <2>5. fork > peak - FinalDepth => top >= peak - FinalDepth
    BY <1>3
  <2> QED BY <1>5, <2>1, <2>2, <2>3, <2>4, <2>5
<1>14. Moves(fork, R, A)
  BY <1>4, <1>5, <1>7, <1>9, <1>10, <1>11, <1>12, <1>13 DEF Moves
<1> QED BY <1>14

-----------------------------------------------------------------------------
(***************************************************************************)
(* Positions: the cut of the final blocks and the height a start resumes   *)
(* from.                                                                   *)
(***************************************************************************)

(* What the cut and the first height of the backfill are.                  *)
Resume == backfill_from(last)

(* The cut is Depth below the tip, and everything above it is younger than *)
(* the depth.                                                              *)
LEMMA CutFacts ==
  ASSUME tip \in Positions
  PROVE  /\ final_cut \in Positions /\ final_cut <= tip
         /\ final_cut # None => final_cut + Depth = tip
         /\ \A g \in Nat : g > final_cut => tip < g + Depth
BY PersistedAssumption, SourceAssumption DEF final_cut, Positions, Heights, None

(* Backfill resumes above the stored position and at the start block.      *)
LEMMA ResumeOf ==
  ASSUME NEW p \in Positions
  PROVE  /\ backfill_from(p) \in Nat /\ backfill_from(p) > p /\ backfill_from(p) >= StartBlock
         /\ \A g \in Nat : g > p /\ g >= StartBlock => g >= backfill_from(p)
BY PersistedAssumption, SourceAssumption
   DEF backfill_from, window!resume_key, window!saturating_add, window!None, Positions, Heights, None

(* The same for the position this subscription read.                       *)
LEMMA ResumeFacts ==
  ASSUME last \in Positions
  PROVE  /\ Resume \in Nat /\ Resume > last /\ Resume >= StartBlock
         /\ \A g \in Nat : g > last /\ g >= StartBlock => g >= Resume
BY ResumeOf DEF Resume

(* The cut moves with the tip alone.                                       *)
LEMMA CutSame == ASSUME tip' = tip PROVE final_cut' = final_cut
BY DEF final_cut

(* The resume point moves with the stored position read alone.             *)
LEMMA ResumeSame == ASSUME last' = last PROVE Resume' = Resume
BY DEF Resume, backfill_from, window!resume_key

-----------------------------------------------------------------------------
(***************************************************************************)
(* Store writes, block writer and window, as one-step effects.             *)
(***************************************************************************)

(* The writers, each operation by what it does.                            *)
Keys == 0..MaxKey

(* A Store write, as both writers perform it.                              *)
Wrote(k, rows) ==
  /\ table' = [table EXCEPT ![k] = @ \o rows]
  /\ progress' = IF progress > k THEN progress ELSE k

(* A Store write that reported an error, carried out or not.               *)
Failed(k, rows) == WriteFails /\ (UNCHANGED storeVars \/ Wrote(k, rows))

(* The writes of the two writers are these.                                *)
LEMMA WritesAre ==
  ASSUME NEW k, NEW rows
  PROVE  /\ window!write(k, rows) <=> Wrote(k, rows)
         /\ settled!write(k, rows) <=> Wrote(k, rows)
         /\ window!failed_write(k, rows) <=> Failed(k, rows)
         /\ settled!failed_write(k, rows) <=> Failed(k, rows)
BY DEF window!write, settled!write, window!failed_write, settled!failed_write, Wrote,
     Failed,
       window!insert_rows, settled!insert_rows, window!advance_watermark, settled!advance_watermark,
       window!advance, settled!advance, storeVars, window!storeVars, settled!storeVars

(* The types of the Store.                                                 *)
StoreType == table \in [Keys -> Seq(Row)] /\ progress \in Positions

(* Heights are keys and naturals, and None is neither.                     *)
LEMMA KeysHeights == Heights \subseteq Keys /\ Heights \subseteq Nat /\ None \notin Heights /\ None = -1
BY PersistedAssumption, SourceAssumption DEF Heights, Keys, None

(* What a write does to the table and to the stored position.              *)
LEMMA WroteStore ==
  ASSUME StoreType, NEW k \in Heights, NEW rows \in Seq(Row), Wrote(k, rows)
  PROVE  /\ StoreType'
         /\ progress' >= k /\ progress' >= progress
         /\ progress > k => progress' = progress
         /\ progress <= k => progress' = k
         /\ table'[k] = table[k] \o rows
         /\ \A h \in Keys : h # k => table'[h] = table[h]
<1>1. k \in Keys /\ k \in Nat
  BY KeysHeights
<1>2. table[k] \in Seq(Row) /\ table[k] \o rows \in Seq(Row)
  BY <1>1 DEF StoreType
<1>3. table' \in [Keys -> Seq(Row)] /\ table'[k] = table[k] \o rows /\ \A h \in Keys : h # k => table'[h] = table[h]
  BY <1>1, <1>2 DEF StoreType, Wrote
<1>4. progress \in Int /\ progress \in Positions
  BY KeysHeights DEF StoreType, Positions, None
<1>5. progress' = (IF progress > k THEN progress ELSE k)
  BY DEF Wrote
<1> QED BY <1>1, <1>3, <1>4, <1>5 DEF StoreType, Positions

(* The outcomes of BlockWriter's record: a halted writer ignores the row;  *)
BlockSkips == ~settling /\ UNCHANGED blockVars /\ UNCHANGED storeVars

(* it halts;                                                               *)
BlockHalts ==
  /\ settling /\ settling' = FALSE /\ buffer' = <<>>
  /\ UNCHANGED <<current, watermark>> /\ UNCHANGED storeVars

(* it adds the row to the open group;                                      *)
BlockAdds(k, r) ==
  /\ settling /\ r \notin Unencodable /\ (current = None \/ k = current)
  /\ current' = k /\ buffer' = Append(buffer, r)
  /\ settling' = settling /\ watermark' = watermark /\ UNCHANGED storeVars

(* it writes the open group and opens the next;                            *)
BlockRolls(k, r) ==
  /\ settling /\ r \notin Unencodable /\ current # None /\ k > current
  /\ Wrote(current, buffer)
  /\ watermark' = IF watermark > current THEN watermark ELSE current
  /\ current' = k /\ buffer' = <<r>> /\ settling' = settling

(* or the write fails.                                                     *)
BlockFails ==
  /\ settling /\ current # None
  /\ Failed(current, buffer)
  /\ settling' = FALSE /\ current' = None /\ buffer' = <<>> /\ watermark' = watermark

(* BlockWriter's record has these outcomes.                                *)
LEMMA BlockRecords ==
  ASSUME NEW k, NEW r, settled!record(k, r)
  PROVE  \/ BlockSkips
         \/ BlockHalts /\ (r \in Unencodable \/ k < current)
         \/ BlockAdds(k, r)
         \/ BlockRolls(k, r)
         \/ BlockFails
BY WritesAre
   DEF settled!record, settled!halt, settled!encodes, settled!advance, settled!blockVars, settled!storeVars,
       settled!None, None, blockVars, storeVars, BlockSkips, BlockHalts, BlockAdds, BlockRolls, BlockFails

(* The trailing group is written.                                          *)
BlockEnds ==
  /\ settling /\ current # None
  /\ Wrote(current, buffer)
  /\ watermark' = IF watermark > current THEN watermark ELSE current
  /\ current' = None /\ buffer' = <<>> /\ settling' = settling

(* The outcomes of BlockWriter's finish.                                   *)
LEMMA BlockFinishes ==
  ASSUME settled!finish
  PROVE  \/ (~settling \/ current = None) /\ UNCHANGED blockVars /\ UNCHANGED storeVars
         \/ BlockEnds
         \/ BlockFails
BY WritesAre
   DEF settled!finish, settled!advance, settled!blockVars, settled!storeVars,
       settled!None, None, blockVars, storeVars, BlockEnds, BlockFails

(* The outcomes of the window's operations: a halted window ignores them;  *)
WindowSkips == ~healthy /\ UNCHANGED windowVars /\ UNCHANGED storeVars

(* it halts and drops what it buffered;                                    *)
WindowHalts ==
  /\ healthy /\ healthy' = FALSE /\ pending' = window!NoGroups
  /\ UNCHANGED <<head, flushed, maturing>> /\ UNCHANGED storeVars

(* it buffers groups, and collects those that have matured.                *)
Buffers(p, h) ==
  /\ pending' = p /\ head' = h /\ maturing' = window!Matured(p, h)
  /\ UNCHANGED <<healthy, flushed>> /\ UNCHANGED storeVars

(* record_seeded buffers a row of the backfill;                            *)
WindowSeeds(k, r) ==
  /\ healthy /\ r \notin Unencodable /\ k >= head
  /\ Buffers(window!Put(pending, k, window!Seeded(pending, k, r)), IF head > k THEN head ELSE k)

(* the outcomes of record_seeded.                                          *)
LEMMA WindowSeedsRecords ==
  ASSUME NEW k, NEW r, window!record_seeded(k, r)
  PROVE  /\ maturing = {}
         /\ \/ WindowSkips
            \/ WindowHalts /\ (r \in Unencodable \/ k < head)
            \/ WindowSeeds(k, r)
BY DEF window!record_seeded, window!halt, window!Buffer, window!encodes,
     window!advance, window!windowVars,
       window!storeVars, windowVars, storeVars, WindowSkips, WindowHalts, WindowSeeds, Buffers

(* record buffers a live row, above a rewind if it is older than the head; *)
WindowTakes(k, r) ==
  /\ healthy /\ r \notin Unencodable /\ ~(k <= flushed)
  /\ LET p == window!Rewound(k)
         h == IF k < head THEN k ELSE head
     IN  Buffers(window!Put(p, k, window!WithRow(window!Touched(p, k), r)), IF h > k THEN h ELSE k)

(* the outcomes of record.                                                 *)
LEMMA WindowRecords ==
  ASSUME NEW k, NEW r, window!record(k, r)
  PROVE  /\ maturing = {}
         /\ \/ WindowSkips
            \/ WindowHalts /\ (r \in Unencodable \/ k <= flushed)
            \/ WindowTakes(k, r)
BY DEF window!record, window!halt, window!Buffer, window!encodes, window!advance,
     window!windowVars,
       window!storeVars, window!finalized, windowVars, storeVars, WindowSkips, WindowHalts, WindowTakes, Buffers

(* retract rewinds the window;                                             *)
WindowRewinds(k) ==
  /\ healthy /\ ~(k <= flushed)
  /\ pending' = window!rewind(pending, k)
  /\ head' = IF head < window!saturating_sub(k, 1) THEN head ELSE window!saturating_sub(k, 1)
  /\ UNCHANGED <<healthy, flushed, maturing>> /\ UNCHANGED storeVars

(* the outcomes of retract.                                                *)
LEMMA WindowRetracts ==
  ASSUME NEW k, window!retract(k)
  PROVE  /\ maturing = {}
         /\ \/ WindowSkips
            \/ WindowHalts /\ k <= flushed
            \/ WindowRewinds(k)
BY DEF window!retract, window!halt, window!windowVars,
       window!storeVars, window!finalized, windowVars, storeVars, WindowSkips, WindowHalts, WindowRewinds

(* One matured group is written, lowest first;                             *)
Flushes(k) ==
  /\ k \in maturing /\ \A c \in maturing : k <= c
  /\ Wrote(k, pending[k].rows)
  /\ pending' = window!Without(pending, {k})
  /\ flushed' = IF flushed > k THEN flushed ELSE k
  /\ maturing' = maturing \ {k}
  /\ UNCHANGED <<healthy, head>>

(* or its write fails and the window halts.                                *)
FlushFails(k) ==
  /\ k \in maturing /\ \A c \in maturing : k <= c
  /\ Failed(k, pending[k].rows)
  /\ healthy' = FALSE /\ pending' = window!NoGroups /\ maturing' = {}
  /\ UNCHANGED <<head, flushed>>

(* The outcomes of one step of the flush.                                  *)
LEMMA WindowFlushes ==
  ASSUME window!flush
  PROVE  \E k : Flushes(k) \/ FlushFails(k)
BY WritesAre DEF window!flush, window!advance, Flushes, FlushFails

-----------------------------------------------------------------------------
(***************************************************************************)
(* The groups pending in the window.                                       *)
(***************************************************************************)

(* The buffer operations.                                                  *)
Groups(p) == DOMAIN p \subseteq Heights /\ \A b \in DOMAIN p : p[b] \in window!Group

(* The types of the window's variables.                                    *)
WindowType ==
  /\ healthy \in BOOLEAN
  /\ Groups(pending)
  /\ head \in Positions /\ flushed \in Positions
  /\ maturing \subseteq DOMAIN pending

(* Rows at their height.                                                   *)
Pairs(h, rows) == {<<h, rows[i]>> : i \in DOMAIN rows}

(* The empty window has no groups.                                         *)
LEMMA NoGroupsFacts == DOMAIN window!NoGroups = {} /\ Groups(window!NoGroups)
BY DEF window!NoGroups, Groups

(* Keys do not saturate here, so a group matures when its height is Depth  *)
(* below the head.                                                         *)
LEMMA MaturedIs ==
  ASSUME NEW p, Groups(p), NEW h \in Positions
  PROVE  window!Matured(p, h) = {b \in DOMAIN p : h >= b + Depth}
<1>1. \A b \in DOMAIN p : window!saturating_add(b, Depth) = b + Depth
  BY PersistedAssumption, SourceAssumption DEF window!saturating_add, Groups, Heights
<1> QED BY <1>1 DEF window!Matured

(* The fields of a group.                                                  *)
LEMMA GroupFields ==
  /\ \A g \in window!Group : g.rows \in Seq(Row) /\ g.expected \in Seq(Row) /\ g.seeded \in BOOLEAN
  /\ \A s, t \in Seq(Row), x \in BOOLEAN : [rows |-> s, expected |-> t, seeded |-> x] \in window!Group
BY DEF window!Group

(* Removing an expected row leaves rows that were expected.                *)
LEMMA RemoveOneRows ==
  ASSUME NEW s \in Seq(Row), NEW r \in Row, window!Contains(s, r)
  PROVE  /\ window!RemoveOne(s, r) \in Seq(Row)
         /\ \A h : Pairs(h, window!RemoveOne(s, r)) \subseteq Pairs(h, s)
<1> DEFINE i == CHOOSE j \in DOMAIN s : s[j] = r /\ \A m \in DOMAIN s : s[m] = r => j <= m
           n == Len(s)
           f == [j \in 1..(n - 1) |-> IF j = i THEN s[n] ELSE s[j]]
<1>1. n \in Nat /\ n >= 1 /\ DOMAIN s = 1..n /\ \A j \in 1..n : s[j] \in Row
  BY DEF window!Contains
<1> HIDE DEF i, n
<1>2. \A j \in 1..(n - 1) : \E m \in 1..n : f[j] = s[m]
  BY <1>1
<1>3. f \in [1..(n - 1) -> Row] /\ n - 1 \in Nat
  BY <1>1, <1>2
<1>4. f \in Seq(Row) /\ DOMAIN f = 1..(n - 1)
  <2> HIDE DEF f
  <2> QED BY <1>3, SeqDef
<1>5. window!RemoveOne(s, r) = f
  BY DEF window!RemoveOne, i, n
<1> HIDE DEF f
<1>6. \A h : Pairs(h, f) \subseteq Pairs(h, s)
  BY <1>1, <1>2, <1>4 DEF Pairs
<1> QED BY <1>4, <1>5, <1>6

(* A rewind leaves the groups below its key and turns the seeded ones      *)
(* above it into expectations.                                             *)
LEMMA RewindEffect ==
  ASSUME NEW p, Groups(p), NEW k \in Heights
  PROVE  LET q == window!rewind(p, k) IN
         /\ Groups(q) /\ DOMAIN q \subseteq DOMAIN p
         /\ \A b \in DOMAIN p : b < k => b \in DOMAIN q /\ q[b] = p[b]
         /\ \A b \in DOMAIN q : ~(b < k) => q[b].rows = <<>> /\ ~q[b].seeded /\ q[b].expected = p[b].rows
<1> DEFINE q == window!rewind(p, k)
           D == {x \in DOMAIN p : x < k \/ p[x].seeded}
<1>1. DOMAIN q = D /\ \A b \in D : q[b] = IF b < k THEN p[b] ELSE window!Converted(p[b])
  BY DEF window!rewind
<1>2. \A g \in window!Group : /\ window!Converted(g) \in window!Group
                               /\ window!Converted(g).rows = <<>> /\ ~window!Converted(g).seeded
                               /\ window!Converted(g).expected = g.rows
  <2> SUFFICES ASSUME NEW g \in window!Group
               PROVE  /\ window!Converted(g) \in window!Group
                      /\ window!Converted(g).rows = <<>> /\ ~window!Converted(g).seeded
                      /\ window!Converted(g).expected = g.rows
    OBVIOUS
  <2>1. window!Converted(g) = [rows |-> <<>>, expected |-> g.rows, seeded |-> FALSE]
    BY DEF window!Converted
  <2>2. g.rows \in Seq(Row) /\ <<>> \in Seq(Row)
    BY GroupFields
  <2>3. [rows |-> <<>>, expected |-> g.rows, seeded |-> FALSE] \in window!Group
    BY <2>2, GroupFields
  <2> QED BY <2>1, <2>3
<1> HIDE DEF q
<1>3. Groups(q) /\ DOMAIN q \subseteq DOMAIN p
  BY <1>1, <1>2 DEF Groups
<1>4. ASSUME NEW b \in DOMAIN p, b < k PROVE b \in DOMAIN q /\ q[b] = p[b]
  BY <1>1, <1>4
<1>5. ASSUME NEW b \in DOMAIN q, ~(b < k) PROVE q[b].rows = <<>> /\ ~q[b].seeded /\ q[b].expected = p[b].rows
  BY <1>1, <1>2, <1>5 DEF Groups
<1> QED BY <1>3, <1>4, <1>5 DEF q

(* The rows the window holds of a height.                                  *)
PRows(b) == IF b \in DOMAIN pending THEN pending[b].rows ELSE <<>>

(* What record_seeded does to the window.                                  *)
LEMMA SeedsEffect ==
  ASSUME WindowType, NEW k \in Heights, NEW r \in Row, WindowSeeds(k, r)
  PROVE  /\ WindowType'
         /\ DOMAIN pending' = DOMAIN pending \cup {k}
         /\ \A b \in DOMAIN pending : b # k => pending'[b] = pending[b]
         /\ pending'[k].rows = Append(PRows(k), r)
         /\ k \in DOMAIN pending => /\ pending'[k].seeded = pending[k].seeded
                                    /\ pending'[k].expected = pending[k].expected
         /\ k \notin DOMAIN pending => pending'[k].seeded /\ pending'[k].expected = <<>>
         /\ head' = k /\ flushed' = flushed /\ healthy' = healthy
         /\ maturing' = {b \in DOMAIN pending' : k >= b + Depth}
<1> DEFINE g == window!Seeded(pending, k, r)
           p == window!Put(pending, k, g)
<1>0. head \in Int /\ k \in Nat /\ k \in Positions
  BY KeysHeights DEF WindowType, Positions
<1>1. /\ g \in window!Group /\ g.rows = Append(PRows(k), r)
      /\ k \in DOMAIN pending => g.seeded = pending[k].seeded /\ g.expected = pending[k].expected
      /\ k \notin DOMAIN pending => g.seeded /\ g.expected = <<>>
  <2>1. CASE k \in DOMAIN pending
    <3>1. pending[k] \in window!Group
      BY <2>1 DEF WindowType, Groups
    <3>2. g = [pending[k] EXCEPT !.rows = Append(pending[k].rows, r)]
      BY <2>1 DEF window!Seeded
    <3>3. Append(pending[k].rows, r) \in Seq(Row)
      BY <3>1, GroupFields
    <3> QED BY <2>1, <3>1, <3>2, <3>3 DEF PRows, window!Group
  <2>2. CASE k \notin DOMAIN pending
    <3>1. g = [rows |-> <<r>>, expected |-> <<>>, seeded |-> TRUE]
      BY <2>2 DEF window!Seeded
    <3>2. <<r>> \in Seq(Row) /\ <<>> \in Seq(Row) /\ <<r>> = Append(<<>>, r)
      OBVIOUS
    <3>3. g \in window!Group /\ g.rows = <<r>> /\ g.seeded /\ g.expected = <<>>
      <4> HIDE DEF g
      <4> QED BY <3>1, <3>2, GroupFields
    <3> HIDE DEF g
    <3> QED BY <2>2, <3>2, <3>3 DEF PRows
  <2> QED BY <2>1, <2>2
<1> HIDE DEF g
<1>2. /\ DOMAIN p = DOMAIN pending \cup {k} /\ p[k] = g
      /\ \A b \in DOMAIN pending : b # k => p[b] = pending[b]
  BY DEF window!Put
<1> HIDE DEF p
<1>3. Groups(p)
  BY <1>1, <1>2 DEF Groups, WindowType
<1>4. /\ pending' = p /\ head' = (IF head > k THEN head ELSE k) /\ k >= head
      /\ maturing' = window!Matured(p, head') /\ healthy' = healthy /\ flushed' = flushed
  BY DEF WindowSeeds, Buffers, p, g
<1>5. head' = k
  BY <1>0, <1>4
<1>6. maturing' = {b \in DOMAIN p : k >= b + Depth}
  BY <1>0, <1>3, <1>4, <1>5, MaturedIs
<1> QED BY <1>0, <1>1, <1>2, <1>3, <1>4, <1>5, <1>6 DEF WindowType

(* Rows, and rows a backfill group has, lie at or below the head.          *)
HeadCovers ==
  \A b \in DOMAIN pending : /\ pending[b].rows # <<>> => b <= head
                            /\ pending[b].seeded => pending[b].rows # <<>>

(* What the group at k holds of the fork record goes on with.              *)
Kept(k) == IF k \in DOMAIN pending /\ ~pending[k].seeded /\ ~(k < head) THEN pending[k].rows ELSE <<>>

(* What record does to the window: groups below the key stay, its own      *)
(* group grows, those above are emptied.                                   *)
LEMMA TakesEffect ==
  ASSUME WindowType, HeadCovers, NEW k \in Heights, NEW r \in Row, WindowTakes(k, r)
  PROVE  /\ WindowType'
         /\ k \in DOMAIN pending' /\ DOMAIN pending' \subseteq DOMAIN pending \cup {k}
         /\ \A b \in DOMAIN pending : b < k => b \in DOMAIN pending' /\ pending'[b] = pending[b]
         /\ \A b \in DOMAIN pending' : b > k =>
              /\ pending'[b].rows = <<>> /\ ~pending'[b].seeded
              /\ pending'[b].expected \in {pending[b].rows, pending[b].expected}
         /\ pending'[k].rows = Append(Kept(k), r) /\ ~pending'[k].seeded
         /\ Pairs(k, pending'[k].expected) \subseteq
              IF k \in DOMAIN pending THEN Pairs(k, pending[k].rows) \cup Pairs(k, pending[k].expected) ELSE {}
         /\ head' = k /\ flushed' = flushed /\ healthy' = healthy /\ healthy
         /\ maturing' = {b \in DOMAIN pending' : k >= b + Depth}
         /\ HeadCovers'
<1> DEFINE q == window!Rewound(k)
           t == window!Touched(q, k)
           g == window!WithRow(t, r)
           p == window!Put(q, k, g)
<1>0. head \in Int /\ k \in Nat /\ k \in Positions
  BY KeysHeights DEF WindowType, Positions
<1>1. /\ Groups(q) /\ DOMAIN q \subseteq DOMAIN pending
      /\ \A b \in DOMAIN pending : b < k => b \in DOMAIN q /\ q[b] = pending[b]
      /\ k < head => \A b \in DOMAIN q : ~(b < k) =>
           q[b].rows = <<>> /\ ~q[b].seeded /\ q[b].expected = pending[b].rows
      /\ ~(k < head) => q = pending
  <2>1. Groups(pending)
    BY DEF WindowType
  <2> QED BY <2>1, RewindEffect DEF window!Rewound
<1>2. \A b \in DOMAIN q : b > k =>
        /\ q[b].rows = <<>> /\ ~q[b].seeded
        /\ q[b].expected \in {pending[b].rows, pending[b].expected}
  <2> SUFFICES ASSUME NEW b \in DOMAIN q, b > k
               PROVE  /\ q[b].rows = <<>> /\ ~q[b].seeded
                      /\ q[b].expected \in {pending[b].rows, pending[b].expected}
    OBVIOUS
  <2>0. b \in Nat
    BY <1>1, KeysHeights DEF Groups
  <2>1. CASE k < head
    BY <1>0, <1>1, <2>0, <2>1
  <2>2. CASE ~(k < head)
    BY <1>0, <1>1, <2>0, <2>2 DEF HeadCovers
  <2> QED BY <2>1, <2>2
<1>3. /\ t \in window!Group /\ t.rows = Kept(k)
      /\ Pairs(k, t.expected) \subseteq
           IF k \in DOMAIN pending THEN Pairs(k, pending[k].rows) \cup Pairs(k, pending[k].expected) ELSE {}
  <2>1. CASE k \notin DOMAIN q
    <3>1. t = [rows |-> <<>>, expected |-> <<>>, seeded |-> FALSE]
      BY <2>1 DEF window!Touched
    <3>2. Pairs(k, <<>>) = {}
      BY DEF Pairs
    <3>3. Kept(k) = <<>>
      <4>1. CASE k < head
        BY <4>1 DEF Kept
      <4>2. CASE ~(k < head)
        BY <1>1, <2>1, <4>2 DEF Kept
      <4> QED BY <4>1, <4>2
    <3>4. <<>> \in Seq(Row)
      OBVIOUS
    <3>5. t \in window!Group /\ t.rows = <<>> /\ t.expected = <<>>
      <4> HIDE DEF t
      <4> QED BY <3>1, <3>4, GroupFields
    <3> HIDE DEF t
    <3> QED BY <3>2, <3>3, <3>5
  <2>2. CASE k \in DOMAIN q /\ ~q[k].seeded
    <3>1. t = q[k]
      BY <2>2 DEF window!Touched
    <3>2. t \in window!Group
      <4> HIDE DEF t
      <4> QED BY <1>1, <2>2, <3>1 DEF Groups
    <3> HIDE DEF t, q
    <3>3. CASE k < head
      <4>1. q[k].rows = <<>> /\ q[k].expected = pending[k].rows
        BY <1>0, <1>1, <2>2, <3>3
      <4> QED BY <1>1, <2>2, <3>1, <3>2, <3>3, <4>1 DEF Kept
    <3>4. CASE ~(k < head)
      BY <1>1, <2>2, <3>1, <3>2, <3>4 DEF Kept
    <3> QED BY <3>3, <3>4
  <2>3. CASE k \in DOMAIN q /\ q[k].seeded
    <3>1. t = window!Converted(q[k])
      BY <2>3 DEF window!Touched
    <3>2. q = pending /\ ~(k < head)
      BY <1>0, <1>1, <2>3
    <3>3. t = [rows |-> <<>>, expected |-> pending[k].rows, seeded |-> FALSE]
      BY <3>1, <3>2 DEF window!Converted
    <3> HIDE DEF t, q
    <3>4. pending[k].rows \in Seq(Row)
      BY <2>3, <3>2, GroupFields DEF WindowType, Groups
    <3>5. t \in window!Group /\ t.rows = <<>> /\ t.expected = pending[k].rows
      <4>1. <<>> \in Seq(Row)
        OBVIOUS
      <4> QED BY <3>3, <3>4, <4>1, GroupFields
    <3>6. Kept(k) = <<>> /\ k \in DOMAIN pending
      BY <2>3, <3>2 DEF Kept
    <3> QED BY <3>5, <3>6
  <2> QED BY <2>1, <2>2, <2>3
<1> HIDE DEF t, q
<1>4. /\ g \in window!Group /\ g.rows = Append(Kept(k), r) /\ ~g.seeded
      /\ Pairs(k, g.expected) \subseteq Pairs(k, t.expected)
  <2> DEFINE e == IF window!Contains(t.expected, r) THEN window!RemoveOne(t.expected, r) ELSE t.expected
  <2>1. g = [rows |-> Append(t.rows, r), expected |-> e, seeded |-> FALSE]
    BY DEF window!WithRow
  <2>2. t.rows \in Seq(Row) /\ t.expected \in Seq(Row)
    BY <1>3, GroupFields
  <2>3. e \in Seq(Row) /\ Pairs(k, e) \subseteq Pairs(k, t.expected)
    BY <2>2, RemoveOneRows
  <2>4. Append(t.rows, r) \in Seq(Row)
    BY <2>2
  <2> HIDE DEF e, g
  <2> QED BY <1>3, <2>1, <2>3, <2>4, GroupFields
<1> HIDE DEF g
<1>5. /\ DOMAIN p = DOMAIN q \cup {k} /\ p[k] = g
      /\ \A b \in DOMAIN q : b # k => p[b] = q[b]
  BY DEF window!Put
<1> HIDE DEF p
<1>6. Groups(p)
  BY <1>1, <1>4, <1>5 DEF Groups
<1>7. /\ pending' = p /\ head' = (IF (IF k < head THEN k ELSE head) > k THEN (IF k < head THEN k ELSE head) ELSE k)
      /\ maturing' = window!Matured(p, head') /\ healthy' = healthy /\ flushed' = flushed /\ healthy
  BY DEF WindowTakes, Buffers, p, g, t, q
<1>8. head' = k
  BY <1>0, <1>7
<1>9. maturing' = {b \in DOMAIN p : k >= b + Depth}
  BY <1>0, <1>6, <1>7, <1>8, MaturedIs
<1>10. WindowType'
  BY <1>0, <1>6, <1>7, <1>8, <1>9 DEF WindowType
<1>11. \A b \in DOMAIN pending : b < k => b \in DOMAIN pending' /\ pending'[b] = pending[b]
  <2> SUFFICES ASSUME NEW b \in DOMAIN pending, b < k PROVE b \in DOMAIN p /\ p[b] = pending[b]
    BY <1>7
  <2>1. b \in DOMAIN q /\ q[b] = pending[b]
    BY <1>1
  <2>2. b # k
    BY <1>0
  <2> QED BY <1>5, <2>1, <2>2
<1>12. \A b \in DOMAIN pending' : b > k =>
         /\ pending'[b].rows = <<>> /\ ~pending'[b].seeded
         /\ pending'[b].expected \in {pending[b].rows, pending[b].expected}
  <2> SUFFICES ASSUME NEW b \in DOMAIN p, b > k
               PROVE  /\ p[b].rows = <<>> /\ ~p[b].seeded
                      /\ p[b].expected \in {pending[b].rows, pending[b].expected}
    BY <1>7
  <2>1. b # k /\ b \in DOMAIN q
    BY <1>0, <1>5
  <2> QED BY <1>2, <1>5, <2>1
<1>13. HeadCovers'
  <2> SUFFICES ASSUME NEW b \in DOMAIN p
               PROVE  /\ p[b].rows # <<>> => b <= k
                      /\ p[b].seeded => p[b].rows # <<>>
    BY <1>7, <1>8 DEF HeadCovers
  <2>0. b \in Nat
    BY <1>6, KeysHeights DEF Groups
  <2>1. CASE b > k
    BY <1>7, <1>12, <2>1
  <2>2. CASE b = k
    BY <1>0, <1>4, <1>5, <2>2
  <2>3. CASE b < k
    <3>1. b \in DOMAIN q /\ b \in DOMAIN pending
      BY <1>0, <1>1, <1>5, <2>3
    <3>2. p[b] = pending[b]
      BY <1>1, <1>5, <2>3, <3>1, <1>0
    <3> QED BY <2>3, <2>0, <1>0, <3>1, <3>2 DEF HeadCovers
  <2> QED BY <1>0, <2>0, <2>1, <2>2, <2>3
<1>14. /\ k \in DOMAIN pending' /\ DOMAIN pending' \subseteq DOMAIN pending \cup {k}
       /\ pending'[k].rows = Append(Kept(k), r) /\ ~pending'[k].seeded
       /\ Pairs(k, pending'[k].expected) \subseteq Pairs(k, t.expected)
  BY <1>1, <1>4, <1>5, <1>7
<1> QED BY <1>3, <1>7, <1>8, <1>9, <1>10, <1>11, <1>12, <1>13, <1>14

(* What retract does to the window.                                        *)
LEMMA RewindsEffect ==
  ASSUME WindowType, HeadCovers, NEW k \in Heights, k >= 1, WindowRewinds(k), maturing = {}
  PROVE  /\ WindowType'
         /\ DOMAIN pending' \subseteq DOMAIN pending
         /\ \A b \in DOMAIN pending : b < k => b \in DOMAIN pending' /\ pending'[b] = pending[b]
         /\ \A b \in DOMAIN pending' : ~(b < k) =>
              /\ pending'[b].rows = <<>> /\ ~pending'[b].seeded
              /\ pending'[b].expected = pending[b].rows
         /\ head' = (IF head < k - 1 THEN head ELSE k - 1)
         /\ flushed' = flushed /\ healthy' = healthy /\ healthy /\ maturing' = {}
         /\ HeadCovers'
<1>0. head \in Int /\ k \in Nat /\ k \in Positions /\ k - 1 \in Positions
  BY KeysHeights, SourceAssumption DEF WindowType, Positions, Heights
<1>1. head' = (IF head < k - 1 THEN head ELSE k - 1)
  BY <1>0 DEF WindowRewinds, window!saturating_sub
<1> DEFINE q == window!rewind(pending, k)
<1>2. /\ Groups(q) /\ DOMAIN q \subseteq DOMAIN pending
      /\ \A b \in DOMAIN pending : b < k => b \in DOMAIN q /\ q[b] = pending[b]
      /\ \A b \in DOMAIN q : ~(b < k) => q[b].rows = <<>> /\ ~q[b].seeded /\ q[b].expected = pending[b].rows
  BY RewindEffect DEF WindowType
<1>3. pending' = q /\ flushed' = flushed /\ healthy' = healthy /\ healthy /\ maturing' = {}
  BY DEF WindowRewinds
<1> HIDE DEF q
<1>4. WindowType'
  BY <1>0, <1>1, <1>2, <1>3 DEF WindowType
<1>5. HeadCovers'
  <2> SUFFICES ASSUME NEW b \in DOMAIN q
               PROVE  /\ q[b].rows # <<>> => b <= head'
                      /\ q[b].seeded => q[b].rows # <<>>
    BY <1>3 DEF HeadCovers
  <2>0. b \in Nat
    BY <1>2, KeysHeights DEF Groups
  <2>1. CASE b < k
    <3>1. b \in DOMAIN pending /\ q[b] = pending[b]
      BY <1>2, <2>1
    <3> QED BY <1>0, <1>1, <2>0, <2>1, <3>1 DEF HeadCovers
  <2>2. CASE ~(b < k)
    BY <1>2, <2>2
  <2> QED BY <2>1, <2>2
<1> QED BY <1>1, <1>2, <1>3, <1>4, <1>5

-----------------------------------------------------------------------------
(***************************************************************************)
(* The parts of a range still to be queried.                               *)
(***************************************************************************)

(* The parts of a backfill window.                                         *)
AheadOf(ps, end) == IF ps = <<>> THEN end ELSE ps[1].from

(* The first height the backfill has not queried yet.                      *)
Ahead == AheadOf(parts, next_from)

(* The parts of a split window tile what is left of it.                    *)
PartsOK(ps, end) ==
  /\ \A i \in DOMAIN ps : ps[i].from <= ps[i].to
  /\ \A i \in DOMAIN ps : i < Len(ps) => ps[i + 1].from = ps[i].to + 1
  /\ ps # <<>> => ps[Len(ps)].to = end - 1

(* Answering the first part keeps the tiling.                              *)
LEMMA PartsTail ==
  ASSUME NEW ps \in Seq(Part), ps # <<>>, NEW end \in Nat, PartsOK(ps, end)
  PROVE  /\ Tail(ps) \in Seq(Part) /\ PartsOK(Tail(ps), end)
         /\ AheadOf(Tail(ps), end) = ps[1].to + 1
<1>1. /\ Tail(ps) \in Seq(Part) /\ Len(ps) \in Nat /\ Len(ps) >= 1
      /\ Len(Tail(ps)) = Len(ps) - 1 /\ DOMAIN Tail(ps) = 1..(Len(ps) - 1) /\ DOMAIN ps = 1..Len(ps)
      /\ \A i \in 1..(Len(ps) - 1) : Tail(ps)[i] = ps[i + 1]
      /\ \A i \in 1..Len(ps) : ps[i] \in Part
  OBVIOUS
<1>p. \A x \in Part : x.from \in Nat /\ x.to \in Nat
  BY DEF Part
<1>2. Tail(ps) = <<>> <=> Len(ps) = 1
  <2>1. Tail(ps) = <<>> <=> Len(Tail(ps)) = 0
    BY <1>1, EmptySeq
  <2> QED BY <1>1, <2>1
<1> DEFINE t == Tail(ps)
<1> HIDE DEF t
<1>t. t = Tail(ps)
  BY DEF t
<1>3. \A i \in DOMAIN t : t[i].from <= t[i].to
  <2> SUFFICES ASSUME NEW i \in DOMAIN t PROVE t[i].from <= t[i].to
    OBVIOUS
  <2>1. t[i] = ps[i + 1] /\ i + 1 \in DOMAIN ps
    BY <1>1, <1>t
  <2> QED BY <2>1 DEF PartsOK
<1>4. \A i \in DOMAIN t : i < Len(t) => t[i + 1].from = t[i].to + 1
  <2> SUFFICES ASSUME NEW i \in DOMAIN t, i < Len(t) PROVE t[i + 1].from = t[i].to + 1
    OBVIOUS
  <2>1. t[i] = ps[i + 1] /\ i + 1 \in DOMAIN ps /\ t[i + 1] = ps[(i + 1) + 1] /\ i + 1 < Len(ps)
    BY <1>1, <1>t
  <2> QED BY <2>1 DEF PartsOK
<1>5. t # <<>> => t[Len(t)].to = end - 1
  <2> SUFFICES ASSUME t # <<>> PROVE t[Len(t)].to = end - 1
    OBVIOUS
  <2>1. Len(t) \in 1..(Len(ps) - 1) /\ Len(t) + 1 = Len(ps)
    BY <1>1, <1>2, <1>t
  <2>2. t[Len(t)] = ps[Len(ps)]
    BY <1>1, <1>t, <2>1
  <2> QED BY <2>2 DEF PartsOK
<1>6. PartsOK(t, end)
  BY <1>3, <1>4, <1>5 DEF PartsOK
<1>7. AheadOf(t, end) = ps[1].to + 1
  <2>1. CASE t = <<>>
    <3>1. Len(ps) = 1 /\ ps[1].to = end - 1
      BY <1>2, <1>t, <2>1 DEF PartsOK
    <3> QED BY <2>1, <3>1 DEF AheadOf
  <2>2. CASE t # <<>>
    <3>1. 1 < Len(ps) /\ 1 \in DOMAIN ps /\ t[1] = ps[1 + 1]
      BY <1>1, <1>2, <1>t, <2>2
    <3>2. ps[1 + 1].from = ps[1].to + 1
      BY <3>1 DEF PartsOK
    <3> QED BY <2>2, <3>1, <3>2 DEF AheadOf
  <2> QED BY <2>1, <2>2
<1> QED BY <1>1, <1>6, <1>7, <1>t

(* Splitting the first part keeps the tiling.                              *)
LEMMA PartsHalved ==
  ASSUME NEW ps \in Seq(Part), ps # <<>>, NEW end \in Nat, PartsOK(ps, end), ps[1].from < ps[1].to
  PROVE  /\ halves(ps[1]) \o Tail(ps) \in Seq(Part) /\ PartsOK(halves(ps[1]) \o Tail(ps), end)
         /\ halves(ps[1]) \o Tail(ps) # <<>>
         /\ AheadOf(halves(ps[1]) \o Tail(ps), end) = ps[1].from
<1>1. /\ Tail(ps) \in Seq(Part) /\ Len(ps) \in Nat /\ Len(ps) >= 1
      /\ Len(Tail(ps)) = Len(ps) - 1 /\ DOMAIN Tail(ps) = 1..(Len(ps) - 1) /\ DOMAIN ps = 1..Len(ps)
      /\ \A i \in 1..(Len(ps) - 1) : Tail(ps)[i] = ps[i + 1]
      /\ \A i \in 1..Len(ps) : ps[i] \in Part
  OBVIOUS
<1>p. \A x \in Part : x.from \in Nat /\ x.to \in Nat
  BY DEF Part
<1> DEFINE f == ps[1].from
           m == ps[1].from + (ps[1].to - ps[1].from) \div 2
           e == ps[1].to
<1>2. f \in Nat /\ e \in Nat /\ f < e
  BY <1>1, <1>p
<1>3. m \in Nat /\ f <= m /\ m < e
  <2>1. (e - f) \in Nat /\ e - f >= 1
    BY <1>2
  <2>2. ((e - f) \div 2) \in Nat /\ ((e - f) \div 2) < e - f
    BY <2>1
  <2> QED BY SMTT(30), <1>2, <2>2
<1> DEFINE a == [from |-> f, to |-> m]
           b == [from |-> m + 1, to |-> e]
           h == <<a, b>>
           q == h \o Tail(ps)
<1>4. halves(ps[1]) = h
  BY DEF halves
<1> HIDE DEF m, f, e
<1>5. a \in Part /\ b \in Part /\ a.from = f /\ a.to = m /\ b.from = m + 1 /\ b.to = e
  BY <1>2, <1>3 DEF Part
<1> HIDE DEF a, b
<1>6. h \in Seq(Part) /\ Len(h) = 2 /\ h[1] = a /\ h[2] = b
  BY <1>5
<1> HIDE DEF h
<1>7. /\ q \in Seq(Part) /\ Len(q) = Len(ps) + 1 /\ DOMAIN q = 1..(Len(ps) + 1)
      /\ q[1] = a /\ q[2] = b
      /\ \A i \in 1..(Len(ps) + 1) : i > 2 => i - 1 \in 1..Len(ps) /\ q[i] = ps[i - 1]
  <2>1. /\ q \in Seq(Part) /\ Len(q) = Len(h) + Len(Tail(ps)) /\ DOMAIN q = 1..(Len(h) + Len(Tail(ps)))
        /\ \A j \in 1..Len(h) : q[j] = h[j]
        /\ \A j \in 1..(Len(h) + Len(Tail(ps))) : j > Len(h) => j - Len(h) \in 1..Len(Tail(ps)) /\ q[j] = Tail(ps)[j - Len(h)]
    <3>1. h \in Seq(Part) /\ Tail(ps) \in Seq(Part)
      BY <1>1, <1>6
    <3> QED BY <3>1, Concat
  <2> HIDE DEF q
  <2>2. Len(q) = Len(ps) + 1 /\ DOMAIN q = 1..(Len(ps) + 1) /\ q[1] = a /\ q[2] = b
    BY <1>1, <1>6, <2>1
  <2>3. ASSUME NEW i \in 1..(Len(ps) + 1), i > 2 PROVE i - 1 \in 1..Len(ps) /\ q[i] = ps[i - 1]
    <3>1. i - 2 \in 1..(Len(ps) - 1) /\ q[i] = Tail(ps)[i - 2] /\ (i - 2) + 1 = i - 1
      BY <1>1, <1>6, <2>1, <2>3
    <3> QED BY <1>1, <3>1
  <2> QED BY <2>1, <2>2, <2>3
<1> HIDE DEF q
<1>8. \A i \in DOMAIN q : q[i].from <= q[i].to
  <2> SUFFICES ASSUME NEW i \in DOMAIN q PROVE q[i].from <= q[i].to
    OBVIOUS
  <2>1. CASE i = 1
    BY <1>3, <1>5, <1>7, <2>1
  <2>2. CASE i = 2
    BY <1>2, <1>3, <1>5, <1>7, <2>2
  <2>3. CASE i > 2
    BY <1>1, <1>7, <2>3 DEF PartsOK
  <2> QED BY <1>1, <1>7, <2>1, <2>2, <2>3
<1>9. \A i \in DOMAIN q : i < Len(q) => q[i + 1].from = q[i].to + 1
  <2> SUFFICES ASSUME NEW i \in DOMAIN q, i < Len(q) PROVE q[i + 1].from = q[i].to + 1
    OBVIOUS
  <2>1. CASE i = 1
    BY <1>5, <1>7, <2>1
  <2>2. CASE i = 2
    <3>1. 1 \in DOMAIN ps /\ 1 < Len(ps) /\ q[3] = ps[1 + 1] /\ i + 1 = 3
      BY <1>1, <1>7, <2>2
    <3>2. ps[1 + 1].from = ps[1].to + 1
      BY <3>1 DEF PartsOK
    <3> QED BY <1>5, <1>7, <2>2, <3>1, <3>2 DEF e
  <2>3. CASE i > 2
    <3>1. /\ i - 1 \in DOMAIN ps /\ i - 1 < Len(ps) /\ (i - 1) + 1 = i /\ (i + 1) - 1 = i
          /\ q[i] = ps[i - 1] /\ q[i + 1] = ps[i]
      <4>1. i + 1 \in 1..(Len(ps) + 1) /\ i + 1 > 2 /\ (i + 1) - 1 = i
        BY <1>1, <1>7, <2>3
      <4> QED BY <1>1, <1>7, <2>3, <4>1
    <3>2. ps[(i - 1) + 1].from = ps[i - 1].to + 1
      BY <3>1 DEF PartsOK
    <3> QED BY <3>1, <3>2
  <2> QED BY <1>1, <1>7, <2>1, <2>2, <2>3
<1>10. q[Len(q)].to = end - 1
  <2>1. CASE Len(ps) = 1
    <3>1. Len(q) = 2 /\ e = end - 1
      BY <1>7, <2>1 DEF PartsOK, e
    <3> QED BY <1>5, <1>7, <3>1
  <2>2. CASE Len(ps) > 1
    <3>1. q[Len(q)] = ps[Len(ps)]
      <4>1. Len(q) > 2 /\ Len(q) \in 1..(Len(ps) + 1) /\ Len(q) - 1 = Len(ps)
        BY <1>1, <1>7, <2>2
      <4> QED BY <1>7, <4>1
    <3> QED BY <3>1 DEF PartsOK
  <2> QED BY <1>1, <2>1, <2>2
<1>11. q # <<>>
  BY <1>1, <1>7
<1>12. PartsOK(q, end) /\ AheadOf(q, end) = f
  BY <1>5, <1>7, <1>8, <1>9, <1>10, <1>11 DEF PartsOK, AheadOf
<1> QED BY <1>4, <1>7, <1>11, <1>12 DEF q, f

(* A query answers the heights from .. Ahead' - 1 and joins what it got.   *)
Queries(from, joined, end) ==
  \E N : /\ fetched' = joined \o N
         /\ AheadOf(parts', end) \in Nat /\ from <= AheadOf(parts', end)
         /\ AddedOK(N, chain, from, AheadOf(parts', end) - 1)
         /\ parts' \in Seq(Part) /\ PartsOK(parts', end)

(* One call of query_range_split delivers the range up to the next part.   *)
LEMMA QuerySplits ==
  ASSUME ChainTypeOK, NEW ps \in Seq(Part), ps # <<>>, NEW joined \in Seq(Event), NEW end \in Nat,
         PartsOK(ps, end), query_range_split(ps, joined)
  PROVE  Queries(ps[1].from, joined, end)
<1>0. Head(ps) = ps[1] /\ ps[1] \in Part /\ ps[1].from \in Nat /\ ps[1].to \in Nat /\ ps[1].from <= ps[1].to
  <2>1. Head(ps) = ps[1] /\ ps[1] \in Part /\ 1 \in DOMAIN ps
    OBVIOUS
  <2> QED BY <2>1 DEF Part, PartsOK
<1>1. CASE /\ fetched' = joined \o query_range(ps[1].from, ps[1].to)
           /\ parts' = Tail(ps)
  <2> DEFINE N == Items(FALSE, chain, ps[1].from, ps[1].to)
             t == ps[1].to
  <2>1. IsFork(chain)
    BY SourceAssumption DEF IsFork, ChainTypeOK, Heights
  <2>2. t \in Int /\ t >= ps[1].from - 1
    BY <1>0
  <2>3. AddedOK(N, chain, ps[1].from, t)
    BY <1>0, <2>1, <2>2, AddedItems
  <2>4. fetched' = joined \o N
    BY <1>1 DEF query_range
  <2>5. /\ parts' \in Seq(Part) /\ PartsOK(parts', end) /\ AheadOf(parts', end) = t + 1
    BY <1>1, PartsTail
  <2>6. t + 1 \in Nat /\ ps[1].from <= t + 1 /\ t + 1 - 1 = t
    BY <1>0, <2>2
  <2> HIDE DEF N, t
  <2>7. AheadOf(parts', end) \in Nat /\ ps[1].from <= AheadOf(parts', end) /\ AheadOf(parts', end) - 1 = t
    <3> DEFINE x == AheadOf(parts', end)
    <3>1. x = t + 1
      BY <2>5
    <3> HIDE DEF x
    <3>2. x \in Nat /\ ps[1].from <= x /\ x - 1 = t
      BY <2>2, <2>6, <3>1
    <3> QED BY <3>2 DEF x
  <2>8. AddedOK(N, chain, ps[1].from, AheadOf(parts', end) - 1)
    BY <2>3, <2>7
  <2> QED BY <2>4, <2>5, <2>7, <2>8 DEF Queries
<1>2. CASE /\ ps[1].from < ps[1].to
           /\ parts' = halves(ps[1]) \o Tail(ps)
           /\ fetched' = joined
  <2>1. /\ parts' \in Seq(Part) /\ PartsOK(parts', end) /\ AheadOf(parts', end) = ps[1].from
    BY <1>2, PartsHalved
  <2>2. fetched' = joined \o <<>>
    BY <1>2, ConcatEmptySeq
  <2>3. AddedOK(<<>>, chain, ps[1].from, ps[1].from - 1)
    <3>1. <<>> \in Seq(Event) /\ DOMAIN <<>> = {} /\ ps[1].from..(ps[1].from - 1) = {}
      BY <1>0
    <3> QED BY <3>1, Zenon DEF AddedOK, Within, Sorted
  <2> QED BY SMTT(30), <1>0, <2>1, <2>2, <2>3 DEF Queries
<1> QED BY <1>0, <1>1, <1>2 DEF query_range_split

-----------------------------------------------------------------------------
(***************************************************************************)
(* Base, the inductive invariant of the control state.                     *)
(***************************************************************************)

(* Where subscribe and the stream have got to.                             *)
BlockType ==
  /\ settling \in BOOLEAN /\ current \in Positions /\ buffer \in Seq(Row) /\ watermark \in Positions

(* The types of the stream's variables.                                    *)
StreamType ==
  /\ phase \in Phases
  /\ opened \in Positions /\ tip \in Positions /\ last \in Positions
  /\ fetched \in Seq(Event) /\ parts \in Seq(Part) /\ next_from \in Nat
  /\ poison \in BOOLEAN /\ replayed \in BOOLEAN

(* All types.                                                              *)
TypeInv == ChainTypeOK /\ StoreType /\ BlockType /\ WindowType /\ StreamType

(* The live source is open exactly while there is a subscription.          *)
SourceInv ==
  /\ StaysDeep
  /\ attached <=> phase # "idle"
  /\ ~attached => live = <<>>
  /\ \A j \in DOMAIN live : live[j].key <= peak /\ (live[j].kind = "Retract" => live[j].key >= 1)

(* Before the segments are opened the writers are new.                     *)
Fresh ==
  phase \in {"idle", "attached", "tip"} =>
    /\ healthy /\ pending = window!NoGroups /\ head = None /\ flushed = None /\ maturing = {}
    /\ settling /\ current = None /\ buffer = <<>> /\ watermark = None
    /\ last = None /\ fetched = <<>> /\ parts = <<>> /\ ~poison

(* The tip and the height at opening were heights of the chain, and the    *)
(* tip is known once it was read.                                          *)
TipInv ==
  /\ tip <= peak /\ opened <= peak
  /\ phase # "idle" => opened # None
  /\ phase \in {"idle", "attached"} <=> tip = None

(* Nothing is stored above the stored position, which is buried.           *)
StoreInv ==
  /\ progress # None => progress + Depth <= peak
  /\ \A h \in Keys : h > progress => table[h] = <<>>
  /\ last <= progress

(* From open_segments until the end of the backfill.                       *)
Filling == phase \in {"split", "ready", "backfill"}

(* Where the window of the query stands.                                   *)
PartsInv ==
  /\ Filling => PartsOK(parts, next_from) /\ next_from <= tip + 1
  /\ phase \in {"ready", "live"} => parts = <<>>
  /\ phase = "split" => parts # <<>>
  /\ phase = "live" => fetched = <<>>
  /\ poison => fetched = <<>> /\ parts = <<>>

(* Until the first poll nothing has been stored or buffered.               *)
FillFirst ==
  Filling /\ phase # "backfill" =>
    /\ last = progress /\ ~poison
    /\ settling /\ current = None /\ buffer = <<>>
    /\ healthy /\ head = None /\ pending = window!NoGroups

(* During the backfill the window's watermark is the higher of stored      *)
(* position and cut, and nothing is stored above it.                       *)
FillStore ==
  Filling =>
    /\ maturing = {}
    /\ flushed = IF last > final_cut THEN last ELSE final_cut
    /\ progress <= flushed /\ watermark <= flushed

(* Fetched events are in order and between the resume point and what has   *)
(* been queried.                                                           *)
FillFetched ==
  Filling =>
    /\ Sorted(fetched) /\ Within(fetched, Resume, Ahead - 1)
    /\ ~poison /\ (parts # <<>> \/ next_from <= tip) => Resume <= Ahead

(* The settled writer's open group lies between the stored position and    *)
(* the cut, below everything still fetched.                                *)
FillBlock ==
  Filling =>
    /\ ~settling \/ current = None => buffer = <<>>
    /\ settling /\ current = None => progress = last
    /\ settling /\ current # None =>
         /\ Resume <= current /\ current <= final_cut /\ current > progress
         /\ ~poison => current < Ahead
         /\ buffer # <<>>
         /\ \A j \in DOMAIN fetched : fetched[j].key >= current /\ (parts # <<>> => fetched[j].key > current)

(* The window holds only seeded groups above the cut, below everything     *)
(* still fetched.                                                          *)
FillWindow ==
  Filling =>
    /\ ~healthy => pending = window!NoGroups
    /\ healthy => \A j \in DOMAIN fetched : fetched[j].key >= head
    /\ ~poison => head < Ahead
    /\ head <= tip
    /\ \A b \in DOMAIN pending :
         /\ pending[b].seeded /\ pending[b].rows # <<>> /\ pending[b].expected = <<>>
         /\ b > final_cut /\ b >= Resume /\ b <= head

(* In the live tail the window holds groups above the watermark, which is  *)
(* above what is stored, and matured groups are those Depth below the      *)
(* head.                                                                   *)
LiveInv ==
  phase = "live" =>
    /\ head <= peak
    /\ ~healthy => pending = window!NoGroups
    /\ healthy => /\ progress <= flushed /\ settling
                  /\ \A b \in DOMAIN pending : b > flushed
    /\ final_cut <= flushed /\ last <= flushed
    /\ poison => maturing = {}
    /\ maturing = {b \in DOMAIN pending : head >= b + Depth}
    /\ HeadCovers

(* The control invariant: types, and where each variable stands in each    *)
(* phase. It says nothing of what rows are.                                *)
Base ==
  /\ TypeInv /\ SourceInv /\ Fresh /\ TipInv /\ StoreInv /\ PartsInv
  /\ FillFirst /\ FillStore /\ FillFetched /\ FillBlock /\ FillWindow /\ LiveInv

(* The parts of Base that the backfill steps can disturb.                  *)
FillInv == FillFirst /\ FillStore /\ FillFetched /\ FillBlock /\ FillWindow

-----------------------------------------------------------------------------
(***************************************************************************)
(* Base holds initially.                                                   *)
(***************************************************************************)

(* Positions are heights or None.                                          *)
LEMMA PositionFacts ==
  /\ Positions \subseteq Int /\ None \in Positions /\ Heights \subseteq Positions
  /\ \A p \in Positions : p >= None /\ p >= -1 /\ (p # None => p \in Heights /\ p \in Nat /\ p <= MaxHeight)
  /\ \A h \in Heights : h \in Nat /\ h # None /\ h > None /\ h <= MaxHeight
BY SourceAssumption DEF Positions, Heights, None

(* Base holds initially.                                                   *)
LEMMA InitBase == Init => Base
<1> SUFFICES ASSUME Init PROVE Base
  OBVIOUS
<1> USE DEF Init, SourceInit
<1>1. PICK c \in Contents : chain = [h \in {0} |-> c]
  BY DEF Init, SourceInit
<1>2. DOMAIN chain = 0..0 /\ chain[0] = c /\ c \in Seq(Row)
  BY <1>1, PersistedAssumption
<1>3. Top = 0
  BY <1>2, HeightTop DEF Top
<1>4. 0 \in Heights /\ None \in Positions
  BY PositionFacts, SourceAssumption DEF Heights
<1>5. ChainTypeOK
  BY <1>2, <1>3, <1>4 DEF ChainTypeOK
<1>6. /\ table = [k \in Keys |-> <<>>] /\ progress = None
      /\ healthy = TRUE /\ pending = window!NoGroups /\ head = None /\ flushed = None /\ maturing = {}
  BY DEF window!Init, window!StoreInit, window!None, None, window!Keys, Keys
<1>7a. \A S : <<>> \in Seq(S)
  OBVIOUS
<1>7b. StoreType
  BY <1>4, <1>6, <1>7a DEF StoreType
<1>7c. WindowType
  BY <1>4, <1>6, NoGroupsFacts DEF WindowType
<1>7d. BlockType /\ StreamType
  BY <1>4, <1>7a DEF BlockType, StreamType, Phases
<1>7. StoreType /\ BlockType /\ WindowType /\ StreamType
  BY <1>7b, <1>7c, <1>7d
<1>8. SourceInv
  BY <1>3, SourceAssumption DEF SourceInv, StaysDeep
<1>9. Fresh /\ TipInv /\ PartsInv
  BY <1>6 DEF Fresh, TipInv, None, PartsInv, Filling
<1>10. StoreInv
  BY <1>6 DEF StoreInv, None
<1>11. FillInv /\ LiveInv
  BY DEF FillInv, FillFirst, FillStore, FillFetched, FillBlock, FillWindow, Filling,
       LiveInv
<1> QED BY <1>5, <1>7, <1>8, <1>9, <1>10, <1>11 DEF Base, TypeInv, FillInv

-----------------------------------------------------------------------------
(***************************************************************************)
(* Base is preserved: ends, subscription, tip, replay and source steps.    *)
(***************************************************************************)

(* The stream is gone.                                                     *)
LEMMA ClosedBase ==
  ASSUME Base, Closed, replayed' \in BOOLEAN
  PROVE  Base'
<1>1. /\ phase' = "idle" /\ attached' = FALSE /\ live' = <<>> /\ UNCHANGED <<chain, peak, reorgs, deep>>
      /\ healthy' = TRUE /\ pending' = window!NoGroups /\ head' = None /\ flushed' = None /\ maturing' = {}
      /\ settling' = TRUE /\ current' = None /\ buffer' = <<>> /\ watermark' = None
      /\ opened' = None /\ tip' = None /\ last' = None
      /\ fetched' = <<>> /\ parts' = <<>> /\ next_from' = 0 /\ poison' = FALSE
      /\ table' = table /\ progress' = progress
  BY DEF Closed, detach, window!new, settled!new, storeVars, window!None,
       settled!None, None
<1>2. Top' = Top
  BY <1>1 DEF Top
<1>0. \A S : <<>> \in Seq(S)
  OBVIOUS
<1>3. ChainTypeOK'
  BY <1>0, <1>1, <1>2 DEF Base, TypeInv, ChainTypeOK
<1>4a. StoreType'
  BY <1>1 DEF Base, TypeInv, StoreType
<1>4b. WindowType'
  BY <1>1, NoGroupsFacts, PositionFacts DEF WindowType
<1>4c. BlockType' /\ StreamType'
  BY <1>0, <1>1, PositionFacts DEF BlockType, StreamType, Phases
<1>4. StoreType' /\ BlockType' /\ WindowType' /\ StreamType'
  BY <1>4a, <1>4b, <1>4c
<1>5. SourceInv' /\ Fresh'
  BY <1>1, <1>2 DEF Base, SourceInv, StaysDeep, Fresh
<1>6. TipInv' /\ PartsInv'
  BY <1>1, PositionFacts DEF Base, TypeInv, ChainTypeOK, TipInv, PartsInv, Filling, None
<1>7. StoreInv'
  BY <1>1, PositionFacts DEF Base, TypeInv, StoreType, StoreInv
<1>8. FillInv' /\ LiveInv'
  BY <1>1 DEF FillInv, FillFirst, FillStore, FillFetched, FillBlock, FillWindow,
       Filling, LiveInv
<1> QED BY <1>3, <1>4, <1>5, <1>6, <1>7, <1>8 DEF Base, TypeInv, FillInv

(* Base is preserved, action by action.                                    *)
LEMMA SubscribeBase ==
  ASSUME Base, subscribe_live
  PROVE  Base'
<1>1. /\ phase = "idle" /\ phase' = "attached" /\ attached' = TRUE /\ live' = <<>>
      /\ UNCHANGED <<chain, peak, reorgs, deep>> /\ opened' = Top
      /\ UNCHANGED <<healthy, pending, head, flushed, maturing>>
      /\ UNCHANGED <<settling, current, buffer, watermark>>
      /\ UNCHANGED <<table, progress, tip, last, fetched, parts, next_from, poison, replayed>>
  BY DEF subscribe_live, subscribe_indexed, storeVars, blockVars, windowVars
<1>2. Top' = Top /\ Top \in Heights /\ Top <= peak
  BY <1>1 DEF Top, Base, TypeInv, ChainTypeOK
<1>3. ChainTypeOK'
  BY <1>1, <1>2 DEF Base, TypeInv, ChainTypeOK
<1>4. StoreType' /\ BlockType' /\ WindowType' /\ StreamType'
  BY <1>1, <1>2, PositionFacts DEF Base, TypeInv, StoreType, BlockType, WindowType,
       StreamType, Phases
<1>5. SourceInv' /\ Fresh'
  BY <1>1, <1>2 DEF Base, SourceInv, StaysDeep, Fresh
<1>6. TipInv' /\ PartsInv'
  BY <1>1, <1>2, PositionFacts DEF Base, TypeInv, ChainTypeOK, TipInv, PartsInv,
       Filling, Fresh
<1>7. StoreInv'
  BY <1>1 DEF Base, StoreInv
<1>8. FillInv' /\ LiveInv'
  BY <1>1 DEF FillInv, FillFirst, FillStore, FillFetched, FillBlock, FillWindow,
       Filling, LiveInv
<1> QED BY <1>3, <1>4, <1>5, <1>6, <1>7, <1>8 DEF Base, TypeInv, FillInv

(* Base is preserved by read_tip.                                          *)
LEMMA ReadTipBase ==
  ASSUME Base, read_tip
  PROVE  Base'
<1>1. /\ phase = "attached" /\ phase' = "tip" /\ tip' = Top
      /\ UNCHANGED <<chain, peak, reorgs, deep, attached, live, opened>>
      /\ UNCHANGED <<healthy, pending, head, flushed, maturing>>
      /\ UNCHANGED <<settling, current, buffer, watermark>>
      /\ UNCHANGED <<table, progress, last, fetched, parts, next_from, poison, replayed>>
  BY DEF read_tip, sourceVars, storeVars, blockVars, windowVars
<1>2. Top' = Top /\ Top \in Heights /\ Top <= peak
  BY <1>1 DEF Top, Base, TypeInv, ChainTypeOK
<1>3. ChainTypeOK'
  BY <1>1, <1>2 DEF Base, TypeInv, ChainTypeOK
<1>4. StoreType' /\ BlockType' /\ WindowType' /\ StreamType'
  BY <1>1, <1>2, PositionFacts DEF Base, TypeInv, StoreType, BlockType, WindowType,
       StreamType, Phases
<1>5. SourceInv' /\ Fresh'
  BY <1>1, <1>2 DEF Base, SourceInv, StaysDeep, Fresh
<1>6. TipInv' /\ PartsInv'
  BY <1>1, <1>2, PositionFacts DEF Base, TypeInv, ChainTypeOK, TipInv, PartsInv,
       Filling, Fresh
<1>7. StoreInv'
  BY <1>1 DEF Base, StoreInv
<1>8. FillInv' /\ LiveInv'
  BY <1>1 DEF FillInv, FillFirst, FillStore, FillFetched, FillBlock, FillWindow,
       Filling, LiveInv
<1> QED BY <1>3, <1>4, <1>5, <1>6, <1>7, <1>8 DEF Base, TypeInv, FillInv

(* Base is preserved by poll_replay.                                       *)
LEMMA ReplayBase ==
  ASSUME Base, poll_replay
  PROVE  Base'
<1>1. /\ phase = "ready" /\ phase' = "backfill" /\ replayed' = TRUE
      /\ UNCHANGED <<chain, peak, reorgs, deep, attached, live, opened, tip, last>>
      /\ UNCHANGED <<healthy, pending, head, flushed, maturing>>
      /\ UNCHANGED <<settling, current, buffer, watermark>>
      /\ UNCHANGED <<table, progress, fetched, parts, next_from, poison>>
  BY DEF poll_replay, sourceVars, storeVars, blockVars, windowVars, streamVars
<1>2. Top' = Top /\ final_cut' = final_cut /\ Resume' = Resume /\ Ahead' = Ahead
  BY <1>1, CutSame, ResumeSame DEF Top, Ahead
<1>3. TypeInv' /\ SourceInv'
  BY <1>1, <1>2 DEF Base, TypeInv, ChainTypeOK, StoreType, BlockType, WindowType,
       StreamType, Phases,
                    SourceInv, StaysDeep
<1>4. Fresh' /\ TipInv' /\ StoreInv' /\ PartsInv'
  BY <1>1 DEF Base, Fresh, TipInv, StoreInv, PartsInv, Filling
<1>5. FillInv' /\ LiveInv'
  BY <1>1, <1>2 DEF Base, FillInv, FillFirst, FillStore, FillFetched, FillBlock,
       FillWindow, Filling, LiveInv
<1> QED BY <1>3, <1>4, <1>5 DEF Base, FillInv

(* What a move of the chain appends.                                       *)
LEMMA NewItems ==
  ASSUME ChainTypeOK, NEW from, NEW R, NEW A, Moves(from, R, A)
  PROVE  /\ R \in Seq(Item) /\ A \in Seq(Item) /\ R \o A \in Seq(Item)
         /\ Len(R) \in Nat /\ Len(A) \in Nat /\ DOMAIN (R \o A) = 1..(Len(R) + Len(A))
         /\ \A j \in DOMAIN (R \o A) :
              /\ (R \o A)[j].key >= from /\ (R \o A)[j].key <= peak' /\ (R \o A)[j].key \in Heights
              /\ j <= Len(R) => j \in DOMAIN R /\ (R \o A)[j] = R[j] /\ R[j].kind = "Retract"
              /\ j > Len(R) => /\ j - Len(R) \in DOMAIN A /\ (R \o A)[j] = A[j - Len(R)]
                               /\ A[j - Len(R)].kind = "Event"
<1>1. /\ R \in Seq(Retraction) /\ A \in Seq(Event) /\ R \in Seq(Item) /\ A \in Seq(Item)
      /\ Within(R, from, Top) /\ Within(A, from, Top')
  BY EventSeqIsItemSeq DEF Moves, RemovedOK, AddedOK
<1>2. /\ from \in Nat /\ Top \in Nat /\ Top' \in Nat /\ peak \in Nat /\ peak' \in Nat
      /\ Top <= peak /\ peak <= peak' /\ Top' <= peak'
  BY SourceAssumption DEF Moves, ChainTypeOK, Heights
<1>3. \A x \in Retraction : x.kind = "Retract" /\ x.key \in Heights
  BY DEF Retraction
<1>4. \A x \in Event : x.kind = "Event" /\ x.key \in Heights
  BY DEF Event
<1>5. \A j \in DOMAIN R : R[j].kind = "Retract" /\ R[j].key \in Heights /\ R[j].key >= from /\ R[j].key <= peak'
  <2> SUFFICES ASSUME NEW j \in DOMAIN R
               PROVE  R[j].kind = "Retract" /\ R[j].key \in Heights /\ R[j].key >= from /\ R[j].key <= peak'
    OBVIOUS
  <2>1. R[j] \in Retraction /\ R[j].key \in from..Top
    BY <1>1 DEF Within
  <2> QED BY <1>2, <1>3, <2>1
<1>6. \A j \in DOMAIN A : A[j].kind = "Event" /\ A[j].key \in Heights /\ A[j].key >= from /\ A[j].key <= peak'
  <2> SUFFICES ASSUME NEW j \in DOMAIN A
               PROVE  A[j].kind = "Event" /\ A[j].key \in Heights /\ A[j].key >= from /\ A[j].key <= peak'
    OBVIOUS
  <2>1. A[j] \in Event /\ A[j].key \in from..Top'
    BY <1>1 DEF Within
  <2> QED BY <1>2, <1>4, <2>1
<1> DEFINE N == R \o A
<1>7. /\ N \in Seq(Item) /\ Len(R) \in Nat /\ Len(A) \in Nat
      /\ DOMAIN N = 1..(Len(R) + Len(A)) /\ DOMAIN R = 1..Len(R) /\ DOMAIN A = 1..Len(A)
      /\ \A j \in 1..Len(R) : N[j] = R[j]
      /\ \A j \in 1..(Len(R) + Len(A)) : j > Len(R) => j - Len(R) \in 1..Len(A) /\ N[j] = A[j - Len(R)]
  BY <1>1, Concat
<1> HIDE DEF N
<1>8. ASSUME NEW j \in DOMAIN N
      PROVE  /\ N[j].key >= from /\ N[j].key <= peak' /\ N[j].key \in Heights
             /\ j <= Len(R) => j \in DOMAIN R /\ N[j] = R[j] /\ R[j].kind = "Retract"
             /\ j > Len(R) => /\ j - Len(R) \in DOMAIN A /\ N[j] = A[j - Len(R)]
                              /\ A[j - Len(R)].kind = "Event"
  <2>1. CASE j <= Len(R)
    <3>1. j \in DOMAIN R /\ N[j] = R[j] /\ ~(j > Len(R))
      BY <1>7, <2>1
    <3> QED BY <1>5, <3>1
  <2>2. CASE j > Len(R)
    <3>1. j - Len(R) \in DOMAIN A /\ N[j] = A[j - Len(R)] /\ ~(j <= Len(R))
      BY <1>7, <2>2
    <3> QED BY <1>6, <3>1
  <2> QED BY <1>7, <2>1, <2>2
<1> QED BY <1>1, <1>7, <1>8 DEF N

(* A step of the source moves the chain and nothing else.                  *)
LEMMA SourceMoves ==
  ASSUME Base, Source
  PROVE  /\ \E from, R, A : Moves(from, R, A)
         /\ UNCHANGED <<storeVars, blockVars, windowVars, streamVars, phase, replayed, seen>>
BY MineMoves, ReorgMoves DEF Source, Base, TypeInv, SourceInv

(* Base is preserved by a step of the source.                              *)
LEMMA SourceBase ==
  ASSUME Base, Source
  PROVE  Base'
<1>1. PICK from, R, A : Moves(from, R, A)
  BY SourceMoves
<1>2. /\ UNCHANGED <<healthy, pending, head, flushed, maturing>>
      /\ UNCHANGED <<settling, current, buffer, watermark>>
      /\ UNCHANGED <<table, progress, opened, tip, last, fetched, parts, next_from, poison, phase, replayed>>
  BY SourceMoves DEF storeVars, blockVars, windowVars, streamVars
<1>3. final_cut' = final_cut /\ Resume' = Resume /\ Ahead' = Ahead
  BY <1>2, CutSame, ResumeSame DEF Ahead
<1>4. /\ peak' \in Nat /\ peak \in Nat /\ peak' >= peak /\ attached' = attached
      /\ live' = IF attached THEN live \o (R \o A) ELSE live
  BY <1>1, PositionFacts DEF Moves, Base, TypeInv, ChainTypeOK
<1> DEFINE N == R \o A
<1>5. N \in Seq(Item) /\ \A j \in DOMAIN N : /\ N[j].key >= from /\ N[j].key <= peak'
                                            /\ from >= 1 /\ N[j].key \in Nat
  <2>1. from \in Nat /\ from >= 1
    BY <1>1 DEF Moves
  <2> QED BY <1>1, <2>1, NewItems, PositionFacts DEF Base, TypeInv
<1> HIDE DEF N
<1>6. ChainTypeOK'
  <2>1. live' \in Seq(Item)
    BY <1>4, <1>5 DEF Base, TypeInv, ChainTypeOK, N
  <2> QED BY <1>1, <1>4, <2>1 DEF Moves, ChainTypeOK, Base, TypeInv
<1>7. StoreType' /\ BlockType' /\ WindowType' /\ StreamType'
  BY <1>2 DEF Base, TypeInv, StoreType, BlockType, WindowType, StreamType
<1>8. SourceInv'
  <2>1. StaysDeep'
    BY <1>1 DEF Moves, StaysDeep
  <2>2. (attached' <=> phase' # "idle") /\ (~attached' => live' = <<>>)
    BY <1>2, <1>4 DEF Base, SourceInv
  <2>3. ASSUME NEW j \in DOMAIN live'
        PROVE  live'[j].key <= peak' /\ (live'[j].kind = "Retract" => live'[j].key >= 1)
    <3>1. live \in Seq(Item) /\ \A i \in DOMAIN live : live[i].key \in Nat
      <4>1. \A x \in Item : x.key \in Nat
        BY PositionFacts DEF Item, Event
      <4> QED BY <4>1 DEF Base, TypeInv, ChainTypeOK
    <3>2. CASE ~attached
      BY <1>4, <2>3, <3>1, <3>2 DEF Base, SourceInv
    <3>3. CASE attached
      <4> DEFINE L == live \o N
      <4>1. L = live' /\ Len(live) \in Nat /\ DOMAIN live = 1..Len(live) /\ DOMAIN N = 1..Len(N)
        <5>1. L = live'
          BY <1>4, <3>3 DEF N
        <5> QED BY <1>5, <3>1, <5>1
      <4>2. /\ DOMAIN L = 1..(Len(live) + Len(N)) /\ Len(N) \in Nat
            /\ \A i \in 1..Len(live) : L[i] = live[i]
            /\ \A i \in 1..(Len(live) + Len(N)) : i > Len(live) => i - Len(live) \in 1..Len(N) /\ L[i] = N[i - Len(live)]
        BY <1>5, <3>1, Concat
      <4> HIDE DEF L
      <4>3. CASE j <= Len(live)
        <5>1. j \in DOMAIN live /\ L[j] = live[j]
          BY <4>1, <4>2, <4>3
        <5> QED BY <1>4, <3>1, <4>1, <5>1 DEF Base, SourceInv
      <4>4. CASE j > Len(live)
        <5>1. j - Len(live) \in DOMAIN N /\ L[j] = N[j - Len(live)]
          BY <4>1, <4>2, <4>4
        <5>2. N[j - Len(live)].key \in Nat /\ N[j - Len(live)].key >= from /\ from >= 1 /\ N[j - Len(live)].key <= peak'
          BY <1>5, <5>1
        <5>3. from \in Nat
          BY <1>1 DEF Moves
        <5> QED BY <4>1, <5>1, <5>2, <5>3
      <4> QED BY <4>1, <4>2, <4>3, <4>4
    <3> QED BY <3>2, <3>3
  <2> QED BY <2>1, <2>2, <2>3 DEF SourceInv
<1>9. Fresh' /\ PartsInv'
  BY <1>2 DEF Base, Fresh, PartsInv, Filling
<1>10. TipInv' /\ StoreInv'
  BY <1>2, <1>4, PositionFacts, PersistedAssumption DEF Base, TypeInv, StreamType,
       StoreType, TipInv, StoreInv
<1>11. FillInv'
  BY <1>2, <1>3 DEF Base, FillInv, FillFirst, FillStore, FillFetched, FillBlock,
       FillWindow, Filling
<1>12. LiveInv'
  BY <1>2, <1>3, <1>4, PositionFacts DEF Base, TypeInv, WindowType, LiveInv, HeadCovers
<1> QED BY <1>6, <1>7, <1>8, <1>9, <1>10, <1>11, <1>12 DEF Base, TypeInv, FillInv

-----------------------------------------------------------------------------
(***************************************************************************)
(* Base is preserved: the queries.                                         *)
(***************************************************************************)

(* The fields of items.                                                    *)
LEMMA ItemKeys ==
  /\ \A x \in Item : x.key \in Heights /\ x.key \in Nat /\ x.kind \in {"Event", "Retract"}
  /\ \A x \in Item : x.kind = "Event" => x \in Event
  /\ \A x \in Event : x.key \in Heights /\ x.key \in Nat /\ x.row \in Row /\ x.kind = "Event"
                      /\ x = Ev(x.key, x.row) /\ x \in Item
<1>1. \A x \in Event : x.key \in Heights /\ x.row \in Row /\ x.kind = "Event"
                      /\ x = Ev(x.key, x.row) /\ x \in Item
  BY DEF Item, Event, Ev
<1>2. \A x \in Item : x.key \in Heights /\ x.kind \in {"Event", "Retract"} /\ (x.kind = "Event" => x \in Event)
  BY <1>1 DEF Item
<1>3. \A h \in Heights : h \in Nat
  BY PositionFacts
<1> QED BY <1>1, <1>2, <1>3

(* A backfill window is a valid single part within its range.              *)
LEMMA WindowEnd ==
  ASSUME NEW from \in Nat, NEW to \in Nat, from <= to
  PROVE  /\ window_end(from, to) \in Nat /\ from <= window_end(from, to) /\ window_end(from, to) <= to
         /\ LET ps == <<[from |-> from, to |-> window_end(from, to)]>> IN
              /\ ps \in Seq(Part) /\ ps # <<>> /\ ps[1].from = from
              /\ PartsOK(ps, window_end(from, to) + 1)
<1> DEFINE w == window_end(from, to)
           ps == <<[from |-> from, to |-> w]>>
<1>1. w \in Nat /\ from <= w /\ w <= to
  BY PersistedAssumption DEF window_end
<1> HIDE DEF w
<1>2. ps \in Seq(Part) /\ ps # <<>> /\ Len(ps) = 1 /\ DOMAIN ps = {1} /\ ps[1] = [from |-> from, to |-> w]
  BY <1>1 DEF Part
<1> HIDE DEF ps
<1>3. PartsOK(ps, w + 1)
  BY <1>1, <1>2 DEF PartsOK
<1> QED BY <1>1, <1>2, <1>3 DEF w, ps

(* A query keeps the fetched events in order and in range.                 *)
LEMMA QueryFills ==
  ASSUME NEW from \in Nat, NEW lo \in Nat, lo <= from,
         NEW joined \in Seq(Event), Sorted(joined), Within(joined, lo, from - 1),
         NEW end \in Nat, Queries(from, joined, end)
  PROVE  /\ fetched' \in Seq(Event) /\ Sorted(fetched')
         /\ Within(fetched', lo, AheadOf(parts', end) - 1)
         /\ \A j \in DOMAIN fetched' : \/ fetched'[j].key >= from
                                       \/ j \in DOMAIN joined /\ fetched'[j] = joined[j]
         /\ AheadOf(parts', end) \in Nat /\ from <= AheadOf(parts', end)
         /\ parts' \in Seq(Part) /\ PartsOK(parts', end)
<1> DEFINE a == AheadOf(parts', end)
<1>1. PICK N : /\ fetched' = joined \o N
               /\ a \in Nat /\ from <= a
               /\ AddedOK(N, chain, from, a - 1)
               /\ parts' \in Seq(Part) /\ PartsOK(parts', end)
  BY DEF Queries
<1> HIDE DEF a
<1>2. N \in Seq(Event) /\ Within(N, from, a - 1) /\ Sorted(N)
  BY <1>1 DEF AddedOK
<1> DEFINE F == joined \o N
<1>3. /\ F \in Seq(Event) /\ DOMAIN F = 1..(Len(joined) + Len(N)) /\ Len(joined) \in Nat /\ Len(N) \in Nat
      /\ DOMAIN joined = 1..Len(joined) /\ DOMAIN N = 1..Len(N)
      /\ \A j \in 1..Len(joined) : F[j] = joined[j]
      /\ \A j \in 1..(Len(joined) + Len(N)) : j > Len(joined) => j - Len(joined) \in 1..Len(N) /\ F[j] = N[j - Len(joined)]
  BY <1>2, Concat
<1> HIDE DEF F
<1>4. ASSUME NEW j \in DOMAIN F
      PROVE  /\ F[j].key \in Nat
             /\ \/ j <= Len(joined) /\ j \in DOMAIN joined /\ F[j] = joined[j] /\ F[j].key >= lo /\ F[j].key < from
                \/ j > Len(joined) /\ j - Len(joined) \in DOMAIN N /\ F[j] = N[j - Len(joined)]
                   /\ F[j].key >= from /\ F[j].key <= a - 1
  <2>1. F[j].key \in Nat
    <3>1. F[j] \in Event
      BY <1>3
    <3> QED BY <3>1, ItemKeys
  <2>2. CASE j <= Len(joined)
    <3>1. j \in DOMAIN joined /\ F[j] = joined[j]
      BY <1>3, <2>2
    <3>2. joined[j].key \in lo..(from - 1)
      BY <3>1 DEF Within
    <3> QED BY <2>1, <2>2, <3>1, <3>2
  <2>3. CASE j > Len(joined)
    <3>1. j - Len(joined) \in DOMAIN N /\ F[j] = N[j - Len(joined)]
      BY <1>3, <2>3
    <3>2. N[j - Len(joined)].key \in from..(a - 1)
      BY <1>2, <3>1 DEF Within
    <3> QED BY <1>1, <2>1, <2>3, <3>1, <3>2
  <2> QED BY <1>3, <2>2, <2>3
<1>5. Sorted(F)
  <2> SUFFICES ASSUME NEW i \in DOMAIN F, NEW j \in DOMAIN F, i <= j PROVE F[i].key <= F[j].key
    BY DEF Sorted
  <2>0. i \in Nat /\ j \in Nat
    BY <1>3
  <2>1. CASE j <= Len(joined)
    <3>1. i \in DOMAIN joined /\ j \in DOMAIN joined /\ F[i] = joined[i] /\ F[j] = joined[j]
      BY <1>3, <1>4, <2>0, <2>1
    <3> QED BY <3>1 DEF Sorted
  <2>2. CASE j > Len(joined) /\ i <= Len(joined)
    <3>1. F[i].key \in Nat /\ F[i].key < from
      BY <1>3, <1>4, <2>0, <2>2
    <3>2. F[j].key \in Nat /\ F[j].key >= from
      BY <1>3, <1>4, <2>0, <2>2
    <3> QED BY <3>1, <3>2
  <2>3. CASE i > Len(joined)
    <3>1. /\ i - Len(joined) \in DOMAIN N /\ j - Len(joined) \in DOMAIN N
          /\ F[i] = N[i - Len(joined)] /\ F[j] = N[j - Len(joined)]
          /\ i - Len(joined) <= j - Len(joined)
      BY SMTT(30), <1>3, <1>4, <2>0, <2>3
    <3> QED BY <1>2, <3>1 DEF Sorted
  <2> QED BY <1>3, <2>0, <2>1, <2>2, <2>3
<1>6. Within(F, lo, a - 1)
  BY <1>1, <1>4 DEF Within
<1> QED BY <1>1, <1>3, <1>4, <1>5, <1>6 DEF F, a

(* A query while the backfill is being filled.                             *)
LEMMA QueryBase ==
  ASSUME Base, Filling,
         UNCHANGED <<sourceVars, storeVars, blockVars, windowVars, opened, tip, last, replayed, poison>>,
         ~poison,
         phase' \in {"split", "ready", "backfill"}, phase = "backfill" <=> phase' = "backfill",
         phase' = "ready" => parts' = <<>>, phase' = "split" => parts' # <<>>,
         next_from' \in Nat, next_from' <= tip + 1,
         \/ parts # <<>> /\ Queries(parts[1].from, fetched, next_from') /\ next_from' = next_from
         \/ parts = <<>> /\ fetched = <<>> /\ next_from <= tip /\ Queries(next_from, <<>>, next_from')
  PROVE  Base'
<1>1. /\ UNCHANGED <<chain, peak, reorgs, deep, attached, live, opened, tip, last, replayed, poison>>
      /\ UNCHANGED <<healthy, pending, head, flushed, maturing>>
      /\ UNCHANGED <<settling, current, buffer, watermark, table, progress>>
  BY DEF sourceVars, storeVars, blockVars, windowVars
<1>2. Top' = Top /\ final_cut' = final_cut /\ Resume' = Resume
  BY <1>1, CutSame, ResumeSame DEF Top
<1>3. fetched \in Seq(Event) /\ parts \in Seq(Part) /\ next_from \in Nat /\ Resume \in Nat /\ current \in Int /\ head \in Int
  BY PositionFacts, ResumeFacts DEF Base, TypeInv, StreamType, BlockType, WindowType
<1>4. Sorted(fetched) /\ Within(fetched, Resume, Ahead - 1) /\ (parts # <<>> => parts[1].from \in Nat) /\ Ahead \in Nat
  <2>1. parts # <<>> => parts[1] \in Part
    BY <1>3
  <2> QED BY <1>3, <2>1 DEF Base, FillFetched, Part, Ahead, AheadOf
<1>5. Resume <= Ahead
  BY DEF Base, FillFetched
<1> DEFINE joined == IF parts = <<>> THEN <<>> ELSE fetched
<1>6. /\ joined \in Seq(Event) /\ Queries(Ahead, joined, next_from') /\ joined = fetched
  BY <1>3 DEF Ahead, AheadOf
<1>7. \A j \in DOMAIN fetched : fetched[j].key \in Resume..(Ahead - 1) /\ fetched[j].key \in Nat
  BY <1>3, <1>4, ItemKeys DEF Within
<1> HIDE DEF joined
<1>9. /\ fetched' \in Seq(Event) /\ Sorted(fetched')
      /\ Within(fetched', Resume, Ahead' - 1)
      /\ \A j \in DOMAIN fetched' : \/ fetched'[j].key >= Ahead
                                    \/ j \in DOMAIN fetched /\ fetched'[j] = fetched[j]
      /\ Ahead' \in Nat /\ Ahead <= Ahead'
      /\ parts' \in Seq(Part) /\ PartsOK(parts', next_from')
  <2>1. AheadOf(parts', next_from') = Ahead'
    BY DEF Ahead, AheadOf
  <2> QED BY <1>3, <1>4, <1>5, <1>6, <2>1, QueryFills
<1>10. ChainTypeOK' /\ SourceInv'
  BY <1>1, <1>2 DEF Base, TypeInv, ChainTypeOK, SourceInv, StaysDeep, Filling
<1>11. StoreType' /\ BlockType' /\ WindowType' /\ StreamType'
  BY <1>1, <1>9 DEF Base, TypeInv, StoreType, BlockType, WindowType, StreamType, Phases
<1>12. Filling' /\ phase # "live" /\ phase' # "live" /\ phase' \notin {"idle", "attached", "tip"}
       /\ phase \notin {"idle", "attached", "tip"}
  BY DEF Filling
<1>13. Fresh' /\ TipInv' /\ StoreInv' /\ LiveInv'
  BY <1>1, <1>12 DEF Base, Fresh, TipInv, StoreInv, LiveInv
<1>14. PartsInv'
  BY <1>1, <1>9, <1>12 DEF Base, PartsInv
<1>15. FillFirst' /\ FillStore'
  BY <1>1, <1>2, <1>12 DEF Base, FillFirst, FillStore
<1>16. FillFetched'
  BY <1>1, <1>2, <1>3, <1>4, <1>5, <1>9 DEF FillFetched
<1>17. ASSUME NEW j \in DOMAIN fetched'
       PROVE  /\ fetched'[j].key \in Nat
              /\ settling /\ current # None => fetched'[j].key > current
              /\ healthy => fetched'[j].key >= head
  <2>1. fetched'[j].key \in Nat
    BY <1>9, ItemKeys
  <2>2. CASE fetched'[j].key >= Ahead
    BY <1>3, <1>4, <2>1, <2>2 DEF Base, FillBlock, FillWindow
  <2>3. CASE j \in DOMAIN fetched /\ fetched'[j] = fetched[j]
    <3>1. parts # <<>>
      BY <2>3
    <3> QED BY <2>1, <2>3, <3>1 DEF Base, FillBlock, FillWindow
  <2> QED BY <1>9, <2>1, <2>2, <2>3
<1>18. FillBlock'
  BY SMTT(30), <1>1, <1>2, <1>3, <1>4, <1>9, <1>17 DEF Base, FillBlock
<1>19. FillWindow'
  BY SMTT(30), <1>1, <1>2, <1>3, <1>4, <1>9, <1>17 DEF Base, FillWindow
<1> QED BY <1>10, <1>11, <1>13, <1>14, <1>15, <1>16, <1>18, <1>19 DEF Base, TypeInv

(* Base is preserved by query_first_part.                                  *)
LEMMA QueryFirstBase ==
  ASSUME Base, query_first_part
  PROVE  Base'
<1>1. /\ phase = "split" /\ query_range_split(parts, fetched)
      /\ phase' = IF parts' = <<>> THEN "ready" ELSE "split"
      /\ UNCHANGED <<sourceVars, storeVars, blockVars, windowVars, opened, tip, last, replayed, poison>>
      /\ next_from' = next_from
  BY DEF query_first_part
<1>2. Filling /\ ~poison /\ parts # <<>> /\ PartsOK(parts, next_from) /\ next_from <= tip + 1
  BY <1>1 DEF Base, Filling, FillFirst, PartsInv
<1>3. parts \in Seq(Part) /\ fetched \in Seq(Event) /\ next_from \in Nat /\ ChainTypeOK
  BY DEF Base, TypeInv, StreamType
<1>4. Queries(parts[1].from, fetched, next_from)
  BY <1>1, <1>2, <1>3, QuerySplits
<1>5. phase' \in {"split", "ready", "backfill"} /\ (phase = "backfill" <=> phase' = "backfill")
      /\ (phase' = "ready" => parts' = <<>>) /\ (phase' = "split" => parts' # <<>>)
  BY <1>1
<1> QED BY <1>1, <1>2, <1>3, <1>4, <1>5, QueryBase

(* Base is preserved by a failed query.                                    *)
LEMMA QueryFailedBase ==
  ASSUME Base, phase = "backfill", phase' = phase, query_failed, next_from' \in Nat, next_from' <= tip + 1,
         UNCHANGED <<sourceVars, storeVars, blockVars, windowVars, opened, tip, last, replayed>>
  PROVE  Base'
<1>1. /\ UNCHANGED <<chain, peak, reorgs, deep, attached, live, opened, tip, last, replayed, phase>>
      /\ UNCHANGED <<healthy, pending, head, flushed, maturing>>
      /\ UNCHANGED <<settling, current, buffer, watermark, table, progress>>
      /\ fetched' = <<>> /\ parts' = <<>> /\ poison' = TRUE
  BY DEF sourceVars, storeVars, blockVars, windowVars, query_failed
<1>2. Top' = Top /\ final_cut' = final_cut /\ Resume' = Resume
  BY <1>1, CutSame, ResumeSame DEF Top
<1>3. fetched' \in Seq(Event) /\ parts' \in Seq(Part) /\ DOMAIN fetched' = {} /\ DOMAIN parts' = {}
  BY <1>1
<1>4. ChainTypeOK' /\ SourceInv'
  BY <1>1, <1>2 DEF Base, TypeInv, ChainTypeOK, SourceInv, StaysDeep, Filling
<1>5. StoreType' /\ BlockType' /\ WindowType' /\ StreamType'
  BY <1>1, <1>3 DEF Base, TypeInv, StoreType, BlockType, WindowType, StreamType, Phases
<1>6. Fresh' /\ TipInv' /\ StoreInv' /\ LiveInv' /\ FillFirst' /\ Filling
  BY <1>1 DEF Base, Fresh, TipInv, StoreInv, LiveInv, FillFirst, Filling
<1>7. PartsInv'
  BY <1>1, <1>3 DEF PartsInv, PartsOK, Filling
<1>8. FillStore' /\ FillFetched' /\ FillBlock' /\ FillWindow'
  BY <1>1, <1>2, <1>3, <1>6 DEF Base, FillStore, FillFetched, FillBlock, FillWindow,
       Sorted, Within
<1> QED BY <1>4, <1>5, <1>6, <1>7, <1>8 DEF Base, TypeInv

(* Base is preserved by query_next.                                        *)
LEMMA QueryNextBase ==
  ASSUME Base, query_next
  PROVE  Base'
<1>1. /\ phase = "backfill" /\ phase' = phase /\ Filling
      /\ UNCHANGED <<sourceVars, storeVars, blockVars, windowVars, opened, tip, last, replayed>>
      /\ parts = <<>> => /\ fetched = <<>> /\ next_from <= tip /\ ~poison
                         /\ next_from' = window_end(next_from, tip) + 1
      /\ parts # <<>> => next_from' = next_from
  BY DEF query_next, Filling
<1>2. /\ parts \in Seq(Part) /\ fetched \in Seq(Event) /\ next_from \in Nat /\ ChainTypeOK /\ next_from <= tip + 1
      /\ PartsOK(parts, next_from) /\ tip \in Nat /\ (parts # <<>> => ~poison)
  BY <1>1, PositionFacts DEF Base, TypeInv, StreamType, TipInv, PartsInv
<1> DEFINE w == window_end(next_from, tip)
<1>3. parts = <<>> => /\ w \in Nat /\ next_from <= w /\ w <= tip
                      /\ <<[from |-> next_from, to |-> w]>> \in Seq(Part)
                      /\ <<[from |-> next_from, to |-> w]>> # <<>>
                      /\ <<[from |-> next_from, to |-> w]>>[1].from = next_from
                      /\ PartsOK(<<[from |-> next_from, to |-> w]>>, w + 1)
  BY <1>1, <1>2, WindowEnd
<1> HIDE DEF w
<1>4. next_from' \in Nat /\ next_from' <= tip + 1
  BY <1>1, <1>2, <1>3 DEF w
<1>5. CASE query_failed
  BY <1>1, <1>4, <1>5, QueryFailedBase
<1>6. CASE parts = <<>> /\ query_range_split(<<[from |-> next_from, to |-> w]>>, <<>>) /\ UNCHANGED poison
  <2>1. Queries(next_from, <<>>, w + 1)
    <3>1. <<>> \in Seq(Event) /\ w + 1 \in Nat
      BY <1>3, <1>6
    <3> QED BY <1>2, <1>3, <1>6, <3>1, QuerySplits
  <2>2. next_from' = w + 1 /\ ~poison /\ poison' = poison /\ fetched = <<>> /\ next_from <= tip
    BY <1>1, <1>6 DEF w
  <2> QED BY <1>1, <1>4, <1>6, <2>1, <2>2, QueryBase
<1>7. CASE parts # <<>> /\ query_range_split(parts, fetched) /\ UNCHANGED poison
  <2>1. Queries(parts[1].from, fetched, next_from)
    BY <1>2, <1>7, QuerySplits
  <2> QED BY <1>1, <1>2, <1>4, <1>7, <2>1, QueryBase
<1> QED BY <1>5, <1>6, <1>7 DEF query_next, w

(* Base is preserved by open_segments.                                     *)
LEMMA OpenBase ==
  ASSUME Base, open_segments
  PROVE  Base'
<1>1. /\ phase = "tip" /\ backfill_segment(backfill_from(progress)) /\ last' = progress
      /\ phase' = IF parts' = <<>> THEN "ready" ELSE "split"
      /\ UNCHANGED <<chain, peak, reorgs, deep, attached, live, opened, tip, replayed, poison, table, progress>>
      /\ settling' = TRUE /\ current' = None /\ buffer' = <<>> /\ watermark' = progress
      /\ healthy' = TRUE /\ pending' = window!NoGroups /\ head' = None /\ maturing' = {}
      /\ flushed' = IF progress > final_cut THEN progress ELSE final_cut
  BY DEF open_segments, sourceVars, storeVars, settled!new, window!new,
       window!advance, settled!None, window!None, None
<1>2. Top' = Top /\ final_cut' = final_cut /\ Resume' = backfill_from(progress)
  BY <1>1, CutSame DEF Top, Resume, backfill_from
<1>3. /\ tip \in Nat /\ tip \in Positions /\ progress \in Positions /\ progress \in Int
      /\ final_cut \in Positions /\ final_cut \in Int /\ tip >= None
      /\ Resume' \in Nat /\ Resume' > progress /\ ~poison /\ ChainTypeOK
  BY <1>1, <1>2, PositionFacts, CutFacts, ResumeOf DEF Base, TypeInv, StreamType,
       StoreType, TipInv, Fresh
<1>4. /\ next_from' \in Nat /\ next_from' <= tip + 1
      /\ fetched' \in Seq(Event) /\ parts' \in Seq(Part) /\ PartsOK(parts', next_from')
      /\ Sorted(fetched') /\ Within(fetched', Resume', Ahead' - 1) /\ Ahead' \in Nat
      /\ parts' # <<>> \/ next_from' <= tip => Resume' <= Ahead'
  <2> DEFINE from == backfill_from(progress)
             w == window_end(from, tip)
             ps == <<[from |-> from, to |-> w]>>
  <2>1. CASE from > tip /\ fetched' = <<>> /\ parts' = <<>> /\ next_from' = tip + 1
    <3>1. DOMAIN fetched' = {} /\ DOMAIN parts' = {} /\ fetched' \in Seq(Event) /\ parts' \in Seq(Part)
      BY <2>1
    <3>2. PartsOK(parts', next_from') /\ Sorted(fetched') /\ Within(fetched', Resume', Ahead' - 1)
      BY <2>1, <3>1 DEF PartsOK, Sorted, Within
    <3> QED BY <1>3, <2>1, <3>1, <3>2 DEF Ahead, AheadOf
  <2>2. CASE from <= tip /\ query_range_split(ps, <<>>) /\ next_from' = w + 1
    <3>1. from \in Nat
      BY <1>2, <1>3
    <3>2. w \in Nat /\ from <= w /\ w <= tip /\ ps \in Seq(Part) /\ ps # <<>> /\ ps[1].from = from /\ PartsOK(ps, w + 1)
      BY <1>3, <2>2, <3>1, WindowEnd
    <3> HIDE DEF ps, w
    <3>3. <<>> \in Seq(Event) /\ w + 1 \in Nat /\ Sorted(<<>>) /\ Within(<<>>, from, from - 1)
      <4>1. DOMAIN <<>> = {}
        OBVIOUS
      <4>2. Sorted(<<>>) /\ Within(<<>>, from, from - 1)
        BY <4>1, Zenon DEF Sorted, Within
      <4> QED BY <3>2, <4>2
    <3>4. Queries(from, <<>>, w + 1)
      BY <1>3, <2>2, <3>2, <3>3, QuerySplits
    <3>5. AheadOf(parts', next_from') = Ahead'
      BY DEF Ahead, AheadOf
    <3> HIDE DEF from
    <3>6. /\ fetched' \in Seq(Event) /\ Sorted(fetched')
          /\ Within(fetched', from, AheadOf(parts', w + 1) - 1)
          /\ AheadOf(parts', w + 1) \in Nat /\ from <= AheadOf(parts', w + 1)
          /\ parts' \in Seq(Part) /\ PartsOK(parts', w + 1)
      <4> DEFINE none == <<>>
                 end == w + 1
      <4>1. /\ from <= from /\ none \in Seq(Event) /\ end \in Nat /\ Sorted(none)
            /\ Within(none, from, from - 1) /\ Queries(from, none, end)
        BY <3>1, <3>3, <3>4
      <4> HIDE DEF none, end
      <4>2. /\ fetched' \in Seq(Event) /\ Sorted(fetched')
            /\ Within(fetched', from, AheadOf(parts', end) - 1)
            /\ AheadOf(parts', end) \in Nat /\ from <= AheadOf(parts', end)
            /\ parts' \in Seq(Part) /\ PartsOK(parts', end)
        BY <3>1, <4>1, QueryFills
      <4> QED BY <4>2 DEF end
    <3> QED BY <1>2, <1>3, <2>2, <3>2, <3>5, <3>6 DEF from
  <2> QED BY <1>1, <2>1, <2>2 DEF backfill_segment
<1>5. ChainTypeOK' /\ SourceInv'
  BY <1>1, <1>2 DEF Base, TypeInv, ChainTypeOK, SourceInv, StaysDeep
<1>6. Filling' /\ phase' \notin {"live", "backfill", "idle", "attached", "tip"} /\ phase' \in Phases
      /\ (phase' = "ready" => parts' = <<>>) /\ (phase' = "split" => parts' # <<>>)
  BY <1>1 DEF Filling, Phases
<1>7a. StoreType' /\ StreamType'
  BY <1>1, <1>3, <1>4, <1>6 DEF Base, TypeInv, StoreType, StreamType
<1>7b. BlockType'
  BY <1>1, <1>3, PositionFacts DEF BlockType
<1>7c. WindowType'
  BY <1>1, <1>3, NoGroupsFacts, PositionFacts DEF WindowType
<1>8. Fresh' /\ TipInv' /\ LiveInv' /\ FillFirst'
  BY <1>1, <1>3, <1>6 DEF Base, Fresh, TipInv, LiveInv, FillFirst
<1>9. StoreInv'
  BY <1>1, <1>3 DEF Base, StoreInv
<1>10. PartsInv'
  BY <1>1, <1>3, <1>4, <1>6 DEF PartsInv
<1>11. FillStore' /\ FillFetched'
  BY <1>1, <1>2, <1>3, <1>4 DEF FillStore, FillFetched
<1>12. FillBlock'
  BY <1>1 DEF FillBlock
<1>13. FillWindow'
  <2>1. \A j \in DOMAIN fetched' : fetched'[j].key \in Nat
    BY <1>4, ItemKeys
  <2> QED BY SMTT(30), <1>1, <1>3, <1>4, <2>1, NoGroupsFacts DEF FillWindow, None
<1> QED BY <1>5, <1>7a, <1>7b, <1>7c, <1>8, <1>9, <1>10, <1>11, <1>12, <1>13 DEF Base,
       TypeInv

-----------------------------------------------------------------------------
(***************************************************************************)
(* Base is preserved: the polls of the backfill.                           *)
(***************************************************************************)

(* The empty sequence is a sequence over any set.                          *)
LEMMA EmptyIsSeq == \A S : <<>> \in Seq(S)
OBVIOUS

(* The tail of a sequence.                                                 *)
LEMMA TailFacts ==
  ASSUME NEW S, NEW F \in Seq(S), F # <<>>
  PROVE  /\ Head(F) = F[1] /\ F[1] \in S /\ 1 \in DOMAIN F
         /\ Tail(F) \in Seq(S) /\ Len(F) \in Nat /\ Len(F) >= 1 /\ Len(Tail(F)) = Len(F) - 1
         /\ DOMAIN F = 1..Len(F) /\ DOMAIN Tail(F) = 1..(Len(F) - 1)
         /\ \A j \in DOMAIN Tail(F) : j + 1 \in DOMAIN F /\ Tail(F)[j] = F[j + 1]
OBVIOUS

(* A write at a height above the stored position.                          *)
LEMMA StoreGrows ==
  ASSUME StoreType, StoreInv, last' = last, peak' = peak, peak \in Nat, last \in Positions,
         NEW k \in Heights, NEW rows \in Seq(Row), k > progress, k + Depth <= peak,
         Wrote(k, rows) \/ UNCHANGED storeVars
  PROVE  /\ StoreType' /\ StoreInv' /\ progress' \in {progress, k}
         /\ Wrote(k, rows) => progress' = k /\ table'[k] = rows
         /\ \A h \in Keys : h # k => table'[h] = table[h]
<1>1. k \in Nat /\ progress \in Int /\ last \in Int /\ Depth \in Nat /\ k \in Keys
  BY PositionFacts, PersistedAssumption, KeysHeights DEF StoreType
<1>2. CASE UNCHANGED storeVars /\ ~Wrote(k, rows)
  BY <1>1, <1>2 DEF StoreType, StoreInv, storeVars
<1>3. CASE Wrote(k, rows)
  <2>1. /\ StoreType' /\ progress' = k /\ table'[k] = table[k] \o rows
        /\ \A h \in Keys : h # k => table'[h] = table[h]
    BY <1>1, <1>3, WroteStore
  <2>2. table[k] = <<>>
    BY <1>1 DEF StoreInv
  <2>3. table'[k] = rows
    BY <2>1, <2>2
  <2>4. \A h \in Keys : h > progress' => table'[h] = <<>>
    <3> SUFFICES ASSUME NEW h \in Keys, h > progress' PROVE table'[h] = <<>>
      OBVIOUS
    <3>1. h \in Nat /\ h > progress /\ h # k
      BY <1>1, <2>1 DEF Keys
    <3> QED BY <2>1, <3>1 DEF StoreInv
  <2>5. StoreInv'
    BY <1>1, <2>1, <2>4 DEF StoreInv
  <2> QED BY <2>1, <2>3, <2>5
<1> QED BY <1>2, <1>3

(* The next event of the backfill.                                         *)
LEMMA NextFetched ==
  ASSUME Base, poll_backfill
  PROVE  /\ phase = "backfill" /\ Filling /\ maturing = {} /\ parts = <<>> /\ ~poison
         /\ fetched # <<>> /\ fetched[1] \in Event /\ Head(fetched) = fetched[1]
         /\ fetched[1].key \in Heights /\ fetched[1].row \in Row
         /\ fetched[1].key \in Nat /\ Resume <= fetched[1].key /\ fetched[1].key < Ahead /\ fetched[1].key <= tip
         /\ tip \in Nat /\ Resume \in Nat /\ Ahead \in Nat /\ Resume > last
         /\ UNCHANGED <<chain, peak, reorgs, deep, attached, live, opened, tip, last, parts, next_from, poison, phase, replayed>>
         /\ Top' = Top /\ final_cut' = final_cut /\ Resume' = Resume /\ Ahead' = Ahead
         /\ fetched' = Tail(fetched) /\ fetched' \in Seq(Event) /\ fetched \in Seq(Event)
         /\ Sorted(fetched') /\ Within(fetched', Resume, Ahead - 1)
         /\ \A j \in DOMAIN fetched' : /\ fetched'[j].key \in Nat /\ fetched'[j].key >= fetched[1].key
                                       /\ j + 1 \in DOMAIN fetched /\ fetched'[j] = fetched[j + 1]
<1>1. /\ phase = "backfill" /\ Filling /\ maturing = {} /\ parts = <<>> /\ fetched # <<>>
      /\ UNCHANGED <<chain, peak, reorgs, deep, attached, live, opened, tip, last, parts, next_from, poison, phase, replayed>>
      /\ fetched' = Tail(fetched)
  BY DEF poll_backfill, Filling, sourceVars
<1>2. ~poison /\ fetched \in Seq(Event) /\ Sorted(fetched) /\ Within(fetched, Resume, Ahead - 1)
  BY <1>1 DEF Base, TypeInv, StreamType, PartsInv, FillFetched
<1>3. tip \in Nat /\ Resume \in Nat /\ Resume > last /\ next_from \in Nat /\ Ahead = next_from /\ next_from <= tip + 1
  BY <1>1, PositionFacts, ResumeFacts DEF Base, TypeInv, StreamType, TipInv, PartsInv,
       Ahead, AheadOf
<1>4. Top' = Top /\ final_cut' = final_cut /\ Resume' = Resume /\ Ahead' = Ahead
  BY <1>1, CutSame, ResumeSame DEF Top, Ahead
<1>5. /\ Head(fetched) = fetched[1] /\ fetched[1] \in Event /\ 1 \in DOMAIN fetched
      /\ fetched' \in Seq(Event) /\ DOMAIN fetched = 1..Len(fetched) /\ Len(fetched) \in Nat
      /\ DOMAIN fetched' = 1..(Len(fetched) - 1)
      /\ \A j \in DOMAIN fetched' : j + 1 \in DOMAIN fetched /\ fetched'[j] = fetched[j + 1]
  BY <1>1, <1>2, TailFacts
<1>6. fetched[1].key \in Heights /\ fetched[1].row \in Row /\ fetched[1].key \in Nat
  BY <1>5, ItemKeys
<1>7. fetched[1].key \in Resume..(Ahead - 1)
  BY <1>2, <1>5 DEF Within
<1>8. ASSUME NEW j \in DOMAIN fetched'
      PROVE  fetched'[j].key \in Nat /\ fetched'[j].key >= fetched[1].key /\ fetched'[j].key \in Resume..(Ahead - 1)
  <2>1. j + 1 \in DOMAIN fetched /\ fetched'[j] = fetched[j + 1] /\ 1 <= j + 1 /\ fetched[j + 1] \in Event
    BY <1>2, <1>5
  <2>2. fetched[1].key <= fetched[j + 1].key /\ fetched[j + 1].key \in Resume..(Ahead - 1) /\ fetched[j + 1].key \in Nat
    BY <1>2, <1>5, <2>1, ItemKeys DEF Sorted, Within
  <2> QED BY <1>6, <2>1, <2>2
<1>9. Sorted(fetched')
  <2> SUFFICES ASSUME NEW i \in DOMAIN fetched', NEW j \in DOMAIN fetched', i <= j
               PROVE  fetched'[i].key <= fetched'[j].key
    BY DEF Sorted
  <2>1. i + 1 \in DOMAIN fetched /\ j + 1 \in DOMAIN fetched /\ fetched'[i] = fetched[i + 1] /\ fetched'[j] = fetched[j + 1]
        /\ i + 1 <= j + 1
    BY <1>5
  <2> QED BY <1>2, <2>1 DEF Sorted
<1>10. Within(fetched', Resume, Ahead - 1)
  BY <1>8 DEF Within
<1> QED BY <1>1, <1>2, <1>3, <1>4, <1>5, <1>6, <1>7, <1>8, <1>9, <1>10

(* What poll_backfill leaves as it was.                                    *)
LEMMA BackfillFrame ==
  ASSUME Base, poll_backfill, StoreType', BlockType', WindowType', StoreInv', FillStore', FillBlock', FillWindow'
  PROVE  Base'
<1>1. /\ phase = "backfill" /\ Filling /\ parts = <<>> /\ ~poison
      /\ UNCHANGED <<chain, peak, reorgs, deep, attached, live, opened, tip, last, parts, next_from, poison, phase, replayed>>
      /\ Top' = Top /\ Resume' = Resume /\ Ahead' = Ahead
      /\ fetched' \in Seq(Event) /\ Sorted(fetched') /\ Within(fetched', Resume, Ahead - 1)
  BY NextFetched
<1>2. ChainTypeOK' /\ SourceInv' /\ TipInv'
  BY <1>1 DEF Base, TypeInv, ChainTypeOK, SourceInv, StaysDeep, TipInv
<1>3. StreamType'
  BY <1>1 DEF Base, TypeInv, StreamType
<1>4. Fresh' /\ LiveInv' /\ FillFirst' /\ PartsInv' /\ FillFetched'
  BY <1>1 DEF Base, Fresh, LiveInv, FillFirst, PartsInv, FillFetched, Filling
<1> QED BY <1>2, <1>3, <1>4 DEF Base, TypeInv

(* Base is preserved by a backfilled event at or below the cut.            *)
LEMMA PollSettledBase ==
  ASSUME Base, poll_backfill, fetched[1].key <= final_cut
  PROVE  Base'
<1> DEFINE k == fetched[1].key
           r == fetched[1].row
<1>1. /\ Filling /\ parts = <<>> /\ k \in Heights /\ k \in Nat /\ r \in Row /\ Resume <= k /\ k < Ahead /\ Ahead \in Nat
      /\ Resume \in Nat /\ Resume > last /\ k <= tip /\ tip \in Nat /\ Head(fetched) = fetched[1] /\ ~poison
      /\ UNCHANGED <<chain, peak, deep, live, opened, tip, last, parts, next_from, poison, phase>>
      /\ final_cut' = final_cut /\ Resume' = Resume /\ Ahead' = Ahead
      /\ \A j \in DOMAIN fetched' : /\ fetched'[j].key \in Nat /\ fetched'[j].key >= k
                                    /\ j + 1 \in DOMAIN fetched /\ fetched'[j] = fetched[j + 1]
  BY NextFetched
<1>2. UNCHANGED <<healthy, pending, head, flushed, maturing>> /\ settled!record(k, r)
  BY <1>1 DEF poll_backfill, windowVars
<1>3. /\ final_cut \in Int /\ final_cut \in Positions /\ final_cut + Depth = tip /\ Depth \in Nat
      /\ peak \in Nat /\ tip <= peak
  <2>1. final_cut # None
    BY <1>1 DEF None
  <2> QED BY <1>1, <2>1, CutFacts, PositionFacts, PersistedAssumption DEF Base,
         TypeInv, StreamType, ChainTypeOK, TipInv
<1>4. /\ progress \in Int /\ last \in Int /\ last \in Positions /\ flushed \in Int /\ watermark \in Int /\ current \in Int
      /\ progress \in Positions /\ watermark \in Positions /\ current \in Positions
      /\ buffer \in Seq(Row) /\ settling \in BOOLEAN /\ head \in Int /\ StoreType /\ StoreInv /\ WindowType
  BY PositionFacts DEF Base, TypeInv, StoreType, StreamType, BlockType, WindowType
<1>5. /\ maturing = {} /\ flushed = (IF last > final_cut THEN last ELSE final_cut)
      /\ progress <= flushed /\ watermark <= flushed /\ final_cut <= flushed
  BY <1>1, <1>3, <1>4 DEF Base, FillStore
<1> HIDE DEF k, r
<1>6. WindowType'
  BY <1>2, <1>4 DEF WindowType
<1>7. FillWindow'
  BY <1>1, <1>2, <1>4 DEF Base, FillWindow
<1>8. settling /\ current # None =>
        /\ Resume <= current /\ current <= final_cut /\ current > progress /\ current < Ahead
        /\ buffer # <<>> /\ current <= k /\ current \in Heights /\ current + Depth <= peak
  <2>1. 1 \in DOMAIN fetched
    BY NextFetched
  <2> QED BY <1>1, <1>3, <1>4, <2>1, PositionFacts DEF Base, FillBlock, k
<1>9. k > progress \/ (settling /\ current # None) \/ ~settling
  BY <1>1, <1>4 DEF Base, FillBlock
<1>10. CASE BlockSkips
  <2>1. StoreType' /\ BlockType' /\ StoreInv' /\ FillStore' /\ FillBlock'
    BY <1>1, <1>2, <1>10 DEF Base, TypeInv, StoreType, BlockType, StoreInv, FillStore,
         FillBlock, BlockSkips, blockVars, storeVars
  <2> QED BY <1>6, <1>7, <2>1, BackfillFrame
<1>11. CASE BlockHalts
  <2>0. UNCHANGED <<table, progress, current, watermark>> /\ settling' = FALSE /\ buffer' = <<>>
    BY <1>11 DEF BlockHalts, storeVars
  <2>1a. BlockType' /\ StoreType'
    BY <1>4, <2>0, EmptyIsSeq DEF BlockType, StoreType
  <2>1. StoreType' /\ BlockType' /\ StoreInv' /\ FillStore' /\ FillBlock'
    BY <1>1, <1>2, <2>0, <2>1a DEF Base, StoreInv, FillStore, FillBlock
  <2> QED BY <1>6, <1>7, <2>1, BackfillFrame
<1>12. CASE BlockAdds(k, r)
  <2>1. UNCHANGED <<table, progress>> /\ current' = k /\ buffer' = Append(buffer, r) /\ settling' = settling /\ settling
        /\ watermark' = watermark /\ buffer' \in Seq(Row) /\ buffer' # <<>> /\ (current = None \/ k = current)
    BY <1>1, <1>4, <1>12 DEF BlockAdds, storeVars
  <2>2. k > progress /\ k # None
    BY <1>1, <1>4, <1>8, <1>9, <2>1 DEF None, Base, FillBlock
  <2>3. StoreType' /\ StoreInv' /\ FillStore'
    BY <1>1, <1>2, <2>1 DEF Base, TypeInv, StoreType, StoreInv, FillStore
  <2>4. BlockType'
    BY <1>1, <1>4, <2>1, PositionFacts DEF BlockType
  <2>5. FillBlock'
    BY <1>1, <1>3, <1>4, <2>1, <2>2 DEF FillBlock, k
  <2> QED BY <1>6, <1>7, <2>3, <2>4, <2>5, BackfillFrame
<1>13. CASE BlockRolls(k, r)
  <2>1. /\ settling /\ current # None /\ k > current /\ Wrote(current, buffer)
        /\ watermark' = (IF watermark > current THEN watermark ELSE current)
        /\ current' = k /\ buffer' = <<r>> /\ settling' = settling /\ k # None
    BY <1>1, <1>13 DEF BlockRolls, None
  <2>2. StoreType' /\ StoreInv' /\ progress' = current
    BY <1>1, <1>3, <1>4, <1>8, <2>1, StoreGrows
  <2>3. BlockType'
    BY <1>1, <1>4, <2>1, PositionFacts DEF BlockType
  <2>4. FillStore'
    BY <1>1, <1>2, <1>3, <1>4, <1>5, <1>8, <2>1, <2>2 DEF FillStore
  <2>5. FillBlock'
    BY <1>1, <1>3, <1>4, <2>1, <2>2 DEF FillBlock, k
  <2> QED BY <1>6, <1>7, <2>2, <2>3, <2>4, <2>5, BackfillFrame
<1>14. CASE BlockFails
  <2>1. /\ settling /\ current # None /\ (Wrote(current, buffer) \/ UNCHANGED storeVars)
        /\ settling' = FALSE /\ current' = None /\ buffer' = <<>> /\ watermark' = watermark
    BY <1>14 DEF BlockFails, Failed
  <2>2. StoreType' /\ StoreInv' /\ progress' \in {progress, current}
    BY <1>1, <1>3, <1>4, <1>8, <2>1, StoreGrows
  <2>3. BlockType'
    BY <1>4, <2>1, PositionFacts, EmptyIsSeq DEF BlockType
  <2>4. FillStore'
    BY <1>1, <1>2, <1>3, <1>4, <1>5, <1>8, <2>1, <2>2 DEF FillStore
  <2>5. FillBlock'
    BY <2>1 DEF FillBlock
  <2> QED BY <1>6, <1>7, <2>2, <2>3, <2>4, <2>5, BackfillFrame
<1> QED BY <1>2, <1>10, <1>11, <1>12, <1>13, <1>14, BlockRecords

(* Base is preserved by a backfilled event above the cut.                  *)
LEMMA PollTailBase ==
  ASSUME Base, poll_backfill, ~(fetched[1].key <= final_cut)
  PROVE  Base'
<1> DEFINE k == fetched[1].key
           r == fetched[1].row
<1>1. /\ Filling /\ parts = <<>> /\ k \in Heights /\ k \in Nat /\ r \in Row /\ Resume <= k /\ k < Ahead /\ Ahead \in Nat
      /\ Resume \in Nat /\ Resume > last /\ k <= tip /\ tip \in Nat /\ Head(fetched) = fetched[1] /\ ~poison
      /\ UNCHANGED <<chain, peak, deep, live, opened, tip, last, parts, next_from, poison, phase>>
      /\ final_cut' = final_cut /\ Resume' = Resume /\ Ahead' = Ahead /\ maturing = {}
      /\ \A j \in DOMAIN fetched' : /\ fetched'[j].key \in Nat /\ fetched'[j].key >= k
                                    /\ j + 1 \in DOMAIN fetched /\ fetched'[j] = fetched[j + 1]
  BY NextFetched
<1>2. UNCHANGED <<settling, current, buffer, watermark>> /\ window!record_seeded(k, r)
  BY <1>1 DEF poll_backfill, blockVars
<1>3. /\ final_cut \in Int /\ \A g \in Nat : g > final_cut => tip < g + Depth
  BY <1>1, CutFacts, PositionFacts DEF Base, TypeInv, StreamType
<1>4. head \in Int /\ current \in Int /\ WindowType /\ Depth \in Nat
  BY PositionFacts, PersistedAssumption DEF Base, TypeInv, BlockType, WindowType
<1> HIDE DEF k, r
<1>5. WindowSkips \/ WindowHalts \/ WindowSeeds(k, r)
  BY <1>2, WindowSeedsRecords
<1>6. UNCHANGED <<table, progress>> /\ flushed' = flushed
  BY <1>5 DEF WindowSkips, WindowHalts, WindowSeeds, Buffers, storeVars, windowVars
<1>7. StoreType' /\ BlockType' /\ StoreInv' /\ FillBlock'
  BY <1>1, <1>2, <1>6 DEF Base, TypeInv, StoreType, BlockType, StoreInv, FillBlock
<1>8. CASE WindowSkips
  <2>1. UNCHANGED <<healthy, pending, head, flushed, maturing>> /\ ~healthy
    BY <1>8 DEF WindowSkips, windowVars
  <2>2. WindowType' /\ FillWindow' /\ FillStore'
    BY <1>1, <1>2, <1>6, <2>1 DEF Base, TypeInv, WindowType, FillWindow, FillStore
  <2> QED BY <1>7, <2>2, BackfillFrame
<1>9. CASE WindowHalts
  <2>1. UNCHANGED <<head, flushed, maturing>> /\ healthy' = FALSE /\ pending' = window!NoGroups /\ DOMAIN pending' = {}
    BY <1>9, NoGroupsFacts DEF WindowHalts
  <2>2. WindowType'
    BY <1>1, <1>4, <2>1, NoGroupsFacts DEF WindowType
  <2>3. FillWindow' /\ FillStore'
    BY <1>1, <1>2, <1>6, <2>1 DEF Base, FillWindow, FillStore
  <2> QED BY <1>7, <2>2, <2>3, BackfillFrame
<1>10. CASE WindowSeeds(k, r)
  <2>1. /\ WindowType'
        /\ DOMAIN pending' = DOMAIN pending \cup {k}
        /\ \A b \in DOMAIN pending : b # k => pending'[b] = pending[b]
        /\ pending'[k].rows = Append(PRows(k), r)
        /\ k \in DOMAIN pending => /\ pending'[k].seeded = pending[k].seeded
                                   /\ pending'[k].expected = pending[k].expected
        /\ k \notin DOMAIN pending => pending'[k].seeded /\ pending'[k].expected = <<>>
        /\ head' = k /\ flushed' = flushed /\ healthy' = healthy
        /\ maturing' = {b \in DOMAIN pending' : k >= b + Depth}
    BY <1>1, <1>4, <1>10, SeedsEffect
  <2>2. healthy /\ k >= head
    BY <1>10 DEF WindowSeeds
  <2>3. Append(PRows(k), r) # <<>>
    <3>1. PRows(k) \in Seq(Row)
      BY <1>4, GroupFields DEF PRows, WindowType, Groups
    <3> QED BY <1>1, <3>1
  <2>4. k > final_cut
    BY <1>1, <1>3 DEF k
  <2>5. ASSUME NEW b \in DOMAIN pending'
        PROVE  /\ pending'[b].seeded /\ pending'[b].rows # <<>> /\ pending'[b].expected = <<>>
               /\ b > final_cut /\ b >= Resume /\ b <= k /\ b \in Nat
    <3>1. CASE b = k
      <4>1. k \in DOMAIN pending => pending[k].seeded /\ pending[k].expected = <<>>
        BY <1>1 DEF Base, FillWindow
      <4> QED BY <1>1, <2>1, <2>3, <2>4, <3>1, <4>1
    <3>2. CASE b # k
      <4>1. b \in DOMAIN pending /\ pending'[b] = pending[b] /\ b \in Nat
        BY <1>4, <2>1, <3>2, PositionFacts DEF WindowType, Groups
      <4>2. /\ pending[b].seeded /\ pending[b].rows # <<>> /\ pending[b].expected = <<>>
            /\ b > final_cut /\ b >= Resume /\ b <= head
        BY <1>1, <4>1 DEF Base, FillWindow
      <4> QED BY <1>1, <1>4, <2>2, <4>1, <4>2
    <3> QED BY <3>1, <3>2
  <2>6. maturing' = {}
    <3> SUFFICES ASSUME NEW b \in maturing' PROVE FALSE
      OBVIOUS
    <3>1. b \in DOMAIN pending' /\ k >= b + Depth
      BY <2>1
    <3>2. b \in Nat /\ b > final_cut
      BY <2>5, <3>1
    <3>3. tip < b + Depth
      BY <1>3, <3>2
    <3> QED BY <1>1, <1>4, <3>1, <3>2, <3>3
  <2>7. FillStore'
    BY <1>1, <1>2, <1>6, <2>6 DEF Base, FillStore
  <2>8. FillWindow'
    BY <1>1, <2>1, <2>2, <2>5 DEF FillWindow
  <2> QED BY <1>7, <2>1, <2>7, <2>8, BackfillFrame
<1> QED BY <1>5, <1>8, <1>9, <1>10

(* Base is preserved by poll_backfill.                                     *)
LEMMA PollBase == ASSUME Base, poll_backfill PROVE Base'
BY PollSettledBase, PollTailBase

-----------------------------------------------------------------------------
(***************************************************************************)
(* Base is preserved: the end of the backfill.                             *)
(***************************************************************************)

(* What finish_backfill does, written out.                                 *)
LEMMA FinishForms ==
  ASSUME Base, finish_backfill
  PROVE  /\ phase = "backfill" /\ Filling /\ maturing = {} /\ parts = <<>> /\ fetched = <<>>
         /\ next_from > tip \/ poison
         /\ UNCHANGED <<chain, peak, reorgs, deep, attached, live>>
         /\ UNCHANGED <<opened, tip, last, fetched, parts, next_from, poison, replayed, seen>>
         /\ phase' = "live"
         /\ Top' = Top /\ final_cut' = final_cut /\ Resume' = Resume
         /\ maturing' = {} /\ head' = head /\ flushed' = flushed
         /\ settling' => pending' = pending /\ healthy' = healthy
         /\ ~settling' => pending' = window!NoGroups /\ healthy' = FALSE
         /\ \/ (~settling \/ current = None) /\ UNCHANGED <<settling, current, buffer, watermark, table, progress>>
            \/ /\ settling /\ current # None /\ current' = None /\ buffer' = <<>>
               /\ current \in Heights /\ current > progress /\ current + Depth <= peak /\ current <= final_cut
               /\ \/ Wrote(current, buffer) /\ settling'
                  \/ Failed(current, buffer) /\ ~settling'
         /\ settling' \in BOOLEAN /\ watermark' \in Positions /\ watermark' <= flushed
         /\ flushed = IF last > final_cut THEN last ELSE final_cut
<1>1. /\ phase = "backfill" /\ Filling /\ maturing = {} /\ parts = <<>> /\ fetched = <<>>
      /\ next_from > tip \/ poison
      /\ UNCHANGED <<chain, peak, reorgs, deep, attached, live>>
      /\ UNCHANGED <<opened, tip, last, fetched, parts, next_from, poison, replayed, seen>>
      /\ phase' = "live" /\ settled!finish
      /\ IF settling' THEN window!absorb(watermark') ELSE window!halt
  BY DEF finish_backfill, Filling, sourceVars, streamVars
<1>2. Top' = Top /\ final_cut' = final_cut /\ Resume' = Resume
  BY <1>1, CutSame, ResumeSame DEF Top
<1>3. /\ flushed = (IF last > final_cut THEN last ELSE final_cut) /\ watermark <= flushed /\ final_cut <= flushed
      /\ final_cut \in Int /\ last \in Int /\ flushed \in Int /\ watermark \in Int /\ watermark \in Positions
      /\ tip \in Nat /\ tip <= peak /\ peak \in Nat /\ settling \in BOOLEAN
      /\ current \in Positions /\ current \in Int /\ Depth \in Nat /\ progress \in Int
      /\ final_cut # None => final_cut + Depth = tip
  <2>1. /\ tip \in Positions /\ tip # None /\ last \in Positions /\ flushed \in Positions /\ watermark \in Positions
        /\ settling \in BOOLEAN /\ current \in Positions /\ peak \in Heights /\ tip <= peak /\ progress \in Positions
    BY <1>1 DEF Base, TypeInv, StreamType, BlockType, WindowType, StoreType,
         ChainTypeOK, TipInv
  <2>2. final_cut \in Positions /\ (final_cut # None => final_cut + Depth = tip)
    BY <2>1, CutFacts
  <2>3. flushed = (IF last > final_cut THEN last ELSE final_cut) /\ watermark <= flushed
    BY <1>1 DEF Base, FillStore
  <2> QED BY <2>1, <2>2, <2>3, PositionFacts, PersistedAssumption
<1>4. settling /\ current # None =>
        /\ current \in Heights /\ current > progress /\ current + Depth <= peak /\ current <= final_cut
  <2> SUFFICES ASSUME settling, current # None
               PROVE  /\ current \in Heights /\ current > progress /\ current + Depth <= peak /\ current <= final_cut
    OBVIOUS
  <2>1. current <= final_cut /\ current > progress
    BY <1>1 DEF Base, FillBlock
  <2>2. current \in Heights /\ current \in Nat
    BY <1>3, PositionFacts
  <2>3. final_cut # None
    BY <1>3, <2>1, <2>2 DEF None
  <2> QED BY <1>3, <2>1, <2>2, <2>3
<1>5. /\ \/ (~settling \/ current = None) /\ UNCHANGED <<settling, current, buffer, watermark, table, progress>>
         \/ /\ settling /\ current # None /\ current' = None /\ buffer' = <<>>
            /\ \/ Wrote(current, buffer) /\ settling'
               \/ Failed(current, buffer) /\ ~settling'
      /\ settling' \in BOOLEAN
      /\ watermark' \in {watermark, current} /\ (watermark' = current => watermark' = watermark \/ (settling /\ current # None))
  BY <1>1, <1>3, BlockFinishes DEF BlockEnds, BlockFails, blockVars, storeVars
<1>6. watermark' \in Positions /\ watermark' <= flushed /\ watermark' \in Int
  BY <1>3, <1>4, <1>5
<1>7. /\ maturing' = {} /\ head' = head /\ flushed' = flushed
      /\ settling' => pending' = pending /\ healthy' = healthy
      /\ ~settling' => pending' = window!NoGroups /\ healthy' = FALSE
  <2>1. CASE settling'
    <3>1. flushed' = (IF flushed > watermark' THEN flushed ELSE watermark')
          /\ UNCHANGED <<healthy, pending, head, maturing>>
      BY <1>1, <2>1 DEF window!absorb, window!advance
    <3> QED BY <1>1, <1>3, <1>6, <2>1, <3>1
  <2>2. CASE ~settling'
    BY <1>1, <2>2 DEF window!halt
  <2> QED BY <2>1, <2>2
<1> QED BY <1>1, <1>2, <1>3, <1>4, <1>5, <1>6, <1>7

(* Base is preserved by finish_backfill.                                   *)
LEMMA FinishBase ==
  ASSUME Base, finish_backfill
  PROVE  Base'
<1>1. /\ phase = "backfill" /\ Filling /\ maturing = {} /\ parts = <<>> /\ fetched = <<>>
      /\ UNCHANGED <<chain, peak, reorgs, deep, attached, live>>
      /\ UNCHANGED <<opened, tip, last, fetched, parts, next_from, poison, replayed>>
      /\ phase' = "live"
      /\ Top' = Top /\ final_cut' = final_cut /\ Resume' = Resume
      /\ maturing' = {} /\ head' = head /\ flushed' = flushed
      /\ settling' => pending' = pending /\ healthy' = healthy
      /\ ~settling' => pending' = window!NoGroups /\ healthy' = FALSE
      /\ settling' \in BOOLEAN /\ watermark' \in Positions
      /\ flushed = IF last > final_cut THEN last ELSE final_cut
  BY FinishForms
<1>2. \/ (~settling \/ current = None) /\ UNCHANGED <<settling, current, buffer, watermark, table, progress>>
      \/ /\ settling /\ current # None /\ current' = None /\ buffer' = <<>>
         /\ current \in Heights /\ current > progress /\ current + Depth <= peak /\ current <= final_cut
         /\ \/ Wrote(current, buffer) /\ settling'
            \/ Failed(current, buffer) /\ ~settling'
  BY FinishForms
<1>3. /\ final_cut \in Int /\ last \in Int /\ last \in Positions /\ flushed \in Int /\ tip \in Nat /\ peak \in Nat /\ tip <= peak
      /\ head \in Int /\ head <= tip /\ progress \in Int /\ progress <= flushed /\ current \in Int
      /\ buffer \in Seq(Row) /\ current \in Positions /\ StoreType /\ StoreInv /\ WindowType
      /\ Resume \in Nat /\ Resume > last /\ Depth \in Nat
      /\ \A g \in Nat : g > final_cut => tip < g + Depth
  <2>1. /\ tip \in Positions /\ tip # None /\ last \in Positions /\ flushed \in Positions
        /\ current \in Positions /\ peak \in Heights /\ tip <= peak /\ progress \in Positions /\ head \in Positions
        /\ buffer \in Seq(Row) /\ StoreType /\ StoreInv /\ WindowType
    BY <1>1 DEF Base, TypeInv, StreamType, BlockType, WindowType, StoreType,
         ChainTypeOK, TipInv
  <2>2. final_cut \in Positions /\ \A g \in Nat : g > final_cut => tip < g + Depth
    BY <2>1, CutFacts
  <2>3. progress <= flushed /\ head <= tip
    BY <1>1 DEF Base, FillStore, FillWindow
  <2> QED BY <2>1, <2>2, <2>3, PositionFacts, PersistedAssumption, ResumeFacts
<1>4. StoreType' /\ StoreInv' /\ (settling' => progress' <= flushed) /\ (settling' /\ ~settling => FALSE)
  <2>1. CASE UNCHANGED <<settling, current, buffer, watermark, table, progress>>
    BY <1>1, <1>3, <2>1 DEF StoreType, StoreInv
  <2>2. CASE /\ current \in Heights /\ current > progress /\ current + Depth <= peak /\ current <= final_cut /\ settling
             /\ Wrote(current, buffer) \/ Failed(current, buffer)
    <3>1. Wrote(current, buffer) \/ UNCHANGED storeVars
      BY <2>2 DEF Failed
    <3>2. StoreType' /\ StoreInv' /\ progress' \in {progress, current}
      BY <1>1, <1>3, <2>2, <3>1, StoreGrows
    <3> QED BY <1>1, <1>3, <2>2, <3>2
  <2> QED BY <1>2, <2>1, <2>2
<1>5. BlockType'
  BY <1>1, <1>2, <1>3, EmptyIsSeq, PositionFacts DEF Base, TypeInv, BlockType
<1>6. WindowType'
  BY <1>1, <1>3, NoGroupsFacts DEF WindowType
<1>7. ChainTypeOK' /\ SourceInv' /\ StreamType'
  BY <1>1 DEF Base, TypeInv, ChainTypeOK, SourceInv, StaysDeep, StreamType, Phases
<1>8. Fresh' /\ TipInv' /\ PartsInv'
  BY <1>1 DEF Base, Fresh, TipInv, PartsInv, Filling
<1>9. FillInv'
  BY <1>1 DEF FillInv, FillFirst, FillStore, FillFetched, FillBlock, FillWindow, Filling
<1>10. ASSUME NEW b \in DOMAIN pending'
       PROVE  /\ b > flushed /\ ~(head >= b + Depth) /\ settling'
              /\ pending'[b].rows # <<>> /\ b <= head
  <2>1. settling' /\ pending' = pending /\ b \in Nat
    BY <1>1, <1>6, <1>10, NoGroupsFacts, PositionFacts DEF WindowType, Groups
  <2>2. b > final_cut /\ b >= Resume /\ b <= head /\ pending[b].rows # <<>>
    BY <1>1, <1>10, <2>1 DEF Base, FillWindow
  <2>3. tip < b + Depth
    BY <1>3, <2>1, <2>2
  <2> QED BY SMTT(30), <1>1, <1>3, <2>1, <2>2, <2>3
<1>11. ~healthy' => pending' = window!NoGroups
  BY <1>1 DEF Base, FillWindow
<1>12. LiveInv'
  <2>1. HeadCovers'
    BY <1>1, <1>10 DEF HeadCovers
  <2>2. maturing' = {b \in DOMAIN pending' : head' >= b + Depth}
    BY <1>1, <1>10
  <2>3. healthy' => settling'
    BY <1>1
  <2> QED BY <1>1, <1>3, <1>4, <1>10, <1>11, <2>1, <2>2, <2>3 DEF LiveInv
<1> QED BY <1>4, <1>5, <1>6, <1>7, <1>8, <1>9, <1>12 DEF Base, TypeInv, FillInv

-----------------------------------------------------------------------------
(***************************************************************************)
(* Base is preserved: live items.                                          *)
(***************************************************************************)

(* An item of the live tail is taken.                                      *)
LEMMA LiveNext ==
  ASSUME Base, live_event \/ live_retract
  PROVE  /\ phase = "live" /\ phase' = "live" /\ maturing = {} /\ ~poison /\ live # <<>>
         /\ live \in Seq(Item) /\ live' \in Seq(Item) /\ live' = Tail(live)
         /\ live[1] \in Item /\ Head(live) = live[1] /\ live[1].key \in Heights /\ live[1].key \in Nat /\ live[1].key <= peak
         /\ UNCHANGED <<chain, peak, reorgs, deep, attached>>
         /\ UNCHANGED <<opened, tip, last, fetched, parts, next_from, poison, replayed>>
         /\ UNCHANGED <<settling, current, buffer, watermark>>
         /\ Top' = Top /\ final_cut' = final_cut /\ Resume' = Resume
         /\ UNCHANGED <<table, progress>> /\ flushed' = flushed
         /\ fetched = <<>>
         /\ 1 \in DOMAIN live /\ DOMAIN live = 1..Len(live) /\ Len(live) \in Nat /\ DOMAIN live' = 1..(Len(live) - 1)
         /\ \A j \in DOMAIN live' : j + 1 \in DOMAIN live /\ live'[j] = live[j + 1]
<1>1. /\ phase = "live" /\ phase' = "live" /\ maturing = {} /\ ~poison /\ live # <<>>
      /\ live' = Tail(live)
      /\ UNCHANGED <<chain, peak, reorgs, deep, attached>>
      /\ UNCHANGED <<opened, tip, last, fetched, parts, next_from, poison, replayed>>
      /\ UNCHANGED <<settling, current, buffer, watermark>>
  BY DEF live_event, live_retract, Polling, take_live, blockVars, streamVars
<1>2. Top' = Top /\ final_cut' = final_cut /\ Resume' = Resume
  BY <1>1, CutSame, ResumeSame DEF Top
<1>3. UNCHANGED <<table, progress>> /\ flushed' = flushed
  <2>1. CASE live_event
    <3>1. window!record(Head(live).key, Head(live).row)
      BY <2>1 DEF live_event
    <3>2. \/ WindowSkips
          \/ WindowHalts
          \/ WindowTakes(Head(live).key, Head(live).row)
      BY <3>1, WindowRecords
    <3> QED BY <3>2 DEF WindowSkips, WindowHalts, WindowTakes, Buffers, windowVars,
           storeVars
  <2>2. CASE live_retract
    <3>1. window!retract(Head(live).key)
      BY <2>2 DEF live_retract
    <3>2. WindowSkips \/ WindowHalts \/ WindowRewinds(Head(live).key)
      BY <3>1, WindowRetracts
    <3> QED BY <3>2 DEF WindowSkips, WindowHalts, WindowRewinds, windowVars, storeVars
  <2> QED BY <2>1, <2>2
<1>4. live \in Seq(Item) /\ fetched = <<>>
  BY <1>1 DEF Base, TypeInv, ChainTypeOK, PartsInv
<1>5. /\ Head(live) = live[1] /\ live[1] \in Item /\ 1 \in DOMAIN live
      /\ live' \in Seq(Item) /\ DOMAIN live = 1..Len(live) /\ Len(live) \in Nat /\ DOMAIN live' = 1..(Len(live) - 1)
      /\ \A j \in DOMAIN live' : j + 1 \in DOMAIN live /\ live'[j] = live[j + 1]
  BY <1>1, <1>4, TailFacts
<1>6. live[1].key \in Heights /\ live[1].key \in Nat
  BY <1>5, ItemKeys
<1>7. live[1].key <= peak
  BY <1>5 DEF Base, SourceInv
<1> QED BY <1>1, <1>2, <1>3, <1>4, <1>5, <1>6, <1>7

(* What a live step has to show for Base.                                  *)
LEMMA LiveFrame ==
  ASSUME Base, live_event \/ live_retract, WindowType', LiveInv'
  PROVE  Base'
<1>1. /\ phase = "live" /\ phase' = "live" /\ ~poison
      /\ live' \in Seq(Item) /\ live' = Tail(live)
      /\ UNCHANGED <<chain, peak, reorgs, deep, attached>>
      /\ UNCHANGED <<opened, tip, last, fetched, parts, next_from, poison, replayed>>
      /\ UNCHANGED <<settling, current, buffer, watermark>>
      /\ Top' = Top /\ UNCHANGED <<table, progress>>
      /\ \A j \in DOMAIN live' : j + 1 \in DOMAIN live /\ live'[j] = live[j + 1]
  BY LiveNext
<1>2. ChainTypeOK' /\ StoreType' /\ BlockType' /\ StreamType'
  BY <1>1 DEF Base, TypeInv, ChainTypeOK, StoreType, BlockType, StreamType
<1>3. SourceInv'
  <2>1. StaysDeep' /\ attached
    BY <1>1 DEF Base, SourceInv, StaysDeep
  <2>2. \A j \in DOMAIN live' : live'[j].key <= peak /\ (live'[j].kind = "Retract" => live'[j].key >= 1)
    BY <1>1 DEF Base, SourceInv
  <2> QED BY <1>1, <2>1, <2>2 DEF Base, SourceInv
<1>4. Fresh' /\ TipInv' /\ StoreInv' /\ PartsInv' /\ FillInv'
  BY <1>1 DEF Base, Fresh, TipInv, StoreInv, PartsInv, FillInv, FillFirst, FillStore,
       FillFetched, FillBlock, FillWindow, Filling
<1> QED BY <1>2, <1>3, <1>4 DEF Base, TypeInv, FillInv

(* The live window has halted.                                             *)
LEMMA LiveHalted ==
  ASSUME Base, live_event \/ live_retract, WindowSkips \/ WindowHalts
  PROVE  Base'
<1>1. /\ phase = "live" /\ phase' = "live" /\ maturing = {} /\ ~poison
      /\ UNCHANGED <<chain, peak, tip, last, poison, settling, table, progress, flushed>> /\ final_cut' = final_cut
  BY LiveNext
<1>2. healthy' = FALSE /\ pending' = window!NoGroups /\ head' = head /\ maturing' = {}
  <2>1. CASE WindowSkips
    <3>1. ~healthy /\ UNCHANGED <<healthy, pending, head, maturing>> /\ healthy \in BOOLEAN
      BY <2>1 DEF WindowSkips, windowVars, Base, TypeInv, WindowType
    <3> QED BY <1>1, <3>1 DEF Base, LiveInv
  <2>2. CASE WindowHalts
    BY <1>1, <2>2 DEF WindowHalts
  <2> QED BY <2>1, <2>2
<1>3. WindowType'
  BY <1>1, <1>2, NoGroupsFacts DEF Base, TypeInv, WindowType
<1>4. LiveInv'
  BY <1>1, <1>2, NoGroupsFacts DEF Base, LiveInv, HeadCovers
<1> QED BY <1>3, <1>4, LiveFrame

(* What live_event does to the window.                                     *)
LEMMA LiveEventForms ==
  ASSUME Base, live_event
  PROVE  /\ live[1].kind = "Event" /\ live[1].row \in Row /\ live[1] = Ev(live[1].key, live[1].row)
         /\ window!record(live[1].key, live[1].row)
         /\ \/ WindowSkips
            \/ WindowHalts /\ (live[1].row \in Unencodable \/ live[1].key <= flushed)
            \/ WindowTakes(live[1].key, live[1].row)
<1>1. Head(live) = live[1] /\ live[1] \in Item
  BY LiveNext
<1>2. window!record(live[1].key, live[1].row) /\ live[1].kind = "Event"
  BY <1>1 DEF live_event
<1>3. live[1].row \in Row /\ live[1] = Ev(live[1].key, live[1].row)
  BY <1>1, <1>2, ItemKeys
<1> QED BY <1>2, <1>3, WindowRecords

(* Base is preserved by live_event.                                        *)
LEMMA LiveEventBase ==
  ASSUME Base, live_event
  PROVE  Base'
<1> DEFINE k == live[1].key
           r == live[1].row
<1>1. CASE WindowTakes(k, r)
  <2>1. /\ phase = "live" /\ phase' = "live" /\ maturing = {} /\ ~poison /\ k \in Heights /\ k \in Nat /\ k <= peak
        /\ UNCHANGED <<chain, peak, tip, last, poison, settling, table, progress, flushed>> /\ final_cut' = final_cut
    BY LiveNext
  <2>2. r \in Row /\ WindowType /\ HeadCovers
    BY <2>1, LiveEventForms DEF Base, TypeInv, LiveInv
  <2>3. healthy /\ ~(k <= flushed)
    BY <1>1 DEF WindowTakes
  <2> HIDE DEF k, r
  <2>4. /\ WindowType'
        /\ k \in DOMAIN pending' /\ DOMAIN pending' \subseteq DOMAIN pending \cup {k}
        /\ head' = k /\ healthy' = healthy
        /\ maturing' = {b \in DOMAIN pending' : k >= b + Depth}
        /\ HeadCovers'
    BY <1>1, <2>1, <2>2, TakesEffect
  <2>5. flushed \in Int
    BY <2>2, PositionFacts DEF WindowType
  <2>6. \A b \in DOMAIN pending' : b > flushed
    BY <2>1, <2>3, <2>4, <2>5 DEF Base, LiveInv
  <2>7. LiveInv'
    BY <2>1, <2>3, <2>4, <2>6 DEF Base, LiveInv
  <2> QED BY <2>4, <2>7, LiveFrame
<1> QED BY <1>1, LiveHalted, LiveEventForms

(* What live_retract does to the window.                                   *)
LEMMA LiveRetractForms ==
  ASSUME Base, live_retract
  PROVE  /\ live[1].kind = "Retract" /\ live[1].key >= 1
         /\ \/ WindowSkips
            \/ WindowHalts /\ live[1].key <= flushed
            \/ WindowRewinds(live[1].key)
<1>1. Head(live) = live[1] /\ live[1] \in Item /\ 1 \in DOMAIN live
  BY LiveNext
<1>2. window!retract(live[1].key) /\ live[1].kind = "Retract"
  BY <1>1 DEF live_retract
<1> QED BY <1>1, <1>2, WindowRetracts DEF Base, SourceInv

(* Base is preserved by live_retract.                                      *)
LEMMA LiveRetractBase ==
  ASSUME Base, live_retract
  PROVE  Base'
<1> DEFINE k == live[1].key
<1>1. CASE WindowRewinds(k)
  <2>1. /\ phase = "live" /\ phase' = "live" /\ maturing = {} /\ ~poison /\ k \in Heights /\ k \in Nat /\ k <= peak
        /\ UNCHANGED <<chain, peak, tip, last, poison, settling, table, progress, flushed>> /\ final_cut' = final_cut
    BY LiveNext
  <2>2. WindowType /\ HeadCovers /\ k >= 1
    BY <2>1, LiveRetractForms DEF Base, TypeInv, LiveInv
  <2> HIDE DEF k
  <2>3. /\ WindowType'
        /\ DOMAIN pending' \subseteq DOMAIN pending
        /\ head' = (IF head < k - 1 THEN head ELSE k - 1)
        /\ healthy' = healthy /\ healthy /\ maturing' = {}
        /\ HeadCovers'
    BY <1>1, <2>1, <2>2, RewindsEffect
  <2>4. head \in Int /\ Depth \in Nat /\ \A b \in DOMAIN pending : b \in Nat
    BY <2>2, PositionFacts, PersistedAssumption DEF WindowType, Groups
  <2>5. head' <= head /\ head' \in Int
    BY <2>1, <2>3, <2>4
  <2>6. {b \in DOMAIN pending' : head' >= b + Depth} = {}
    <3> SUFFICES ASSUME NEW b \in DOMAIN pending', head' >= b + Depth PROVE FALSE
      OBVIOUS
    <3>1. b \in DOMAIN pending /\ b \in Nat
      BY <2>3, <2>4
    <3>2. head >= b + Depth
      BY <2>4, <2>5, <3>1
    <3> QED BY <2>1, <3>1, <3>2 DEF Base, LiveInv
  <2>7. LiveInv'
    <3>1. head' <= peak
      BY <2>1, <2>4, <2>5, PositionFacts DEF Base, TypeInv, ChainTypeOK, LiveInv
    <3> QED BY <2>1, <2>3, <2>6, <3>1 DEF Base, LiveInv
  <2> QED BY <2>3, <2>7, LiveFrame
<1> QED BY <1>1, LiveHalted, LiveRetractForms

-----------------------------------------------------------------------------
(***************************************************************************)
(* Base is preserved: the flush, and all steps together.                   *)
(***************************************************************************)

(* What flush_matured does, written out.                                   *)
LEMMA FlushForms ==
  ASSUME Base, flush_matured
  PROVE  /\ phase = "live" /\ ~poison /\ healthy /\ settling
         /\ UNCHANGED <<chain, peak, reorgs, deep, attached, live>>
         /\ UNCHANGED <<opened, tip, last, fetched, parts, next_from, poison, replayed, phase, seen>>
         /\ UNCHANGED <<settling, current, buffer, watermark>>
         /\ Top' = Top /\ final_cut' = final_cut /\ Resume' = Resume
         /\ \E k \in Heights :
              /\ k \in DOMAIN pending /\ pending[k].rows \in Seq(Row)
              /\ k > flushed /\ k > progress /\ head >= k + Depth /\ k + Depth <= peak
              /\ \A b \in DOMAIN pending : b # k => b > k
              /\ head' = head
              /\ \/ /\ Wrote(k, pending[k].rows) /\ flushed' = k /\ healthy' = healthy
                    /\ maturing' = maturing \ {k}
                    /\ DOMAIN pending' = DOMAIN pending \ {k}
                    /\ \A b \in DOMAIN pending' : pending'[b] = pending[b]
                 \/ /\ Failed(k, pending[k].rows) /\ flushed' = flushed /\ healthy' = FALSE
                    /\ maturing' = {} /\ pending' = window!NoGroups
<1>1. /\ UNCHANGED <<chain, peak, reorgs, deep, attached, live>>
      /\ UNCHANGED <<opened, tip, last, fetched, parts, next_from, poison, replayed, phase, seen>>
      /\ UNCHANGED <<settling, current, buffer, watermark>> /\ window!flush
  BY DEF flush_matured, sourceVars, blockVars, streamVars
<1>2. PICK k : Flushes(k) \/ FlushFails(k)
  BY <1>1, WindowFlushes
<1>3. k \in maturing /\ \A c \in maturing : k <= c
  BY <1>2 DEF Flushes, FlushFails
<1>4. phase = "live"
  <2>1. phase \in Phases
    BY DEF Base, TypeInv, StreamType
  <2> QED BY <1>3, <2>1 DEF Base, Fresh, FillStore, Filling, Phases
<1>5. WindowType /\ k \in DOMAIN pending /\ head >= k + Depth /\ ~poison /\ head <= peak
      /\ maturing = {b \in DOMAIN pending : head >= b + Depth}
  BY <1>3, <1>4 DEF Base, TypeInv, LiveInv
<1>6. healthy /\ progress <= flushed /\ settling /\ \A b \in DOMAIN pending : b > flushed
  <2>1. healthy
    BY <1>4, <1>5, NoGroupsFacts DEF Base, LiveInv
  <2> QED BY <1>4, <2>1 DEF Base, LiveInv
<1>7. /\ k \in Heights /\ k \in Nat /\ pending[k].rows \in Seq(Row) /\ head \in Int /\ flushed \in Int /\ progress \in Int
      /\ peak \in Nat /\ Depth \in Nat /\ \A b \in DOMAIN pending : b \in Nat
  BY <1>5, GroupFields, PositionFacts, PersistedAssumption DEF WindowType, Groups,
       Base, TypeInv, StoreType, ChainTypeOK
<1>8. k > flushed /\ k > progress /\ k + Depth <= peak
  BY <1>5, <1>6, <1>7
<1>9. ASSUME NEW b \in DOMAIN pending, b # k PROVE b > k
  <2>1. CASE b \in maturing
    BY <1>3, <1>7, <1>9, <2>1
  <2>2. CASE b \notin maturing
    BY <1>5, <1>7, <1>9, <2>2
  <2> QED BY <2>1, <2>2
<1>10. Top' = Top /\ final_cut' = final_cut /\ Resume' = Resume
  BY <1>1, CutSame, ResumeSame DEF Top
<1>11. /\ head' = head
       /\ \/ /\ Wrote(k, pending[k].rows) /\ flushed' = k /\ healthy' = healthy
             /\ maturing' = maturing \ {k}
             /\ DOMAIN pending' = DOMAIN pending \ {k}
             /\ \A b \in DOMAIN pending' : pending'[b] = pending[b]
          \/ /\ Failed(k, pending[k].rows) /\ flushed' = flushed /\ healthy' = FALSE
             /\ maturing' = {} /\ pending' = window!NoGroups
  <2>1. CASE Flushes(k)
    BY <1>7, <1>8, <2>1 DEF Flushes, window!Without
  <2>2. CASE FlushFails(k)
    BY <2>2 DEF FlushFails
  <2> QED BY <1>2, <2>1, <2>2
<1> QED BY <1>1, <1>4, <1>5, <1>6, <1>7, <1>8, <1>9, <1>10, <1>11

(* Base is preserved by flush_matured.                                     *)
LEMMA FlushBase ==
  ASSUME Base, flush_matured
  PROVE  Base'
<1>1. /\ phase = "live" /\ ~poison /\ healthy /\ settling
      /\ UNCHANGED <<chain, peak, reorgs, deep, attached, live>>
      /\ UNCHANGED <<opened, tip, last, fetched, parts, next_from, poison, replayed, phase>>
      /\ UNCHANGED <<settling, current, buffer, watermark>>
      /\ Top' = Top /\ final_cut' = final_cut /\ Resume' = Resume
  BY FlushForms
<1>2. PICK k \in Heights :
        /\ k \in DOMAIN pending /\ pending[k].rows \in Seq(Row)
        /\ k > flushed /\ k > progress /\ head >= k + Depth /\ k + Depth <= peak
        /\ \A b \in DOMAIN pending : b # k => b > k
        /\ head' = head
        /\ \/ /\ Wrote(k, pending[k].rows) /\ flushed' = k /\ healthy' = healthy
              /\ maturing' = maturing \ {k}
              /\ DOMAIN pending' = DOMAIN pending \ {k}
              /\ \A b \in DOMAIN pending' : pending'[b] = pending[b]
           \/ /\ Failed(k, pending[k].rows) /\ flushed' = flushed /\ healthy' = FALSE
              /\ maturing' = {} /\ pending' = window!NoGroups
  BY FlushForms
<1>3. /\ StoreType /\ StoreInv /\ WindowType /\ peak \in Nat /\ last \in Positions /\ k \in Nat /\ last \in Int
      /\ flushed \in Int /\ final_cut \in Int /\ k \in Positions
  BY PositionFacts, CutFacts DEF Base, TypeInv, ChainTypeOK, StreamType, WindowType
<1>4. Wrote(k, pending[k].rows) \/ UNCHANGED storeVars
  BY <1>2 DEF Failed
<1>5. StoreType' /\ StoreInv' /\ (Wrote(k, pending[k].rows) => progress' = k)
  BY <1>1, <1>2, <1>3, <1>4, StoreGrows
<1>6. ChainTypeOK' /\ SourceInv' /\ BlockType' /\ StreamType' /\ Fresh' /\ TipInv' /\ PartsInv'
  BY <1>1 DEF Base, TypeInv, ChainTypeOK, SourceInv, StaysDeep, BlockType, StreamType,
       Fresh, TipInv, PartsInv, Filling
<1>7. FillInv'
  BY <1>1 DEF FillInv, FillFirst, FillStore, FillFetched, FillBlock, FillWindow, Filling
<1>8. CASE /\ Wrote(k, pending[k].rows) /\ flushed' = k /\ healthy' = healthy
           /\ maturing' = maturing \ {k}
           /\ DOMAIN pending' = DOMAIN pending \ {k}
           /\ \A b \in DOMAIN pending' : pending'[b] = pending[b]
  <2>1. maturing = {b \in DOMAIN pending : head >= b + Depth} /\ HeadCovers /\ head <= peak /\ final_cut <= flushed /\ last <= flushed
    BY <1>1 DEF Base, LiveInv
  <2>2. WindowType'
    BY <1>2, <1>3, <1>8 DEF WindowType, Groups
  <2>3. HeadCovers'
    BY <1>2, <1>8, <2>1 DEF HeadCovers
  <2>4. maturing' = {b \in DOMAIN pending' : head' >= b + Depth}
    BY <1>2, <1>8, <2>1
  <2>5. \A b \in DOMAIN pending' : b > flushed'
    BY <1>2, <1>8
  <2>6. progress' <= flushed' /\ final_cut' <= flushed' /\ last' <= flushed'
    BY <1>1, <1>2, <1>3, <1>5, <1>8, <2>1
  <2>7. LiveInv'
    BY <1>1, <1>2, <1>8, <2>1, <2>3, <2>4, <2>5, <2>6 DEF LiveInv
  <2> QED BY <1>5, <1>6, <1>7, <2>2, <2>7 DEF Base, TypeInv, FillInv
<1>9. CASE /\ flushed' = flushed /\ healthy' = FALSE
           /\ maturing' = {} /\ pending' = window!NoGroups
  <2>1. WindowType'
    BY <1>2, <1>3, <1>9, NoGroupsFacts DEF WindowType
  <2>2. LiveInv'
    BY <1>1, <1>2, <1>9, NoGroupsFacts DEF Base, LiveInv, HeadCovers
  <2> QED BY <1>5, <1>6, <1>7, <2>1, <2>2 DEF Base, TypeInv, FillInv
<1> QED BY <1>2, <1>8, <1>9

(* A step that only ends the stream.                                       *)
Ends == subscribe_fails \/ drop_unpolled \/ poison_ends \/ stream_ends \/ crash

(* Every end of a stream closes it; only a crash forgets what was          *)
(* delivered.                                                              *)
LEMMA EndsForms ==
  ASSUME Ends
  PROVE  /\ Closed
         /\ \/ UNCHANGED <<replayed, seen>>
            \/ replayed' = FALSE /\ seen' = {}
BY DEF Ends, subscribe_fails, drop_unpolled, poison_ends, stream_ends, crash

(* The steps of the system, the ends taken together.                       *)
LEMMA NextSteps ==
  ASSUME Next
  PROVE  \/ Source \/ subscribe_live \/ read_tip \/ open_segments \/ query_first_part \/ poll_replay
         \/ poll_backfill \/ query_next \/ finish_backfill
         \/ live_event \/ live_retract \/ flush_matured \/ Ends
BY DEF Next, Stream, Ends

(* Base is preserved by stuttering.                                        *)
LEMMA StutterBase == ASSUME Base, UNCHANGED vars PROVE Base'
<1>1. /\ UNCHANGED <<chain, peak, reorgs, deep, attached, live>>
      /\ UNCHANGED <<opened, tip, last, fetched, parts, next_from, poison, replayed, phase>>
      /\ UNCHANGED <<settling, current, buffer, watermark, table, progress>>
      /\ UNCHANGED <<healthy, pending, head, flushed, maturing>>
  BY DEF vars, sourceVars, storeVars, blockVars, windowVars, streamVars
<1>2. Top' = Top /\ final_cut' = final_cut /\ Resume' = Resume /\ Ahead' = Ahead
  BY <1>1, CutSame, ResumeSame DEF Top, Ahead
<1>3. TypeInv' /\ SourceInv'
  BY <1>1, <1>2 DEF Base, TypeInv, ChainTypeOK, StoreType, BlockType, WindowType,
       StreamType, SourceInv, StaysDeep
<1>4. Fresh' /\ TipInv' /\ StoreInv' /\ PartsInv' /\ LiveInv'
  BY <1>1, <1>2 DEF Base, Fresh, TipInv, StoreInv, PartsInv, LiveInv, HeadCovers, Filling
<1>5. FillInv'
  BY <1>1, <1>2 DEF Base, FillInv, FillFirst, FillStore, FillFetched, FillBlock,
       FillWindow, Filling
<1> QED BY <1>3, <1>4, <1>5 DEF Base, FillInv

(* Base is preserved by every step.                                        *)
LEMMA NextBase ==
  ASSUME Base, Next
  PROVE  Base'
<1>1. CASE Ends
  <2>1. replayed' \in BOOLEAN
    BY <1>1, EndsForms DEF Base, TypeInv, StreamType
  <2> QED BY <1>1, <2>1, EndsForms, ClosedBase
<1> QED BY <1>1, NextSteps, SourceBase, SubscribeBase, ReadTipBase, OpenBase,
       QueryFirstBase, ReplayBase, PollBase,
          QueryNextBase, FinishBase, LiveEventBase, LiveRetractBase, FlushBase

(* The control invariant holds for chains of any height, any contents, any *)
(* depth, chunk size and start block, with deep reorgs, failing queries    *)
(* and failing writes.                                                     *)
THEOREM BaseAlways == Spec => []Base
<1>1. Base /\ [Next]_vars => Base'
  BY NextBase, StutterBase
<1> QED BY <1>1, InitBase, PTL DEF Spec

-----------------------------------------------------------------------------
(***************************************************************************)
(* Downstream has had what the writers hold and what the Store holds.      *)
(***************************************************************************)

(* What is stored or about to be stored has been delivered.                *)
SeenInv ==
  /\ phase \in {"backfill", "live"} => replayed
  /\ Pairs(current, buffer) \subseteq seen
  /\ \A b \in DOMAIN pending : /\ Pairs(b, pending[b].rows) \subseteq seen
                               /\ Pairs(b, pending[b].expected) \subseteq seen
  /\ replayed => \A h \in Heights : Pairs(h, table[h]) \subseteq seen

(* An empty block has no pairs.                                            *)
LEMMA NoPairs == \A h : Pairs(h, <<>>) = {}
BY DEF Pairs

(* The pairs of a longer block.                                            *)
LEMMA PairsAppend ==
  ASSUME NEW h, NEW s \in Seq(Row), NEW r \in Row, NEW T, Pairs(h, s) \subseteq T, <<h, r>> \in T
  PROVE  Pairs(h, Append(s, r)) \subseteq T
BY DEF Pairs

(* The pairs of a block of one row.                                        *)
LEMMA PairsOfRow ==
  ASSUME NEW h, NEW r, NEW T, <<h, r>> \in T
  PROVE  Pairs(h, <<r>>) \subseteq T
BY DEF Pairs

(* Stored events, as pairs.                                                *)
LEMMA StoredPairs ==
  /\ (\A h \in Heights : Pairs(h, table[h]) \subseteq seen) <=> StoredEvents \subseteq seen
BY DEF StoredEvents, Pairs

-----------------------------------------------------------------------------
(***************************************************************************)
(* SeenInv is preserved, action by action.                                 *)
(***************************************************************************)

(* A row record does not deliver is one the backfill delivered.            *)
LEMMA SuppressedSeen ==
  ASSUME WindowType, NEW k \in Heights, NEW r, ~window!delivered(k, r)
  PROVE  k \in DOMAIN pending /\ <<k, r>> \in Pairs(k, pending[k].rows) \cup Pairs(k, pending[k].expected)
<1> DEFINE p == window!Rewound(k)
<1>1. window!Contains(window!Touched(p, k).expected, r)
  BY DEF window!delivered
<1>2. Groups(pending) /\ (k \in DOMAIN pending => pending[k] \in window!Group)
  BY DEF WindowType, Groups
<1>3. k \in DOMAIN p => k \in DOMAIN pending /\ (p[k] = pending[k] \/ (p[k].expected = pending[k].rows /\ ~p[k].seeded))
  <2>1. CASE k < head
    <3>1. p = window!rewind(pending, k)
      BY <2>1 DEF window!Rewound
    <3>2. k \in Nat /\ ~(k < k)
      BY PositionFacts
    <3> QED BY <1>2, <3>1, <3>2, RewindEffect
  <2>2. CASE ~(k < head)
    BY <2>2 DEF window!Rewound
  <2> QED BY <2>1, <2>2
<1> HIDE DEF p
<1>4. k \in DOMAIN p
  <2> SUFFICES ASSUME k \notin DOMAIN p PROVE FALSE
    OBVIOUS
  <2>1. window!Touched(p, k).expected = <<>>
    BY DEF window!Touched
  <2>2. window!Contains(<<>>, r)
    BY <1>1, <2>1
  <2> QED BY <2>2 DEF window!Contains
<1>5. window!Touched(p, k).expected \in {pending[k].rows, pending[k].expected}
  BY <1>3, <1>4 DEF window!Touched, window!Converted
<1>6. \A s : window!Contains(s, r) => <<k, r>> \in Pairs(k, s)
  BY DEF window!Contains, Pairs
<1> QED BY <1>1, <1>3, <1>4, <1>5, <1>6

(* A step changes the rows of block k alone, to rows that were delivered.  *)
StoresSeen(k) ==
  /\ Pairs(k, table'[k]) \subseteq seen
  /\ \A h \in Keys : h # k => table'[h] = table[h]

(* Whatever a step delivers, nothing is taken back, and what it writes was *)
(* delivered.                                                              *)
LEMMA SeenFrame ==
  ASSUME Base, SeenInv, seen \subseteq seen', replayed' = replayed,
         phase' \in {"backfill", "live"} => replayed,
         \/ UNCHANGED <<table>>
         \/ \E k \in Heights : StoresSeen(k),
         Pairs(current', buffer') \subseteq seen',
         \A b \in DOMAIN pending' : /\ Pairs(b, pending'[b].rows) \subseteq seen'
                                    /\ Pairs(b, pending'[b].expected) \subseteq seen'
  PROVE  SeenInv'
<1>1. replayed' => \A h \in Heights : Pairs(h, table'[h]) \subseteq seen'
  <2> SUFFICES ASSUME replayed, NEW h \in Heights PROVE Pairs(h, table'[h]) \subseteq seen'
    OBVIOUS
  <2>1. Pairs(h, table[h]) \subseteq seen
    BY DEF SeenInv
  <2>2. CASE UNCHANGED table
    BY <2>1, <2>2
  <2>3. CASE \E k \in Heights : StoresSeen(k)
    <3>1. PICK k \in Heights : StoresSeen(k)
      BY <2>3
    <3>2. h \in Keys
      BY KeysHeights
    <3>3. CASE h = k
      BY <3>1, <3>3 DEF StoresSeen
    <3>4. CASE h # k
      BY <2>1, <3>1, <3>2, <3>4 DEF StoresSeen
    <3> QED BY <3>3, <3>4
  <2> QED BY <2>2, <2>3
<1> QED BY <1>1 DEF SeenInv

(* SeenInv holds initially.                                                *)
LEMMA InitSeen == Init => SeenInv
<1> SUFFICES ASSUME Init PROVE SeenInv
  OBVIOUS
<1>1. pending = window!NoGroups /\ buffer = <<>> /\ phase = "idle" /\ replayed = FALSE
  BY DEF Init, window!Init
<1> QED BY <1>1, NoPairs, NoGroupsFacts DEF SeenInv

(* SeenInv is preserved, action by action: by every end of a stream,       *)
LEMMA EndsSeen == ASSUME Base, SeenInv, Ends PROVE SeenInv'
<1>1. Closed /\ (UNCHANGED <<replayed, seen>> \/ (replayed' = FALSE /\ seen' = {}))
  BY EndsForms
<1>2. phase' = "idle" /\ pending' = window!NoGroups /\ buffer' = <<>> /\ table' = table
  BY <1>1 DEF Closed, window!new, settled!new, storeVars
<1> QED BY <1>1, <1>2, NoPairs, NoGroupsFacts DEF SeenInv

(* The steps that neither deliver nor buffer.                              *)
LEMMA QuietSeen ==
  ASSUME Base, SeenInv,
         Source \/ subscribe_live \/ read_tip \/ open_segments \/ query_first_part \/ query_next
  PROVE  SeenInv'
<1>1. /\ seen' = seen /\ replayed' = replayed /\ table' = table
      /\ (pending' = pending \/ pending' = window!NoGroups)
      /\ (buffer' = <<>> \/ (buffer' = buffer /\ current' = current))
      /\ phase' \in {"backfill", "live"} => phase' = phase
  BY SourceMoves DEF Source, subscribe_live, read_tip, open_segments,
       query_first_part, query_next,
     window!new, settled!new, storeVars, blockVars, windowVars
<1> QED BY <1>1, NoPairs, NoGroupsFacts DEF SeenInv

(* by the replay, which delivers what is stored,                           *)
LEMMA ReplaySeen == ASSUME Base, SeenInv, poll_replay PROVE SeenInv'
<1>1. /\ phase = "ready" /\ seen' = seen \cup replay_stored /\ replayed' = TRUE /\ UNCHANGED <<table, pending, current, buffer>>
  BY DEF poll_replay, storeVars, blockVars, windowVars
<1>2. ASSUME NEW h \in Heights PROVE Pairs(h, table[h]) \subseteq seen'
  <2>1. CASE replayed
    BY <1>1, <2>1 DEF SeenInv
  <2>2. CASE ~replayed
    <3>1. last = progress
      BY <1>1 DEF Base, FillFirst, Filling
    <3>2. replay_stored = {e \in StoredEvents : e[1] <= last}
      BY <2>2 DEF replay_stored
    <3>3. h \in Keys /\ h \in Int /\ progress \in Int
      BY KeysHeights, PositionFacts DEF Base, TypeInv, StoreType
    <3>4. CASE h > progress
      BY <3>3, <3>4, NoPairs DEF Base, StoreInv
    <3>5. CASE h <= progress
      <4>1. \A e \in Pairs(h, table[h]) : e \in StoredEvents /\ e[1] = h
        BY DEF Pairs, StoredEvents
      <4> QED BY <1>1, <3>1, <3>2, <3>5, <4>1
    <3> QED BY <3>3, <3>4, <3>5
  <2> QED BY <2>1, <2>2
<1> QED BY <1>1, <1>2 DEF SeenInv

(* by a backfilled event, delivered in the step that hands it to a writer, *)
LEMMA PollSeen == ASSUME Base, SeenInv, poll_backfill PROVE SeenInv'
<1> DEFINE k == fetched[1].key
           r == fetched[1].row
<1>1. /\ phase = "backfill" /\ phase' = phase /\ replayed' = replayed /\ Filling /\ k \in Heights /\ k \in Nat /\ r \in Row
      /\ Head(fetched) = fetched[1] /\ ~poison /\ peak' = peak /\ last' = last /\ final_cut' = final_cut
  BY NextFetched
<1>2. seen' = seen \cup {<<k, r>>} /\ replayed
  BY <1>1 DEF poll_backfill, SeenInv
<1>3. CASE k <= final_cut
  <2>1. UNCHANGED <<healthy, pending, head, flushed, maturing>> /\ settled!record(k, r)
    BY <1>1, <1>3 DEF poll_backfill, windowVars
  <2> HIDE DEF k, r
  <2>2. /\ buffer \in Seq(Row) /\ Pairs(current, buffer) \subseteq seen' /\ <<k, r>> \in seen'
        /\ \A b \in DOMAIN pending' : /\ Pairs(b, pending'[b].rows) \subseteq seen'
                                      /\ Pairs(b, pending'[b].expected) \subseteq seen'
    BY <1>2, <2>1 DEF Base, TypeInv, BlockType, SeenInv
  <2>3. \/ UNCHANGED table
        \/ settling /\ current # None /\ (Wrote(current, buffer) \/ UNCHANGED storeVars)
    BY <2>1, BlockRecords DEF BlockSkips, BlockHalts, BlockAdds, BlockRolls,
         BlockFails, Failed, storeVars
  <2>4. \/ UNCHANGED table
        \/ \E c \in Heights : StoresSeen(c)
    <3>1. CASE settling /\ current # None /\ Wrote(current, buffer)
      <4>1. /\ StoreType /\ StoreInv /\ peak \in Nat /\ last \in Positions /\ current \in Heights /\ current > progress
            /\ current <= final_cut /\ Depth \in Nat /\ tip \in Positions /\ tip <= peak
            /\ current \in Nat /\ final_cut \in Int /\ tip \in Int
        BY <1>1, <3>1, CutFacts, PositionFacts, PersistedAssumption
           DEF Base, TypeInv, ChainTypeOK, StreamType, BlockType, FillBlock, TipInv
      <4>2. current + Depth <= peak
        BY <4>1, CutFacts DEF None
      <4>3. table'[current] = buffer /\ \A h \in Keys : h # current => table'[h] = table[h]
        BY <1>1, <2>2, <3>1, <4>1, <4>2, StoreGrows
      <4> QED BY <4>1, <4>3 DEF SeenInv, StoresSeen
    <3> QED BY <2>3, <3>1 DEF storeVars
  <2>5. Pairs(current', buffer') \subseteq seen'
    <3>1. CASE BlockSkips
      BY <2>2, <3>1 DEF BlockSkips, blockVars
    <3>2. CASE BlockHalts \/ BlockFails
      BY <3>2, NoPairs DEF BlockHalts, BlockFails
    <3>3. CASE BlockAdds(k, r)
      <4>1. current' = k /\ buffer' = Append(buffer, r) /\ (current = None \/ current = k)
        BY <3>3 DEF BlockAdds
      <4>2. Pairs(k, buffer) \subseteq seen'
        <5>1. CASE current = k
          BY <2>2, <5>1
        <5>2. CASE current = None
          BY <1>1, <5>2, NoPairs DEF Base, FillBlock
        <5> QED BY <4>1, <5>1, <5>2
      <4> QED BY <1>1, <2>2, <4>1, <4>2, PairsAppend
    <3>4. CASE BlockRolls(k, r)
      BY <2>2, <3>4, PairsOfRow DEF BlockRolls
    <3> QED BY <2>1, <3>1, <3>2, <3>3, <3>4, BlockRecords
  <2> QED BY <1>1, <1>2, <2>2, <2>4, <2>5, SeenFrame
<1>4. CASE ~(k <= final_cut)
  <2>1. UNCHANGED <<settling, current, buffer, watermark>> /\ window!record_seeded(k, r)
    BY <1>1, <1>4 DEF poll_backfill, blockVars
  <2> HIDE DEF k, r
  <2>2. WindowSkips \/ WindowHalts \/ WindowSeeds(k, r)
    BY <2>1, WindowSeedsRecords
  <2>3. table' = table
    BY <2>2 DEF WindowSkips, WindowHalts, WindowSeeds, Buffers, storeVars
  <2>4. WindowType /\ Pairs(current', buffer') \subseteq seen' /\ <<k, r>> \in seen'
        /\ \A b \in DOMAIN pending : /\ Pairs(b, pending[b].rows) \subseteq seen'
                                     /\ Pairs(b, pending[b].expected) \subseteq seen'
    BY <1>2, <2>1 DEF Base, TypeInv, SeenInv
  <2>5. ASSUME NEW b \in DOMAIN pending'
        PROVE  Pairs(b, pending'[b].rows) \subseteq seen' /\ Pairs(b, pending'[b].expected) \subseteq seen'
    <3>1. CASE WindowSkips
      BY <2>4, <2>5, <3>1 DEF WindowSkips, windowVars
    <3>2. CASE WindowHalts
      BY <2>5, <3>2, NoGroupsFacts DEF WindowHalts
    <3>3. CASE WindowSeeds(k, r)
      <4>1. /\ DOMAIN pending' = DOMAIN pending \cup {k}
            /\ \A g \in DOMAIN pending : g # k => pending'[g] = pending[g]
            /\ pending'[k].rows = Append(PRows(k), r)
            /\ k \in DOMAIN pending => pending'[k].expected = pending[k].expected
            /\ k \notin DOMAIN pending => pending'[k].expected = <<>>
        BY <1>1, <2>4, <3>3, SeedsEffect
      <4>2. CASE b # k
        BY <2>4, <2>5, <4>1, <4>2
      <4>3. CASE b = k
        <5>1. PRows(k) \in Seq(Row) /\ Pairs(k, PRows(k)) \subseteq seen'
          BY <2>4, GroupFields, NoPairs, EmptyIsSeq DEF PRows, WindowType, Groups
        <5>2. Pairs(k, pending'[k].rows) \subseteq seen'
          BY <1>1, <2>4, <4>1, <5>1, PairsAppend
        <5>3. Pairs(k, pending'[k].expected) \subseteq seen'
          BY <2>4, <4>1, NoPairs
        <5> QED BY <4>3, <5>2, <5>3
      <4> QED BY <4>2, <4>3
    <3> QED BY <2>2, <3>1, <3>2, <3>3
  <2> QED BY <1>1, <1>2, <2>3, <2>4, <2>5, SeenFrame
<1> QED BY <1>3, <1>4

(* by the end of the backfill,                                             *)
LEMMA FinishSeen == ASSUME Base, SeenInv, finish_backfill PROVE SeenInv'
<1>1. /\ phase = "backfill" /\ phase' = "live" /\ seen' = seen /\ replayed' = replayed /\ peak' = peak /\ last' = last
      /\ (pending' = pending \/ pending' = window!NoGroups) /\ replayed
      /\ \/ UNCHANGED <<settling, current, buffer, watermark, table, progress>>
         \/ /\ settling /\ current # None /\ current' = None /\ buffer' = <<>>
            /\ current \in Heights /\ current > progress /\ current + Depth <= peak
            /\ Wrote(current, buffer) \/ UNCHANGED storeVars
  BY FinishForms DEF SeenInv, Failed
<1>2. StoreType /\ StoreInv /\ peak \in Nat /\ last \in Positions /\ buffer \in Seq(Row)
  BY PositionFacts DEF Base, TypeInv, ChainTypeOK, StreamType, BlockType
<1>3. Pairs(current', buffer') \subseteq seen'
  BY <1>1, NoPairs DEF SeenInv
<1>4. \A b \in DOMAIN pending' : /\ Pairs(b, pending'[b].rows) \subseteq seen'
                                 /\ Pairs(b, pending'[b].expected) \subseteq seen'
  BY <1>1, NoGroupsFacts DEF SeenInv
<1>5. \/ UNCHANGED table
      \/ \E c \in Heights : StoresSeen(c)
  <2>1. CASE current \in Heights /\ current > progress /\ current + Depth <= peak /\ Wrote(current, buffer)
    <3>1. table'[current] = buffer /\ \A h \in Keys : h # current => table'[h] = table[h]
      BY <1>1, <1>2, <2>1, StoreGrows
    <3> QED BY <2>1, <3>1 DEF SeenInv, StoresSeen
  <2> QED BY <1>1, <2>1 DEF storeVars
<1> QED BY <1>1, <1>3, <1>4, <1>5, SeenFrame

(* by a flush,                                                             *)
LEMMA FlushSeen == ASSUME Base, SeenInv, flush_matured PROVE SeenInv'
<1>1. /\ phase = "live" /\ UNCHANGED <<phase, seen, replayed, peak, last, current, buffer>>
  BY FlushForms
<1>2. PICK k \in Heights :
        /\ k \in DOMAIN pending /\ pending[k].rows \in Seq(Row)
        /\ k > progress /\ k + Depth <= peak
        /\ \/ /\ Wrote(k, pending[k].rows)
              /\ DOMAIN pending' = DOMAIN pending \ {k}
              /\ \A b \in DOMAIN pending' : pending'[b] = pending[b]
           \/ /\ Failed(k, pending[k].rows)
              /\ pending' = window!NoGroups
  BY FlushForms
<1>3. StoreType /\ StoreInv /\ peak \in Nat /\ last \in Positions
  BY PositionFacts DEF Base, TypeInv, ChainTypeOK, StreamType
<1>4. Wrote(k, pending[k].rows) \/ UNCHANGED storeVars
  BY <1>2 DEF Failed
<1>5. \/ UNCHANGED table
      \/ \E c \in Heights : StoresSeen(c)
  <2>1. CASE Wrote(k, pending[k].rows)
    <3>1. table'[k] = pending[k].rows /\ \A h \in Keys : h # k => table'[h] = table[h]
      BY <1>1, <1>2, <1>3, <2>1, StoreGrows
    <3>2. Pairs(k, pending[k].rows) \subseteq seen
      BY <1>2 DEF SeenInv
    <3> QED BY <1>2, <3>1, <3>2 DEF StoresSeen
  <2> QED BY <1>4, <2>1 DEF storeVars
<1>6. \A b \in DOMAIN pending' : /\ Pairs(b, pending'[b].rows) \subseteq seen'
                                 /\ Pairs(b, pending'[b].expected) \subseteq seen'
  BY <1>1, <1>2, NoGroupsFacts DEF SeenInv
<1>7. Pairs(current', buffer') \subseteq seen' /\ (phase' \in {"backfill", "live"} => replayed)
  BY <1>1 DEF SeenInv
<1> QED BY <1>1, <1>5, <1>6, <1>7, SeenFrame

(* by a live item: a re-emission the window suppresses was delivered when  *)
(* it was seeded,                                                          *)
LEMMA LiveSeen == ASSUME Base, SeenInv, live_event \/ live_retract PROVE SeenInv'
<1>1. /\ phase = "live" /\ phase' = phase /\ replayed' = replayed /\ UNCHANGED <<current, buffer, table>> /\ maturing = {}
      /\ live[1].key \in Heights /\ live[1].key \in Nat /\ Head(live) = live[1] /\ replayed
  BY LiveNext DEF SeenInv
<1>2. WindowType /\ HeadCovers
  BY <1>1 DEF Base, TypeInv, LiveInv
<1>3. seen \subseteq seen'
  BY DEF live_event, live_retract
<1>4. /\ \A b \in DOMAIN pending : /\ Pairs(b, pending[b].rows) \subseteq seen'
                                   /\ Pairs(b, pending[b].expected) \subseteq seen'
      /\ Pairs(current', buffer') \subseteq seen'
  BY <1>1, <1>3 DEF SeenInv
<1>5. ASSUME WindowSkips \/ WindowHalts, NEW b \in DOMAIN pending'
      PROVE  Pairs(b, pending'[b].rows) \subseteq seen' /\ Pairs(b, pending'[b].expected) \subseteq seen'
  <2>1. pending' = pending \/ pending' = window!NoGroups
    BY <1>5 DEF WindowSkips, WindowHalts, windowVars
  <2> QED BY <1>4, <1>5, <2>1, NoGroupsFacts
<1>6. ASSUME live_event, WindowTakes(live[1].key, live[1].row), NEW b \in DOMAIN pending'
      PROVE  Pairs(b, pending'[b].rows) \subseteq seen' /\ Pairs(b, pending'[b].expected) \subseteq seen'
  <2> DEFINE k == live[1].key
             r == live[1].row
  <2>1. r \in Row
    BY <1>6, LiveEventForms
  <2>2. <<k, r>> \in seen'
    <3>1. seen' = IF window!delivered(k, r) THEN seen \cup {<<k, r>>} ELSE seen
      BY <1>1, <1>6 DEF live_event
    <3>2. CASE ~window!delivered(k, r)
      BY <1>1, <1>2, <1>4, <3>2, SuppressedSeen
    <3> QED BY <3>1, <3>2
  <2> HIDE DEF k, r
  <2>3. /\ k \in DOMAIN pending' /\ DOMAIN pending' \subseteq DOMAIN pending \cup {k}
        /\ \A g \in DOMAIN pending : g < k => g \in DOMAIN pending' /\ pending'[g] = pending[g]
        /\ \A g \in DOMAIN pending' : g > k =>
             /\ pending'[g].rows = <<>>
             /\ pending'[g].expected \in {pending[g].rows, pending[g].expected}
        /\ pending'[k].rows = Append(Kept(k), r)
        /\ Pairs(k, pending'[k].expected) \subseteq
             IF k \in DOMAIN pending THEN Pairs(k, pending[k].rows) \cup Pairs(k, pending[k].expected) ELSE {}
    BY <1>1, <1>2, <1>6, <2>1, TakesEffect DEF k, r
  <2>4. k \in Nat /\ b \in Nat
    BY <1>1, <1>2, <1>6, <2>3, PositionFacts DEF k, WindowType, Groups
  <2>5. CASE b < k
    BY <1>4, <1>6, <2>3, <2>4, <2>5
  <2>6. CASE b > k
    <3>1. b \in DOMAIN pending /\ pending'[b].rows = <<>> /\ pending'[b].expected \in {pending[b].rows, pending[b].expected}
      BY <1>6, <2>3, <2>4, <2>6
    <3> QED BY <1>4, <3>1, NoPairs
  <2>7. CASE b = k
    <3>1. Kept(k) \in Seq(Row) /\ Pairs(k, Kept(k)) \subseteq seen'
      BY <1>2, <1>4, GroupFields, NoPairs, EmptyIsSeq DEF Kept, WindowType, Groups
    <3>2. Pairs(k, pending'[k].rows) \subseteq seen'
      BY <2>1, <2>2, <2>3, <3>1, PairsAppend
    <3>3. Pairs(k, pending'[k].expected) \subseteq seen'
      BY <1>4, <2>3
    <3> QED BY <2>7, <3>2, <3>3
  <2> QED BY <2>4, <2>5, <2>6, <2>7
<1>7. ASSUME live_retract, WindowRewinds(live[1].key), NEW b \in DOMAIN pending'
      PROVE  Pairs(b, pending'[b].rows) \subseteq seen' /\ Pairs(b, pending'[b].expected) \subseteq seen'
  <2> DEFINE k == live[1].key
  <2>1. k >= 1
    BY <1>7, LiveRetractForms
  <2> HIDE DEF k
  <2>2. /\ DOMAIN pending' \subseteq DOMAIN pending
        /\ \A g \in DOMAIN pending : g < k => g \in DOMAIN pending' /\ pending'[g] = pending[g]
        /\ \A g \in DOMAIN pending' : ~(g < k) => pending'[g].rows = <<>> /\ pending'[g].expected = pending[g].rows
    BY <1>1, <1>2, <1>7, <2>1, RewindsEffect DEF k
  <2>3. b \in DOMAIN pending
    BY <1>7, <2>2
  <2>4. CASE b < k
    BY <1>4, <2>2, <2>3, <2>4
  <2>5. CASE ~(b < k)
    BY <1>4, <1>7, <2>2, <2>3, <2>5, NoPairs
  <2> QED BY <2>4, <2>5
<1>8. \A b \in DOMAIN pending' : Pairs(b, pending'[b].rows) \subseteq seen' /\ Pairs(b, pending'[b].expected) \subseteq seen'
  <2>1. CASE live_event
    BY <1>5, <1>6, <2>1, LiveEventForms
  <2>2. CASE live_retract
    BY <1>5, <1>7, <2>2, LiveRetractForms
  <2> QED BY <2>1, <2>2
<1> QED BY <1>1, <1>3, <1>4, <1>8, SeenFrame

(* so by every step,                                                       *)
LEMMA NextSeen == ASSUME Base, SeenInv, Next PROVE SeenInv'
BY NextSteps, EndsSeen, QuietSeen, ReplaySeen, PollSeen, FinishSeen, LiveSeen, FlushSeen

(* and by stuttering.                                                      *)
LEMMA StutterSeen == ASSUME SeenInv, UNCHANGED vars PROVE SeenInv'
BY DEF SeenInv, vars, storeVars, blockVars, windowVars

(* NoStoredEventUnseen: once this process has polled a stream, every       *)
(* stored event was delivered to it, through any sequence of unpolled      *)
(* streams, failures, reconnects and reorgs. Nothing is assumed of the     *)
(* depth.                                                                  *)
THEOREM DeliveredBeforeStored == Spec => []NoStoredEventUnseen
<1>1. SeenInv => NoStoredEventUnseen
  BY StoredPairs DEF SeenInv, NoStoredEventUnseen
<1>2. Base /\ SeenInv /\ [Next]_vars => SeenInv'
  BY NextSeen, StutterSeen
<1> QED BY <1>1, <1>2, InitSeen, BaseAlways, PTL DEF Spec

-----------------------------------------------------------------------------
(***************************************************************************)
(* Queues: suffixes, concatenation and blocks that are absent.             *)
(***************************************************************************)

(* What follows item i.                                                    *)
After(F, i) == SubSeq(F, i + 1, Len(F))

(* F still holds a retraction of height b.                                 *)
Retracted(F, b) == \E j \in DOMAIN F : F[j].kind = "Retract" /\ F[j].key = b

(* The items of After.                                                     *)
LEMMA AfterFacts ==
  ASSUME NEW F \in Seq(Item), NEW i \in 0..Len(F)
  PROVE  /\ After(F, i) \in Seq(Item) /\ Len(After(F, i)) = Len(F) - i
         /\ DOMAIN After(F, i) = 1..(Len(F) - i)
         /\ \A j \in DOMAIN After(F, i) : i + j \in DOMAIN F /\ After(F, i)[j] = F[i + j]
BY DEF After

(* After the first item comes the tail.                                    *)
LEMMA AfterFirst ==
  ASSUME NEW F \in Seq(Item), F # <<>>
  PROVE  After(F, 1) = Tail(F)
BY DEF After

(* Sequences with the same items are equal.                                *)
LEMMA SameSeq ==
  ASSUME NEW S, NEW F \in Seq(S), NEW G \in Seq(S), Len(F) = Len(G), \A j \in 1..Len(F) : F[j] = G[j]
  PROVE  F = G
OBVIOUS

(* After in the tail is After one further on.                              *)
LEMMA AfterTail ==
  ASSUME NEW F \in Seq(Item), F # <<>>, NEW i \in DOMAIN Tail(F)
  PROVE  After(Tail(F), i) = After(F, i + 1) /\ i + 1 \in DOMAIN F
<1> DEFINE T == Tail(F)
<1>1. /\ T \in Seq(Item) /\ Len(F) \in Nat /\ Len(F) >= 1 /\ Len(T) = Len(F) - 1 /\ i \in 1..(Len(F) - 1)
      /\ DOMAIN T = 1..(Len(F) - 1) /\ DOMAIN F = 1..Len(F)
      /\ \A j \in DOMAIN T : T[j] = F[j + 1]
  BY TailFacts
<1> HIDE DEF T
<1>2. i \in 0..Len(T) /\ i + 1 \in 0..Len(F) /\ i + 1 \in DOMAIN F
  BY <1>1
<1> DEFINE P == After(T, i)
           O == After(F, i + 1)
<1>3. /\ P \in Seq(Item) /\ Len(P) = Len(F) - 1 - i /\ DOMAIN P = 1..(Len(F) - 1 - i)
      /\ \A j \in DOMAIN P : i + j \in DOMAIN T /\ P[j] = T[i + j]
  <2>1. P \in Seq(Item) /\ Len(P) = Len(T) - i /\ DOMAIN P = 1..(Len(T) - i)
        /\ \A j \in DOMAIN P : i + j \in DOMAIN T /\ P[j] = T[i + j]
    BY <1>1, <1>2, AfterFacts
  <2> HIDE DEF P
  <2> QED BY <1>1, <2>1
<1>4. /\ O \in Seq(Item) /\ Len(O) = Len(F) - (i + 1) /\ DOMAIN O = 1..(Len(F) - (i + 1))
      /\ \A j \in DOMAIN O : (i + 1) + j \in DOMAIN F /\ O[j] = F[(i + 1) + j]
  BY <1>2, AfterFacts
<1> HIDE DEF P, O
<1>5. ASSUME NEW j \in 1..Len(P) PROVE P[j] = O[j]
  <2>1. j \in DOMAIN P /\ j \in DOMAIN O /\ (i + j) + 1 = (i + 1) + j
    BY <1>1, <1>3, <1>4
  <2> QED BY SMTT(30), <1>1, <1>3, <1>4, <2>1
<1>6. Len(P) = Len(O)
  BY <1>1, <1>3, <1>4
<1>7. P = O
  BY <1>3, <1>4, <1>5, <1>6, SameSeq
<1> QED BY <1>2, <1>7 DEF P, O, T

(* After in a concatenation.                                               *)
LEMMA AfterConcat ==
  ASSUME NEW F \in Seq(Item), NEW G \in Seq(Item), NEW i \in DOMAIN (F \o G)
  PROVE  /\ i \in Nat /\ Len(F) \in Nat
         /\ i <= Len(F) => After(F \o G, i) = After(F, i) \o G /\ i \in DOMAIN F /\ (F \o G)[i] = F[i]
         /\ i > Len(F) => /\ After(F \o G, i) = After(G, i - Len(F))
                          /\ i - Len(F) \in DOMAIN G /\ (F \o G)[i] = G[i - Len(F)]
<1> DEFINE L == F \o G
<1>1. /\ L \in Seq(Item) /\ Len(L) = Len(F) + Len(G) /\ Len(F) \in Nat /\ Len(G) \in Nat
      /\ DOMAIN L = 1..(Len(F) + Len(G)) /\ DOMAIN F = 1..Len(F) /\ DOMAIN G = 1..Len(G)
      /\ \A j \in 1..Len(F) : L[j] = F[j]
      /\ \A j \in 1..Len(G) : L[Len(F) + j] = G[j]
      /\ \A j \in 1..(Len(F) + Len(G)) : j > Len(F) => j - Len(F) \in 1..Len(G) /\ L[j] = G[j - Len(F)]
  BY Concat
<1>2. i \in DOMAIN L
  OBVIOUS
<1> HIDE DEF L
<1>3. i \in 0..Len(L) /\ i \in Nat
  BY <1>1, <1>2
<1> DEFINE P == After(L, i)
<1>4. /\ P \in Seq(Item) /\ Len(P) = Len(L) - i /\ DOMAIN P = 1..(Len(L) - i)
      /\ \A j \in DOMAIN P : i + j \in DOMAIN L /\ P[j] = L[i + j]
  BY <1>1, <1>3, AfterFacts
<1> HIDE DEF P
<1>5. CASE i <= Len(F)
  <2> DEFINE A == After(F, i)
             O == A \o G
  <2>1. /\ A \in Seq(Item) /\ Len(A) = Len(F) - i /\ DOMAIN A = 1..(Len(F) - i)
        /\ \A j \in DOMAIN A : i + j \in DOMAIN F /\ A[j] = F[i + j]
    <3>1. i \in 0..Len(F)
      BY <1>1, <1>3, <1>5
    <3> QED BY <3>1, AfterFacts
  <2> HIDE DEF A
  <2>2. /\ O \in Seq(Item) /\ Len(O) = Len(A) + Len(G)
        /\ \A j \in 1..Len(A) : O[j] = A[j]
        /\ \A j \in 1..(Len(A) + Len(G)) : j > Len(A) => j - Len(A) \in 1..Len(G) /\ O[j] = G[j - Len(A)]
    BY SMTT(30), <2>1, Concat
  <2> HIDE DEF O
  <2>3. Len(P) = Len(O) /\ Len(P) \in Nat
    BY <1>1, <1>3, <1>4, <1>5, <2>1, <2>2
  <2>4. ASSUME NEW j \in 1..Len(P) PROVE P[j] = O[j]
    <3>0. j \in Nat /\ j >= 1 /\ j <= Len(L) - i /\ Len(A) \in Nat
      BY <1>1, <1>3, <1>4, <1>5, <2>1
    <3>1. CASE j <= Len(A)
      <4>1. j \in DOMAIN A /\ j \in DOMAIN P /\ i + j \in 1..Len(F) /\ j \in 1..Len(A)
        BY <1>1, <1>3, <1>4, <2>1, <3>0, <3>1
      <4> QED BY ZenonT(30), <1>1, <1>4, <2>1, <2>2, <4>1
    <3>2. CASE j > Len(A)
      <4>1. /\ j \in DOMAIN P /\ i + j \in 1..(Len(F) + Len(G)) /\ i + j > Len(F)
            /\ j \in 1..(Len(A) + Len(G)) /\ (i + j) - Len(F) = j - Len(A)
        BY <1>1, <1>3, <1>4, <2>1, <3>0, <3>2
      <4> QED BY SMTT(30), <1>1, <1>4, <2>2, <3>2, <4>1
    <3> QED BY <3>0, <3>1, <3>2
  <2>5. P = O
    BY <1>4, <2>2, <2>3, <2>4, SameSeq
  <2> QED BY <1>1, <1>2, <1>3, <1>5, <2>5 DEF P, O, A, L
<1>6. CASE i > Len(F)
  <2> DEFINE m == i - Len(F)
             O == After(G, m)
  <2>1. m \in DOMAIN G /\ L[i] = G[m] /\ m \in 0..Len(G)
    BY <1>1, <1>2, <1>3, <1>6
  <2>2. /\ O \in Seq(Item) /\ Len(O) = Len(G) - m
        /\ \A j \in 1..(Len(G) - m) : m + j \in DOMAIN G /\ O[j] = G[m + j]
    BY <2>1, AfterFacts
  <2> HIDE DEF O
  <2>3. Len(P) = Len(O)
    BY <1>1, <1>3, <1>4, <2>2
  <2>4. ASSUME NEW j \in 1..Len(P) PROVE P[j] = O[j]
    <3>1. j \in DOMAIN P /\ i + j \in DOMAIN L /\ m + j \in 1..Len(G) /\ Len(F) + (m + j) = i + j /\ j \in 1..(Len(G) - m)
      BY <1>1, <1>3, <1>4, <1>6, <2>1, <2>2
    <3> QED BY SMTT(30), <1>1, <1>4, <2>2, <3>1
  <2>5. P = O
    BY <1>4, <2>2, <2>3, <2>4, SameSeq
  <2> QED BY <1>1, <1>3, <1>6, <2>1, <2>5 DEF P, O, L
<1> QED BY <1>1, <1>3, <1>5, <1>6

(* Events of other blocks before the block do not matter.                  *)
LEMMA ContinuesDrop ==
  ASSUME NEW F \in Seq(Item), NEW g, NEW c \in Seq(Row), NEW got, got = <<>>, Continues(F, g, got, c),
         NEW m \in DOMAIN F, \A j \in 1..m : F[j].key # g
  PROVE  Continues(After(F, m), g, got, c)
<1> DEFINE P == After(F, m)
<1>1. m \in 1..Len(F) /\ m \in 0..Len(F) /\ Len(F) \in Nat /\ DOMAIN F = 1..Len(F) /\ Len(c) \in Nat /\ Len(got) = 0 /\ m \in Nat
  OBVIOUS
<1>2. /\ P \in Seq(Item) /\ Len(P) = Len(F) - m /\ DOMAIN P = 1..(Len(F) - m)
      /\ \A j \in DOMAIN P : m + j \in DOMAIN F /\ P[j] = F[m + j]
  BY <1>1, AfterFacts
<1> HIDE DEF P
<1>3. PICK k \in 0..(Len(F) - (Len(c) - Len(got))) :
        /\ \A i \in 1..(Len(c) - Len(got)) : F[k + i] = Ev(g, c[Len(got) + i])
        /\ \A j \in DOMAIN F : F[j].key = g => j \in (k + 1)..(k + Len(c) - Len(got))
  BY DEF Continues
<1>4. k \in Nat /\ k + Len(c) <= Len(F)
  BY <1>1, <1>3
<1>5. CASE Len(c) = 0
  <2>1. c = got
    BY <1>5
  <2>2. Absent(F, g)
    BY <1>1, <1>3, <1>4, <1>5 DEF Absent
  <2>3. Absent(P, g)
    BY <1>2, <2>2 DEF Absent
  <2> QED BY <1>2, <2>1, <2>3, ContinuesComplete DEF P
<1>6. CASE Len(c) > 0
  <2>1. F[k + 1] = Ev(g, c[Len(got) + 1]) /\ k + 1 \in 1..Len(F)
    BY <1>1, <1>3, <1>4, <1>6
  <2>2. F[k + 1].key = g
    BY <2>1 DEF Ev
  <2>3. k >= m
    BY <1>1, <1>4, <2>1, <2>2
  <2> DEFINE d == k - m
  <2>4. d \in 0..(Len(P) - (Len(c) - Len(got)))
    BY <1>1, <1>2, <1>4, <2>3
  <2>5. ASSUME NEW i \in 1..(Len(c) - Len(got)) PROVE P[d + i] = Ev(g, c[Len(got) + i])
    <3>1. d + i \in DOMAIN P /\ m + (d + i) = k + i
      BY SMTT(30), <1>1, <1>2, <1>4, <2>3, <2>4
    <3> QED BY <1>2, <1>3, <3>1
  <2>6. ASSUME NEW j \in DOMAIN P, P[j].key = g PROVE j \in (d + 1)..(d + Len(c) - Len(got))
    <3>1. m + j \in (k + 1)..(k + Len(c) - Len(got)) /\ j \in Nat
      BY <1>2, <1>3, <2>6
    <3> QED BY <1>1, <1>4, <2>3, <2>4, <3>1
  <2>7. ~(Len(got) \in 1..(Len(c) - 1)) /\ Len(got) <= Len(c) /\ \A i \in 1..Len(got) : got[i] = c[i]
    BY <1>1
  <2> HIDE DEF d
  <2>8. Continues(P, g, got, c)
    BY <2>4, <2>5, <2>6, <2>7 DEF Continues
  <2> QED BY <2>8 DEF P
<1> QED BY <1>1, <1>5, <1>6

(* A block that has begun goes on at once.                                 *)
LEMMA ContinuesHead ==
  ASSUME NEW F \in Seq(Item), NEW g, NEW got \in Seq(Row), NEW c \in Seq(Row),
         Continues(F, g, got, c), got # <<>>, ~Absent(F, g)
  PROVE  F # <<>> /\ F[1].key = g
<1>1. Len(F) \in Nat /\ DOMAIN F = 1..Len(F) /\ Len(c) \in Nat /\ Len(got) \in Nat /\ Len(got) >= 1
  OBVIOUS
<1>2. Len(got) <= Len(c)
  BY DEF Continues
<1>3. PICK k \in 0..(Len(F) - (Len(c) - Len(got))) :
        /\ Len(got) \in 1..(Len(c) - 1) => k = 0
        /\ \A i \in 1..(Len(c) - Len(got)) : F[k + i] = Ev(g, c[Len(got) + i])
        /\ \A j \in DOMAIN F : F[j].key = g => j \in (k + 1)..(k + Len(c) - Len(got))
  BY DEF Continues
<1>4. PICK j \in DOMAIN F : F[j].key = g
  BY DEF Absent
<1>5. j \in (k + 1)..(k + Len(c) - Len(got))
  BY <1>3, <1>4
<1>6. Len(c) - Len(got) >= 1 /\ k = 0
  BY <1>1, <1>2, <1>3, <1>5
<1>7. F[0 + 1] = Ev(g, c[Len(got) + 1])
  BY <1>1, <1>3, <1>6
<1>8. F[1].key = g
  BY <1>7 DEF Ev
<1>9. F # <<>>
  BY <1>1, <1>4
<1> QED BY <1>8, <1>9

(* Absence and retraction in a concatenation.                              *)
LEMMA AbsentConcat ==
  ASSUME NEW F \in Seq(Item), NEW G \in Seq(Item), NEW b
  PROVE  /\ Absent(F \o G, b) <=> Absent(F, b) /\ Absent(G, b)
         /\ Retracted(F \o G, b) <=> Retracted(F, b) \/ Retracted(G, b)
<1> DEFINE L == F \o G
<1>1. /\ Len(F) \in Nat /\ Len(G) \in Nat
      /\ DOMAIN L = 1..(Len(F) + Len(G)) /\ DOMAIN F = 1..Len(F) /\ DOMAIN G = 1..Len(G)
      /\ \A j \in 1..Len(F) : L[j] = F[j]
      /\ \A j \in 1..Len(G) : L[Len(F) + j] = G[j]
      /\ \A j \in 1..(Len(F) + Len(G)) : j > Len(F) => j - Len(F) \in 1..Len(G) /\ L[j] = G[j - Len(F)]
  BY Concat
<1> HIDE DEF L
<1>2. \A j \in DOMAIN F : j \in DOMAIN L /\ L[j] = F[j]
  BY <1>1
<1>3. \A j \in DOMAIN G : Len(F) + j \in DOMAIN L /\ L[Len(F) + j] = G[j]
  BY <1>1
<1>4. \A j \in DOMAIN L : (j \in DOMAIN F /\ L[j] = F[j]) \/ (j - Len(F) \in DOMAIN G /\ L[j] = G[j - Len(F)])
  BY <1>1
<1>5. Absent(L, b) <=> Absent(F, b) /\ Absent(G, b)
  <2>1. ASSUME Absent(L, b) PROVE Absent(F, b)
    BY <1>2, <2>1 DEF Absent
  <2>2. ASSUME Absent(L, b) PROVE Absent(G, b)
    <3> SUFFICES ASSUME NEW j \in DOMAIN G PROVE G[j].key # b
      BY DEF Absent
    <3> QED BY <1>3, <2>2 DEF Absent
  <2>3. ASSUME Absent(F, b), Absent(G, b) PROVE Absent(L, b)
    <3> SUFFICES ASSUME NEW j \in DOMAIN L PROVE L[j].key # b
      BY DEF Absent
    <3> QED BY <1>4, <2>3 DEF Absent
  <2> QED BY <2>1, <2>2, <2>3
<1>6. Retracted(L, b) <=> Retracted(F, b) \/ Retracted(G, b)
  <2>1. ASSUME Retracted(F, b) PROVE Retracted(L, b)
    BY <1>2, <2>1 DEF Retracted
  <2>2. ASSUME Retracted(G, b) PROVE Retracted(L, b)
    <3>1. PICK j \in DOMAIN G : G[j].kind = "Retract" /\ G[j].key = b
      BY <2>2 DEF Retracted
    <3>2. Len(F) + j \in DOMAIN L /\ L[Len(F) + j] = G[j]
      BY <1>3
    <3> QED BY <3>1, <3>2 DEF Retracted
  <2>3. ASSUME Retracted(L, b) PROVE Retracted(F, b) \/ Retracted(G, b)
    <3>1. PICK j \in DOMAIN L : L[j].kind = "Retract" /\ L[j].key = b
      BY <2>3 DEF Retracted
    <3> QED BY <1>4, <3>1 DEF Retracted
  <2> QED BY <2>1, <2>2, <2>3
<1> QED BY <1>5, <1>6 DEF L

(* Absence and retraction in a tail.                                       *)
LEMMA AbsentTail ==
  ASSUME NEW F \in Seq(Item), F # <<>>, NEW b
  PROVE  /\ Absent(F, b) <=> F[1].key # b /\ Absent(Tail(F), b)
         /\ Retracted(F, b) <=> (F[1].kind = "Retract" /\ F[1].key = b) \/ Retracted(Tail(F), b)
<1> DEFINE T == Tail(F)
<1>1. 1 \in DOMAIN F /\ \A j \in DOMAIN T : j + 1 \in DOMAIN F /\ T[j] = F[j + 1]
  BY TailFacts
<1>2. \A j \in DOMAIN F : j = 1 \/ (j - 1 \in DOMAIN T /\ T[j - 1] = F[j])
  <2> SUFFICES ASSUME NEW j \in DOMAIN F, j # 1 PROVE j - 1 \in DOMAIN T /\ T[j - 1] = F[j]
    OBVIOUS
  <2>1. DOMAIN F = 1..Len(F) /\ DOMAIN T = 1..(Len(F) - 1) /\ Len(F) \in Nat
    BY TailFacts
  <2>2. j - 1 \in DOMAIN T /\ (j - 1) + 1 = j
    BY <2>1
  <2>3. T[j - 1] = F[(j - 1) + 1]
    BY <1>1, <2>2
  <2> QED BY <2>2, <2>3
<1> HIDE DEF T
<1>3. Absent(F, b) <=> F[1].key # b /\ Absent(T, b)
  BY <1>1, <1>2, ZenonT(30) DEF Absent
<1>4. ASSUME Retracted(T, b) PROVE Retracted(F, b)
  <2>1. PICK j \in DOMAIN T : T[j].kind = "Retract" /\ T[j].key = b
    BY <1>4 DEF Retracted
  <2>2. j + 1 \in DOMAIN F /\ F[j + 1] = T[j]
    BY <1>1, <2>1
  <2> QED BY <2>1, <2>2 DEF Retracted
<1>5. ASSUME Retracted(F, b), ~(F[1].kind = "Retract" /\ F[1].key = b) PROVE Retracted(T, b)
  <2>1. PICK j \in DOMAIN F : F[j].kind = "Retract" /\ F[j].key = b
    BY <1>5 DEF Retracted
  <2>2. j - 1 \in DOMAIN T /\ T[j - 1] = F[j]
    BY <1>2, <1>5, <2>1
  <2> QED BY <2>1, <2>2 DEF Retracted
<1>6. ASSUME F[1].kind = "Retract", F[1].key = b PROVE Retracted(F, b)
  BY <1>1, <1>6 DEF Retracted
<1>7. Retracted(F, b) <=> (F[1].kind = "Retract" /\ F[1].key = b) \/ Retracted(T, b)
  BY <1>4, <1>5, <1>6
<1> QED BY <1>3, <1>7 DEF T

-----------------------------------------------------------------------------
(***************************************************************************)
(* What a source step adds to the queue.                                   *)
(***************************************************************************)

(* Contents are sequences of rows, empty above the top.                    *)
LEMMA ContentRows ==
  ASSUME ChainTypeOK, NEW b
  PROVE  Content(chain, b) \in Seq(Row) /\ (b > Top /\ b \in Heights => Content(chain, b) = <<>>)
<1>1. b \in DOMAIN chain => chain[b] \in Seq(Row)
  BY DEF ChainTypeOK
<1>2. b > Top /\ b \in Heights => b \notin DOMAIN chain
  BY PositionFacts DEF ChainTypeOK
<1> QED BY <1>1, <1>2, EmptyIsSeq DEF Content

(* After an item of a lower height, or a retraction of the height itself,  *)
(* F delivers all of a height that is not retracted again.                 *)
Follows(F, fork) ==
  \A i \in DOMAIN F, b \in Heights :
    /\ F[i].key < b \/ (F[i].key = b /\ F[i].kind = "Retract")
    /\ ~Retracted(After(F, i), b)
    => Continues(After(F, i), b, <<>>, Content(fork, b))

(* The rows of the events of a sequence, with their heights.               *)
EvPairs(F) == {<<F[j].key, F[j].row>> : j \in {i \in DOMAIN F : F[i].kind = "Event"}}

(* What the new items say of the new chain.                                *)
Shifts(from, N) ==
  /\ from \in Nat /\ from >= 1 /\ N \in Seq(Item)
  /\ \A j \in DOMAIN N : N[j].key >= from /\ N[j].key <= peak'
  /\ \A i, j \in DOMAIN N : i < j /\ N[i].kind = "Event" => N[i].key <= N[j].key
  /\ \A b \in Heights : b < from => Absent(N, b) /\ Content(chain', b) = Content(chain, b)
  /\ \A b \in Heights : b >= from /\ ~Retracted(N, b) =>
       Content(chain, b) = <<>> /\ Continues(N, b, <<>>, Content(chain', b))
  /\ \A b \in Heights : b >= from => Pairs(b, Content(chain', b)) \subseteq EvPairs(N)
  /\ Follows(N, chain')
  /\ ~deep' => ~deep /\ from > peak - FinalDepth
  /\ ~DeepReorgs => deep' = deep
  /\ live' = IF attached THEN live \o N ELSE live

(* Events that deliver a block hold its pairs.                             *)
LEMMA ContinuesPairs ==
  ASSUME NEW F \in Seq(Event), NEW g, NEW c \in Seq(Row), NEW got, got = <<>>, Continues(F, g, got, c)
  PROVE  Pairs(g, c) \subseteq EvPairs(F)
<1>1. Len(F) \in Nat /\ DOMAIN F = 1..Len(F) /\ Len(c) \in Nat /\ DOMAIN c = 1..Len(c) /\ Len(got) = 0
  OBVIOUS
<1>2. PICK k \in 0..(Len(F) - (Len(c) - Len(got))) :
        \A i \in 1..(Len(c) - Len(got)) : F[k + i] = Ev(g, c[Len(got) + i])
  BY DEF Continues
<1>3. ASSUME NEW i \in DOMAIN c PROVE <<g, c[i]>> \in EvPairs(F)
  <2>1. k + i \in DOMAIN F /\ i \in 1..(Len(c) - Len(got)) /\ Len(got) + i = i
    BY <1>1, <1>2
  <2>2. F[k + i] = Ev(g, c[i])
    BY <1>2, <2>1
  <2>3. F[k + i].key = g /\ F[k + i].row = c[i] /\ F[k + i].kind = "Event"
    BY <2>2 DEF Ev
  <2> QED BY <2>1, <2>3 DEF EvPairs
<1> QED BY <1>3 DEF Pairs

(* A move of the chain shifts the live source.                             *)
LEMMA MovesShifts ==
  ASSUME ChainTypeOK, NEW from, NEW R, NEW A, Moves(from, R, A), ChainTypeOK'
  PROVE  Shifts(from, R \o A)
<1> DEFINE N == R \o A
           none == <<>>
<1>1. /\ from \in Nat /\ from >= 1 /\ from <= Top + 1 /\ Top \in Nat /\ Top' \in Nat /\ Top' >= from - 1
      /\ DOMAIN chain = 0..Top /\ DOMAIN chain' = 0..Top'
      /\ \A h \in 0..(from - 1) : chain'[h] = chain[h]
      /\ R \in Seq(Retraction) /\ A \in Seq(Event) /\ R \in Seq(Item) /\ A \in Seq(Item)
      /\ Within(R, from, Top) /\ Within(A, from, Top') /\ Sorted(A)
  BY PositionFacts, EventSeqIsItemSeq DEF Moves, ChainTypeOK, RemovedOK, AddedOK
<1>2. /\ N \in Seq(Item) /\ Len(R) \in Nat /\ Len(A) \in Nat
      /\ DOMAIN N = 1..(Len(R) + Len(A)) /\ DOMAIN R = 1..Len(R) /\ DOMAIN A = 1..Len(A)
      /\ \A j \in DOMAIN N :
              /\ N[j].key >= from /\ N[j].key <= peak' /\ N[j].key \in Nat
              /\ j <= Len(R) => j \in DOMAIN R /\ N[j] = R[j] /\ R[j].kind = "Retract"
              /\ j > Len(R) => /\ j - Len(R) \in DOMAIN A /\ N[j] = A[j - Len(R)]
                               /\ A[j - Len(R)].kind = "Event"
  <2>1. /\ N \in Seq(Item)
         /\ Len(R) \in Nat /\ Len(A) \in Nat /\ DOMAIN N = 1..(Len(R) + Len(A))
         /\ \A j \in DOMAIN N :
              /\ N[j].key >= from /\ N[j].key <= peak' /\ N[j].key \in Heights
              /\ j <= Len(R) => j \in DOMAIN R /\ N[j] = R[j] /\ R[j].kind = "Retract"
              /\ j > Len(R) => /\ j - Len(R) \in DOMAIN A /\ N[j] = A[j - Len(R)]
                               /\ A[j - Len(R)].kind = "Event"
    BY NewItems
  <2> HIDE DEF N
  <2>2. DOMAIN R = 1..Len(R) /\ DOMAIN A = 1..Len(A)
    BY <1>1
  <2>3. \A j \in DOMAIN N : N[j].key \in Nat
    BY <2>1, PositionFacts
  <2> QED BY <2>1, <2>2, <2>3
<1>3. ASSUME NEW b
      PROVE  /\ Absent(N, b) <=> Absent(R, b) /\ Absent(A, b)
             /\ Retracted(N, b) <=> ~Absent(R, b)
             /\ ~Retracted(A, b)
  <2>1. \A j \in DOMAIN R : R[j].kind = "Retract"
    BY SMTT(30), <1>1 DEF Retraction
  <2>2. \A j \in DOMAIN A : A[j].kind = "Event"
    BY <1>1 DEF Event
  <2>3. ~Retracted(A, b) /\ (Retracted(R, b) <=> ~Absent(R, b))
    BY <2>1, <2>2 DEF Retracted, Absent
  <2> QED BY <1>1, <2>3, AbsentConcat
<1>4. ASSUME NEW b \in Heights, b < from
      PROVE  Absent(N, b) /\ Content(chain', b) = Content(chain, b)
  <2>1. b \in Nat /\ b \in 0..(from - 1) /\ b \in DOMAIN chain /\ b \in DOMAIN chain'
    BY <1>1, <1>4, PositionFacts
  <2>2. Absent(N, b)
    BY <1>1, <1>2, <1>4, <2>1 DEF Absent
  <2> QED BY <1>1, <2>1, <2>2 DEF Content
<1>5. ASSUME NEW b \in Heights, b >= from
      PROVE  Continues(A, b, none, Content(chain', b)) /\ Content(chain', b) \in Seq(Row)
  <2>0. b \in Nat /\ Content(chain', b) \in Seq(Row)
    <3>1. b \in DOMAIN chain' => chain'[b] \in Seq(Row)
      BY DEF ChainTypeOK
    <3> QED BY <3>1, PositionFacts, EmptyIsSeq DEF Content
  <2>1. CASE b <= Top'
    <3>1. b \in from..Top'
      BY <1>1, <1>5, <2>0, <2>1
    <3> QED BY <2>0, <3>1 DEF Moves, AddedOK
  <2>2. CASE b > Top'
    <3>1. b \notin DOMAIN chain'
      BY <1>1, <2>0, <2>2
    <3>2. Content(chain', b) = none
      BY <3>1 DEF Content
    <3>3. Absent(A, b)
      <4> SUFFICES ASSUME NEW j \in DOMAIN A PROVE A[j].key # b
        BY DEF Absent
      <4>1. A[j].key \in from..Top'
        BY <1>1 DEF Within
      <4> QED BY <1>1, <2>0, <2>2, <4>1
    <3> HIDE DEF none
    <3> QED BY <1>1, <2>0, <3>2, <3>3, ContinuesComplete
  <2> QED BY <1>1, <2>0, <2>1, <2>2
<1>6. ASSUME NEW b \in Heights, b >= from, ~Retracted(N, b)
      PROVE  Content(chain, b) = none /\ Continues(N, b, none, Content(chain', b))
  <2>1. Absent(R, b)
    BY <1>3, <1>6
  <2>2. Content(chain, b) = none
    <3>1. CASE b <= Top
      <4>1. b \in from..Top
        BY <1>1, <1>6, <3>1, PositionFacts
      <4> QED BY <2>1, <4>1 DEF Moves, RemovedOK
    <3>2. CASE b > Top
      BY <3>2, ContentRows
    <3> QED BY <1>1, <3>1, <3>2, PositionFacts
  <2>3. Continues(A, b, none, Content(chain', b)) /\ Content(chain', b) \in Seq(Row)
    BY <1>5, <1>6
  <2> HIDE DEF none
  <2>4. none = <<>>
    BY DEF none
  <2> QED BY <1>1, <2>1, <2>2, <2>3, <2>4, ContinuesFresh
<1>7. ASSUME NEW b \in Heights, b >= from
      PROVE  Pairs(b, Content(chain', b)) \subseteq EvPairs(N)
  <2>1. Pairs(b, Content(chain', b)) \subseteq EvPairs(A)
    BY <1>1, <1>5, <1>7, ContinuesPairs
  <2>2. EvPairs(A) \subseteq EvPairs(N)
    <3>1. \A j \in DOMAIN A : Len(R) + j \in DOMAIN N /\ N[Len(R) + j] = A[j]
      BY <1>1, <1>2, Concat
    <3> HIDE DEF N
    <3> QED BY <3>1 DEF EvPairs
  <2> QED BY <2>1, <2>2
<1>8. Follows(N, chain')
  <2> SUFFICES ASSUME NEW i \in DOMAIN N, NEW b \in Heights,
                      N[i].key < b \/ (N[i].key = b /\ N[i].kind = "Retract"), ~Retracted(After(N, i), b)
               PROVE  Continues(After(N, i), b, none, Content(chain', b))
    BY DEF Follows
  <2>1. b \in Nat /\ b >= from
    BY SMTT(30), <1>1, <1>2, PositionFacts
  <2>2. Continues(A, b, none, Content(chain', b)) /\ Content(chain', b) \in Seq(Row)
    BY <1>5, <2>1
  <2>3. CASE i <= Len(R)
    <3>1. After(N, i) = After(R, i) \o A /\ i \in DOMAIN R
      BY <1>1, <2>3, AfterConcat
    <3>2. i \in 0..Len(R)
      BY <1>2, <3>1
    <3>3. After(R, i) \in Seq(Item) /\ \A j \in DOMAIN After(R, i) : i + j \in DOMAIN R /\ After(R, i)[j] = R[i + j]
      BY <1>1, <3>2, AfterFacts
    <3>4. ~Retracted(After(R, i), b)
      BY <1>1, <3>1, <3>3, AbsentConcat
    <3>5. \A j \in DOMAIN After(R, i) : After(R, i)[j].kind = "Retract"
      <4>1. \A x \in Retraction : x.kind = "Retract"
        BY DEF Retraction
      <4>2. \A j \in DOMAIN R : R[j].kind = "Retract"
        BY <1>1, <4>1
      <4> QED BY <3>3, <4>2
    <3>6. Absent(After(R, i), b)
      BY <3>4, <3>5 DEF Absent, Retracted
    <3> HIDE DEF none
    <3>7. none = <<>>
      BY DEF none
    <3> QED BY <1>1, <2>2, <3>1, <3>3, <3>6, <3>7, ContinuesFresh
  <2>4. CASE i > Len(R)
    <3> DEFINE m == i - Len(R)
    <3>1. After(N, i) = After(A, m) /\ m \in DOMAIN A /\ N[i] = A[m]
      BY <1>1, <2>4, AfterConcat
    <3>2. A[m].kind = "Event" /\ A[m].key \in Nat /\ N[i].kind = "Event"
      BY <1>2, <2>4, <3>1
    <3>3. A[m].key < b
      BY <3>1, <3>2
    <3> HIDE DEF m
    <3>4. ASSUME NEW j \in 1..m PROVE A[j].key # b
      <4>1. j \in DOMAIN A /\ j <= m
        BY <1>2, <3>1, <3>4
      <4>2. A[j].key <= A[m].key /\ A[j].key \in Nat
        BY <1>1, <3>1, <4>1, ItemKeys DEF Sorted
      <4> QED BY <2>1, <3>2, <3>3, <4>2
    <3> HIDE DEF none
    <3>5. none = <<>>
      BY DEF none
    <3> QED BY <1>1, <2>2, <3>1, <3>4, <3>5, ContinuesDrop
  <2> QED BY <1>2, <2>3, <2>4
<1>9. ASSUME NEW i \in DOMAIN N, NEW j \in DOMAIN N, i < j, N[i].kind = "Event" PROVE N[i].key <= N[j].key
  <2>1. i > Len(R) /\ j > Len(R)
    <3>1. i <= Len(R) => N[i].kind = "Retract"
      BY <1>2
    <3> QED BY <1>2, <1>9, <3>1
  <2>2. /\ i - Len(R) \in DOMAIN A /\ j - Len(R) \in DOMAIN A /\ i - Len(R) <= j - Len(R)
        /\ N[i] = A[i - Len(R)] /\ N[j] = A[j - Len(R)]
    BY <1>2, <1>9, <2>1
  <2> QED BY <1>1, <2>2 DEF Sorted
<1>10. /\ ~deep' => ~deep /\ from > peak - FinalDepth
       /\ ~DeepReorgs => deep' = deep
       /\ live' = IF attached THEN live \o N ELSE live
  BY DEF Moves
<1>11. \A j \in DOMAIN N : N[j].key >= from /\ N[j].key <= peak'
  BY <1>2
<1> HIDE DEF N
<1> QED BY <1>1, <1>2, <1>4, <1>6, <1>7, <1>8, <1>9, <1>10, <1>11 DEF Shifts, N

(* A step of the source is such a shift, and leaves the rest alone.        *)
LEMMA SourceShifts ==
  ASSUME Base, Source
  PROVE  /\ \E from, N : Shifts(from, N)
         /\ UNCHANGED <<table, progress, settling, current, buffer, watermark>>
         /\ UNCHANGED <<healthy, pending, head, flushed, maturing>>
         /\ UNCHANGED <<opened, tip, last, fetched, parts, next_from, poison, phase, replayed, seen>>
         /\ final_cut' = final_cut /\ Resume' = Resume /\ Ahead' = Ahead
         /\ ChainTypeOK /\ ChainTypeOK' /\ Base' /\ peak' >= peak
<1>1. PICK from, R, A : Moves(from, R, A)
  BY SourceMoves
<1>2. Base'
  BY SourceBase
<1>3. Shifts(from, R \o A)
  BY <1>1, <1>2, MovesShifts DEF Base, TypeInv
<1>4. UNCHANGED <<storeVars, blockVars, windowVars, streamVars, phase, replayed, seen>>
  BY SourceMoves
<1>5. final_cut' = final_cut /\ Resume' = Resume /\ Ahead' = Ahead
  BY <1>4, CutSame, ResumeSame DEF Ahead, streamVars
<1>6. peak' >= peak
  BY <1>1 DEF Moves
<1> QED BY <1>2, <1>3, <1>4, <1>5, <1>6 DEF storeVars, blockVars, windowVars,
       streamVars, Base, TypeInv

-----------------------------------------------------------------------------
(***************************************************************************)
(* The queue of live items leads to the canonical chain.                   *)
(***************************************************************************)

(* Where a block of the live source begins, all of it follows.             *)
LiveOK == Follows(live, chain)

(* The steps that leave the chain and what the source buffered alone.      *)
Reads == read_tip \/ open_segments \/ query_first_part \/ poll_replay

(* The steps of the backfill.                                              *)
Fills == poll_backfill \/ query_next \/ finish_backfill

(* The steps that leave the source alone.                                  *)
Still == Reads \/ Fills \/ flush_matured

(* They do.                                                                *)
LEMMA StillSource ==
  ASSUME Still
  PROVE  UNCHANGED <<chain, peak, reorgs, deep, attached, live>>
BY DEF Still, Reads, Fills, read_tip, open_segments, query_first_part, poll_replay,
     poll_backfill, query_next,
       finish_backfill, flush_matured, sourceVars

(* A subscription starts with an empty live source, and its end drops it.  *)
LEMMA DropsLive ==
  ASSUME subscribe_live \/ Ends
  PROVE  live' = <<>> /\ UNCHANGED <<chain, peak, reorgs, deep>>
BY EndsForms DEF subscribe_live, subscribe_indexed, Closed, detach

(* The steps, by what they do to the source.                               *)
LEMMA NextKinds ==
  ASSUME Next
  PROVE  Source \/ subscribe_live \/ Ends \/ Still \/ live_event \/ live_retract
BY NextSteps DEF Still, Reads, Fills

(* Nothing is in an empty live source.                                     *)
LEMMA NoLive ==
  /\ DOMAIN <<>> = {}
  /\ \A b : Absent(<<>>, b) /\ ~Retracted(<<>>, b)
  /\ \A fork : Follows(<<>>, fork)
<1>1. DOMAIN <<>> = {}
  OBVIOUS
<1> QED BY <1>1, Zenon DEF Absent, Retracted, Follows

(* Follows in the tail.                                                    *)
LEMMA FollowsTail ==
  ASSUME NEW F \in Seq(Item), F # <<>>, NEW fork, Follows(F, fork)
  PROVE  Follows(Tail(F), fork)
<1> SUFFICES ASSUME NEW i \in DOMAIN Tail(F), NEW b \in Heights,
                    Tail(F)[i].key < b \/ (Tail(F)[i].key = b /\ Tail(F)[i].kind = "Retract"),
                    ~Retracted(After(Tail(F), i), b)
             PROVE  Continues(After(Tail(F), i), b, <<>>, Content(fork, b))
  BY DEF Follows
<1>1. After(Tail(F), i) = After(F, i + 1) /\ i + 1 \in DOMAIN F
  BY AfterTail
<1>2. Tail(F)[i] = F[i + 1]
  BY TailFacts
<1> QED BY <1>1, <1>2 DEF Follows

(* What Follows says of the first item.                                    *)
LEMMA FollowsFirst ==
  ASSUME NEW F \in Seq(Item), F # <<>>, NEW fork, Follows(F, fork), NEW b \in Heights,
         F[1].key < b \/ (F[1].key = b /\ F[1].kind = "Retract"), ~Retracted(Tail(F), b)
  PROVE  Continues(Tail(F), b, <<>>, Content(fork, b))
<1>1. After(F, 1) = Tail(F) /\ 1 \in DOMAIN F
  BY AfterFirst, TailFacts
<1> QED BY <1>1 DEF Follows

(* Follows is preserved by a step of the source.                           *)
LEMMA SourceLive ==
  ASSUME Base, LiveOK, Source
  PROVE  LiveOK'
<1>1. PICK from, N : Shifts(from, N)
  BY SourceShifts
<1>2. CASE ~attached
  <2>1. live' = <<>>
    BY <1>1, <1>2 DEF Shifts, Base, SourceInv
  <2> QED BY <2>1, NoLive DEF LiveOK
<1>3. CASE attached
  <2>1. live' = live \o N /\ live \in Seq(Item) /\ N \in Seq(Item) /\ Follows(N, chain') /\ from \in Nat
    BY <1>1, <1>3 DEF Shifts, Base, TypeInv, ChainTypeOK
  <2> SUFFICES ASSUME NEW i \in DOMAIN (live \o N), NEW b \in Heights,
                      (live \o N)[i].key < b \/ ((live \o N)[i].key = b /\ (live \o N)[i].kind = "Retract"),
                      ~Retracted(After(live \o N, i), b)
               PROVE  Continues(After(live \o N, i), b, <<>>, Content(chain', b))
    BY <2>1 DEF LiveOK, Follows
  <2>2. i \in Nat /\ Len(live) \in Nat
    BY <2>1, AfterConcat
  <2>3. CASE i > Len(live)
    <3>1. /\ After(live \o N, i) = After(N, i - Len(live))
          /\ i - Len(live) \in DOMAIN N /\ (live \o N)[i] = N[i - Len(live)]
      BY <2>1, <2>3, AfterConcat
    <3> QED BY <2>1, <3>1 DEF Follows
  <2>4. CASE i <= Len(live)
    <3> DEFINE F == After(live, i)
               none == <<>>
    <3>1. After(live \o N, i) = F \o N /\ i \in DOMAIN live /\ (live \o N)[i] = live[i]
      BY <2>1, <2>4, AfterConcat
    <3>2. F \in Seq(Item)
      BY <2>1, <2>2, <2>4, AfterFacts
    <3>3. ~Retracted(F, b) /\ ~Retracted(N, b)
      BY <2>1, <3>1, <3>2, AbsentConcat
    <3>4. Continues(F, b, none, Content(chain, b))
      BY <3>1, <3>3 DEF LiveOK, Follows
    <3>5. Content(chain, b) \in Seq(Row) /\ Content(chain', b) \in Seq(Row) /\ b \in Nat /\ none \in Seq(Row) /\ none = <<>>
      <4>1. ChainTypeOK /\ ChainTypeOK'
        BY SourceShifts
      <4>2. b \in DOMAIN chain' => chain'[b] \in Seq(Row)
        BY <4>1 DEF ChainTypeOK
      <4> QED BY <4>1, <4>2, ContentRows, PositionFacts, EmptyIsSeq DEF Content
    <3> HIDE DEF F, none
    <3>6. CASE b < from
      <4>1. Absent(N, b) /\ Content(chain', b) = Content(chain, b)
        BY <1>1, <3>6 DEF Shifts
      <4>2. Continues(F \o N, b, none, Content(chain', b))
        BY <2>1, <3>2, <3>4, <3>5, <4>1, ContinuesAppend
      <4> QED BY <3>1, <4>2 DEF none
    <3>7. CASE b >= from
      <4>1. Content(chain, b) = none /\ Continues(N, b, none, Content(chain', b))
        BY <1>1, <3>3, <3>7 DEF Shifts, none
      <4>2. Absent(F, b)
        <5> SUFFICES ASSUME NEW j \in DOMAIN F, F[j].key = b PROVE FALSE
          BY DEF Absent
        <5>1. Len(Content(chain, b)) = 0 /\ Len(none) = 0 /\ Len(F) \in Nat
          BY <3>2, <3>5, <4>1
        <5>2. PICK k \in 0..(Len(F) - (Len(Content(chain, b)) - Len(none))) :
                j \in (k + 1)..(k + Len(Content(chain, b)) - Len(none))
          BY <3>4 DEF Continues
        <5> QED BY <5>1, <5>2
      <4>3. Continues(F \o N, b, none, Content(chain', b))
        BY <2>1, <3>2, <3>5, <4>1, <4>2, ContinuesFresh
      <4> QED BY <3>1, <4>3 DEF none
    <3> QED BY <2>1, <3>5, <3>6, <3>7
  <2> QED BY <2>2, <2>3, <2>4
<1> QED BY <1>2, <1>3

(* LiveOK is inductive.                                                    *)
LEMMA LiveFollows ==
  /\ Init => LiveOK
  /\ Base /\ LiveOK /\ [Next]_vars => LiveOK'
<1>1. Init => LiveOK
  BY NoLive DEF Init, SourceInit, LiveOK
<1>2. ASSUME Base, LiveOK, Next PROVE LiveOK'
  <2>1. CASE Source
    BY <1>2, <2>1, SourceLive
  <2>2. CASE subscribe_live \/ Ends
    BY <2>2, DropsLive, NoLive DEF LiveOK
  <2>3. CASE Still
    BY <1>2, <2>3, StillSource DEF LiveOK
  <2>4. CASE live_event \/ live_retract
    <3>1. live # <<>> /\ live \in Seq(Item) /\ live' = Tail(live) /\ chain' = chain
      BY <1>2, <2>4, LiveNext
    <3> QED BY <1>2, <3>1, FollowsTail DEF LiveOK
  <2> QED BY <1>2, <2>1, <2>2, <2>3, <2>4, NextKinds
<1>3. ASSUME LiveOK, UNCHANGED vars PROVE LiveOK'
  BY <1>3 DEF LiveOK, vars, sourceVars
<1> QED BY <1>1, <1>2, <1>3

-----------------------------------------------------------------------------
(***************************************************************************)
(* Above the tip that was read, every row is still in the queue.           *)
(***************************************************************************)

(* What lies above the tip is still to come from the live source.          *)
AboveTip ==
  Filling \/ phase = "tip" =>
    \A b \in Heights : b > tip /\ Absent(live, b) => Content(chain, b) = <<>>

(* A height the live source says nothing of has not changed.               *)
LEMMA QuietHeight ==
  ASSUME Base, Source, attached, NEW b \in Heights, Absent(live', b)
  PROVE  Absent(live, b) /\ Content(chain', b) = Content(chain, b)
<1>1. PICK from, N : Shifts(from, N)
  BY SourceShifts
<1>2. live' = live \o N /\ live \in Seq(Item) /\ N \in Seq(Item) /\ from \in Nat /\ b \in Nat
  BY <1>1, PositionFacts DEF Shifts, Base, TypeInv, ChainTypeOK
<1>3. Absent(live, b) /\ Absent(N, b)
  BY <1>2, AbsentConcat
<1>4. CASE b < from
  BY <1>1, <1>3, <1>4 DEF Shifts
<1>5. CASE b >= from
  <2> DEFINE none == <<>>
  <2>1. ~Retracted(N, b)
    BY <1>3 DEF Absent, Retracted
  <2>2. Content(chain, b) = none /\ Continues(N, b, none, Content(chain', b))
    BY <1>1, <1>5, <2>1 DEF Shifts
  <2>3. Content(chain', b) \in Seq(Row) /\ none \in Seq(Row)
    <3>1. b \in DOMAIN chain' => chain'[b] \in Seq(Row)
      BY SourceShifts DEF ChainTypeOK
    <3> QED BY <3>1, EmptyIsSeq DEF Content
  <2> HIDE DEF none
  <2>4. none = Content(chain', b)
    BY <1>2, <1>3, <2>2, <2>3, ContinuesDone
  <2> QED BY <1>3, <2>2, <2>4
<1> QED BY <1>2, <1>4, <1>5

(* AboveTip is inductive.                                                  *)
LEMMA TipCovers ==
  /\ Init => AboveTip
  /\ Base /\ AboveTip /\ [Next]_vars => AboveTip'
<1>1. Init => AboveTip
  BY DEF Init, AboveTip, Filling
<1>2. ASSUME Base, AboveTip, Source PROVE AboveTip'
  <2> SUFFICES ASSUME Filling \/ phase = "tip", NEW b \in Heights, b > tip, Absent(live', b)
               PROVE  Content(chain', b) = <<>>
    BY <1>2, SourceShifts DEF AboveTip, Filling
  <2>1. attached
    BY <1>2 DEF Base, SourceInv, Filling
  <2> QED BY <1>2, <2>1, QuietHeight DEF AboveTip
<1>3. ASSUME Base, AboveTip, read_tip PROVE AboveTip'
  <2>1. tip' = Top /\ UNCHANGED <<chain, live>> /\ phase' = "tip"
    BY <1>3 DEF read_tip, sourceVars
  <2> QED BY <1>3, <2>1, ContentRows DEF AboveTip, Base, TypeInv
<1>4. ASSUME Base, AboveTip, Next, ~Source, ~read_tip PROVE AboveTip'
  <2>1. CASE phase' \notin {"tip", "split", "ready", "backfill"}
    BY <2>1 DEF AboveTip, Filling
  <2>2. CASE phase' \in {"tip", "split", "ready", "backfill"}
    <3>1. phase \in {"tip", "split", "ready", "backfill"} /\ UNCHANGED <<chain, live, tip>>
      <4>1. Still
        <5>1. ~(subscribe_live \/ Ends)
          BY <2>2, EndsForms DEF subscribe_live, Closed
        <5>2. ~(live_event \/ live_retract)
          BY <1>4, <2>2, LiveNext
        <5> QED BY <1>4, <5>1, <5>2, NextKinds
      <4>2. UNCHANGED <<chain, live>>
        BY <4>1, StillSource
      <4>3. phase \in {"tip", "split", "ready", "backfill"} /\ tip' = tip
        BY <1>4, <2>2, <4>1, FlushForms DEF Still, Reads, Fills, open_segments,
             query_first_part, poll_replay,
           poll_backfill, query_next, finish_backfill, streamVars
      <4> QED BY <4>2, <4>3
    <3> QED BY <1>4, <2>2, <3>1 DEF AboveTip, Filling
  <2> QED BY <2>1, <2>2
<1>5. ASSUME AboveTip, UNCHANGED vars PROVE AboveTip'
  BY <1>5 DEF AboveTip, Filling, vars, sourceVars, streamVars
<1> QED BY <1>1, <1>2, <1>3, <1>4, <1>5

-----------------------------------------------------------------------------
(***************************************************************************)
(* What the backfill holds and what it has still to fetch.                 *)
(***************************************************************************)

(* A height the live source speaks of, unless it is settled for good.      *)
Dirty(g) == ~Absent(live, g) /\ (deep \/ g > final_cut)

(* What the settled writer has stored or buffered of a height.             *)
SettledGot(g) == IF g = current THEN buffer ELSE table[g]

(* What the writers and the current window hold of a height together is    *)
(* what the chain holds there.                                             *)
Backfilled ==
  Filling /\ ~poison =>
    \A g \in Heights : Resume <= g /\ g < Ahead /\ ~Dirty(g) =>
      /\ g <= final_cut /\ settling => Continues(fetched, g, SettledGot(g), Content(chain, g))
      /\ g > final_cut /\ healthy => Continues(fetched, g, PRows(g), Content(chain, g))

(* After a failed window the open group is complete all the same.          *)
Broken ==
  Filling /\ poison /\ settling /\ current # None =>
    \A g \in Heights : Resume <= g /\ g <= current /\ ~Dirty(g) => SettledGot(g) = Content(chain, g)

(* The rows of a height are sequences of rows.                             *)
LEMMA GotRows ==
  ASSUME Base, NEW g \in Heights
  PROVE  SettledGot(g) \in Seq(Row) /\ PRows(g) \in Seq(Row) /\ Content(chain, g) \in Seq(Row)
<1>1. table[g] \in Seq(Row) /\ buffer \in Seq(Row) /\ WindowType /\ ChainTypeOK
  BY KeysHeights DEF Base, TypeInv, StoreType, BlockType
<1> QED BY <1>1, ContentRows, GroupFields, EmptyIsSeq DEF SettledGot, PRows,
       WindowType, Groups

(* A height that is clean after a step of the source was clean and has not *)
(* changed: below the cut only a deep reorg replaces a block.              *)
LEMMA CleanStays ==
  ASSUME Base, Source, FinalDepth <= Depth, attached, NEW g \in Heights, ~Dirty(g)'
  PROVE  ~Dirty(g) /\ Content(chain', g) = Content(chain, g)
<1>0. final_cut' = final_cut
  BY SourceShifts
<1>1. CASE Absent(live', g)
  BY <1>1, QuietHeight DEF Dirty
<1>2. CASE ~deep' /\ ~(g > final_cut)
  <2>1. PICK from, N : Shifts(from, N)
    BY SourceShifts
  <2>2. ~deep /\ from > peak - FinalDepth /\ from \in Nat
    BY <1>2, <2>1 DEF Shifts
  <2>3. /\ g \in Nat /\ final_cut \in Int /\ tip \in Int /\ peak \in Nat /\ tip <= peak /\ FinalDepth \in Nat /\ Depth \in Nat
        /\ final_cut # None => final_cut + Depth = tip
    BY CutFacts, PositionFacts, PersistedAssumption, SourceAssumption DEF Base,
         TypeInv, StreamType, ChainTypeOK, TipInv
  <2>4. final_cut + Depth = tip
    BY <1>2, <2>3 DEF None
  <2>5. g < from
    BY <1>2, <2>2, <2>3, <2>4
  <2> QED BY <1>2, <2>1, <2>2, <2>5 DEF Shifts, Dirty
<1> QED BY <1>0, <1>1, <1>2 DEF Dirty

(* A query delivers the heights it covers, and takes nothing away from the *)
(* others.                                                                 *)
LEMMA QueryAdds ==
  ASSUME ChainTypeOK, NEW from \in Nat, NEW lo, NEW joined \in Seq(Event), Within(joined, lo, from - 1),
         NEW end \in Nat, Queries(from, joined, end), NEW g \in Heights
  PROVE  /\ from <= g /\ g < AheadOf(parts', end) => Continues(fetched', g, <<>>, Content(chain, g))
         /\ \A got \in Seq(Row) : g < from /\ Continues(joined, g, got, Content(chain, g))
               => Continues(fetched', g, got, Content(chain, g))
         /\ EvPairs(joined) \subseteq EvPairs(fetched')
<1> DEFINE a == AheadOf(parts', end)
           none == <<>>
           c == Content(chain, g)
<1>1. PICK N : fetched' = joined \o N /\ a \in Nat /\ from <= a /\ AddedOK(N, chain, from, a - 1)
  BY DEF Queries
<1>2. N \in Seq(Event) /\ Within(N, from, a - 1) /\ N \in Seq(Item) /\ joined \in Seq(Item) /\ g \in Nat /\ c \in Seq(Row)
  BY <1>1, EventSeqIsItemSeq, PositionFacts, ContentRows DEF AddedOK
<1>3. ASSUME from <= g, g < a PROVE Continues(fetched', g, none, c)
  <2>1. Absent(joined, g)
    <3> SUFFICES ASSUME NEW j \in DOMAIN joined PROVE joined[j].key # g
      BY DEF Absent
    <3>1. joined[j].key \in lo..(from - 1) /\ joined[j].key \in Nat
      BY <1>2, ItemKeys DEF Within
    <3> QED BY <1>2, <1>3, <3>1
  <2>2. Continues(N, g, none, c)
    <3>1. g \in from..(a - 1)
      BY <1>1, <1>2, <1>3
    <3> QED BY <1>1, <3>1 DEF AddedOK
  <2>3. none = <<>>
    OBVIOUS
  <2> HIDE DEF none, c
  <2>4. Continues(joined \o N, g, none, c)
    BY <1>2, <2>1, <2>2, <2>3, ContinuesFresh
  <2> QED BY <1>1, <2>4
<1>4. ASSUME NEW got \in Seq(Row), g < from, Continues(joined, g, got, c) PROVE Continues(fetched', g, got, c)
  <2>1. Absent(N, g)
    <3> SUFFICES ASSUME NEW j \in DOMAIN N PROVE N[j].key # g
      BY DEF Absent
    <3>1. N[j].key \in from..(a - 1)
      BY <1>2 DEF Within
    <3> QED BY <1>1, <1>2, <1>4, <3>1
  <2> HIDE DEF c
  <2>2. Continues(joined \o N, g, got, c)
    BY <1>2, <1>4, <2>1, ContinuesAppend
  <2> QED BY <1>1, <2>2
<1>5. EvPairs(joined) \subseteq EvPairs(fetched')
  <2>1. \A j \in DOMAIN joined : j \in DOMAIN (joined \o N) /\ (joined \o N)[j] = joined[j]
    <3>1. /\ DOMAIN (joined \o N) = 1..(Len(joined) + Len(N)) /\ DOMAIN joined = 1..Len(joined)
          /\ \A j \in 1..Len(joined) : (joined \o N)[j] = joined[j]
          /\ Len(joined) \in Nat /\ Len(N) \in Nat
      BY <1>2, Concat
    <3> QED BY <3>1
  <2> QED BY <1>1, <2>1 DEF EvPairs
<1> QED BY <1>3, <1>4, <1>5

(* A query of the backfill, answered or failed.                            *)
LEMMA QueryForms ==
  ASSUME Base, query_first_part \/ query_next
  PROVE  /\ Filling /\ Filling' /\ ~poison
         /\ UNCHANGED <<chain, peak, reorgs, deep, attached, live, opened, tip, last, replayed, seen>>
         /\ UNCHANGED <<healthy, pending, head, flushed, maturing>>
         /\ UNCHANGED <<settling, current, buffer, watermark, table, progress>>
         /\ final_cut' = final_cut /\ Resume' = Resume
         /\ Ahead \in Nat /\ next_from' \in Nat /\ fetched \in Seq(Event) /\ Within(fetched, Resume, Ahead - 1)
         /\ parts = <<>> => fetched = <<>>
         /\ parts # <<>> \/ next_from <= tip
         /\ \/ query_failed /\ poison'
            \/ ~poison' /\ Queries(Ahead, fetched, next_from')
<1>1. /\ Filling /\ UNCHANGED <<sourceVars, storeVars, blockVars, windowVars, opened, tip, last, replayed, seen>>
      /\ Filling'
      /\ parts = <<>> => phase = "backfill" /\ fetched = <<>> /\ next_from <= tip /\ ~poison
  BY DEF query_first_part, query_next, Filling, Base, PartsInv
<1>2. /\ UNCHANGED <<chain, peak, reorgs, deep, attached, live, opened, tip, last, replayed, seen>>
      /\ UNCHANGED <<healthy, pending, head, flushed, maturing>>
      /\ UNCHANGED <<settling, current, buffer, watermark, table, progress>>
  BY <1>1 DEF sourceVars, storeVars, blockVars, windowVars
<1>3. final_cut' = final_cut /\ Resume' = Resume
  BY <1>2, CutSame, ResumeSame
<1>4. /\ parts \in Seq(Part) /\ fetched \in Seq(Event) /\ next_from \in Nat /\ ChainTypeOK /\ next_from <= tip + 1
      /\ PartsOK(parts, next_from) /\ tip \in Nat /\ Within(fetched, Resume, Ahead - 1) /\ ~poison /\ next_from' \in Nat
  <2>1. Base'
    BY QueryFirstBase, QueryNextBase
  <2> QED BY <1>1, <2>1, PositionFacts DEF Base, TypeInv, StreamType, TipInv,
         PartsInv, FillFetched, Filling
<1>5. Ahead \in Nat /\ (parts # <<>> => Ahead = parts[1].from)
  <2>1. parts # <<>> => parts[1] \in Part
    BY <1>4
  <2> QED BY <1>4, <2>1 DEF Part, Ahead, AheadOf
<1> DEFINE w == window_end(next_from, tip)
           ps == <<[from |-> next_from, to |-> w]>>
<1>6. \/ query_failed /\ poison'
      \/ parts # <<>> /\ query_range_split(parts, fetched) /\ next_from' = next_from /\ ~poison'
      \/ parts = <<>> /\ query_range_split(ps, <<>>) /\ next_from' = w + 1 /\ ~poison' /\ next_from <= tip /\ fetched = <<>>
  <2>1. CASE query_first_part
    BY <1>1, <1>4, <2>1 DEF query_first_part, Base, PartsInv
  <2>2. CASE query_next
    BY <1>4, <2>2 DEF query_next, query_failed
  <2> QED BY <2>1, <2>2
<1>7. CASE parts # <<>> /\ query_range_split(parts, fetched) /\ next_from' = next_from /\ ~poison'
  <2>1. Queries(parts[1].from, fetched, next_from)
    BY <1>4, <1>7, QuerySplits
  <2>2. Queries(Ahead, fetched, next_from')
    BY <1>5, <1>7, <2>1
  <2> QED BY <1>1, <1>2, <1>3, <1>4, <1>5, <1>7, <2>2
<1>8. CASE parts = <<>> /\ query_range_split(ps, <<>>) /\ next_from' = w + 1 /\ ~poison' /\ next_from <= tip /\ fetched = <<>>
  <2>1. w \in Nat /\ next_from <= w /\ w <= tip /\ ps \in Seq(Part) /\ ps # <<>> /\ ps[1].from = next_from /\ PartsOK(ps, w + 1)
    BY <1>4, <1>8, WindowEnd
  <2> HIDE DEF ps, w
  <2>2. Queries(next_from, <<>>, w + 1)
    <3>1. <<>> \in Seq(Event) /\ w + 1 \in Nat
      BY <2>1, EmptyIsSeq
    <3> QED BY <1>4, <1>8, <2>1, <3>1, QuerySplits
  <2>3. Queries(Ahead, fetched, next_from')
    BY <1>8, <2>2 DEF Ahead, AheadOf
  <2> QED BY <1>1, <1>2, <1>3, <1>4, <1>5, <1>8, <2>3
<1> QED BY <1>1, <1>2, <1>3, <1>4, <1>5, <1>6, <1>7, <1>8

(* Nothing is absent from an empty answer.                                 *)
LEMMA NoneFetched == ASSUME NEW g PROVE Absent(<<>>, g)
BY NoLive

(* Nothing has been written or buffered of a height not yet queried.       *)
LEMMA AheadEmpty ==
  ASSUME Base, Filling, ~poison, parts # <<>> \/ next_from <= tip, NEW g \in Heights, g >= Ahead
  PROVE  /\ settling => SettledGot(g) = <<>>
         /\ healthy => PRows(g) = <<>>
<1>1. /\ g \in Nat /\ Ahead \in Nat /\ Resume <= Ahead /\ Resume \in Nat /\ Resume > last /\ last \in Int
      /\ progress \in Int /\ current \in Int /\ head \in Int /\ g \in Keys
  <2>1. parts # <<>> => parts[1] \in Part
    BY DEF Base, TypeInv, StreamType
  <2> QED BY <2>1, PositionFacts, ResumeFacts, KeysHeights
        DEF Base, TypeInv, StreamType, BlockType, WindowType, StoreType, FillFetched, Part, Ahead, AheadOf
<1>2. ASSUME settling PROVE SettledGot(g) = <<>>
  <2>1. CASE current = None
    <3>1. g > progress /\ g # current
      BY <1>1, <1>2, <2>1 DEF Base, FillBlock, None
    <3> QED BY <1>1, <3>1 DEF Base, StoreInv, SettledGot
  <2>2. CASE current # None
    <3>1. current > progress /\ current < Ahead
      BY <1>2, <2>2 DEF Base, FillBlock
    <3> QED BY <1>1, <3>1 DEF Base, StoreInv, SettledGot
  <2> QED BY <2>1, <2>2
<1>3. ASSUME healthy PROVE PRows(g) = <<>>
  <2>1. g \notin DOMAIN pending
    BY <1>1 DEF Base, FillWindow, TypeInv, WindowType
  <2> QED BY <2>1 DEF PRows
<1> QED BY <1>2, <1>3

(* Backfilled and Broken are preserved by a query, failed or not.          *)
LEMMA QueryFilled ==
  ASSUME Base, Backfilled, query_first_part \/ query_next
  PROVE  Backfilled' /\ Broken'
<1>1. /\ Filling /\ ~poison
      /\ UNCHANGED <<chain, deep, live, tip, last>>
      /\ UNCHANGED <<healthy, pending>>
      /\ UNCHANGED <<settling, current, buffer, table>>
      /\ final_cut' = final_cut /\ Resume' = Resume
      /\ Ahead \in Nat /\ next_from' \in Nat /\ fetched \in Seq(Event) /\ Within(fetched, Resume, Ahead - 1)
      /\ parts = <<>> => fetched = <<>>
      /\ parts # <<>> \/ next_from <= tip
      /\ \/ query_failed /\ poison'
         \/ ~poison' /\ Queries(Ahead, fetched, next_from')
  BY QueryForms
<1>2. ASSUME NEW g PROVE Dirty(g)' = Dirty(g) /\ SettledGot(g)' = SettledGot(g) /\ PRows(g)' = PRows(g)
  BY <1>1 DEF Dirty, SettledGot, PRows
<1>3. CASE query_failed /\ poison'
  <2>1. Backfilled'
    BY <1>3 DEF Backfilled
  <2>2. ASSUME settling, current # None, NEW g \in Heights, Resume <= g, g <= current, ~Dirty(g)
        PROVE  SettledGot(g) = Content(chain, g)
    <3>1. current \in Int /\ g \in Nat /\ final_cut \in Int /\ current <= final_cut /\ current < Ahead
      BY <1>1, <2>2, CutFacts, PositionFacts DEF Base, TypeInv, BlockType, StreamType,
           FillBlock
    <3>2. Continues(fetched, g, SettledGot(g), Content(chain, g))
      BY <1>1, <2>2, <3>1 DEF Backfilled
    <3>3. Absent(fetched, g)
      <4>1. CASE parts = <<>>
        BY <1>1, <4>1, NoneFetched
      <4>2. CASE parts # <<>>
        <5> SUFFICES ASSUME NEW j \in DOMAIN fetched PROVE fetched[j].key # g
          BY DEF Absent
        <5>1. fetched[j].key > current /\ fetched[j].key \in Nat
          BY <1>1, <2>2, <4>2, ItemKeys DEF Base, FillBlock
        <5> QED BY <2>2, <3>1, <5>1
      <4> QED BY <4>1, <4>2
    <3>4. SettledGot(g) \in Seq(Row) /\ Content(chain, g) \in Seq(Row) /\ fetched \in Seq(Item)
      BY <1>1, GotRows, EventSeqIsItemSeq
    <3> QED BY <3>2, <3>3, <3>4, ContinuesDone
  <2>3. Broken'
    BY <1>1, <1>2, <2>2 DEF Broken
  <2> QED BY <2>1, <2>3
<1>4. CASE ~poison' /\ Queries(Ahead, fetched, next_from')
  <2>1. Broken'
    BY <1>4 DEF Broken
  <2>2. Ahead' = AheadOf(parts', next_from') /\ ChainTypeOK
    BY DEF Ahead, AheadOf, Base, TypeInv
  <2>3. ASSUME NEW g \in Heights, Resume <= g, g < Ahead', ~Dirty(g)
        PROVE  /\ g <= final_cut /\ settling => Continues(fetched', g, SettledGot(g), Content(chain, g))
               /\ g > final_cut /\ healthy => Continues(fetched', g, PRows(g), Content(chain, g))
    <3>0. g \in Nat /\ SettledGot(g) \in Seq(Row) /\ PRows(g) \in Seq(Row)
      BY PositionFacts, GotRows
    <3>1. /\ Ahead <= g => Continues(fetched', g, <<>>, Content(chain, g))
          /\ \A got \in Seq(Row) : g < Ahead /\ Continues(fetched, g, got, Content(chain, g))
               => Continues(fetched', g, got, Content(chain, g))
      BY <1>1, <1>4, <2>2, <2>3, QueryAdds
    <3>2. CASE g < Ahead
      <4>1. /\ g <= final_cut /\ settling => Continues(fetched, g, SettledGot(g), Content(chain, g))
            /\ g > final_cut /\ healthy => Continues(fetched, g, PRows(g), Content(chain, g))
        BY <1>1, <2>3, <3>2 DEF Backfilled
      <4> QED BY <3>0, <3>1, <3>2, <4>1
    <3>3. CASE g >= Ahead
      <4>1. (settling => SettledGot(g) = <<>>) /\ (healthy => PRows(g) = <<>>)
        BY <1>1, <3>3, AheadEmpty
      <4> QED BY <1>1, <3>0, <3>1, <3>3, <4>1
    <3> QED BY <1>1, <3>0, <3>2, <3>3
  <2>4. Backfilled'
    BY <1>1, <1>2, <2>3 DEF Backfilled
  <2> QED BY <2>1, <2>4
<1> QED BY <1>1, <1>3, <1>4

-----------------------------------------------------------------------------
(***************************************************************************)
(* Backfilled is preserved: opening and polling.                           *)
(***************************************************************************)

(* What open_segments does, written out.                                   *)
LEMMA OpenForms ==
  ASSUME Base, open_segments
  PROVE  /\ phase = "tip" /\ Filling' /\ last' = progress /\ Base' /\ ~poison /\ ~poison'
         /\ UNCHANGED <<chain, peak, reorgs, deep, attached, live, opened, tip, replayed, table, progress, seen>>
         /\ settling' /\ current' = None /\ buffer' = <<>> /\ healthy' /\ healthy /\ pending' = window!NoGroups /\ head' = None
         /\ flushed' = IF progress > final_cut THEN progress ELSE final_cut
         /\ final_cut' = final_cut /\ Resume' \in Nat /\ Resume' > progress /\ progress \in Int
         /\ \A g \in Heights : Resume' <= g /\ g < Ahead' => Continues(fetched', g, <<>>, Content(chain, g))
<1>1. /\ phase = "tip" /\ backfill_segment(backfill_from(progress)) /\ last' = progress
      /\ phase' = IF parts' = <<>> THEN "ready" ELSE "split"
      /\ UNCHANGED <<chain, peak, reorgs, deep, attached, live, opened, tip, replayed, poison, table, progress, seen>>
      /\ settling' = TRUE /\ current' = None /\ buffer' = <<>>
      /\ healthy' = TRUE /\ pending' = window!NoGroups /\ head' = None
      /\ flushed' = IF progress > final_cut THEN progress ELSE final_cut
  BY DEF open_segments, sourceVars, storeVars, settled!new, window!new,
       window!advance, settled!None, window!None, None
<1>2. final_cut' = final_cut /\ Resume' = backfill_from(progress) /\ Filling'
  BY <1>1, CutSame DEF Resume, backfill_from, Filling
<1>3. /\ tip \in Nat /\ progress \in Int /\ Resume' \in Nat /\ Resume' > progress /\ ~poison /\ healthy /\ ChainTypeOK
  BY <1>1, <1>2, PositionFacts, ResumeOf DEF Base, TypeInv, StreamType, StoreType,
       TipInv, Fresh
<1>4. Base'
  BY OpenBase
<1>5. ASSUME NEW g \in Heights, Resume' <= g, g < Ahead' PROVE Continues(fetched', g, <<>>, Content(chain, g))
  <2> DEFINE from == backfill_from(progress)
             w == window_end(from, tip)
             ps == <<[from |-> from, to |-> w]>>
             none == <<>>
             end == w + 1
  <2>0. from \in Nat /\ g \in Nat
    BY <1>2, <1>3, PositionFacts
  <2>1. CASE from > tip /\ parts' = <<>> /\ next_from' = tip + 1
    <3>1. Ahead' = tip + 1
      BY <2>1 DEF Ahead, AheadOf
    <3> QED BY <1>2, <1>3, <1>5, <2>0, <2>1, <3>1
  <2>2. CASE from <= tip /\ query_range_split(ps, <<>>) /\ next_from' = w + 1
    <3>1. w \in Nat /\ from <= w /\ w <= tip /\ ps \in Seq(Part) /\ ps # <<>> /\ ps[1].from = from /\ PartsOK(ps, w + 1)
      BY <1>3, <2>0, <2>2, WindowEnd
    <3> HIDE DEF ps, w
    <3>2. none \in Seq(Event) /\ end \in Nat /\ Within(none, from, from - 1)
      <4>1. DOMAIN none = {}
        OBVIOUS
      <4>2. Within(none, from, from - 1)
        BY <4>1, Zenon DEF Within
      <4> QED BY <3>1, <4>2, EmptyIsSeq
    <3>3. Queries(from, none, end)
      BY <1>3, <2>2, <3>1, <3>2, QuerySplits
    <3>4. AheadOf(parts', end) = Ahead' /\ from <= g
      BY <1>2, <1>5, <2>2 DEF Ahead, AheadOf
    <3> HIDE DEF from, none, end
    <3> QED BY <1>3, <1>5, <2>0, <3>2, <3>3, <3>4, QueryAdds
  <2> QED BY <1>1, <2>1, <2>2 DEF backfill_segment
<1> QED BY <1>1, <1>2, <1>3, <1>4, <1>5

(* Backfilled holds when the segments are opened.                          *)
LEMMA OpenFilled ==
  ASSUME Base, open_segments
  PROVE  Backfilled' /\ Broken'
<1>1. /\ UNCHANGED <<chain, table, progress>> /\ ~poison' /\ current' = None /\ pending' = window!NoGroups
      /\ Resume' \in Nat /\ Resume' > progress /\ progress \in Int
      /\ \A g \in Heights : Resume' <= g /\ g < Ahead' => Continues(fetched', g, <<>>, Content(chain, g))
  BY OpenForms
<1>2. ASSUME NEW g \in Heights, Resume' <= g PROVE SettledGot(g)' = <<>> /\ PRows(g)' = <<>>
  <2>1. g \in Nat /\ g \in Keys /\ g # None
    BY PositionFacts, KeysHeights
  <2>2. g > progress
    BY <1>1, <1>2, <2>1
  <2> QED BY <1>1, <2>1, <2>2, NoGroupsFacts DEF Base, StoreInv, SettledGot, PRows
<1> QED BY <1>1, <1>2 DEF Backfilled, Broken

(* Backfilled is preserved by an event at or below the cut.                *)
LEMMA PollSettledFilled ==
  ASSUME Base, Backfilled, poll_backfill, fetched[1].key <= final_cut
  PROVE  Backfilled'
<1> DEFINE k == fetched[1].key
           r == fetched[1].row
<1>1. /\ Filling /\ ~poison /\ k \in Heights /\ k \in Nat /\ r \in Row /\ Head(fetched) = fetched[1]
      /\ UNCHANGED <<chain, peak, deep, live, tip, last, poison, phase>> /\ Resume <= k /\ Resume \in Nat /\ Resume > last
      /\ final_cut' = final_cut /\ Resume' = Resume /\ Ahead' = Ahead
      /\ fetched' = Tail(fetched) /\ fetched \in Seq(Event) /\ fetched # <<>>
  BY NextFetched
<1>2. UNCHANGED <<healthy, pending, head, flushed, maturing>> /\ settled!record(k, r)
  BY <1>1 DEF poll_backfill, windowVars
<1>3. /\ fetched \in Seq(Item) /\ k \in Keys /\ final_cut \in Int /\ current \in Int /\ current \in Positions /\ buffer \in Seq(Row)
      /\ progress \in Int /\ last \in Int /\ StoreType /\ StoreInv /\ Base
  BY <1>1, EventSeqIsItemSeq, KeysHeights, CutFacts, PositionFacts DEF Base, TypeInv,
       BlockType, StreamType, StoreType
<1> SUFFICES ASSUME NEW g \in Heights, Resume <= g, g < Ahead, ~Dirty(g)
             PROVE  /\ g <= final_cut /\ settling' => Continues(fetched', g, SettledGot(g)', Content(chain, g))
                    /\ g > final_cut /\ healthy => Continues(fetched', g, PRows(g), Content(chain, g))
  BY <1>1, <1>2 DEF Backfilled, Dirty, PRows
<1>4. /\ g <= final_cut /\ settling => Continues(fetched, g, SettledGot(g), Content(chain, g))
      /\ g > final_cut /\ healthy => Continues(fetched, g, PRows(g), Content(chain, g))
      /\ SettledGot(g) \in Seq(Row) /\ PRows(g) \in Seq(Row) /\ Content(chain, g) \in Seq(Row) /\ g \in Nat /\ g \in Keys
  BY <1>1, GotRows, KeysHeights, PositionFacts DEF Backfilled
<1>5. g > final_cut /\ healthy => Continues(fetched', g, PRows(g), Content(chain, g))
  <2>1. g > final_cut => k # g
    BY <1>1, <1>3, <1>4
  <2> QED BY <1>1, <1>3, <1>4, <2>1, ContinuesTailOther
<1>6. ASSUME g <= final_cut, settling' PROVE Continues(fetched', g, SettledGot(g)', Content(chain, g))
  <2>1. settling /\ (BlockAdds(k, r) \/ BlockRolls(k, r))
    <3>1. \/ BlockSkips
          \/ BlockHalts /\ (r \in Unencodable \/ k < current)
          \/ BlockAdds(k, r)
          \/ BlockRolls(k, r)
          \/ BlockFails
      BY <1>2, BlockRecords
    <3>2. ~BlockSkips /\ ~BlockHalts /\ ~BlockFails
      BY <1>6 DEF BlockSkips, BlockHalts, BlockFails, blockVars
    <3>3. BlockAdds(k, r) \/ BlockRolls(k, r)
      BY <3>1, <3>2
    <3> QED BY <3>3 DEF BlockAdds, BlockRolls
  <2>2. Continues(fetched, g, SettledGot(g), Content(chain, g))
    BY <1>4, <1>6, <2>1
  <2> HIDE DEF k, r
  <2>3. /\ g # k => SettledGot(g)' = SettledGot(g)
        /\ g = k => SettledGot(g)' = Append(SettledGot(g), r)
    <3>1. CASE BlockAdds(k, r)
      <4>1. table' = table /\ current' = k /\ buffer' = Append(buffer, r) /\ (current = None \/ k = current)
        BY <3>1 DEF BlockAdds, storeVars
      <4>2. CASE current = k
        BY <4>1, <4>2 DEF SettledGot
      <4>3. CASE current = None
        <5>1. buffer = <<>> /\ k > progress /\ k # None /\ g # None
          BY <1>1, <1>3, <1>4, <2>1, <4>3 DEF Base, FillBlock, None
        <5>2. table[k] = <<>>
          BY <1>3, <5>1 DEF StoreInv
        <5> QED BY <4>1, <4>3, <5>1, <5>2 DEF SettledGot
      <4> QED BY <4>1, <4>2, <4>3
    <3>2. CASE BlockRolls(k, r)
      <4>1. current # None /\ k > current /\ Wrote(current, buffer) /\ current' = k /\ buffer' = <<r>>
        BY <3>2 DEF BlockRolls
      <4>2. current > progress /\ current <= final_cut /\ current \in Heights
        BY <1>1, <1>3, <2>1, <4>1, PositionFacts DEF Base, FillBlock
      <4>3. current + Depth <= peak /\ peak \in Nat
        <5>1. tip \in Positions /\ tip \in Int /\ tip <= peak /\ peak \in Nat /\ Depth \in Nat
          BY PositionFacts, PersistedAssumption DEF Base, TypeInv, ChainTypeOK,
               StreamType, TipInv
        <5>2. final_cut # None /\ current \in Nat
          BY <1>3, <4>2, PositionFacts DEF None
        <5> QED BY <1>3, <4>2, <5>1, <5>2, CutFacts
      <4>4. table'[current] = buffer /\ \A h \in Keys : h # current => table'[h] = table[h]
        <5>1. last \in Positions
          BY DEF Base, TypeInv, StreamType
        <5> QED BY <1>1, <1>3, <4>1, <4>2, <4>3, <5>1, StoreGrows
      <4>5. table[k] = <<>> /\ k # current
        BY <1>1, <1>3, <4>1, <4>2 DEF StoreInv
      <4>6. <<r>> = Append(<<>>, r)
        OBVIOUS
      <4>7. CASE g = k
        BY <4>1, <4>5, <4>6, <4>7 DEF SettledGot
      <4>8. CASE g = current
        BY <4>1, <4>4, <4>5, <4>8 DEF SettledGot
      <4>9. CASE g # k /\ g # current
        BY <1>4, <4>1, <4>4, <4>9 DEF SettledGot
      <4> QED BY <4>5, <4>7, <4>8, <4>9
    <3> QED BY <2>1, <3>1, <3>2
  <2>4. CASE g = k
    <3>1. Head(fetched).key = g /\ Head(fetched).row = r
      BY <1>1, <2>4 DEF k, r
    <3> QED BY <1>1, <1>3, <1>4, <2>2, <2>3, <2>4, <3>1, ContinuesTailSame
  <2>5. CASE g # k
    <3>1. Head(fetched).key # g
      BY <1>1, <2>5 DEF k
    <3> QED BY <1>1, <1>3, <1>4, <2>2, <2>3, <2>5, <3>1, ContinuesTailOther
  <2> QED BY <2>4, <2>5
<1> QED BY <1>5, <1>6

(* Backfilled is preserved by an event above the cut.                      *)
LEMMA PollTailFilled ==
  ASSUME Base, Backfilled, poll_backfill, ~(fetched[1].key <= final_cut)
  PROVE  Backfilled'
<1> DEFINE k == fetched[1].key
           r == fetched[1].row
<1>1. /\ Filling /\ ~poison /\ k \in Heights /\ k \in Nat /\ r \in Row /\ Head(fetched) = fetched[1]
      /\ UNCHANGED <<chain, peak, deep, live, tip, last, poison, phase>>
      /\ final_cut' = final_cut /\ Resume' = Resume /\ Ahead' = Ahead
      /\ fetched' = Tail(fetched) /\ fetched \in Seq(Event) /\ fetched # <<>>
  BY NextFetched
<1>2. UNCHANGED <<settling, current, buffer, watermark>> /\ window!record_seeded(k, r)
  BY <1>1 DEF poll_backfill, blockVars
<1>3. fetched \in Seq(Item) /\ final_cut \in Int /\ WindowType
  BY <1>1, EventSeqIsItemSeq, CutFacts, PositionFacts DEF Base, TypeInv, StreamType
<1>4. WindowSkips \/ WindowHalts \/ WindowSeeds(k, r)
  BY <1>2, WindowSeedsRecords
<1>5. table' = table
  BY <1>4 DEF WindowSkips, WindowHalts, WindowSeeds, Buffers, storeVars
<1> SUFFICES ASSUME NEW g \in Heights, Resume <= g, g < Ahead, ~Dirty(g)
             PROVE  /\ g <= final_cut /\ settling => Continues(fetched', g, SettledGot(g), Content(chain, g))
                    /\ g > final_cut /\ healthy' => Continues(fetched', g, PRows(g)', Content(chain, g))
  BY <1>1, <1>2, <1>5 DEF Backfilled, Dirty, SettledGot
<1>6. /\ g <= final_cut /\ settling => Continues(fetched, g, SettledGot(g), Content(chain, g))
      /\ g > final_cut /\ healthy => Continues(fetched, g, PRows(g), Content(chain, g))
      /\ SettledGot(g) \in Seq(Row) /\ PRows(g) \in Seq(Row) /\ Content(chain, g) \in Seq(Row) /\ g \in Nat
  BY <1>1, GotRows, PositionFacts DEF Backfilled
<1>7. g <= final_cut /\ settling => Continues(fetched', g, SettledGot(g), Content(chain, g))
  <2>1. g <= final_cut => k # g
    BY <1>1, <1>3, <1>6
  <2> QED BY <1>1, <1>3, <1>6, <2>1, ContinuesTailOther
<1>8. ASSUME g > final_cut, healthy' PROVE Continues(fetched', g, PRows(g)', Content(chain, g))
  <2>1. healthy /\ WindowSeeds(k, r)
    BY <1>4, <1>8 DEF WindowSkips, WindowHalts, WindowSeeds, windowVars
  <2>2. Continues(fetched, g, PRows(g), Content(chain, g))
    BY <1>6, <1>8, <2>1
  <2> HIDE DEF k, r
  <2>3. /\ DOMAIN pending' = DOMAIN pending \cup {k}
        /\ \A b \in DOMAIN pending : b # k => pending'[b] = pending[b]
        /\ pending'[k].rows = Append(PRows(k), r)
    BY <1>1, <1>3, <2>1, SeedsEffect
  <2>4. /\ g # k => PRows(g)' = PRows(g)
        /\ g = k => PRows(g)' = Append(PRows(g), r)
    BY <2>3 DEF PRows
  <2>5. CASE g = k
    <3>1. Head(fetched).key = g /\ Head(fetched).row = r
      BY <1>1, <2>5 DEF k, r
    <3> QED BY <1>1, <1>3, <1>6, <2>2, <2>4, <2>5, <3>1, ContinuesTailSame
  <2>6. CASE g # k
    <3>1. Head(fetched).key # g
      BY <1>1, <2>6 DEF k
    <3> QED BY <1>1, <1>3, <1>6, <2>2, <2>4, <2>6, <3>1, ContinuesTailOther
  <2> QED BY <2>5, <2>6
<1> QED BY <1>7, <1>8

(* Backfilled and Broken are inductive, with Base.                         *)
LEMMA BackfillCovers ==
  ASSUME FinalDepth <= Depth
  PROVE  /\ Init => Backfilled /\ Broken
         /\ Base /\ Backfilled /\ Broken /\ [Next]_vars => Backfilled' /\ Broken'
<1>1. Init => Backfilled /\ Broken
  BY DEF Init, Backfilled, Broken, Filling
<1>2. ASSUME Base, Backfilled, Broken, Source PROVE Backfilled' /\ Broken'
  <2>1. /\ UNCHANGED <<table, settling, current, buffer, healthy, pending, tip, last, fetched, parts, next_from, poison, phase>>
        /\ final_cut' = final_cut /\ Resume' = Resume /\ Ahead' = Ahead
    BY <1>2, SourceShifts
  <2>2. Filling => attached
    BY <1>2 DEF Base, SourceInv, Filling
  <2>3. ASSUME Filling, NEW g \in Heights, ~Dirty(g)' PROVE ~Dirty(g) /\ Content(chain', g) = Content(chain, g)
    BY <1>2, <2>2, <2>3, CleanStays
  <2>4. Backfilled'
    BY <1>2, <2>1, <2>3 DEF Backfilled, SettledGot, PRows, Filling
  <2>5. Broken'
    BY <1>2, <2>1, <2>3 DEF Broken, SettledGot, Filling
  <2> QED BY <2>4, <2>5
<1>3. ASSUME Base, Backfilled, Broken, Next, ~Source PROVE Backfilled' /\ Broken'
  <2>1. CASE ~Filling'
    BY <2>1 DEF Backfilled, Broken
  <2>2. CASE open_segments
    BY <1>3, <2>2, OpenFilled
  <2>3. CASE query_first_part \/ query_next
    BY <1>3, <2>3, QueryFilled
  <2>4. CASE poll_backfill
    <3>1. ~poison' /\ ~poison
      BY <1>3, <2>4, NextFetched
    <3> QED BY <1>3, <2>4, <3>1, PollSettledFilled, PollTailFilled DEF Broken
  <2>5. CASE poll_replay
    <3>1. /\ UNCHANGED <<chain, deep, live, table, settling, current, buffer, healthy, pending, tip, last, fetched, parts, next_from, poison>>
          /\ Filling
      BY <2>5 DEF poll_replay, sourceVars, storeVars, blockVars, windowVars,
           streamVars, Filling
    <3>2. final_cut' = final_cut /\ Resume' = Resume /\ Ahead' = Ahead
      BY <3>1, CutSame, ResumeSame DEF Ahead
    <3> QED BY <1>3, <3>1, <3>2 DEF Backfilled, Broken, Dirty, SettledGot, PRows
  <2>6. CASE Filling' /\ (subscribe_live \/ read_tip \/ finish_backfill \/ Ends)
    BY <2>6, EndsForms DEF subscribe_live, read_tip, finish_backfill, Closed, Filling
  <2>7. CASE Filling' /\ (live_event \/ live_retract \/ flush_matured)
    BY <1>3, <2>7, LiveNext, FlushForms DEF Filling
  <2> QED BY <1>3, <2>1, <2>2, <2>3, <2>4, <2>5, <2>6, <2>7, NextSteps
<1>4. ASSUME Backfilled, Broken, UNCHANGED vars PROVE Backfilled' /\ Broken'
  <2>1. UNCHANGED <<chain, deep, live, table, settling, current, buffer, healthy, pending, tip, last, fetched, parts, next_from, poison, phase>>
    BY <1>4 DEF vars, sourceVars, storeVars, blockVars, windowVars, streamVars
  <2>2. final_cut' = final_cut /\ Resume' = Resume /\ Ahead' = Ahead
    BY <2>1, CutSame, ResumeSame DEF Ahead
  <2> QED BY <1>4, <2>1, <2>2 DEF Backfilled, Broken, Dirty, SettledGot, PRows, Filling
<1> QED BY <1>1, <1>2, <1>3, <1>4

-----------------------------------------------------------------------------
(***************************************************************************)
(* After the backfill: what the window holds is continued by the queue.    *)
(***************************************************************************)

(* What the window will keep of the rows it holds for a height, given that *)
(* a live re-emission of a seeded group replaces it.                       *)
Got(b) ==
  IF b \in DOMAIN pending /\ ~(pending[b].seeded /\ ~Absent(live, b)) THEN pending[b].rows ELSE <<>>

(* The heights whose rows the window is to have when the source is drained. *)
Owed(b) ==
  /\ b > flushed /\ ~Retracted(live, b)
  /\ ~Absent(live, b) \/ (phase = "live" /\ (b >= Resume \/ b \in DOMAIN pending))

(* Of every such height the live source delivers exactly what the window   *)
(* lacks.                                                                  *)
LiveGets ==
  healthy /\ ~poison => \A b \in Heights : Owed(b) => Continues(live, b, Got(b), Content(chain, b))

(* Only the height at the head may be half delivered.                      *)
OnePartial ==
  healthy /\ ~poison => \A b \in DOMAIN pending :
    ~Absent(live, b) /\ ~Retracted(live, b) /\ ~pending[b].seeded /\ pending[b].rows # <<>> => head = b

(* An empty block continues with nothing.                                  *)
LEMMA ContinuesNothing ==
  ASSUME NEW F \in Seq(Item), NEW g, NEW got \in Seq(Row), NEW c, c = <<>>, Continues(F, g, got, c)
  PROVE  got = <<>> /\ Absent(F, g)
<1>1. Len(c) = 0 /\ Len(got) \in Nat /\ Len(got) <= Len(c) /\ Len(F) \in Nat
  BY DEF Continues
<1>2. Len(got) = 0
  BY <1>1
<1>3. got = <<>>
  BY <1>2
<1>4. Absent(F, g)
  <2> SUFFICES ASSUME NEW j \in DOMAIN F, F[j].key = g PROVE FALSE
    BY DEF Absent
  <2>1. PICK k \in 0..(Len(F) - (Len(c) - Len(got))) : j \in (k + 1)..(k + Len(c) - Len(got))
    BY DEF Continues
  <2> QED BY <1>1, <1>2, <2>1
<1> QED BY <1>3, <1>4

(* What the window keeps is a sequence of rows.                            *)
LEMMA GotType ==
  ASSUME Base, NEW b \in Heights
  PROVE  Got(b) \in Seq(Row) /\ (b \in DOMAIN pending => pending[b].rows \in Seq(Row))
<1>1. b \in DOMAIN pending => pending[b].rows \in Seq(Row)
  BY GroupFields DEF Base, TypeInv, WindowType, Groups
<1> QED BY <1>1, EmptyIsSeq DEF Got

(* Before the live tail, nothing the source holds is kept from the window. *)
LEMMA FillGot ==
  ASSUME Base, phase # "live", NEW b, ~Absent(live, b)
  PROVE  Got(b) = <<>>
<1>1. CASE Filling
  BY <1>1 DEF Base, FillWindow, Got
<1>2. CASE ~Filling
  <2>1. pending = window!NoGroups
    BY <1>2 DEF Base, Fresh, Filling, TypeInv, StreamType, Phases
  <2> QED BY <2>1, NoGroupsFacts DEF Got
<1> QED BY <1>1, <1>2

(* LiveGets and OnePartial are preserved by the steps before the live      *)
(* tail.                                                                   *)
LEMMA FillGets ==
  ASSUME Base, Base', LiveGets, phase # "live", phase' # "live", UNCHANGED <<chain, live>>,
         healthy' => healthy, ~poison' => ~poison, flushed' >= flushed
  PROVE  LiveGets' /\ OnePartial'
<1>1. LiveGets'
  <2> SUFFICES ASSUME healthy', ~poison', NEW b \in Heights, Owed(b)'
               PROVE  Continues(live, b, Got(b)', Content(chain, b))
    BY DEF LiveGets
  <2>1. ~Absent(live, b) /\ ~Retracted(live, b) /\ b > flushed' /\ ~Absent(live', b)
    BY DEF Owed
  <2>2. b > flushed
    BY <2>1, PositionFacts DEF Base, TypeInv, WindowType
  <2>3. Got(b) = <<>>
    BY <2>1, FillGot
  <2>4. Got(b)' = <<>>
    <3>1. CASE Filling'
      BY <2>1, <3>1 DEF Base, FillWindow, Got
    <3>2. CASE ~Filling'
      <4>1. pending' = window!NoGroups
        BY <3>2 DEF Base, Fresh, Filling, TypeInv, StreamType, Phases
      <4> QED BY <4>1, NoGroupsFacts DEF Got
    <3> QED BY <3>1, <3>2
  <2>5. Continues(live, b, Got(b), Content(chain, b))
    BY <2>1, <2>2 DEF LiveGets, Owed
  <2> QED BY <2>3, <2>4, <2>5
<1>2. OnePartial'
  <2> SUFFICES ASSUME NEW b \in DOMAIN pending', ~pending'[b].seeded PROVE FALSE
    BY DEF OnePartial
  <2>1. CASE Filling'
    BY <2>1 DEF Base, FillWindow
  <2>2. CASE ~Filling'
    <3>1. pending' = window!NoGroups
      BY <2>2 DEF Base, Fresh, Filling, TypeInv, StreamType, Phases
    <3> QED BY <3>1, NoGroupsFacts
  <2> QED BY <2>1, <2>2
<1> QED BY <1>1, <1>2

(* They hold when the live source is empty and nothing is buffered.        *)
LEMMA NothingGets ==
  ASSUME live' = <<>>, phase' # "live", pending' = window!NoGroups
  PROVE  LiveGets' /\ OnePartial'
<1>1. \A b : Absent(live', b)
  BY NoLive
<1>2. \A b : ~Owed(b)'
  BY <1>1 DEF Owed
<1> QED BY <1>2, NoGroupsFacts DEF LiveGets, OnePartial

(* They are preserved by a step of the source.                             *)
LEMMA SourceGets ==
  ASSUME Base, LiveGets, OnePartial, Source
  PROVE  LiveGets' /\ OnePartial'
<1>1. PICK from, N : Shifts(from, N)
  BY SourceShifts
<1>2. /\ UNCHANGED <<healthy, pending, head, flushed, maturing, poison, phase, last>>
      /\ ChainTypeOK /\ ChainTypeOK' /\ Resume' = Resume /\ Base'
  BY SourceShifts
<1>3. CASE ~attached
  <2>1. live' = <<>> /\ phase = "idle"
    BY <1>1, <1>3 DEF Shifts, Base, SourceInv
  <2>2. pending = window!NoGroups
    BY <2>1 DEF Base, Fresh
  <2> QED BY <1>2, <2>1, <2>2, NothingGets
<1>4. CASE attached
  <2>1. live' = live \o N /\ live \in Seq(Item) /\ N \in Seq(Item) /\ from \in Nat
    BY <1>1, <1>4 DEF Shifts, Base, TypeInv, ChainTypeOK
  <2>2. ASSUME NEW b \in Heights
        PROVE  /\ b \in Nat /\ Content(chain, b) \in Seq(Row) /\ Content(chain', b) \in Seq(Row) /\ Got(b) \in Seq(Row)
               /\ Absent(live', b) <=> Absent(live, b) /\ Absent(N, b)
               /\ Retracted(live', b) <=> Retracted(live, b) \/ Retracted(N, b)
    <3>1. b \in DOMAIN chain' => chain'[b] \in Seq(Row)
      BY <1>2 DEF ChainTypeOK
    <3> QED BY <1>2, <2>1, <3>1, AbsentConcat, ContentRows, PositionFacts, GotType,
           EmptyIsSeq DEF Content
  <2>3. LiveGets'
    <3> SUFFICES ASSUME healthy, ~poison, NEW b \in Heights, Owed(b)'
                 PROVE  Continues(live \o N, b, Got(b)', Content(chain', b))
      BY <1>2, <2>1 DEF LiveGets
    <3>1. /\ b > flushed /\ ~Retracted(live, b) /\ ~Retracted(N, b)
          /\ ~Absent(live', b) \/ (phase = "live" /\ (b >= Resume \/ b \in DOMAIN pending))
      BY <1>2, <2>2 DEF Owed
    <3>2. Owed(b) => Continues(live, b, Got(b), Content(chain, b))
      BY DEF LiveGets
    <3>3. CASE b < from
      <4>1. Absent(N, b) /\ Content(chain', b) = Content(chain, b)
        BY <1>1, <3>3 DEF Shifts
      <4>2. Absent(live', b) <=> Absent(live, b)
        BY <2>2, <4>1
      <4>3. Owed(b) /\ Got(b)' = Got(b)
        BY <1>2, <3>1, <4>2 DEF Owed, Got
      <4>4. Continues(live \o N, b, Got(b), Content(chain, b))
        BY <2>1, <2>2, <3>2, <4>1, <4>3, ContinuesAppend
      <4> QED BY <4>1, <4>3, <4>4
    <3>4. CASE b >= from
      <4> DEFINE none == <<>>
      <4>1. Content(chain, b) = none /\ Continues(N, b, none, Content(chain', b)) /\ none = <<>>
        BY <1>1, <3>1, <3>4 DEF Shifts
      <4> HIDE DEF none
      <4>2. Absent(live, b) /\ Got(b)' = none
        <5>1. CASE Owed(b)
          <6>1. Got(b) = none /\ Absent(live, b)
            BY <2>1, <2>2, <3>2, <4>1, <5>1, ContinuesNothing
          <6>2. b \in DOMAIN pending => pending[b].rows = none
            BY <6>1 DEF Got
          <6> QED BY <1>2, <4>1, <6>1, <6>2 DEF Got
        <5>2. CASE ~Owed(b)
          <6>1. Absent(live, b) /\ ~(phase = "live" /\ (b >= Resume \/ b \in DOMAIN pending)) /\ ~Absent(live', b)
            BY <3>1, <5>2 DEF Owed
          <6>2. CASE b \notin DOMAIN pending
            BY <1>2, <4>1, <6>1, <6>2 DEF Got
          <6>3. CASE b \in DOMAIN pending
            <7>1. phase' # "live"
              BY <1>2, <6>1, <6>3
            <7>2. Got(b)' = <<>>
              <8>1. CASE Filling'
                BY <1>2, <6>1, <8>1 DEF Base, FillWindow, Got
              <8>2. CASE ~Filling'
                <9>1. pending' = window!NoGroups
                  BY <1>2, <7>1, <8>2 DEF Base, Fresh, Filling, TypeInv, StreamType,
                       Phases
                <9> QED BY <9>1, NoGroupsFacts DEF Got
              <8> QED BY <8>1, <8>2
            <7> QED BY <4>1, <6>1, <7>2
          <6> QED BY <6>2, <6>3
        <5> QED BY <5>1, <5>2
      <4>3. Continues(live \o N, b, none, Content(chain', b))
        BY <2>1, <2>2, <4>1, <4>2, ContinuesFresh
      <4> QED BY <4>2, <4>3
    <3> QED BY <2>1, <2>2, <3>3, <3>4
  <2>4. OnePartial'
    <3> SUFFICES ASSUME healthy, ~poison, NEW b \in DOMAIN pending,
                        ~Absent(live', b), ~Retracted(live', b), ~pending[b].seeded, pending[b].rows # <<>>
                 PROVE  head = b
      BY <1>2 DEF OnePartial
    <3>1. b \in Heights
      BY DEF Base, TypeInv, WindowType, Groups
    <3>2. CASE ~Absent(live, b)
      BY <2>2, <3>1, <3>2 DEF OnePartial
    <3>3. CASE Absent(live, b)
      <4>1. phase = "live"
        <5> SUFFICES ASSUME phase # "live" PROVE FALSE
          OBVIOUS
        <5>1. CASE Filling
          BY <5>1 DEF Base, FillWindow
        <5>2. CASE ~Filling
          <6>1. pending = window!NoGroups
            BY <5>2 DEF Base, Fresh, Filling, TypeInv, StreamType, Phases
          <6> QED BY <6>1, NoGroupsFacts
        <5> QED BY <5>1, <5>2
      <4>2. b > flushed
        BY <4>1 DEF Base, LiveInv
      <4>3. Continues(live, b, Got(b), Content(chain, b)) /\ Got(b) = pending[b].rows
        BY <2>2, <3>1, <3>3, <4>1, <4>2 DEF LiveGets, Owed, Got
      <4>4. Content(chain, b) # <<>>
        BY <2>1, <2>2, <3>1, <3>3, <4>3, ContinuesDone
      <4>5. ~Absent(N, b) /\ ~Retracted(N, b)
        BY <2>2, <3>1, <3>3
      <4> QED BY <1>1, <2>1, <2>2, <3>1, <4>4, <4>5 DEF Shifts
    <3> QED BY <3>2, <3>3
  <2> QED BY <2>3, <2>4
<1> QED BY <1>3, <1>4

-----------------------------------------------------------------------------
(***************************************************************************)
(* LiveGets is preserved, action by action.                                *)
(***************************************************************************)

(* They hold when the live tail starts: what the backfill gave the window  *)
(* and what the live source holds make up the chain.                       *)
LEMMA FinishGets ==
  ASSUME Base, LiveGets, Backfilled, AboveTip, finish_backfill
  PROVE  LiveGets' /\ OnePartial'
<1>1. /\ phase = "backfill" /\ Filling /\ parts = <<>> /\ fetched = <<>> /\ (next_from > tip \/ poison)
      /\ UNCHANGED <<chain, live, tip, last, poison, deep>>
      /\ phase' = "live" /\ Resume' = Resume /\ flushed' = flushed /\ head' = head
      /\ settling' => pending' = pending /\ healthy' = healthy
      /\ ~settling' => pending' = window!NoGroups /\ healthy' = FALSE
      /\ flushed = IF last > final_cut THEN last ELSE final_cut
  BY FinishForms
<1>2. /\ live \in Seq(Item) /\ tip \in Positions /\ tip \in Int /\ last \in Int /\ final_cut \in Int /\ next_from \in Nat
      /\ head \in Int /\ DOMAIN pending \subseteq Heights
  BY CutFacts, PositionFacts DEF Base, TypeInv, ChainTypeOK, StreamType, WindowType,
       Groups
<1>3. \A b \in DOMAIN pending : pending[b].seeded /\ b >= Resume /\ b <= head /\ head <= tip
  BY <1>1 DEF Base, FillWindow
<1>4. LiveGets'
  <2> SUFFICES ASSUME healthy', ~poison, NEW b \in Heights, Owed(b)'
               PROVE  Continues(live, b, Got(b)', Content(chain, b))
    BY <1>1 DEF LiveGets
  <2>1. healthy /\ pending' = pending
    BY <1>1
  <2>2. Got(b)' = Got(b)
    BY <1>1, <2>1 DEF Got
  <2>3. b > flushed /\ ~Retracted(live, b) /\ (~Absent(live, b) \/ b >= Resume)
    BY <1>1, <1>3, <2>1 DEF Owed
  <2>4. CASE ~Absent(live, b)
    BY <2>1, <2>2, <2>3, <2>4 DEF LiveGets, Owed
  <2>5. CASE Absent(live, b)
    <3>1. Got(b) = PRows(b)
      BY <2>5 DEF Got, PRows
    <3>2. PRows(b) = Content(chain, b)
      <4>1. b \in Nat /\ PRows(b) \in Seq(Row) /\ Content(chain, b) \in Seq(Row) /\ Ahead = next_from /\ next_from > tip
        BY <1>1, GotRows, PositionFacts DEF Ahead, AheadOf
      <4>2. CASE b < Ahead
        <5>1. Continues(fetched, b, PRows(b), Content(chain, b))
          BY <1>1, <1>2, <2>1, <2>3, <2>5, <4>1, <4>2 DEF Backfilled, Dirty
        <5>2. Absent(fetched, b) /\ fetched \in Seq(Item)
          BY <1>1, NoneFetched, EmptyIsSeq
        <5> QED BY <4>1, <5>1, <5>2, ContinuesDone
      <4>3. CASE b >= Ahead
        <5>1. Content(chain, b) = <<>>
          BY <1>1, <1>2, <2>5, <4>1, <4>3 DEF AboveTip
        <5>2. b \notin DOMAIN pending
          BY <1>2, <1>3, <4>1, <4>3
        <5> QED BY <5>1, <5>2 DEF PRows
      <4> QED BY <1>2, <4>1, <4>2, <4>3
    <3>3. Content(chain, b) \in Seq(Row)
      BY GotRows
    <3> QED BY <1>2, <2>2, <2>5, <3>1, <3>2, <3>3, ContinuesComplete
  <2> QED BY <2>4, <2>5
<1>5. OnePartial'
  <2> SUFFICES ASSUME healthy', NEW b \in DOMAIN pending', ~pending'[b].seeded PROVE FALSE
    BY DEF OnePartial
  <2> QED BY <1>1, <1>3
<1> QED BY <1>4, <1>5

(* What the live steps have in common: heights below the one at the head   *)
(* of the stream are left alone, those above start afresh.                 *)
LEMMA LiveStepGets ==
  ASSUME Base, LiveGets, OnePartial, live_event \/ live_retract, healthy,
         \A b \in DOMAIN pending : b < live[1].key => b \in DOMAIN pending' /\ pending'[b] = pending[b],
         \A b \in DOMAIN pending' : b < live[1].key => b \in DOMAIN pending
  PROVE  /\ \A b \in Heights : b < live[1].key /\ Owed(b)' => Continues(live', b, Got(b)', Content(chain, b))
         /\ \A b \in DOMAIN pending' : b < live[1].key =>
              ~(~Absent(live', b) /\ ~Retracted(live', b) /\ ~pending'[b].seeded /\ pending'[b].rows # <<>>)
<1>1. /\ phase = "live" /\ phase' = "live" /\ ~poison /\ live # <<>> /\ live' = Tail(live) /\ live \in Seq(Item)
      /\ Head(live) = live[1] /\ live[1].key \in Heights /\ live[1].key \in Nat
      /\ chain' = chain /\ flushed' = flushed /\ Resume' = Resume /\ last' = last
  BY LiveNext
<1>2. ASSUME NEW b \in Heights, b < live[1].key
      PROVE  /\ b \in Nat /\ live[1].key # b
             /\ (b \in DOMAIN pending <=> b \in DOMAIN pending') /\ (b \in DOMAIN pending => pending'[b] = pending[b])
             /\ Absent(live', b) <=> Absent(live, b)
             /\ Retracted(live', b) <=> Retracted(live, b)
             /\ Got(b)' = Got(b) /\ (Owed(b)' <=> Owed(b))
  <2>1. b \in Nat /\ live[1].key # b
    BY <1>1, <1>2, PositionFacts
  <2>2. (Absent(live', b) <=> Absent(live, b)) /\ (Retracted(live', b) <=> Retracted(live, b))
    BY <1>1, <2>1, AbsentTail
  <2>3. (b \in DOMAIN pending <=> b \in DOMAIN pending') /\ (b \in DOMAIN pending => pending'[b] = pending[b])
    BY <1>2
  <2>4. Got(b)' = Got(b)
    BY <2>2, <2>3 DEF Got
  <2>5. Owed(b)' <=> Owed(b)
    BY <1>1, <2>2, <2>3 DEF Owed
  <2> QED BY <2>1, <2>2, <2>3, <2>4, <2>5
<1>3. ASSUME NEW b \in Heights, b < live[1].key, Owed(b)' PROVE Continues(live', b, Got(b)', Content(chain, b))
  <2>1. Continues(live, b, Got(b), Content(chain, b))
    BY <1>1, <1>2, <1>3 DEF LiveGets
  <2>2. Got(b) \in Seq(Row) /\ Content(chain, b) \in Seq(Row)
    BY GotType, GotRows
  <2>3. Head(live).key # b
    BY <1>1, <1>2, <1>3
  <2>4. Continues(Tail(live), b, Got(b), Content(chain, b))
    BY <1>1, <2>1, <2>2, <2>3, ContinuesTailOther
  <2> QED BY <1>1, <1>2, <1>3, <2>4
<1>4. ASSUME NEW b \in DOMAIN pending', b < live[1].key, ~Absent(live', b), ~Retracted(live', b),
             ~pending'[b].seeded, pending'[b].rows # <<>>
      PROVE  FALSE
  <2>1. b \in DOMAIN pending /\ b \in Heights
    BY <1>4 DEF Base, TypeInv, WindowType, Groups
  <2>2. ~Absent(live, b) /\ ~Retracted(live, b) /\ pending'[b] = pending[b] /\ b > flushed
    BY <1>1, <1>2, <1>4, <2>1 DEF Base, LiveInv
  <2>3. Continues(live, b, Got(b), Content(chain, b)) /\ Got(b) = pending[b].rows
    BY <1>1, <1>4, <2>1, <2>2 DEF LiveGets, Owed, Got
  <2>4. Got(b) \in Seq(Row) /\ Content(chain, b) \in Seq(Row) /\ Got(b) # <<>>
    BY <1>4, <2>1, <2>2, <2>3, GotType, GotRows
  <2>5. live[1].key = b
    BY <1>1, <2>2, <2>3, <2>4, ContinuesHead
  <2> QED BY <1>2, <1>4, <2>1, <2>5
<1> QED BY <1>3, <1>4

(* They are preserved by live_event.                                       *)
LEMMA LiveEventGets ==
  ASSUME Base, LiveGets, OnePartial, LiveOK, live_event
  PROVE  LiveGets' /\ OnePartial'
<1>0. PICK k, r : k = live[1].key /\ r = live[1].row
  OBVIOUS
<1>1. /\ phase = "live" /\ ~poison /\ live # <<>> /\ live' = Tail(live) /\ live \in Seq(Item) /\ live' \in Seq(Item)
      /\ Head(live) = live[1] /\ k \in Heights /\ k \in Nat
      /\ chain' = chain /\ flushed' = flushed /\ poison' = poison
  BY <1>0, LiveNext
<1>2. /\ live[1].kind = "Event" /\ r \in Row
      /\ WindowSkips \/ WindowHalts \/ WindowTakes(k, r)
  BY <1>0, LiveEventForms
<1>3. CASE ~healthy'
  BY <1>3 DEF LiveGets, OnePartial
<1>4. CASE healthy'
  <2>1. healthy /\ WindowTakes(k, r) /\ k > flushed
    <3>1. WindowTakes(k, r)
      BY <1>2, <1>4 DEF WindowSkips, WindowHalts, windowVars
    <3>2. healthy /\ ~(k <= flushed) /\ flushed \in Int
      BY <3>1, PositionFacts DEF WindowTakes, Base, TypeInv, WindowType
    <3> QED BY <1>1, <3>1, <3>2
  <2>2. WindowType /\ HeadCovers
    BY <1>1 DEF Base, TypeInv, LiveInv
  <2>3. /\ k \in DOMAIN pending' /\ DOMAIN pending' \subseteq DOMAIN pending \cup {k}
        /\ \A b \in DOMAIN pending : b < k => b \in DOMAIN pending' /\ pending'[b] = pending[b]
        /\ \A b \in DOMAIN pending' : b > k => pending'[b].rows = <<>>
        /\ pending'[k].rows = Append(Kept(k), r) /\ ~pending'[k].seeded
        /\ head' = k /\ WindowType'
    BY <1>1, <1>2, <2>1, <2>2, TakesEffect
  <2>4. /\ \A b \in Heights : b < k /\ Owed(b)' => Continues(live', b, Got(b)', Content(chain, b))
        /\ \A b \in DOMAIN pending' : b < k =>
              ~(~Absent(live', b) /\ ~Retracted(live', b) /\ ~pending'[b].seeded /\ pending'[b].rows # <<>>)
    <3>1. \A b \in DOMAIN pending : b < live[1].key => b \in DOMAIN pending' /\ pending'[b] = pending[b]
      BY <1>0, <2>3
    <3>2. \A b \in DOMAIN pending' : b < live[1].key => b \in DOMAIN pending
      BY <1>0, <1>1, <2>3
    <3> QED BY <1>0, <2>1, <3>1, <3>2, LiveStepGets
  <2>5. \A b : Retracted(live, b) <=> Retracted(live', b)
    BY <1>1, <1>2, AbsentTail
  <2>6. ASSUME Owed(k)' PROVE Continues(live', k, Got(k)', Content(chain, k))
    <3>1. ~Absent(live, k) /\ ~Retracted(live, k)
      <4>1. ~Absent(live, k)
        BY <1>0, <1>1, TailFacts DEF Absent
      <4> QED BY <2>5, <2>6, <4>1 DEF Owed
    <3>2. Continues(live, k, Got(k), Content(chain, k))
      BY <1>1, <2>1, <3>1 DEF LiveGets, Owed
    <3>3. Kept(k) = Got(k)
      <4>1. CASE k \in DOMAIN pending /\ ~pending[k].seeded /\ k < head
        <5>1. head \in Int
          BY <2>2, PositionFacts DEF WindowType
        <5>2. head # k
          BY <1>1, <4>1, <5>1
        <5>3. pending[k].rows = <<>>
          BY <1>1, <2>1, <3>1, <4>1, <5>2 DEF OnePartial
        <5> QED BY <3>1, <4>1, <5>3 DEF Kept, Got
      <4>2. CASE ~(k \in DOMAIN pending /\ ~pending[k].seeded /\ k < head)
        BY <3>1, <4>2 DEF Kept, Got
      <4> QED BY <4>1, <4>2
    <3>4. Got(k)' = Append(Got(k), r)
      BY <2>3, <3>3 DEF Got
    <3>5. Got(k) \in Seq(Row) /\ Content(chain, k) \in Seq(Row) /\ Head(live).key = k /\ Head(live).row = r
      BY <1>0, <1>1, GotType, GotRows
    <3>6. Continues(Tail(live), k, Append(Got(k), r), Content(chain, k))
      BY <1>1, <3>2, <3>5, ContinuesTailSame
    <3> QED BY <1>1, <3>4, <3>6
  <2>7. ASSUME NEW b \in Heights, b > k, Owed(b)' PROVE Continues(live', b, Got(b)', Content(chain, b))
    <3>1. Got(b)' = <<>>
      BY <2>3, <2>7 DEF Got
    <3>2. ~Retracted(Tail(live), b)
      BY <1>1, <2>7 DEF Owed
    <3>3. live[1].key < b
      BY <1>0, <1>1, <2>7, PositionFacts
    <3>4. Continues(Tail(live), b, <<>>, Content(chain, b))
      BY <1>1, <3>2, <3>3, FollowsFirst DEF LiveOK
    <3> QED BY <1>1, <3>1, <3>4
  <2>8. LiveGets'
    <3> SUFFICES ASSUME NEW b \in Heights, Owed(b)' PROVE Continues(live', b, Got(b)', Content(chain, b))
      BY <1>1 DEF LiveGets
    <3>1. b < k \/ b = k \/ b > k
      BY <1>1, PositionFacts
    <3> QED BY <2>4, <2>6, <2>7, <3>1
  <2>9. OnePartial'
    <3> SUFFICES ASSUME NEW b \in DOMAIN pending', ~Absent(live', b), ~Retracted(live', b), ~pending'[b].seeded,
                        pending'[b].rows # <<>>
                 PROVE  b = k
      BY <2>3 DEF OnePartial
    <3>1. b \in Heights /\ b \in Nat
      BY <2>3, PositionFacts DEF WindowType, Groups
    <3> QED BY <1>1, <2>3, <2>4, <3>1
  <2> QED BY <2>8, <2>9
<1> QED BY <1>3, <1>4

(* They are preserved by live_retract.                                     *)
LEMMA LiveRetractGets ==
  ASSUME Base, LiveGets, OnePartial, LiveOK, live_retract
  PROVE  LiveGets' /\ OnePartial'
<1>0. PICK k : k = live[1].key
  OBVIOUS
<1>1. /\ phase = "live" /\ ~poison /\ live # <<>> /\ live' = Tail(live) /\ live \in Seq(Item) /\ live' \in Seq(Item)
      /\ Head(live) = live[1] /\ k \in Heights /\ k \in Nat /\ maturing = {}
      /\ chain' = chain /\ flushed' = flushed /\ poison' = poison
  BY <1>0, LiveNext
<1>2. live[1].kind = "Retract" /\ k >= 1 /\ (WindowSkips \/ WindowHalts \/ WindowRewinds(k))
  BY <1>0, LiveRetractForms
<1>3. CASE ~healthy'
  BY <1>3 DEF LiveGets, OnePartial
<1>4. CASE healthy'
  <2>1. healthy /\ WindowRewinds(k)
    <3>1. WindowRewinds(k)
      BY <1>2, <1>4 DEF WindowSkips, WindowHalts, windowVars
    <3> QED BY <3>1 DEF WindowRewinds
  <2>2. WindowType /\ HeadCovers
    BY <1>1 DEF Base, TypeInv, LiveInv
  <2>3. /\ DOMAIN pending' \subseteq DOMAIN pending
        /\ \A b \in DOMAIN pending : b < k => b \in DOMAIN pending' /\ pending'[b] = pending[b]
        /\ \A b \in DOMAIN pending' : ~(b < k) => pending'[b].rows = <<>>
        /\ WindowType'
    BY <1>1, <1>2, <2>1, <2>2, RewindsEffect
  <2>4. /\ \A b \in Heights : b < k /\ Owed(b)' => Continues(live', b, Got(b)', Content(chain, b))
        /\ \A b \in DOMAIN pending' : b < k =>
              ~(~Absent(live', b) /\ ~Retracted(live', b) /\ ~pending'[b].seeded /\ pending'[b].rows # <<>>)
    <3>1. \A b \in DOMAIN pending : b < live[1].key => b \in DOMAIN pending' /\ pending'[b] = pending[b]
      BY <1>0, <2>3
    <3>2. \A b \in DOMAIN pending' : b < live[1].key => b \in DOMAIN pending
      BY <2>3
    <3> QED BY <1>0, <2>1, <3>1, <3>2, LiveStepGets
  <2>5. ASSUME NEW b \in Heights, ~(b < k), Owed(b)' PROVE Continues(live', b, Got(b)', Content(chain, b))
    <3>1. Got(b)' = <<>>
      BY <2>3, <2>5 DEF Got
    <3>2. ~Retracted(Tail(live), b)
      BY <1>1, <2>5 DEF Owed
    <3>3. live[1].key < b \/ (live[1].key = b /\ live[1].kind = "Retract")
      <4>1. b \in Nat
        BY PositionFacts
      <4>2. k < b \/ k = b
        BY <1>1, <2>5, <4>1
      <4> QED BY <1>0, <1>2, <4>2
    <3>4. Continues(Tail(live), b, <<>>, Content(chain, b))
      BY <1>1, <3>2, <3>3, FollowsFirst DEF LiveOK
    <3> QED BY <1>1, <3>1, <3>4
  <2>6. LiveGets'
    BY <1>1, <2>4, <2>5 DEF LiveGets
  <2>7. OnePartial'
    BY <2>3, <2>4 DEF OnePartial
  <2> QED BY <2>6, <2>7
<1> QED BY <1>3, <1>4

(* They are preserved by a flush.                                          *)
LEMMA FlushGets ==
  ASSUME Base, LiveGets, OnePartial, flush_matured
  PROVE  LiveGets' /\ OnePartial'
<1>1. CASE ~healthy'
  BY <1>1 DEF LiveGets, OnePartial
<1>2. CASE healthy'
  <2>1. /\ phase = "live" /\ phase' = phase /\ ~poison /\ healthy /\ UNCHANGED <<chain, live, last, poison, tip>> /\ Resume' = Resume
    BY FlushForms
  <2>2. PICK k \in Heights :
              /\ k > flushed /\ flushed' = k
              /\ \A b \in DOMAIN pending : b # k => b > k
              /\ head' = head
              /\ DOMAIN pending' = DOMAIN pending \ {k}
              /\ \A b \in DOMAIN pending' : pending'[b] = pending[b]
    BY <1>2, FlushForms
  <2>3. flushed \in Int /\ k \in Nat
    BY PositionFacts DEF Base, TypeInv, WindowType
  <2>4. LiveGets'
    <3> SUFFICES ASSUME NEW b \in Heights, Owed(b)' PROVE Continues(live, b, Got(b)', Content(chain, b))
      BY <2>1 DEF LiveGets
    <3>1. b > k /\ b \in Nat
      BY <2>1, <2>2, PositionFacts DEF Owed
    <3>2. Got(b)' = Got(b)
      BY <2>1, <2>2, <2>3, <3>1 DEF Got
    <3>3. Owed(b)
      BY <2>1, <2>2, <2>3, <3>1 DEF Owed
    <3> QED BY <2>1, <3>2, <3>3 DEF LiveGets
  <2>5. OnePartial'
    BY <2>1, <2>2 DEF OnePartial
  <2> QED BY <2>4, <2>5
<1> QED BY <1>1, <1>2

(* LiveGets and OnePartial are inductive, with the invariants before.      *)
LEMMA WindowGets ==
  /\ Init => LiveGets /\ OnePartial
  /\ Base /\ Base' /\ LiveOK /\ AboveTip /\ Backfilled /\ LiveGets /\ OnePartial /\ [Next]_vars => LiveGets' /\ OnePartial'
<1>1. Init => LiveGets /\ OnePartial
  <2> SUFFICES ASSUME Init PROVE LiveGets /\ OnePartial
    OBVIOUS
  <2>1. live = <<>> /\ phase = "idle" /\ pending = window!NoGroups
    BY DEF Init, SourceInit, window!Init
  <2>2. \A b : ~Owed(b)
    BY <2>1, NoLive DEF Owed
  <2> QED BY <2>1, <2>2, NoGroupsFacts DEF LiveGets, OnePartial
<1>2. ASSUME Base, Base', LiveOK, AboveTip, Backfilled, LiveGets, OnePartial, Next PROVE LiveGets' /\ OnePartial'
  <2>1. CASE Source
    BY <1>2, <2>1, SourceGets
  <2>2. CASE subscribe_live
    <3>1. live' = <<>> /\ phase' = "attached" /\ pending' = pending /\ phase = "idle"
      BY <2>2, DropsLive DEF subscribe_live, windowVars
    <3>2. pending = window!NoGroups
      BY <1>2, <3>1 DEF Base, Fresh
    <3> QED BY <3>1, <3>2, NothingGets
  <2>3. CASE Ends
    <3>1. live' = <<>> /\ phase' = "idle" /\ pending' = window!NoGroups
      BY <2>3, DropsLive, EndsForms DEF Closed, window!new
    <3> QED BY <3>1, NothingGets
  <2>4. CASE finish_backfill
    BY <1>2, <2>4, FinishGets
  <2>5. CASE live_event
    BY <1>2, <2>5, LiveEventGets
  <2>6. CASE live_retract
    BY <1>2, <2>6, LiveRetractGets
  <2>7. CASE flush_matured
    BY <1>2, <2>7, FlushGets
  <2>8. CASE read_tip \/ poll_replay \/ query_first_part \/ query_next
    <3>1. UNCHANGED <<chain, live, healthy, flushed>> /\ phase # "live" /\ phase' # "live" /\ (~poison' => ~poison) /\ flushed \in Int
      <4>1. UNCHANGED <<chain, live>>
        BY <2>8, StillSource DEF Still, Reads, Fills
      <4>2. UNCHANGED <<healthy, flushed>> /\ phase # "live" /\ phase' # "live"
        BY <2>8 DEF read_tip, poll_replay, query_first_part, query_next, windowVars
      <4>3. ~poison' => ~poison
        BY <1>2, <2>8, QueryForms DEF read_tip, poll_replay, streamVars
      <4>4. flushed \in Int
        BY <1>2, PositionFacts DEF Base, TypeInv, WindowType
      <4> QED BY <4>1, <4>2, <4>3, <4>4
    <3> QED BY <1>2, <3>1, FillGets
  <2>9. CASE open_segments
    <3>1. /\ UNCHANGED <<chain, live>> /\ phase = "tip" /\ phase' # "live" /\ healthy /\ ~poison /\ flushed = None
          /\ flushed' \in Positions
      BY <1>2, <2>9, OpenForms DEF Filling, Base, Fresh, TypeInv, WindowType
    <3>2. flushed' >= flushed
      BY <3>1, PositionFacts
    <3> QED BY <1>2, <3>1, <3>2, FillGets
  <2>10. CASE poll_backfill
    <3>1. /\ UNCHANGED <<chain, live, tip, last, poison>> /\ phase = "backfill" /\ phase' = "backfill" /\ flushed \in Int
          /\ final_cut' = final_cut
      BY <1>2, <2>10, NextFetched, PositionFacts DEF Base, TypeInv, WindowType
    <3>2. flushed' = flushed
      BY <1>2, <3>1 DEF Base, FillStore, Filling
    <3>3. healthy' => healthy
      BY <2>10, WindowSeedsRecords DEF poll_backfill, windowVars, WindowSkips,
           WindowHalts, WindowSeeds, Buffers
    <3> QED BY <1>2, <3>1, <3>2, <3>3, FillGets
  <2> QED BY <1>2, <2>1, <2>2, <2>3, <2>4, <2>5, <2>6, <2>7, <2>8, <2>9, <2>10, NextSteps
<1>3. ASSUME LiveGets, OnePartial, UNCHANGED vars PROVE LiveGets' /\ OnePartial'
  <2>1. UNCHANGED <<chain, live, healthy, pending, head, flushed, last, poison, phase>>
    BY <1>3 DEF vars, sourceVars, windowVars, streamVars
  <2>2. Resume' = Resume
    BY <2>1, ResumeSame
  <2> QED BY <1>3, <2>1, <2>2 DEF LiveGets, OnePartial, Owed, Got
<1> QED BY <1>1, <1>2, <1>3

-----------------------------------------------------------------------------
(***************************************************************************)
(* What is stored is not to be taken back.                                 *)
(***************************************************************************)

(* What this subscription has stored is canonical unless the live source   *)
(* still holds a correction of it.                                         *)
StoredClean ==
  phase = "live" /\ healthy /\ ~poison =>
    \A g \in Heights : Resume <= g /\ g <= flushed /\ ~Dirty(g) => table[g] = Content(chain, g)

(* At the end of the backfill the settled writer's rows are stored.        *)
LEMMA FinishWrites ==
  ASSUME Base, finish_backfill, settling', NEW g \in Heights
  PROVE  settling /\ table'[g] = SettledGot(g)
<1>1. /\ Filling
      /\ \/ (~settling \/ current = None) /\ UNCHANGED <<settling, current, buffer, watermark, table, progress>>
         \/ /\ settling /\ current # None
            /\ current \in Heights /\ current > progress
            /\ Wrote(current, buffer)
  BY FinishForms
<1>2. g # None /\ g \in Keys
  BY KeysHeights
<1>3. CASE (~settling \/ current = None) /\ UNCHANGED <<settling, current, buffer, watermark, table, progress>>
  BY <1>2, <1>3 DEF SettledGot
<1>4. CASE settling /\ current # None /\ current \in Heights /\ current > progress /\ Wrote(current, buffer)
  <2>1. StoreType /\ buffer \in Seq(Row)
    BY DEF Base, TypeInv, BlockType
  <2>2. table'[current] = table[current] \o buffer /\ \A h \in Keys : h # current => table'[h] = table[h]
    BY <1>4, <2>1, WroteStore
  <2>3. table[current] = <<>>
    BY <1>4, KeysHeights DEF Base, StoreInv
  <2>4. table[current] \o buffer = buffer
    BY <2>1, <2>3
  <2> QED BY <1>2, <1>4, <2>2, <2>4 DEF SettledGot
<1> QED BY <1>1, <1>3, <1>4

(* StoredClean holds when the live tail starts.                            *)
LEMMA FinishClean ==
  ASSUME Base, Backfilled, finish_backfill
  PROVE  StoredClean'
<1>1. /\ phase = "backfill" /\ Filling /\ parts = <<>> /\ fetched = <<>> /\ (next_from > tip \/ poison)
      /\ UNCHANGED <<chain, live, tip, last, poison, deep>>
      /\ Resume' = Resume /\ flushed' = flushed /\ final_cut' = final_cut
      /\ ~settling' => healthy' = FALSE
      /\ flushed = IF last > final_cut THEN last ELSE final_cut
  BY FinishForms
<1> SUFFICES ASSUME healthy', ~poison, NEW g \in Heights, Resume <= g, g <= flushed, ~Dirty(g)
             PROVE  table'[g] = Content(chain, g)
  BY <1>1 DEF StoredClean, Dirty
<1>2. settling /\ table'[g] = SettledGot(g)
  BY <1>1, FinishWrites
<1>3. /\ tip \in Positions /\ tip \in Int /\ last \in Int /\ last \in Positions /\ final_cut \in Int /\ next_from \in Nat
      /\ g \in Nat /\ final_cut <= tip /\ Resume > last /\ Resume \in Nat
  BY CutFacts, ResumeFacts, PositionFacts DEF Base, TypeInv, StreamType
<1>4. g <= final_cut /\ g < Ahead
  BY <1>1, <1>3 DEF Ahead, AheadOf
<1>5. Continues(fetched, g, SettledGot(g), Content(chain, g))
  BY <1>1, <1>2, <1>4 DEF Backfilled
<1>6. Absent(fetched, g) /\ fetched \in Seq(Item) /\ SettledGot(g) \in Seq(Row) /\ Content(chain, g) \in Seq(Row)
  BY <1>1, NoneFetched, EmptyIsSeq, GotRows
<1> QED BY <1>2, <1>5, <1>6, ContinuesDone

(* A live item that leaves the window healthy is above the watermark.      *)
LEMMA LiveStepKey ==
  ASSUME Base, live_event \/ live_retract, healthy'
  PROVE  healthy /\ live[1].key > flushed /\ flushed \in Int
<1>1. live[1].key \in Nat /\ flushed \in Int
  BY LiveNext, PositionFacts DEF Base, TypeInv, WindowType
<1>2. healthy /\ ~(live[1].key <= flushed)
  <2>1. CASE live_event
    BY <2>1, LiveEventForms DEF WindowSkips, WindowHalts, WindowTakes, windowVars
  <2>2. CASE live_retract
    BY <2>2, LiveRetractForms DEF WindowSkips, WindowHalts, WindowRewinds, windowVars
  <2> QED BY <2>1, <2>2
<1> QED BY <1>1, <1>2

(* StoredClean is preserved by a live item.                                *)
LEMMA LiveClean ==
  ASSUME Base, StoredClean, live_event \/ live_retract
  PROVE  StoredClean'
<1>1. /\ phase = "live" /\ ~poison /\ live # <<>> /\ live' = Tail(live) /\ live \in Seq(Item) /\ live[1].key \in Nat
      /\ UNCHANGED <<chain, deep, tip, last, table, flushed, poison>> /\ Resume' = Resume /\ final_cut' = final_cut
  BY LiveNext
<1> SUFFICES ASSUME healthy', NEW g \in Heights, Resume <= g, g <= flushed, ~Dirty(g)'
             PROVE  table[g] = Content(chain, g)
  BY <1>1 DEF StoredClean
<1>2. healthy /\ live[1].key > flushed /\ flushed \in Int
  BY LiveStepKey
<1>3. live[1].key # g
  BY <1>1, <1>2, PositionFacts
<1>4. Absent(live', g) <=> Absent(live, g)
  BY <1>1, <1>3, AbsentTail
<1>5. ~Dirty(g)
  BY <1>1, <1>4 DEF Dirty
<1> QED BY <1>1, <1>2, <1>5 DEF StoredClean

(* A group the window flushes, and the empty heights below it.             *)
LEMMA FlushedClean ==
  ASSUME Base, LiveGets, flush_matured, NEW k \in Heights,
         k \in DOMAIN pending, k > flushed, \A b \in DOMAIN pending : b # k => b > k
  PROVE  /\ \A g \in Heights : Resume <= g /\ flushed < g /\ g < k /\ Absent(live, g) => Content(chain, g) = <<>>
         /\ Absent(live, k) => pending[k].rows = Content(chain, k)
<1>1. /\ phase = "live" /\ ~poison /\ healthy
  BY FlushForms
<1>2. live \in Seq(Item)
  BY DEF Base, TypeInv, ChainTypeOK
<1>3. ASSUME NEW g \in Heights, flushed < g, Absent(live, g), g >= Resume \/ g \in DOMAIN pending
      PROVE  Got(g) = Content(chain, g)
  <2>1. ~Retracted(live, g)
    BY <1>3 DEF Absent, Retracted
  <2>2. flushed \in Int /\ g \in Nat
    BY PositionFacts DEF Base, TypeInv, WindowType
  <2>3. Continues(live, g, Got(g), Content(chain, g))
    BY <1>1, <1>3, <2>1, <2>2 DEF LiveGets, Owed
  <2>4. Got(g) \in Seq(Row) /\ Content(chain, g) \in Seq(Row)
    BY GotType, GotRows
  <2> QED BY <1>2, <1>3, <2>3, <2>4, ContinuesDone
<1>4. ASSUME NEW g \in Heights, Resume <= g, flushed < g, g < k, Absent(live, g) PROVE Content(chain, g) = <<>>
  <2>1. Got(g) = Content(chain, g)
    <3>1. g >= Resume
      BY <1>4, PositionFacts, ResumeFacts DEF Base, TypeInv, StreamType
    <3> QED BY <1>3, <1>4, <3>1
  <2>2. g \notin DOMAIN pending
    BY <1>4, PositionFacts
  <2> QED BY <2>1, <2>2 DEF Got
<1>5. ASSUME Absent(live, k) PROVE pending[k].rows = Content(chain, k)
  <2>1. Got(k) = Content(chain, k)
    <3>1. flushed < k
      BY PositionFacts DEF Base, TypeInv, WindowType
    <3> QED BY <1>3, <1>5, <3>1
  <2> QED BY <1>5, <2>1 DEF Got
<1> QED BY <1>4, <1>5

(* StoredClean is preserved by a flush.                                    *)
LEMMA FlushClean ==
  ASSUME Base, LiveGets, StoredClean, flush_matured
  PROVE  StoredClean'
<1>1. /\ phase = "live" /\ ~poison /\ healthy /\ UNCHANGED <<chain, deep, live, tip, last, poison>>
      /\ Resume' = Resume /\ final_cut' = final_cut
  BY FlushForms
<1>2. CASE ~healthy'
  BY <1>2 DEF StoredClean
<1>3. CASE healthy'
  <2>1. PICK k \in Heights :
              /\ k \in DOMAIN pending /\ pending[k].rows \in Seq(Row)
              /\ k > flushed /\ k > progress /\ k + Depth <= peak
              /\ \A b \in DOMAIN pending : b # k => b > k
              /\ Wrote(k, pending[k].rows) /\ flushed' = k
    BY <1>3, FlushForms
  <2>2. flushed \in Int /\ k \in Nat /\ progress \in Int /\ final_cut \in Int /\ progress <= flushed /\ final_cut <= flushed
        /\ Resume \in Nat
    BY <1>1, PositionFacts, CutFacts, ResumeFacts DEF Base, TypeInv, WindowType,
         StoreType, StreamType, LiveInv
  <2>3. table'[k] = pending[k].rows /\ \A h \in Keys : h # k => table'[h] = table[h]
    <3>1. StoreType /\ StoreInv /\ peak' = peak /\ last \in Positions /\ peak \in Nat
      BY FlushForms, PositionFacts DEF Base, TypeInv, StreamType, ChainTypeOK
    <3> QED BY <1>1, <2>1, <3>1, StoreGrows
  <2> SUFFICES ASSUME NEW g \in Heights, Resume <= g, g <= k, ~Dirty(g)
               PROVE  table'[g] = Content(chain, g)
    BY <1>1, <2>1 DEF StoredClean, Dirty
  <2>4. g \in Nat /\ g \in Keys
    BY KeysHeights
  <2>5. CASE g <= flushed
    <3>1. table'[g] = table[g]
      BY <2>1, <2>2, <2>3, <2>4, <2>5
    <3> QED BY <1>1, <2>5, <3>1 DEF StoredClean
  <2>6. CASE flushed < g
    <3>1. Absent(live, g)
      BY <2>2, <2>4, <2>6 DEF Dirty
    <3>2. CASE g < k
      <4>1. Content(chain, g) = <<>>
        BY <2>1, <2>6, <3>1, <3>2, FlushedClean
      <4>2. table[g] = <<>> /\ table'[g] = table[g]
        BY <2>2, <2>3, <2>4, <2>6, <3>2 DEF Base, StoreInv
      <4> QED BY <4>1, <4>2
    <3>3. CASE g = k
      BY <2>1, <2>3, <3>1, <3>3, FlushedClean
    <3> QED BY <2>2, <2>4, <3>2, <3>3
  <2> QED BY <2>2, <2>4, <2>5, <2>6
<1> QED BY <1>2, <1>3

(* StoredClean is inductive, with the invariants before.                   *)
LEMMA StaysClean ==
  ASSUME FinalDepth <= Depth
  PROVE  /\ Init => StoredClean
         /\ Base /\ Backfilled /\ LiveGets /\ StoredClean /\ [Next]_vars => StoredClean'
<1>1. Init => StoredClean
  BY DEF Init, StoredClean
<1>2. ASSUME Base, Backfilled, LiveGets, StoredClean, Next PROVE StoredClean'
  <2>1. CASE phase' # "live"
    BY <2>1 DEF StoredClean
  <2>2. CASE Source
    <3>1. /\ UNCHANGED <<table, healthy, flushed, poison, phase>> /\ final_cut' = final_cut /\ Resume' = Resume
      BY <1>2, <2>2, SourceShifts
    <3>2. phase = "live" => attached
      BY <1>2 DEF Base, SourceInv
    <3>3. ASSUME phase = "live", NEW g \in Heights, ~Dirty(g)' PROVE ~Dirty(g) /\ Content(chain', g) = Content(chain, g)
      BY <1>2, <2>2, <3>2, <3>3, CleanStays
    <3> QED BY <1>2, <3>1, <3>3 DEF StoredClean
  <2>3. CASE finish_backfill
    BY <1>2, <2>3, FinishClean
  <2>4. CASE live_event \/ live_retract
    BY <1>2, <2>4, LiveClean
  <2>5. CASE flush_matured
    BY <1>2, <2>5, FlushClean
  <2>6. CASE subscribe_live \/ Ends \/ Reads \/ poll_backfill \/ query_next
    <3>1. phase' # "live"
      BY <2>6, EndsForms DEF subscribe_live, Closed, Reads, read_tip, open_segments,
           query_first_part, poll_replay,
         poll_backfill, query_next
    <3> QED BY <2>1, <3>1
  <2> QED BY <1>2, <2>2, <2>3, <2>4, <2>5, <2>6, NextSteps DEF Reads
<1>3. ASSUME StoredClean, UNCHANGED vars PROVE StoredClean'
  <2>1. UNCHANGED <<chain, deep, live, table, healthy, flushed, tip, last, poison, phase>>
    BY <1>3 DEF vars, sourceVars, storeVars, windowVars, streamVars
  <2>2. Resume' = Resume /\ final_cut' = final_cut
    BY <2>1, ResumeSame, CutSame
  <2> QED BY <1>3, <2>1, <2>2 DEF StoredClean, Dirty
<1> QED BY <1>1, <1>2, <1>3

-----------------------------------------------------------------------------
(***************************************************************************)
(* The watermark is buried.                                                *)
(***************************************************************************)

(* Nothing above the depth is taken for final.                             *)
Buried == flushed # None => flushed + Depth <= peak

(* Buried is inductive.                                                    *)
LEMMA WatermarkBuried ==
  /\ Init => Buried
  /\ Base /\ Buried /\ [Next]_vars => Buried'
<1>1. Init => Buried
  BY DEF Init, window!Init, Buried, None, window!None
<1>2. ASSUME Base, Buried, Next PROVE Buried'
  <2>0. flushed \in Int /\ peak \in Nat /\ Depth \in Nat /\ peak' \in Nat /\ tip \in Positions /\ tip \in Int /\ tip <= peak
        /\ progress \in Int /\ progress \in Positions
    <3>1. Base'
      BY <1>2, NextBase
    <3> QED BY <1>2, <3>1, PositionFacts, PersistedAssumption DEF Base, TypeInv,
           WindowType, ChainTypeOK, TipInv, StreamType, StoreType
  <2>1. CASE Source
    <3>1. flushed' = flushed /\ peak' >= peak
      BY <1>2, <2>1, SourceShifts
    <3> QED BY <1>2, <2>0, <3>1 DEF Buried
  <2>2. CASE open_segments
    <3>1. peak' = peak /\ flushed' = IF progress > final_cut THEN progress ELSE final_cut
      BY <1>2, <2>2, OpenForms
    <3>2. final_cut \in Int /\ (final_cut # None => final_cut + Depth = tip)
      BY <2>0, CutFacts, PositionFacts
    <3>3. progress # None => progress + Depth <= peak
      BY <1>2 DEF Base, StoreInv
    <3> QED BY <2>0, <3>1, <3>2, <3>3 DEF Buried
  <2>3. CASE flush_matured
    BY <1>2, <2>0, <2>3, FlushForms DEF Buried
  <2>4. CASE Ends
    <3>1. flushed' = None
      BY <2>4, EndsForms DEF Closed, window!new, None, window!None
    <3> QED BY <3>1 DEF Buried
  <2>5. CASE poll_backfill
    <3>1. UNCHANGED <<tip, last, phase, peak>> /\ final_cut' = final_cut /\ Filling
      BY <1>2, <2>5, NextFetched
    <3>2. flushed' = flushed
      BY <1>2, <3>1, NextBase DEF Base, FillStore, Filling
    <3> QED BY <1>2, <3>1, <3>2 DEF Buried
  <2>6. CASE finish_backfill \/ live_event \/ live_retract
    <3>1. flushed' = flushed /\ peak' = peak
      BY <1>2, <2>6, FinishForms, LiveNext
    <3> QED BY <1>2, <3>1 DEF Buried
  <2>7. CASE subscribe_live \/ read_tip \/ query_first_part \/ poll_replay \/ query_next
    <3>1. flushed' = flushed /\ peak' = peak
      BY <2>7, DropsLive, StillSource DEF Still, Reads, Fills, subscribe_live,
           read_tip, query_first_part, poll_replay, query_next, windowVars
    <3> QED BY <1>2, <3>1 DEF Buried
  <2> QED BY <1>2, <2>1, <2>2, <2>3, <2>4, <2>5, <2>6, <2>7, NextSteps
<1>3. ASSUME Buried, UNCHANGED vars PROVE Buried'
  BY <1>3 DEF vars, sourceVars, windowVars, Buried
<1> QED BY <1>1, <1>2, <1>3

-----------------------------------------------------------------------------
(***************************************************************************)
(* No retraction in the queue reaches below the watermark unless a         *)
(* reorganisation went too deep.                                           *)
(***************************************************************************)

(* Without a deep reorg, nothing the live source holds is below what was   *)
(* final when it was opened, or when the Store was read; and what it holds *)
(* after an event is not buried under it.                                  *)
Late(j) ==
  /\ live[j].key > opened - FinalDepth
  /\ live[j].key > last
  /\ phase \in {"attached", "tip"} => live[j].key > progress
  /\ phase = "live" /\ healthy /\ ~poison /\ live[j].key > final_cut =>
       live[j].key > flushed /\ head < live[j].key + Depth

(* All of the live source is late, without a deep reorg.                   *)
Queued ==
  ~deep => /\ \A j \in DOMAIN live : Late(j)
           /\ \A i, j \in DOMAIN live : i < j /\ live[i].kind = "Event" => live[i].key < live[j].key + Depth

(* The numbers involved.                                                   *)
LEMMA IntFacts ==
  ASSUME Base
  PROVE  /\ opened \in Int /\ tip \in Int /\ last \in Int /\ progress \in Int /\ head \in Int
         /\ flushed \in Int /\ current \in Int /\ peak \in Nat
         /\ opened \in Positions /\ head \in Positions /\ current \in Positions
         /\ last \in Positions /\ progress \in Positions /\ flushed \in Positions /\ tip \in Positions
         /\ final_cut \in Int /\ final_cut \in Positions /\ Depth \in Nat /\ Depth >= 1 /\ FinalDepth \in Nat
         /\ live \in Seq(Item) /\ DOMAIN live = 1..Len(live) /\ Len(live) \in Nat
         /\ \A j \in DOMAIN live : live[j].key \in Nat /\ live[j].key <= peak /\ live[j] \in Item
<1>1. /\ opened \in Positions /\ tip \in Positions /\ last \in Positions /\ progress \in Positions
      /\ head \in Positions /\ flushed \in Positions /\ current \in Positions
      /\ peak \in Heights /\ live \in Seq(Item)
  BY DEF Base, TypeInv, WindowType, ChainTypeOK, TipInv, StreamType, StoreType, BlockType
<1>2. \A j \in DOMAIN live : live[j] \in Item /\ live[j].key <= peak
  BY <1>1 DEF Base, SourceInv
<1>3. DOMAIN live = 1..Len(live) /\ Len(live) \in Nat
  BY <1>1
<1>4. final_cut \in Positions
  BY <1>1, CutFacts
<1>5. \A j \in DOMAIN live : live[j].key \in Nat
  BY <1>2, ItemKeys
<1>6. Depth \in Nat /\ Depth >= 1 /\ FinalDepth \in Nat
  BY PersistedAssumption, SourceAssumption
<1>7. \A p \in Positions : p \in Int
  BY PositionFacts
<1>8. peak \in Nat
  BY <1>1, PositionFacts
<1> QED BY <1>1, <1>2, <1>3, <1>4, <1>5, <1>6, <1>7, <1>8

(* Queued is preserved by a step of the source: it replaces nothing final. *)
LEMMA SourceQueued ==
  ASSUME FinalDepth <= Depth, Base, Buried, Queued, Source
  PROVE  Queued'
<1>1. PICK from, N : Shifts(from, N)
  BY SourceShifts
<1>2. /\ UNCHANGED <<progress, healthy, head, flushed, opened, tip, last, poison, phase>> /\ final_cut' = final_cut
      /\ Base' /\ peak' >= peak
  BY SourceShifts
<1>3. SUFFICES ASSUME ~deep'
               PROVE  /\ \A j \in DOMAIN live' : Late(j)'
                      /\ \A i, j \in DOMAIN live' : i < j /\ live'[i].kind = "Event" => live'[i].key < live'[j].key + Depth
  BY DEF Queued
<1>4. ~deep /\ from > peak - FinalDepth /\ from \in Nat /\ N \in Seq(Item)
  BY <1>1, <1>3 DEF Shifts
<1>5. CASE ~attached
  <2>1. live' = <<>>
    BY <1>1, <1>5 DEF Shifts, Base, SourceInv
  <2>2. DOMAIN live' = {}
    BY <2>1, NoLive
  <2> QED BY <2>2
<1>6. CASE attached
  <2>1. live' = live \o N
    BY <1>1, <1>6 DEF Shifts
  <2>2. /\ live \in Seq(Item) /\ Len(live) \in Nat /\ Len(N) \in Nat /\ DOMAIN live' = 1..(Len(live) + Len(N))
        /\ DOMAIN live = 1..Len(live) /\ DOMAIN N = 1..Len(N)
        /\ \A j \in 1..Len(live) : live'[j] = live[j]
        /\ \A j \in 1..(Len(live) + Len(N)) : j > Len(live) => j - Len(live) \in 1..Len(N) /\ live'[j] = N[j - Len(live)]
    BY SMTT(30), <1>4, <2>1, IntFacts, Concat
  <2>3. ASSUME NEW j \in DOMAIN live' PROVE
          /\ j \in Nat /\ live'[j].key \in Nat
          /\ j <= Len(live) => j \in DOMAIN live /\ live'[j] = live[j]
          /\ j > Len(live) => live'[j].key > peak - FinalDepth
    <3>1. j \in Nat /\ live'[j].key \in Nat
      BY SMTT(30), <1>2, <2>2, IntFacts, ItemKeys DEF Base, TypeInv, ChainTypeOK
    <3>2. j <= Len(live) => j \in DOMAIN live /\ live'[j] = live[j]
      BY <2>2
    <3>3. ASSUME j > Len(live) PROVE live'[j].key > peak - FinalDepth
      <4>1. j - Len(live) \in DOMAIN N /\ live'[j] = N[j - Len(live)]
        BY <2>2, <3>3
      <4>2. live'[j].key >= from
        BY <1>1, <4>1 DEF Shifts
      <4>3. peak \in Nat /\ FinalDepth \in Nat
        BY IntFacts
      <4> QED BY <1>4, <3>1, <4>2, <4>3
    <3> QED BY <3>1, <3>2, <3>3
  <2>4. ASSUME NEW j \in DOMAIN live' PROVE Late(j)'
    <3>1. CASE j <= Len(live)
      <4>1. Late(j) /\ live'[j] = live[j]
        BY <1>4, <2>3, <2>4, <3>1 DEF Queued
      <4> QED BY <1>2, <4>1 DEF Late
    <3>2. CASE j > Len(live)
      <4>1. live'[j].key > peak - FinalDepth /\ live'[j].key \in Nat
        BY <2>3, <2>4, <3>2
      <4>2. opened <= peak /\ last <= progress /\ (progress # None => progress + Depth <= peak)
            /\ (flushed # None => flushed + Depth <= peak) /\ (phase = "live" => head <= peak)
        BY DEF Base, TipInv, StoreInv, Buried, LiveInv
      <4>3. /\ live'[j].key > opened - FinalDepth /\ live'[j].key > progress /\ live'[j].key > last /\ live'[j].key > flushed
            /\ phase = "live" => head < live'[j].key + Depth
        <5>1. /\ opened \in Int /\ last \in Int /\ progress \in Int /\ head \in Int /\ flushed \in Int /\ peak \in Nat
              /\ Depth \in Nat /\ FinalDepth \in Nat /\ FinalDepth <= Depth /\ None = -1
          BY IntFacts DEF None
        <5> QED BY <4>1, <4>2, <5>1
      <4> QED BY <1>2, <4>3 DEF Late
    <3> QED BY <2>2, <2>3, <2>4, <3>1, <3>2
  <2>5. ASSUME NEW i \in DOMAIN live', NEW j \in DOMAIN live', i < j, live'[i].kind = "Event"
        PROVE  live'[i].key < live'[j].key + Depth
    <3>1. CASE j <= Len(live)
      <4>1. i <= Len(live)
        BY <2>2, <2>3, <2>5, <3>1
      <4> QED BY <1>4, <2>3, <2>5, <3>1, <4>1 DEF Queued
    <3>2. CASE j > Len(live) /\ i <= Len(live)
      <4>1. live'[i] = live[i] /\ i \in DOMAIN live /\ live'[j].key > peak - FinalDepth /\ live'[j].key \in Nat
        BY <2>3, <2>5, <3>2
      <4>2. live[i].key <= peak /\ live[i].key \in Nat
        BY <4>1, IntFacts
      <4>3. Depth \in Nat /\ FinalDepth \in Nat /\ FinalDepth <= Depth /\ peak \in Nat
        BY IntFacts
      <4> QED BY <4>1, <4>2, <4>3
    <3>3. CASE i > Len(live)
      <4>1. i - Len(live) \in DOMAIN N /\ live'[i] = N[i - Len(live)]
        BY <2>2, <2>5, <3>3
      <4>2. j > Len(live)
        BY <2>2, <2>3, <2>5, <3>3
      <4>3. j - Len(live) \in DOMAIN N /\ live'[j] = N[j - Len(live)]
        BY <2>2, <2>5, <4>2
      <4>4. i - Len(live) < j - Len(live)
        BY <2>2, <2>3, <2>5
      <4>5. live'[i].key <= live'[j].key
        BY <1>1, <2>5, <4>1, <4>3, <4>4 DEF Shifts
      <4>6. live'[i].key \in Nat /\ live'[j].key \in Nat
        BY <2>3, <2>5
      <4> QED BY SMTT(30), <4>5, <4>6, IntFacts
    <3> QED BY <2>2, <2>3, <2>5, <3>1, <3>2, <3>3
  <2> QED BY <2>4, <2>5
<1> QED BY <1>5, <1>6

(* Queued is preserved by a live item.                                     *)
LEMMA LiveQueued ==
  ASSUME Base, Queued, live_event \/ live_retract
  PROVE  Queued'
<1>1. /\ phase = "live" /\ phase' = "live" /\ ~poison /\ live' = Tail(live)
      /\ UNCHANGED <<deep, tip, last, opened, progress, flushed, poison>> /\ final_cut' = final_cut
      /\ 1 \in DOMAIN live
      /\ \A j \in DOMAIN live' : j + 1 \in DOMAIN live /\ live'[j] = live[j + 1]
      /\ DOMAIN live' = 1..(Len(live) - 1) /\ Len(live) \in Nat
  BY LiveNext
<1> SUFFICES ASSUME ~deep
             PROVE  /\ \A j \in DOMAIN live' : Late(j)'
                    /\ \A i, j \in DOMAIN live' : i < j /\ live'[i].kind = "Event" => live'[i].key < live'[j].key + Depth
  BY <1>1 DEF Queued
<1>2. ASSUME NEW i \in DOMAIN live', NEW j \in DOMAIN live', i < j, live'[i].kind = "Event"
      PROVE  live'[i].key < live'[j].key + Depth
  <2>1. i + 1 < j + 1 /\ i + 1 \in DOMAIN live /\ j + 1 \in DOMAIN live
    BY <1>1, <1>2
  <2> QED BY <1>1, <1>2, <2>1 DEF Queued
<1>3. ASSUME NEW j \in DOMAIN live' PROVE Late(j)'
  <2>1. j + 1 \in DOMAIN live /\ live'[j] = live[j + 1] /\ j + 1 > 1 /\ live'[j].key \in Nat
    BY SMTT(30), <1>1, <1>3, IntFacts
  <2>2. Late(j + 1)
    BY <2>1 DEF Queued
  <2>3. ASSUME healthy', live'[j].key > final_cut PROVE live'[j].key > flushed /\ head' < live'[j].key + Depth
    <3>1. healthy
      BY <2>3, LiveStepKey
    <3>2. live'[j].key > flushed /\ head < live'[j].key + Depth
      BY <1>1, <2>1, <2>2, <2>3, <3>1 DEF Late
    <3>3. WindowType /\ HeadCovers /\ maturing = {}
      BY <1>1, LiveNext DEF Base, TypeInv, LiveInv
    <3>4. CASE live_event
      <4>1. WindowTakes(live[1].key, live[1].row) /\ live[1].row \in Row /\ live[1].key \in Heights /\ live[1].kind = "Event"
        BY <2>3, <3>4, LiveNext, LiveEventForms DEF WindowSkips, WindowHalts, windowVars
      <4>2. head' = live[1].key
        BY <3>3, <4>1, TakesEffect
      <4>3. live[1].key < live[j + 1].key + Depth
        BY <1>1, <2>1, <4>1 DEF Queued
      <4> QED BY <2>1, <3>2, <4>2, <4>3
    <3>5. CASE live_retract
      <4>1. WindowRewinds(live[1].key) /\ live[1].key \in Heights /\ live[1].key >= 1 /\ live[1].key \in Nat
        BY <2>3, <3>5, LiveNext, LiveRetractForms DEF WindowSkips, WindowHalts, windowVars
      <4>2. head' = (IF head < live[1].key - 1 THEN head ELSE live[1].key - 1)
        BY <3>3, <4>1, RewindsEffect
      <4>3. head' <= head /\ head' \in Int
        BY SMTT(30), <4>1, <4>2, IntFacts
      <4> QED BY SMTT(30), <2>1, <3>2, <4>3, IntFacts
    <3> QED BY <3>4, <3>5
  <2> QED BY <1>1, <2>1, <2>2, <2>3 DEF Late
<1> QED BY <1>2, <1>3

-----------------------------------------------------------------------------
(***************************************************************************)
(* Queued is preserved, action by action.                                  *)
(***************************************************************************)

(* Queued is preserved by finish_backfill.                                 *)
LEMMA FinishQueued ==
  ASSUME Base, Queued, finish_backfill
  PROVE  Queued'
<1>1. /\ phase' = "live" /\ UNCHANGED <<deep, live, tip, last, opened, poison, head, flushed>> /\ final_cut' = final_cut
      /\ Filling /\ flushed = IF last > final_cut THEN last ELSE final_cut
  BY FinishForms
<1> SUFFICES ASSUME ~deep, NEW j \in DOMAIN live PROVE Late(j)'
  BY <1>1 DEF Queued
<1>2. Late(j) /\ live[j].key \in Nat
  BY IntFacts DEF Queued
<1>3. live[j].key > last /\ live[j].key > opened - FinalDepth
  BY <1>2 DEF Late
<1>4. ASSUME live[j].key > final_cut PROVE live[j].key > flushed /\ head < live[j].key + Depth
  <2>1. live[j].key > flushed
    BY <1>1, <1>3, <1>4
  <2>2. head <= tip /\ tip < live[j].key + Depth
    BY <1>1, <1>2, <1>4, IntFacts, CutFacts DEF Base, FillWindow
  <2>3. head \in Int /\ tip \in Int /\ Depth \in Nat
    BY IntFacts
  <2> QED BY <1>2, <2>1, <2>2, <2>3
<1> QED BY <1>1, <1>3, <1>4 DEF Late

(* Queued is preserved by a flush.                                         *)
LEMMA FlushQueued ==
  ASSUME Base, Queued, flush_matured
  PROVE  Queued'
<1>1. /\ phase = "live" /\ phase' = "live" /\ UNCHANGED <<deep, live, tip, last, opened, poison>> /\ final_cut' = final_cut
      /\ healthy
  BY FlushForms
<1>2. PICK k \in Heights :
        /\ head' = head /\ head >= k + Depth
        /\ \/ flushed' = k
           \/ healthy' = FALSE
  BY FlushForms
<1> SUFFICES ASSUME ~deep, NEW j \in DOMAIN live PROVE Late(j)'
  BY <1>1 DEF Queued
<1>3. Late(j) /\ live[j].key \in Nat
  BY IntFacts DEF Queued
<1>4. ASSUME healthy', ~poison, live[j].key > final_cut PROVE live[j].key > flushed' /\ head' < live[j].key + Depth
  <2>1. head < live[j].key + Depth /\ flushed' = k
    BY <1>1, <1>2, <1>3, <1>4 DEF Late
  <2>2. head \in Int /\ k \in Nat /\ Depth \in Nat
    BY IntFacts, PositionFacts
  <2> QED BY <1>2, <1>3, <2>1, <2>2
<1> QED BY <1>1, <1>3, <1>4 DEF Late

(* Queued is preserved by the steps of subscribe and the backfill.         *)
LEMMA StillQueued ==
  ASSUME Base, Queued, Reads \/ poll_backfill \/ query_next
  PROVE  Queued'
<1>1. UNCHANGED <<deep, live>>
  BY StillSource DEF Still, Fills
<1>2. UNCHANGED opened /\ phase' # "live" /\ phase' # "attached"
  BY DEF Reads, read_tip, open_segments, query_first_part, poll_replay, poll_backfill,
       query_next, streamVars
<1> SUFFICES ASSUME ~deep, NEW j \in DOMAIN live PROVE Late(j)'
  BY <1>1 DEF Queued
<1>3. Late(j)
  BY DEF Queued
<1>4. live[j].key > last'
  <2>1. CASE open_segments
    BY <1>3, <2>1 DEF open_segments, Late
  <2>2. CASE ~open_segments
    <3>1. last' = last
      BY <2>2 DEF Reads, read_tip, query_first_part, poll_replay, poll_backfill,
           query_next, streamVars
    <3> QED BY <1>3, <3>1 DEF Late
  <2> QED BY <2>1, <2>2
<1>5. phase' = "tip" => live[j].key > progress'
  <2> SUFFICES ASSUME phase' = "tip" PROVE live[j].key > progress'
    OBVIOUS
  <2>1. phase = "attached" /\ progress' = progress
    BY DEF Reads, read_tip, open_segments, query_first_part, poll_replay,
         poll_backfill, query_next, storeVars
  <2> QED BY <1>3, <2>1 DEF Late
<1>6. live[j].key > opened - FinalDepth
  BY <1>3 DEF Late
<1> QED BY <1>1, <1>2, <1>4, <1>5, <1>6 DEF Late

(* Queued is inductive.                                                    *)
LEMMA QueueHolds ==
  ASSUME FinalDepth <= Depth
  PROVE  /\ Init => Queued
         /\ Base /\ Buried /\ Queued /\ [Next]_vars => Queued'
<1>1. Init => Queued
  BY NoLive DEF Init, SourceInit, Queued
<1>2. ASSUME Base, Buried, Queued, Next PROVE Queued'
  <2>1. CASE Source
    BY <1>2, <2>1, SourceQueued
  <2>2. CASE subscribe_live \/ Ends
    BY <2>2, DropsLive, NoLive DEF Queued
  <2>3. CASE live_event \/ live_retract
    BY <1>2, <2>3, LiveQueued
  <2>4. CASE finish_backfill
    BY <1>2, <2>4, FinishQueued
  <2>5. CASE flush_matured
    BY <1>2, <2>5, FlushQueued
  <2>6. CASE Reads \/ poll_backfill \/ query_next
    BY <1>2, <2>6, StillQueued
  <2> QED BY <1>2, <2>1, <2>2, <2>3, <2>4, <2>5, <2>6, NextSteps DEF Reads
<1>3. ASSUME Queued, UNCHANGED vars PROVE Queued'
  <2>1. UNCHANGED <<deep, live, healthy, head, flushed, progress, tip, last, opened, poison, phase>>
    BY <1>3 DEF vars, sourceVars, storeVars, windowVars, streamVars
  <2>2. final_cut' = final_cut
    BY <2>1, CutSame
  <2> QED BY <1>3, <2>1, <2>2 DEF Queued, Late
<1> QED BY <1>1, <1>2, <1>3

(* Where deep reorgs are excluded there was none.                          *)
Shallow == ~DeepReorgs => ~deep

(* Shallow is inductive.                                                   *)
LEMMA StaysShallow ==
  /\ Init => Shallow
  /\ Base /\ Shallow /\ [Next]_vars => Shallow'
<1>1. Init => Shallow
  BY DEF Init, SourceInit, Shallow
<1>2. ASSUME Base, Shallow, Next PROVE Shallow'
  <2>1. CASE Source
    BY <1>2, <2>1, SourceShifts DEF Shifts, Shallow
  <2>2. CASE ~Source
    <3>1. deep' = deep
      BY <1>2, <2>2, NextKinds, DropsLive, StillSource, LiveNext
    <3> QED BY <1>2, <3>1 DEF Shallow
  <2> QED BY <2>1, <2>2
<1>3. ASSUME Shallow, UNCHANGED vars PROVE Shallow'
  BY <1>3 DEF Shallow, vars, sourceVars
<1> QED BY <1>1, <1>2, <1>3

-----------------------------------------------------------------------------
(***************************************************************************)
(* The inductive invariant, and that a caught-up Store is canonical.       *)
(***************************************************************************)

(* The inductive invariant.                                                *)
Inv ==
  /\ Base /\ LiveOK /\ AboveTip /\ Backfilled /\ Broken /\ LiveGets /\ OnePartial /\ StoredClean
  /\ Buried /\ Queued /\ Shallow

(* The inductive invariant holds, when the depth the collector waits for   *)
(* is at least the depth at which the chain is final.                      *)
THEOREM InvAlways ==
  ASSUME FinalDepth <= Depth PROVE Spec => []Inv
<1>1. Init => Inv
  BY InitBase, LiveFollows, TipCovers, BackfillCovers, WindowGets, StaysClean,
       WatermarkBuried, QueueHolds, StaysShallow DEF Inv
<1>2. Inv /\ [Next]_vars => Inv'
  <2> SUFFICES ASSUME Inv, [Next]_vars PROVE Inv'
    OBVIOUS
  <2>1. Base'
    BY NextBase, StutterBase DEF Inv
  <2>2. LiveOK' /\ AboveTip'
    BY LiveFollows, TipCovers DEF Inv
  <2>3. Backfilled' /\ Broken'
    BY BackfillCovers DEF Inv
  <2>4. LiveGets' /\ OnePartial'
    BY <2>1, WindowGets DEF Inv
  <2>5. StoredClean'
    BY StaysClean DEF Inv
  <2>6. Buried' /\ Queued' /\ Shallow'
    BY WatermarkBuried, QueueHolds, StaysShallow DEF Inv
  <2> QED BY <2>1, <2>2, <2>3, <2>4, <2>5, <2>6 DEF Inv
<1> QED BY <1>1, <1>2, PTL DEF Spec

(* The heights of the chain.                                               *)
LEMMA ChainHeights ==
  ASSUME Base
  PROVE  /\ \A h \in DOMAIN chain : h \in Heights /\ h \in Nat /\ h <= Top /\ chain[h] \in Seq(Row)
         /\ \A h \in Nat : h <= Top => h \in DOMAIN chain
         /\ Top \in Nat /\ Top <= peak
<1>1. DOMAIN chain = 0..Top /\ Top \in Heights /\ \A h \in 0..Top : chain[h] \in Seq(Row) /\ Top <= peak
  BY DEF Base, TypeInv, ChainTypeOK
<1>2. Top \in Nat /\ Top <= MaxHeight /\ MaxHeight \in Nat
  BY <1>1, SourceAssumption DEF Heights
<1>3. Top <= peak
  BY DEF Base, TypeInv, ChainTypeOK
<1> HIDE DEF Top
<1> QED BY <1>1, <1>2, <1>3 DEF Heights

(* When the live source is drained every height is clean.                  *)
LEMMA InvCanonical == Inv => HealthyMeansCanonical
<1> SUFFICES ASSUME Inv, CaughtUp, healthy, NEW h \in DOMAIN chain, backfill_from(last) <= h, h <= progress
             PROVE  table[h] = chain[h]
  BY DEF HealthyMeansCanonical
<1>1. phase = "live" /\ ~poison /\ live = <<>>
  BY DEF CaughtUp, Polling
<1>2. h \in Heights /\ h \in Nat
  BY ChainHeights DEF Inv
<1>3. progress <= flushed /\ progress \in Int /\ flushed \in Int
  BY <1>1, IntFacts DEF Inv, Base, LiveInv
<1>4. ~Dirty(h)
  BY <1>1, NoLive DEF Dirty
<1>5. Resume <= h /\ h <= flushed
  BY <1>2, <1>3 DEF Resume
<1>6. table[h] = Content(chain, h)
  BY <1>1, <1>2, <1>4, <1>5 DEF Inv, StoredClean
<1> QED BY <1>6 DEF Content

(* HealthyMeansCanonical, for every value of the constants, deep reorgs    *)
(* included: a window that is healthy when it has caught up has stored     *)
(* only what the chain still holds.                                        *)
THEOREM CaughtUpIsCanonical ==
  ASSUME FinalDepth <= Depth PROVE Spec => []HealthyMeansCanonical
BY InvAlways, InvCanonical, PTL

-----------------------------------------------------------------------------
(***************************************************************************)
(* Why the writer halts.                                                   *)
(***************************************************************************)

(* Without a fault the backfill halts no writer: its events come in order. *)
LEMMA PollSound ==
  ASSUME Base, poll_backfill, ~WriteFails, Unencodable = {}, healthy, settling
  PROVE  healthy' /\ settling'
<1> DEFINE k == fetched[1].key
           r == fetched[1].row
<1>1. /\ Filling /\ fetched # <<>> /\ Head(fetched) = fetched[1] /\ k \in Nat /\ fetched \in Seq(Event) /\ 1 \in DOMAIN fetched
  BY NextFetched, TailFacts
<1>2. CASE k <= final_cut
  <2>1. healthy' = healthy /\ settled!record(k, r)
    BY <1>1, <1>2 DEF poll_backfill, windowVars
  <2>2. \/ BlockSkips
        \/ BlockHalts /\ (r \in Unencodable \/ k < current)
        \/ BlockAdds(k, r)
        \/ BlockRolls(k, r)
        \/ BlockFails
    BY <2>1, BlockRecords
  <2>3. ~(k < current)
    <3>1. current = None \/ k >= current
      BY <1>1 DEF Base, FillBlock
    <3> QED BY SMTT(30), <1>1, <3>1, IntFacts DEF None
  <2> QED BY <2>1, <2>2, <2>3 DEF BlockSkips, BlockAdds, BlockRolls, BlockFails, Failed
<1>3. CASE ~(k <= final_cut)
  <2>1. settling' = settling /\ window!record_seeded(k, r)
    BY <1>1, <1>3 DEF poll_backfill, blockVars
  <2>2. \/ WindowSkips
        \/ WindowHalts /\ (r \in Unencodable \/ k < head)
        \/ WindowSeeds(k, r)
    BY <2>1, WindowSeedsRecords
  <2>3. ~(k < head)
    <3>1. k >= head
      BY <1>1 DEF Base, FillWindow
    <3> QED BY SMTT(30), <1>1, <3>1, IntFacts
  <2> QED BY <2>1, <2>2, <2>3 DEF WindowSkips, WindowSeeds, Buffers
<1> QED BY <1>2, <1>3

(* Without a fault and a deep reorg, no live item halts the window when    *)
(* the tip had not moved since the source was opened.                      *)
LEMMA LiveSound ==
  ASSUME FinalDepth <= Depth, Base, Queued, live_event \/ live_retract, Unencodable = {}, ~deep, healthy, tip = opened
  PROVE  healthy'
<1>1. phase = "live" /\ ~poison /\ 1 \in DOMAIN live /\ live[1].key \in Nat
  BY LiveNext
<1>2. Late(1)
  BY <1>1 DEF Queued
<1>3. live[1].key > final_cut
  <2>1. live[1].key > opened - FinalDepth
    BY <1>2 DEF Late
  <2>2. /\ tip \in Int /\ opened \in Int /\ FinalDepth \in Nat /\ Depth \in Nat /\ final_cut \in Int
        /\ final_cut # None => final_cut + Depth = tip
    BY IntFacts, CutFacts
  <2> QED BY <1>1, <2>1, <2>2 DEF None
<1>4. ~(live[1].key <= flushed)
  <2>1. live[1].key > flushed /\ flushed \in Int
    BY <1>1, <1>2, <1>3, IntFacts DEF Late
  <2> QED BY <1>1, <2>1
<1>5. CASE live_event
  BY <1>4, <1>5, LiveEventForms DEF WindowSkips, WindowTakes, Buffers
<1>6. CASE live_retract
  BY <1>4, <1>6, LiveRetractForms DEF WindowSkips, WindowRewinds
<1> QED BY <1>5, <1>6

(* HaltHasCause is preserved by every step.                                *)
LEMMA HaltStep ==
  ASSUME FinalDepth <= Depth, Inv, Base', HaltHasCause, Next
  PROVE  HaltHasCause'
<1> SUFFICES ASSUME NoFault', phase' # "idle", tip' = opened' PROVE healthy' /\ settling'
  BY DEF HaltHasCause
<1>1. Base /\ ~WriteFails /\ Unencodable = {} /\ ~deep'
  BY DEF NoFault, Inv
<1>2. ~deep
  <2>1. CASE Source
    BY <1>1, <2>1, SourceShifts DEF Shifts
  <2>2. CASE ~Source
    <3>1. deep' = deep
      BY <1>1, <2>2, NextKinds, DropsLive, StillSource, LiveNext
    <3> QED BY <1>1, <3>1
  <2> QED BY <2>1, <2>2
<1>3. phase # "idle" /\ tip = opened => healthy /\ settling
  BY <1>1, <1>2 DEF HaltHasCause, NoFault
<1>4. CASE Source
  <2>1. UNCHANGED <<settling, healthy, tip, opened, phase>>
    BY <1>1, <1>4, SourceShifts
  <2> QED BY <1>3, <2>1
<1>5. CASE phase' \in {"idle", "attached", "tip"}
  BY <1>5 DEF Base, Fresh
<1>6. CASE open_segments
  BY <1>1, <1>6, OpenForms
<1>7. CASE query_first_part \/ query_next
  <2>1. UNCHANGED <<settling, healthy, tip, opened>> /\ phase # "idle"
    BY <1>1, <1>7, QueryForms DEF Filling
  <2> QED BY <1>3, <2>1
<1>8. CASE poll_replay
  <2>1. UNCHANGED <<settling, healthy, tip, opened>> /\ phase # "idle"
    BY <1>8 DEF poll_replay, blockVars, windowVars, streamVars
  <2> QED BY <1>3, <2>1
<1>9. CASE poll_backfill
  <2>1. UNCHANGED <<tip, opened>> /\ phase # "idle"
    BY <1>1, <1>9, NextFetched
  <2> QED BY <1>1, <1>3, <1>9, <2>1, PollSound
<1>10. CASE finish_backfill
  <2>1. /\ UNCHANGED <<tip, opened>> /\ phase # "idle"
        /\ settling' => healthy' = healthy
        /\ \/ UNCHANGED settling
           \/ settling'
           \/ Failed(current, buffer)
    BY <1>1, <1>10, FinishForms
  <2>2. ~Failed(current, buffer)
    BY <1>1 DEF Failed
  <2>3. healthy /\ settling
    BY <1>3, <2>1
  <2>4. settling'
    BY <2>1, <2>2, <2>3
  <2>5. healthy' = healthy
    BY <2>1, <2>4
  <2> QED BY <2>3, <2>4, <2>5
<1>11. CASE live_event \/ live_retract
  <2>1. UNCHANGED <<tip, opened, settling>> /\ phase # "idle"
    BY <1>1, <1>11, LiveNext
  <2> QED BY <1>1, <1>2, <1>3, <1>11, <2>1, LiveSound DEF Inv
<1>12. CASE flush_matured
  <2>1. healthy /\ settling /\ settling' = settling
    BY <1>1, <1>12, FlushForms
  <2>2. healthy' = healthy
    BY <1>1, <1>12, FlushForms DEF Failed
  <2> QED BY <2>1, <2>2
<1>13. CASE subscribe_live \/ read_tip \/ Ends
  <2>1. phase' \in {"idle", "attached", "tip"}
    BY <1>13, EndsForms DEF subscribe_live, read_tip, Closed
  <2> QED BY <1>5, <2>1
<1> QED BY <1>4, <1>6, <1>7, <1>8, <1>9, <1>10, <1>11, <1>12, <1>13, NextSteps

(* HaltHasCause: without a fault and a deep reorg, persistence halts only  *)
(* in a subscription whose tip had moved on when subscribe read it.        *)
THEOREM HaltsForCause ==
  ASSUME FinalDepth <= Depth PROVE Spec => []HaltHasCause
<1>1. Init => HaltHasCause
  BY DEF Init, HaltHasCause
<1>2. Inv /\ Inv' /\ HaltHasCause /\ [Next]_vars => HaltHasCause'
  <2>1. ASSUME Inv, Inv', HaltHasCause, Next PROVE HaltHasCause'
    BY <2>1, HaltStep DEF Inv
  <2>2. ASSUME HaltHasCause, UNCHANGED vars PROVE HaltHasCause'
    BY <2>2 DEF HaltHasCause, NoFault, vars, sourceVars, blockVars, windowVars, streamVars
  <2> QED BY <2>1, <2>2
<1> QED BY <1>1, <1>2, InvAlways, PTL DEF Spec

-----------------------------------------------------------------------------
(***************************************************************************)
(* Refinement of DurablePrefix: every step commits the next final height,  *)
(* moves the chain, or stutters.                                           *)
(***************************************************************************)

(* A write of the canonical rows of the next height that holds any is a    *)
(* commit of the promise.                                                  *)
LEMMA CommitStep ==
  ASSUME FinalDepth <= Depth, Base, ~deep, NEW k \in Heights, k > progress, k + Depth <= peak,
         NEW rows \in Seq(Row), rows = Content(chain, k), Wrote(k, rows),
         \A g \in Heights : progress < g /\ g >= StartBlock /\ g < k => Content(chain, g) = <<>>,
         UNCHANGED <<chain, peak>>
  PROVE  promise!Commit(k)
<1>1. k \in Nat /\ k \in Keys /\ peak \in Nat /\ Depth \in Nat /\ FinalDepth \in Nat /\ progress \in Int /\ StoreType /\ Top \in Nat
  BY IntFacts, KeysHeights, ChainHeights DEF Base, TypeInv
<1>2. k <= Top
  <2>1. Top >= peak - FinalDepth
    BY DEF Base, SourceInv, StaysDeep
  <2> QED BY <1>1, <2>1
<1>3. k \in DOMAIN chain
  BY <1>1, <1>2, ChainHeights
<1>4. promise!Final(k)
  BY <1>1 DEF promise!Final
<1>5. ASSUME NEW g \in DOMAIN chain, progress < g, StartBlock <= g, g < k PROVE chain[g] = <<>>
  <2>1. g \in Heights /\ g >= StartBlock /\ Content(chain, g) = chain[g]
    BY <1>5, ChainHeights, PersistedAssumption DEF Content
  <2> QED BY <1>5, <2>1
<1>6. table[k] = <<>> /\ progress' = k /\ table'[k] = table[k] \o rows /\ \A h \in Keys : h # k => table'[h] = table[h]
  <2>1. table[k] = <<>>
    BY <1>1 DEF Base, StoreInv
  <2>2. progress <= k
    BY <1>1
  <2> QED BY <1>1, <2>1, <2>2, WroteStore
<1>7. table'[k] = chain[k]
  BY <1>3, <1>6 DEF Content
<1>8. [h \in Heights |-> table'[h]] = [[h \in Heights |-> table[h]] EXCEPT ![k] = chain[k]]
  <2> DEFINE M == [h \in Heights |-> table[h]]
             N == [h \in Heights |-> table'[h]]
  <2>1. ASSUME NEW h \in Heights PROVE N[h] = [M EXCEPT ![k] = chain[k]][h]
    <3>1. h \in Keys
      BY KeysHeights
    <3> QED BY <1>6, <1>7, <3>1
  <2> QED BY <2>1
<1> QED BY <1>3, <1>4, <1>5, <1>6, <1>8 DEF promise!Commit

(* What the settled writer has is the canonical chain up to its open group. *)
LEMMA SettledIs ==
  ASSUME Base, Backfilled, Broken, ~deep, Filling, settling, current # None,
         \A j \in DOMAIN fetched : fetched[j].key > current,
         NEW g \in Heights, Resume <= g, g <= current
  PROVE  SettledGot(g) = Content(chain, g)
<1>1. /\ current <= final_cut /\ (~poison => current < Ahead) /\ current \in Int /\ final_cut \in Int /\ g \in Nat
      /\ fetched \in Seq(Event)
  BY IntFacts, PositionFacts DEF Base, FillBlock, TypeInv, StreamType
<1>2. ~Dirty(g)
  BY <1>1 DEF Dirty
<1>3. CASE poison
  BY <1>2, <1>3 DEF Broken
<1>4. CASE ~poison
  <2>1. g < Ahead /\ g <= final_cut
    <3>1. Ahead \in Int
      <4>1. parts \in Seq(Part) /\ next_from \in Nat
        BY DEF Base, TypeInv, StreamType
      <4>2. parts # <<>> => parts[1] \in Part
        BY <4>1
      <4> QED BY <4>1, <4>2 DEF Ahead, AheadOf, Part
    <3> QED BY <1>1, <1>4, <3>1
  <2>2. Continues(fetched, g, SettledGot(g), Content(chain, g))
    BY <1>2, <1>4, <2>1 DEF Backfilled
  <2>3. Absent(fetched, g)
    <3> SUFFICES ASSUME NEW j \in DOMAIN fetched, fetched[j].key = g PROVE FALSE
      BY DEF Absent
    <3>1. g > current
      OBVIOUS
    <3> QED BY <1>1, <3>1
  <2>4. SettledGot(g) \in Seq(Row) /\ Content(chain, g) \in Seq(Row) /\ fetched \in Seq(Item)
    BY <1>1, GotRows, EventSeqIsItemSeq
  <2> QED BY <2>2, <2>3, <2>4, ContinuesDone
<1> QED BY <1>3, <1>4

(* The settled writer's writes are commits.                                *)
LEMMA SettledCommits ==
  ASSUME FinalDepth <= Depth, Base, Backfilled, Broken, ~deep, Filling, settling, current # None,
         \A j \in DOMAIN fetched : fetched[j].key > current,
         Wrote(current, buffer), UNCHANGED <<chain, peak>>
  PROVE  \E h \in Heights : promise!Commit(h)
<1>1. /\ current \in Heights /\ current \in Nat /\ current > progress /\ current <= final_cut /\ Resume <= current
      /\ buffer \in Seq(Row) /\ last <= progress
  BY IntFacts, PositionFacts DEF Base, FillBlock, TypeInv, BlockType, StoreInv
<1>2. current + Depth <= peak
  <2>1. final_cut # None /\ final_cut + Depth = tip /\ tip <= peak
    BY SMTT(30), <1>1, IntFacts, CutFacts DEF None, Base, TipInv
  <2>2. final_cut \in Int /\ Depth \in Nat /\ tip \in Int /\ peak \in Nat
    BY IntFacts
  <2> QED BY <1>1, <2>1, <2>2
<1>3. SettledGot(current) = Content(chain, current) /\ SettledGot(current) = buffer
  <2>1. current <= current
    BY <1>1
  <2> QED BY <1>1, <2>1, SettledIs DEF SettledGot
<1>4. ASSUME NEW g \in Heights, progress < g, g >= StartBlock, g < current PROVE Content(chain, g) = <<>>
  <2>1. g \in Nat /\ g \in Keys /\ progress \in Int /\ last \in Int /\ last \in Positions
    BY IntFacts, KeysHeights
  <2>2. Resume <= g /\ g <= current /\ g # current /\ g > progress
    BY <1>1, <1>4, <2>1, ResumeFacts
  <2>3. SettledGot(g) = Content(chain, g)
    BY <2>2, SettledIs
  <2>4. table[g] = <<>>
    BY <2>1, <2>2 DEF Base, StoreInv
  <2> QED BY <2>2, <2>3, <2>4 DEF SettledGot
<1>5. PICK k, rows : k = current /\ rows = buffer
  OBVIOUS
<1>6. Wrote(k, rows)
  BY <1>5 DEF Wrote
<1>7. promise!Commit(k) /\ k \in Heights
  <2>1. /\ k \in Heights /\ k > progress /\ k + Depth <= peak /\ rows \in Seq(Row) /\ rows = Content(chain, k)
        /\ \A g \in Heights : progress < g /\ g >= StartBlock /\ g < k => Content(chain, g) = <<>>
    BY <1>1, <1>2, <1>3, <1>4, <1>5
  <2> QED BY <1>6, <2>1, CommitStep
<1> QED BY <1>7

(* When the settled writer writes, it writes its open group below the      *)
(* event at hand.                                                          *)
LEMMA BlockWrites ==
  ASSUME NEW k, NEW r, settled!record(k, r)
  PROVE  \/ UNCHANGED storeVars
         \/ settling /\ current # None /\ k > current /\ Wrote(current, buffer)
<1>1. \/ UNCHANGED settled!storeVars
      \/ settling /\ current # None /\ k > current /\ (settled!write(current, buffer) \/ settled!failed_write(current, buffer))
  BY DEF settled!record, settled!None, None
<1> QED BY <1>1, WritesAre DEF Failed, storeVars, settled!storeVars

(* What a backfilled event stores is a commit.                             *)
LEMMA PollCommits ==
  ASSUME FinalDepth <= Depth, Inv, ~deep, poll_backfill
  PROVE  UNCHANGED storeVars \/ \E h \in Heights : promise!Commit(h)
<1> DEFINE k == fetched[1].key
           r == fetched[1].row
<1>1. /\ Base /\ Backfilled /\ Broken
  BY DEF Inv
<1>2. /\ Filling /\ fetched # <<>> /\ Head(fetched) = fetched[1] /\ k \in Nat /\ fetched \in Seq(Event) /\ UNCHANGED <<chain, peak>>
  BY <1>1, NextFetched
<1>3. CASE ~(k <= final_cut)
  <2>1. window!record_seeded(k, r)
    BY <1>2, <1>3 DEF poll_backfill
  <2> QED BY <2>1, WindowSeedsRecords DEF WindowSkips, WindowHalts, WindowSeeds,
         Buffers, storeVars
<1>4. CASE k <= final_cut
  <2>1. settled!record(k, r)
    BY <1>2, <1>4 DEF poll_backfill
  <2>2. CASE UNCHANGED storeVars
    BY <2>2
  <2>3. CASE settling /\ current # None /\ k > current /\ Wrote(current, buffer)
    <3>1. \A j \in DOMAIN fetched : fetched[j].key > current
      <4> SUFFICES ASSUME NEW j \in DOMAIN fetched PROVE fetched[j].key > current
        OBVIOUS
      <4>1. fetched[j] \in Event /\ 1 \in DOMAIN fetched /\ 1 <= j
        BY <1>2
      <4>2. fetched[j].key >= k /\ fetched[j].key \in Nat /\ current \in Int
        <5>1. Sorted(fetched)
          BY <1>1, <1>2 DEF Base, FillFetched
        <5> QED BY <1>1, <4>1, <5>1, ItemKeys, IntFacts DEF Sorted
      <4> QED BY <1>2, <2>3, <4>2
    <3> QED BY <1>1, <1>2, <2>3, <3>1, SettledCommits
  <2> QED BY <2>1, <2>2, <2>3, BlockWrites
<1> QED BY <1>3, <1>4

(* What the end of the backfill stores is a commit.                        *)
LEMMA FinishCommits ==
  ASSUME FinalDepth <= Depth, Inv, ~deep, finish_backfill
  PROVE  UNCHANGED storeVars \/ \E h \in Heights : promise!Commit(h)
<1>1. /\ Base /\ Backfilled /\ Broken
  BY DEF Inv
<1>2. /\ Filling /\ fetched = <<>> /\ UNCHANGED <<chain, peak>>
      /\ \/ UNCHANGED <<table, progress>>
         \/ settling /\ current # None /\ (Wrote(current, buffer) \/ Failed(current, buffer))
  BY <1>1, FinishForms
<1>3. \A j \in DOMAIN fetched : fetched[j].key > current
  BY <1>2, NoLive
<1>4. CASE UNCHANGED storeVars
  BY <1>4
<1>5. CASE settling /\ current # None /\ Wrote(current, buffer)
  BY <1>1, <1>2, <1>3, <1>5, SettledCommits
<1> QED BY <1>2, <1>4, <1>5 DEF Failed, storeVars

(* What a flush stores is a commit: nothing the live source holds can      *)
(* still correct it, and the heights it passes over are empty.             *)
LEMMA FlushCommits ==
  ASSUME FinalDepth <= Depth, Inv, ~deep, flush_matured
  PROVE  UNCHANGED storeVars \/ \E h \in Heights : promise!Commit(h)
<1>1. /\ Base /\ LiveGets /\ StoredClean /\ Queued
  BY DEF Inv
<1>2. phase = "live" /\ ~poison /\ healthy /\ UNCHANGED <<chain, peak>>
  BY <1>1, FlushForms
<1>3. PICK k \in Heights :
              /\ k \in DOMAIN pending /\ pending[k].rows \in Seq(Row)
              /\ k > flushed /\ k > progress /\ head >= k + Depth /\ k + Depth <= peak
              /\ \A b \in DOMAIN pending : b # k => b > k
              /\ Wrote(k, pending[k].rows) \/ Failed(k, pending[k].rows)
  BY <1>1, FlushForms
<1>4. CASE UNCHANGED storeVars
  BY <1>4
<1>5. CASE Wrote(k, pending[k].rows)
  <2>1. /\ k \in Nat /\ flushed \in Int /\ progress \in Int /\ final_cut \in Int /\ head \in Int /\ Depth \in Nat
        /\ final_cut <= flushed /\ progress <= flushed /\ last <= progress /\ last \in Int /\ last \in Positions
    BY <1>1, <1>2, IntFacts, PositionFacts DEF Base, LiveInv, StoreInv
  <2>2. ASSUME NEW j \in DOMAIN live, live[j].key > final_cut PROVE live[j].key > k
    <3>1. live[j].key > flushed /\ head < live[j].key + Depth /\ live[j].key \in Nat
      BY <1>1, <1>2, <2>2, IntFacts DEF Queued, Late
    <3> QED BY <1>3, <2>1, <3>1
  <2>3. ASSUME NEW g \in Heights, g > final_cut, g <= k PROVE Absent(live, g)
    <3> SUFFICES ASSUME NEW j \in DOMAIN live, live[j].key = g PROVE FALSE
      BY DEF Absent
    <3>1. g > k /\ g \in Nat
      BY <2>2, <2>3, PositionFacts
    <3> QED BY <2>1, <2>3, <3>1
  <2>4. pending[k].rows = Content(chain, k)
    <3>1. Absent(live, k)
      BY <1>3, <2>1, <2>3
    <3> QED BY <1>1, <1>3, <3>1, FlushedClean
  <2>5. ASSUME NEW g \in Heights, progress < g, g >= StartBlock, g < k PROVE Content(chain, g) = <<>>
    <3>1. g \in Nat /\ g \in Keys
      BY KeysHeights
    <3>2. Resume <= g
      BY <2>1, <2>5, <3>1, ResumeFacts
    <3>3. CASE g <= flushed
      <4>1. ~Dirty(g)
        BY <2>1, <2>3, <2>5, <3>1 DEF Dirty
      <4>2. table[g] = Content(chain, g)
        BY <1>1, <1>2, <3>2, <3>3, <4>1 DEF StoredClean
      <4>3. table[g] = <<>>
        BY <1>1, <2>1, <2>5, <3>1 DEF Base, StoreInv
      <4> QED BY <4>2, <4>3
    <3>4. CASE g > flushed
      <4>1. Absent(live, g) /\ flushed < g
        BY <2>1, <2>3, <2>5, <3>1, <3>4
      <4> QED BY <1>1, <1>3, <2>5, <3>2, <4>1, FlushedClean
    <3> QED BY <2>1, <3>1, <3>3, <3>4
  <2>6. promise!Commit(k)
    BY <1>1, <1>2, <1>3, <1>5, <2>4, <2>5, CommitStep
  <2> QED BY <2>6
<1> QED BY <1>3, <1>4, <1>5 DEF Failed

(* Without a deep reorg, a step of the source is a move of the promise's   *)
(* chain.                                                                  *)
LEMMA SourceMovesChain ==
  ASSUME Inv, Source, ~deep'
  PROVE  promise!ChainMoves
<1>1. Base
  BY DEF Inv
<1>2. PICK from, R, A : Moves(from, R, A)
  BY <1>1, SourceMoves
<1>3. UNCHANGED <<table, progress>> /\ ChainTypeOK'
  BY <1>1, SourceShifts
<1>4. from \in Nat /\ from <= Top + 1 /\ Top \in Nat /\ peak \in Nat /\ FinalDepth \in Nat /\ DOMAIN chain = 0..Top
  BY <1>1, <1>2, IntFacts, ChainHeights DEF Moves, Base, TypeInv, ChainTypeOK
<1>5. Top' \in Nat /\ Top' >= from - 1 /\ DOMAIN chain' = 0..Top' /\ peak' \in Heights /\ peak' >= peak /\ from > peak - FinalDepth
      /\ Top' <= MaxHeight
  BY <1>2, PositionFacts DEF Moves
<1>6. DOMAIN chain' \subseteq Heights
  <2> HIDE DEF Top
  <2> QED BY <1>5, SourceAssumption DEF Heights
<1>7. ASSUME NEW h \in DOMAIN chain \cup DOMAIN chain', promise!Final(h)
      PROVE  h \in DOMAIN chain /\ h \in DOMAIN chain' /\ chain'[h] = chain[h]
  <2> HIDE DEF Top
  <2>1. h \in Nat /\ h < from
    BY <1>4, <1>5, <1>7 DEF promise!Final
  <2>2. h \in DOMAIN chain /\ h \in DOMAIN chain'
    BY <1>4, <1>5, <2>1
  <2>3. h \in 0..(from - 1)
    BY <1>4, <2>1
  <2> QED BY <1>2, <2>2, <2>3 DEF Moves
<1>8. [h \in Heights |-> table'[h]] = [h \in Heights |-> table[h]]
  BY <1>3
<1> QED BY <1>3, <1>5, <1>6, <1>7, <1>8 DEF promise!ChainMoves

(* Every step is a step of the promise or a stutter.                       *)
LEMMA StepRefines ==
  ASSUME FinalDepth <= Depth, ~DeepReorgs, Inv, Inv', [Next]_vars
  PROVE  [promise!Next]_promise!vars
<1>1. Base /\ ~deep /\ ~deep'
  BY DEF Inv, Shallow
<1>2. CASE UNCHANGED <<chain, peak>> /\ UNCHANGED storeVars
  BY <1>2 DEF promise!vars, storeVars
<1>3. CASE Source
  BY <1>1, <1>3, SourceMovesChain DEF promise!Next
<1>4. CASE poll_backfill \/ finish_backfill \/ flush_matured
  <2>1. UNCHANGED <<chain, peak>>
    BY <1>4, StillSource DEF Still, Fills
  <2> QED BY <1>1, <1>2, <1>4, <2>1, PollCommits, FinishCommits, FlushCommits
         DEF promise!Next
<1>5. CASE subscribe_live \/ Reads \/ query_next
  <2>1. UNCHANGED <<chain, peak>>
    BY <1>5, DropsLive, StillSource DEF Still, Fills
  <2>2. UNCHANGED storeVars
    BY <1>5 DEF subscribe_live, Reads, read_tip, open_segments, query_first_part,
         poll_replay, query_next
  <2> QED BY <1>2, <2>1, <2>2
<1>6. CASE Ends
  BY <1>2, <1>6, DropsLive, EndsForms DEF Closed
<1>7. CASE live_event \/ live_retract
  BY <1>1, <1>2, <1>7, LiveNext DEF storeVars
<1>8. CASE UNCHANGED vars
  BY <1>2, <1>8 DEF vars, sourceVars, storeVars
<1> QED BY <1>3, <1>4, <1>5, <1>6, <1>7, <1>8, NextSteps DEF Reads

(* Initial states are initial states of the promise.                       *)
LEMMA InitRefines == Init => promise!Init
<1> SUFFICES ASSUME Init PROVE promise!Init
  OBVIOUS
<1>1. chain \in [{0} -> Contents] /\ peak = 0 /\ progress = -1 /\ table = [k \in Keys |-> <<>>]
  BY DEF Init, SourceInit, window!Init, window!StoreInit, window!Keys, window!None, Keys
<1>2. 0 \in Heights /\ DOMAIN chain = {0}
  BY <1>1, SourceAssumption DEF Heights
<1>3. [h \in Heights |-> table[h]] = [h \in Heights |-> <<>>]
  BY <1>1, KeysHeights
<1> QED BY <1>1, <1>2, <1>3 DEF promise!Init

(* The refinement: while the chain replaces nothing buried Depth deep,     *)
(* whatever subscriptions, failures, reconnects and crashes do to the      *)
(* Store is a commit of the next final height with its canonical events.   *)
THEOREM StoreRefinesPrefix ==
  ASSUME FinalDepth <= Depth, ~DeepReorgs PROVE Spec => StoreIsDurablePrefix
<1>1. Inv /\ Inv' /\ [Next]_vars => [promise!Next]_promise!vars
  BY StepRefines
<1> QED BY <1>1, InitRefines, InvAlways, PTL DEF Spec, StoreIsDurablePrefix, promise!Spec

-----------------------------------------------------------------------------
(***************************************************************************)
(* What DurablePrefix entails for the Store.                               *)
(***************************************************************************)

(* The table as the promise sees it.                                       *)
Copy == [h \in Heights |-> table[h]]

(* Committed heights are final: the part that makes canonicity inductive,  *)
(* since the chain may change wherever it is not final.                    *)
CommittedIsFinal ==
  /\ DOMAIN chain \subseteq Heights
  /\ peak \in Heights
  /\ progress \in Heights \cup {-1}
  /\ progress # -1 => promise!Final(progress)

(* The inductive invariant of the promise.                                 *)
PrefixInv == CommittedIsFinal /\ promise!StoredIsCanonical

(* StoredIsCanonical, with the table by name.                              *)
LEMMA CanonicalIs ==
  promise!StoredIsCanonical <=>
    \A h \in Heights :
      /\ h > progress => Copy[h] = <<>>
      /\ h <= progress /\ h \in DOMAIN chain => Copy[h] = chain[h] \/ (h < StartBlock /\ Copy[h] = <<>>)
BY DEF promise!StoredIsCanonical, Copy

(* A Store that only ever commits the next final height is at all times a  *)
(* gap-free copy of the canonical chain up to the stored position, however *)
(* the chain forks above its final blocks.                                 *)
THEOREM PrefixStaysCanonical ==
  StoreIsDurablePrefix => []promise!StoredIsCanonical
<1>0. Heights \subseteq Nat /\ FinalDepth \in Nat /\ StartBlock \in Nat
  BY KeysHeights, SourceAssumption, PersistedAssumption
<1>1. promise!Init => PrefixInv
  <2> SUFFICES ASSUME promise!Init PROVE PrefixInv
    OBVIOUS
  <2>1. DOMAIN chain \subseteq Heights /\ peak \in Heights /\ progress = -1 /\ Copy = [h \in Heights |-> <<>>]
    BY DEF promise!Init, Copy
  <2>2. CommittedIsFinal
    BY <2>1 DEF CommittedIsFinal
  <2>3. promise!StoredIsCanonical
    <3> SUFFICES ASSUME NEW h \in Heights
                 PROVE  /\ h > progress => Copy[h] = <<>>
                        /\ h <= progress /\ h \in DOMAIN chain => Copy[h] = chain[h] \/ (h < StartBlock /\ Copy[h] = <<>>)
      BY CanonicalIs
    <3>1. Copy[h] = <<>> /\ ~(h <= progress)
      BY <1>0, <2>1
    <3> QED BY <3>1
  <2> QED BY <2>2, <2>3 DEF PrefixInv
<1>2. PrefixInv /\ [promise!Next]_promise!vars => PrefixInv'
  <2> SUFFICES ASSUME PrefixInv, [promise!Next]_promise!vars PROVE PrefixInv'
    OBVIOUS
  <2>1. CASE promise!ChainMoves
    <3>1. /\ DOMAIN chain' \subseteq Heights /\ peak' \in Heights /\ peak' >= peak
          /\ \A h \in DOMAIN chain \cup DOMAIN chain' :
               promise!Final(h) => h \in DOMAIN chain /\ h \in DOMAIN chain' /\ chain'[h] = chain[h]
          /\ Copy' = Copy /\ progress' = progress
      BY <2>1 DEF promise!ChainMoves, Copy
    <3>2. CommittedIsFinal'
      <4>1. peak \in Nat /\ peak' \in Nat /\ FinalDepth \in Nat /\ peak' >= peak
        BY <1>0, <3>1 DEF PrefixInv, CommittedIsFinal
      <4>2. progress # -1 => progress \in Nat /\ progress <= peak - FinalDepth
        BY <1>0 DEF PrefixInv, CommittedIsFinal, promise!Final
      <4>3. progress # -1 => progress <= peak' - FinalDepth
        BY <4>1, <4>2
      <4> QED BY <3>1, <4>3 DEF PrefixInv, CommittedIsFinal, promise!Final
    <3>3. \A h \in Heights : h <= progress => promise!Final(h)
      BY <1>0 DEF PrefixInv, CommittedIsFinal, promise!Final
    <3>4. promise!StoredIsCanonical'
      <4> SUFFICES ASSUME NEW h \in Heights
                   PROVE  /\ h > progress => Copy[h] = <<>>
                          /\ h <= progress /\ h \in DOMAIN chain' => Copy[h] = chain'[h] \/ (h < StartBlock /\ Copy[h] = <<>>)
        BY <3>1 DEF promise!StoredIsCanonical, Copy
      <4>1. /\ h > progress => Copy[h] = <<>>
            /\ h <= progress /\ h \in DOMAIN chain => Copy[h] = chain[h] \/ (h < StartBlock /\ Copy[h] = <<>>)
        BY CanonicalIs DEF PrefixInv
      <4>2. h <= progress /\ h \in DOMAIN chain' => h \in DOMAIN chain /\ chain'[h] = chain[h]
        BY <3>1, <3>3
      <4> QED BY <4>1, <4>2
    <3> QED BY <3>2, <3>4 DEF PrefixInv
  <2>2. CASE \E h \in Heights : promise!Commit(h)
    <3>1. PICK h \in Heights : promise!Commit(h)
      BY <2>2
    <3>2. /\ h \in DOMAIN chain /\ h > progress /\ promise!Final(h)
          /\ \A g \in DOMAIN chain : progress < g /\ StartBlock <= g /\ g < h => chain[g] = <<>>
          /\ Copy' = [Copy EXCEPT ![h] = chain[h]]
          /\ progress' = h /\ UNCHANGED <<chain, peak>>
      BY <3>1 DEF promise!Commit, Copy
    <3>3. CommittedIsFinal'
      BY <3>2 DEF PrefixInv, CommittedIsFinal, promise!Final
    <3>4. ASSUME NEW g \in Heights PROVE Copy'[g] = IF g = h THEN chain[h] ELSE Copy[g]
      <4>1. Copy = [x \in Heights |-> Copy[x]]
        BY DEF Copy
      <4> QED BY <3>2, <4>1
    <3>5. promise!StoredIsCanonical'
      <4> SUFFICES ASSUME NEW g \in Heights
                   PROVE  /\ g > h => Copy'[g] = <<>>
                          /\ g <= h /\ g \in DOMAIN chain => Copy'[g] = chain[g] \/ (g < StartBlock /\ Copy'[g] = <<>>)
        BY <3>2 DEF promise!StoredIsCanonical, Copy
      <4>0. g \in Nat /\ h \in Nat /\ progress \in Int
        BY <1>0 DEF PrefixInv, CommittedIsFinal
      <4>1. /\ g > progress => Copy[g] = <<>>
            /\ g <= progress /\ g \in DOMAIN chain => Copy[g] = chain[g] \/ (g < StartBlock /\ Copy[g] = <<>>)
        BY CanonicalIs DEF PrefixInv
      <4>2. CASE g > h
        BY <3>2, <3>4, <4>0, <4>1, <4>2
      <4>3. CASE g = h
        <5>1. Copy'[g] = chain[g] /\ ~(g > h)
          BY <3>4, <4>0, <4>3
        <5> QED BY <5>1
      <4>4. CASE g < h /\ progress < g
        <5>1. Copy'[g] = <<>>
          BY <3>4, <4>0, <4>1, <4>4
        <5>2. g \in DOMAIN chain /\ ~(g < StartBlock) => chain[g] = <<>>
          BY <1>0, <3>2, <4>0, <4>4
        <5> QED BY <4>0, <4>4, <5>1, <5>2
      <4>5. CASE g < h /\ g <= progress
        BY <3>4, <4>0, <4>1, <4>5
      <4> QED BY <4>0, <4>2, <4>3, <4>4, <4>5
    <3> QED BY <3>3, <3>5 DEF PrefixInv
  <2>3. CASE UNCHANGED promise!vars
    <3>1. Copy' = Copy /\ UNCHANGED <<chain, peak, progress>>
      BY <2>3 DEF promise!vars, Copy
    <3>2. promise!StoredIsCanonical' <=> promise!StoredIsCanonical
      BY <3>1 DEF promise!StoredIsCanonical, Copy
    <3> QED BY <3>1, <3>2 DEF PrefixInv, CommittedIsFinal, promise!Final
  <2> QED BY <2>1, <2>2, <2>3 DEF promise!Next
<1>3. PrefixInv => promise!StoredIsCanonical
  BY DEF PrefixInv
<1> QED BY <1>1, <1>2, <1>3, PTL DEF StoreIsDurablePrefix, promise!Spec

(* So the Store of the persisted collector is at all times such a copy,    *)
(* while the chain replaces nothing buried Depth deep.                     *)
THEOREM StoreIsCanonicalPrefix ==
  ASSUME FinalDepth <= Depth, ~DeepReorgs PROVE Spec => []promise!StoredIsCanonical
BY StoreRefinesPrefix, PrefixStaysCanonical, PTL

-----------------------------------------------------------------------------
(***************************************************************************)
(* What was delivered by the time the Store has caught up.                 *)
(***************************************************************************)

(* Delivery.                                                               *)
TipDelivers ==
  Filling \/ phase = "tip" =>
    \A h \in Heights : h > tip => Pairs(h, Content(chain, h)) \subseteq EvPairs(live)

(* What was delivered, and what is on its way.                             *)
Undelivered == seen \cup EvPairs(live) \cup EvPairs(fetched)

(* From the resume point on, everything the backfill has queried or will   *)
(* not query was delivered or is on its way.                               *)
Delivers ==
  (Filling \/ phase = "live") /\ ~poison =>
    \A h \in Heights : h >= Resume /\ (Filling => h < Ahead \/ h > tip) =>
      Pairs(h, Content(chain, h)) \subseteq Undelivered

(* The events of a concatenation.                                          *)
LEMMA EvConcat ==
  ASSUME NEW F \in Seq(Item), NEW G \in Seq(Item)
  PROVE  EvPairs(F) \subseteq EvPairs(F \o G) /\ EvPairs(G) \subseteq EvPairs(F \o G)
<1>1. /\ Len(F) \in Nat /\ Len(G) \in Nat /\ DOMAIN (F \o G) = 1..(Len(F) + Len(G))
      /\ DOMAIN F = 1..Len(F) /\ DOMAIN G = 1..Len(G)
      /\ \A j \in 1..Len(F) : (F \o G)[j] = F[j]
      /\ \A j \in 1..Len(G) : (F \o G)[Len(F) + j] = G[j]
  BY Concat
<1>2. ASSUME NEW j \in DOMAIN F, F[j].kind = "Event" PROVE <<F[j].key, F[j].row>> \in EvPairs(F \o G)
  <2>1. j \in DOMAIN (F \o G) /\ (F \o G)[j] = F[j]
    BY <1>1
  <2> QED BY <1>2, <2>1 DEF EvPairs
<1>3. ASSUME NEW j \in DOMAIN G, G[j].kind = "Event" PROVE <<G[j].key, G[j].row>> \in EvPairs(F \o G)
  <2>1. Len(F) + j \in DOMAIN (F \o G) /\ (F \o G)[Len(F) + j] = G[j]
    BY <1>1
  <2> QED BY <1>3, <2>1 DEF EvPairs
<1> QED BY <1>2, <1>3 DEF EvPairs

(* The events of a tail.                                                   *)
LEMMA EvTail ==
  ASSUME NEW F \in Seq(Item), F # <<>>, NEW p \in EvPairs(F)
  PROVE  p \in EvPairs(Tail(F)) \/ (F[1].kind = "Event" /\ p = <<F[1].key, F[1].row>>)
<1>1. PICK j \in DOMAIN F : F[j].kind = "Event" /\ p = <<F[j].key, F[j].row>>
  BY DEF EvPairs
<1>2. CASE j = 1
  BY <1>1, <1>2
<1>3. CASE j # 1
  <2>1. j - 1 \in DOMAIN Tail(F) /\ Tail(F)[j - 1] = F[j]
    <3>1. /\ Len(F) \in Nat /\ DOMAIN F = 1..Len(F) /\ DOMAIN Tail(F) = 1..(Len(F) - 1)
          /\ \A i \in DOMAIN Tail(F) : Tail(F)[i] = F[i + 1]
      BY TailFacts
    <3>2. j \in Nat /\ j >= 2 /\ j <= Len(F)
      BY <1>3, <3>1
    <3>3. j - 1 \in 1..(Len(F) - 1) /\ (j - 1) + 1 = j
      BY <3>1, <3>2
    <3> QED BY <3>1, <3>3
  <2> QED BY <1>1, <2>1 DEF EvPairs
<1> QED BY <1>2, <1>3

(* A step of the source leaves every event of the new chain delivered or   *)
(* on its way.                                                             *)
LEMMA SourceDelivers ==
  ASSUME Base, Source, attached, NEW h \in Heights, NEW T
  PROVE  /\ EvPairs(live) \subseteq EvPairs(live')
         /\ Pairs(h, Content(chain, h)) \subseteq T \cup EvPairs(live)
              => Pairs(h, Content(chain', h)) \subseteq T \cup EvPairs(live')
<1>1. PICK from, N : Shifts(from, N)
  BY SourceShifts
<1>2. live' = live \o N /\ live \in Seq(Item) /\ N \in Seq(Item) /\ from \in Nat /\ h \in Nat
  BY <1>1, IntFacts, PositionFacts DEF Shifts
<1>3. EvPairs(live) \subseteq EvPairs(live') /\ EvPairs(N) \subseteq EvPairs(live')
  BY <1>2, EvConcat
<1>4. CASE h < from
  <2>1. Content(chain', h) = Content(chain, h)
    BY <1>1, <1>4 DEF Shifts
  <2> QED BY <1>3, <2>1
<1>5. CASE h >= from
  <2>1. Pairs(h, Content(chain', h)) \subseteq EvPairs(N)
    BY <1>1, <1>5 DEF Shifts
  <2> QED BY <1>3, <2>1
<1> QED BY <1>2, <1>4, <1>5

(* TipDelivers is inductive.                                               *)
LEMMA TipDelivered ==
  /\ Init => TipDelivers
  /\ Base /\ TipDelivers /\ [Next]_vars => TipDelivers'
<1>1. Init => TipDelivers
  BY DEF Init, TipDelivers, Filling
<1>2. ASSUME Base, TipDelivers, Source PROVE TipDelivers'
  <2> SUFFICES ASSUME Filling \/ phase = "tip", NEW h \in Heights, h > tip
               PROVE  Pairs(h, Content(chain', h)) \subseteq EvPairs(live')
    BY <1>2, SourceShifts DEF TipDelivers, Filling
  <2>1. attached
    BY <1>2 DEF Base, SourceInv, Filling
  <2>2. Pairs(h, Content(chain, h)) \subseteq {} \cup EvPairs(live)
    BY <1>2 DEF TipDelivers
  <2>3. Pairs(h, Content(chain', h)) \subseteq {} \cup EvPairs(live')
    BY <1>2, <2>1, <2>2, SourceDelivers
  <2> QED BY <2>3
<1>3. ASSUME Base, TipDelivers, read_tip PROVE TipDelivers'
  <2>1. tip' = Top /\ UNCHANGED <<chain, live>> /\ phase' = "tip" /\ ChainTypeOK
    BY <1>3 DEF read_tip, sourceVars, Base, TypeInv
  <2> SUFFICES ASSUME NEW h \in Heights, h > Top PROVE Pairs(h, Content(chain, h)) \subseteq EvPairs(live)
    BY <2>1 DEF TipDelivers
  <2>2. Content(chain, h) = <<>>
    BY <2>1, ContentRows
  <2> QED BY <2>2, NoPairs
<1>4. ASSUME Base, TipDelivers, Next, ~Source, ~read_tip PROVE TipDelivers'
  <2>1. CASE phase' \notin {"tip", "split", "ready", "backfill"}
    BY <2>1 DEF TipDelivers, Filling
  <2>2. CASE phase' \in {"tip", "split", "ready", "backfill"}
    <3>1. Still
      <4>1. ~(subscribe_live \/ Ends)
        BY <2>2, EndsForms DEF subscribe_live, Closed
      <4>2. ~(live_event \/ live_retract)
        BY <1>4, <2>2, LiveNext
      <4> QED BY <1>4, <4>1, <4>2, NextKinds
    <3>2. UNCHANGED <<chain, live>>
      BY <3>1, StillSource
    <3>3. phase \in {"tip", "split", "ready", "backfill"} /\ tip' = tip
      BY <1>4, <2>2, <3>1, FlushForms DEF Still, Reads, Fills, open_segments,
           query_first_part, poll_replay,
         poll_backfill, query_next, finish_backfill, streamVars
    <3> QED BY <1>4, <2>2, <3>2, <3>3 DEF TipDelivers, Filling
  <2> QED BY <2>1, <2>2
<1>5. ASSUME TipDelivers, UNCHANGED vars PROVE TipDelivers'
  BY <1>5 DEF TipDelivers, Filling, vars, sourceVars, streamVars
<1> QED BY <1>1, <1>2, <1>3, <1>4, <1>5

-----------------------------------------------------------------------------
(***************************************************************************)
(* Delivers is preserved, action by action.                                *)
(***************************************************************************)

(* Delivers holds when the segments are opened.                            *)
LEMMA OpenDelivers ==
  ASSUME Base, TipDelivers, open_segments
  PROVE  Delivers'
<1>1. /\ phase = "tip" /\ Filling' /\ UNCHANGED <<chain, live, tip>> /\ Base' /\ Resume' \in Nat
      /\ \A g \in Heights : Resume' <= g /\ g < Ahead' => Continues(fetched', g, <<>>, Content(chain, g))
  BY OpenForms
<1> SUFFICES ASSUME NEW h \in Heights, h >= Resume', h < Ahead' \/ h > tip
             PROVE  Pairs(h, Content(chain, h)) \subseteq seen' \cup EvPairs(live) \cup EvPairs(fetched')
  BY <1>1 DEF Delivers, Undelivered
<1>2. CASE h > tip
  BY <1>1, <1>2 DEF TipDelivers
<1>3. CASE h < Ahead'
  <2> DEFINE none == <<>>
  <2>1. h \in Nat /\ none = <<>> /\ fetched' \in Seq(Event) /\ Content(chain, h) \in Seq(Row)
    BY <1>1, PositionFacts, GotRows DEF Base, TypeInv, StreamType
  <2>2. Continues(fetched', h, none, Content(chain, h))
    BY <1>1, <1>3, <2>1
  <2> HIDE DEF none
  <2>3. Pairs(h, Content(chain, h)) \subseteq EvPairs(fetched')
    BY <2>1, <2>2, ContinuesPairs
  <2> QED BY <2>3
<1> QED BY <1>2, <1>3

(* Delivers is preserved by a query.                                       *)
LEMMA QueryDelivers ==
  ASSUME Base, Base', Delivers, query_first_part \/ query_next
  PROVE  Delivers'
<1>1. /\ Filling /\ Filling' /\ ~poison
      /\ UNCHANGED <<chain, live, tip, last, seen>> /\ Resume' = Resume
      /\ Ahead \in Nat /\ next_from' \in Nat /\ fetched \in Seq(Event) /\ Within(fetched, Resume, Ahead - 1)
      /\ \/ query_failed /\ poison'
         \/ ~poison' /\ Queries(Ahead, fetched, next_from')
  BY QueryForms
<1>2. CASE poison'
  BY <1>2 DEF Delivers
<1>3. CASE ~poison'
  <2> SUFFICES ASSUME NEW h \in Heights, h >= Resume, h < Ahead' \/ h > tip
               PROVE  Pairs(h, Content(chain, h)) \subseteq seen \cup EvPairs(live) \cup EvPairs(fetched')
    BY <1>1 DEF Delivers, Undelivered
  <2>1. Queries(Ahead, fetched, next_from') /\ ChainTypeOK /\ fetched' \in Seq(Event) /\ h \in Nat
        /\ Content(chain, h) \in Seq(Row) /\ Ahead' = AheadOf(parts', next_from')
    BY <1>1, <1>3, PositionFacts, GotRows DEF Base, TypeInv, StreamType, Ahead
  <2> DEFINE none == <<>>
             A == Ahead
  <2>2. none = <<>>
    OBVIOUS
  <2>3. /\ A <= h /\ h < Ahead' => Continues(fetched', h, none, Content(chain, h))
        /\ EvPairs(fetched) \subseteq EvPairs(fetched')
    <3>1. PICK from, joined, end : from = Ahead /\ joined = fetched /\ end = next_from'
      OBVIOUS
    <3>2. Queries(from, joined, end)
      BY <2>1, <3>1 DEF Queries
    <3>3. from \in Nat /\ joined \in Seq(Event) /\ Within(joined, Resume, from - 1) /\ end \in Nat
      BY <1>1, <3>1
    <3>4. /\ from <= h /\ h < AheadOf(parts', end) => Continues(fetched', h, <<>>, Content(chain, h))
          /\ EvPairs(joined) \subseteq EvPairs(fetched')
      BY <2>1, <3>2, <3>3, QueryAdds
    <3> QED BY <2>1, <3>1, <3>4
  <2> HIDE DEF none
  <2>4. CASE A <= h /\ h < Ahead'
    <3>1. Continues(fetched', h, none, Content(chain, h))
      BY <2>3, <2>4
    <3>2. Pairs(h, Content(chain, h)) \subseteq EvPairs(fetched')
      BY <2>1, <2>2, <3>1, ContinuesPairs
    <3> QED BY <3>2
  <2>5. CASE h < A \/ h > tip
    BY <1>1, <2>3, <2>5 DEF Delivers, Undelivered
  <2> QED BY <1>1, <2>1, <2>4, <2>5
<1> QED BY <1>2, <1>3

(* Delivers is preserved by a backfilled event.                            *)
LEMMA PollDelivers ==
  ASSUME Base, Delivers, poll_backfill
  PROVE  Delivers'
<1>1. /\ Filling /\ ~poison /\ UNCHANGED <<chain, live, tip, last, poison, phase>>
      /\ Resume' = Resume /\ Ahead' = Ahead /\ fetched' = Tail(fetched) /\ fetched \in Seq(Event) /\ fetched # <<>>
      /\ Head(fetched) = fetched[1]
  BY NextFetched
<1>2. seen' = seen \cup {<<fetched[1].key, fetched[1].row>>}
  BY <1>1 DEF poll_backfill
<1>3. fetched \in Seq(Item)
  BY <1>1, EventSeqIsItemSeq
<1>4. Undelivered \subseteq Undelivered'
  <2>1. \A p \in EvPairs(fetched) : p \in EvPairs(fetched') \/ p = <<fetched[1].key, fetched[1].row>>
    BY <1>1, <1>3, EvTail
  <2>2. EvPairs(live') = EvPairs(live)
    BY <1>1
  <2> QED BY <1>2, <2>1, <2>2 DEF Undelivered
<1>5. Filling'
  BY <1>1 DEF Filling
<1> QED BY <1>1, <1>4, <1>5 DEF Delivers

(* Delivers is preserved by finish_backfill: backfill and live source meet *)
(* at the tip.                                                             *)
LEMMA FinishDelivers ==
  ASSUME Base, Delivers, finish_backfill
  PROVE  Delivers'
<1>1. /\ Filling /\ parts = <<>> /\ (next_from > tip \/ poison)
      /\ UNCHANGED <<chain, live, tip, last, poison, fetched, seen>>
      /\ phase' = "live" /\ Resume' = Resume
  BY FinishForms
<1>2. ~Filling' /\ Undelivered' = Undelivered
  BY <1>1 DEF Filling, Undelivered
<1> SUFFICES ASSUME ~poison, NEW h \in Heights, h >= Resume
             PROVE  Pairs(h, Content(chain, h)) \subseteq Undelivered
  BY <1>1, <1>2 DEF Delivers
<1>3. h \in Nat /\ tip \in Int /\ next_from \in Nat /\ Ahead = next_from
  BY <1>1, IntFacts, PositionFacts DEF Base, TypeInv, StreamType, Ahead, AheadOf
<1>4. h < Ahead \/ h > tip
  BY <1>1, <1>3
<1> QED BY <1>1, <1>4 DEF Delivers

(* Delivers is preserved by a live item, delivered or suppressed because   *)
(* it was.                                                                 *)
LEMMA LiveDelivers ==
  ASSUME Base, SeenInv, Delivers, live_event \/ live_retract
  PROVE  Delivers'
<1>1. /\ phase = "live" /\ phase' = "live" /\ ~poison /\ live # <<>> /\ live \in Seq(Item) /\ live' = Tail(live)
      /\ UNCHANGED <<chain, tip, last, fetched, poison>> /\ Resume' = Resume /\ Head(live) = live[1]
      /\ live[1].key \in Heights
  BY LiveNext
<1>2. ~Filling /\ ~Filling'
  BY <1>1 DEF Filling
<1>3. seen \subseteq seen' /\ (live[1].kind = "Event" => <<live[1].key, live[1].row>> \in seen')
  <2>1. CASE live_retract
    BY <1>1, <2>1 DEF live_retract
  <2>2. CASE live_event
    <3>1. seen' = IF window!delivered(live[1].key, live[1].row) THEN seen \cup {<<live[1].key, live[1].row>>} ELSE seen
      BY <1>1, <2>2 DEF live_event
    <3>2. CASE window!delivered(live[1].key, live[1].row)
      BY <3>1, <3>2
    <3>3. CASE ~window!delivered(live[1].key, live[1].row)
      <4>1. WindowType
        BY DEF Base, TypeInv
      <4>2. live[1].key \in DOMAIN pending /\
            <<live[1].key, live[1].row>> \in Pairs(live[1].key, pending[live[1].key].rows) \cup Pairs(live[1].key, pending[live[1].key].expected)
        BY <1>1, <3>3, <4>1, SuppressedSeen
      <4> QED BY <3>1, <3>3, <4>2 DEF SeenInv
    <3> QED BY <3>2, <3>3
  <2> QED BY <2>1, <2>2
<1>4. Undelivered \subseteq Undelivered'
  <2>1. \A p \in EvPairs(live) : p \in EvPairs(live') \/ p \in seen'
    BY <1>1, <1>3, EvTail
  <2>2. EvPairs(fetched') = EvPairs(fetched)
    BY <1>1
  <2> QED BY <1>3, <2>1, <2>2 DEF Undelivered
<1> QED BY <1>1, <1>2, <1>4 DEF Delivers

(* Delivers is inductive, with the invariants before.                      *)
LEMMA AllDelivered ==
  /\ Init => Delivers
  /\ Base /\ Base' /\ SeenInv /\ TipDelivers /\ Delivers /\ [Next]_vars => Delivers'
<1>1. Init => Delivers
  BY DEF Init, Delivers, Filling
<1>2. ASSUME Base, Base', SeenInv, TipDelivers, Delivers, Next PROVE Delivers'
  <2>1. CASE Source
    <3>1. /\ UNCHANGED <<tip, last, fetched, parts, next_from, poison, phase, seen>> /\ Resume' = Resume /\ Ahead' = Ahead
      BY <1>2, <2>1, SourceShifts
    <3> SUFFICES ASSUME Filling \/ phase = "live", ~poison, NEW h \in Heights, h >= Resume, Filling => h < Ahead \/ h > tip
                 PROVE  Pairs(h, Content(chain', h)) \subseteq Undelivered'
      BY <3>1 DEF Delivers, Filling
    <3>2. attached
      BY <1>2 DEF Base, SourceInv, Filling
    <3> DEFINE T == seen \cup EvPairs(fetched)
    <3>3. Pairs(h, Content(chain, h)) \subseteq T \cup EvPairs(live)
      BY <1>2 DEF Delivers, Undelivered
    <3>4. EvPairs(fetched') = EvPairs(fetched)
      BY <3>1
    <3> HIDE DEF T
    <3>5. Pairs(h, Content(chain', h)) \subseteq T \cup EvPairs(live')
      <4>1. PICK U : U = T
        OBVIOUS
      <4>2. Pairs(h, Content(chain, h)) \subseteq U \cup EvPairs(live)
        BY <3>3, <4>1
      <4>3. Pairs(h, Content(chain', h)) \subseteq U \cup EvPairs(live')
        BY <1>2, <2>1, <3>2, <4>2, SourceDelivers
      <4> QED BY <4>1, <4>3
    <3> QED BY <3>1, <3>4, <3>5 DEF Undelivered, T
  <2>2. CASE open_segments
    BY <1>2, <2>2, OpenDelivers
  <2>3. CASE query_first_part \/ query_next
    BY <1>2, <2>3, QueryDelivers
  <2>4. CASE poll_replay
    <3>1. UNCHANGED <<chain, live, tip, last, fetched, parts, next_from, poison>> /\ Filling /\ Filling' /\ seen \subseteq seen'
      BY <2>4 DEF poll_replay, sourceVars, streamVars, Filling
    <3>2. Resume' = Resume /\ Ahead' = Ahead
      BY <3>1, ResumeSame DEF Ahead
    <3>3. Undelivered \subseteq Undelivered'
      BY <3>1 DEF Undelivered
    <3> QED BY <1>2, <3>1, <3>2, <3>3 DEF Delivers
  <2>5. CASE poll_backfill
    BY <1>2, <2>5, PollDelivers
  <2>6. CASE finish_backfill
    BY <1>2, <2>6, FinishDelivers
  <2>7. CASE live_event \/ live_retract
    BY <1>2, <2>7, LiveDelivers
  <2>8. CASE flush_matured
    <3>1. UNCHANGED <<chain, live, tip, last, fetched, seen, poison, phase>> /\ Resume' = Resume /\ phase = "live"
      BY <1>2, <2>8, FlushForms
    <3>2. ~Filling /\ ~Filling' /\ Undelivered' = Undelivered
      BY <3>1 DEF Filling, Undelivered
    <3> QED BY <1>2, <3>1, <3>2 DEF Delivers
  <2>9. CASE subscribe_live \/ read_tip \/ Ends
    <3>1. phase' \in {"idle", "attached", "tip"}
      BY <2>9, EndsForms DEF subscribe_live, read_tip, Closed
    <3> QED BY <3>1 DEF Delivers, Filling
  <2> QED BY <1>2, <2>1, <2>2, <2>3, <2>4, <2>5, <2>6, <2>7, <2>8, <2>9, NextSteps
<1>3. ASSUME Delivers, UNCHANGED vars PROVE Delivers'
  <2>1. UNCHANGED <<chain, live, tip, last, fetched, parts, next_from, poison, phase, seen>>
    BY <1>3 DEF vars, sourceVars, streamVars
  <2>2. Resume' = Resume /\ Ahead' = Ahead
    BY <2>1, ResumeSame DEF Ahead
  <2> QED BY <1>3, <2>1, <2>2 DEF Delivers, Undelivered, Filling
<1> QED BY <1>1, <1>2, <1>3

(* Below the resume point, what the chain holds is stored, and what is     *)
(* stored was delivered.                                                   *)
LEMMA DeliveredUpTo ==
  ASSUME Base, SeenInv, Delivers, promise!StoredIsCanonical
  PROVE  CaughtUpMeansDelivered
<1> SUFFICES ASSUME CaughtUp, NEW h \in DOMAIN chain, h >= StartBlock PROVE Pairs(h, chain[h]) \subseteq seen
  BY DEF CaughtUpMeansDelivered, Pairs
<1>1. phase = "live" /\ ~poison /\ live = <<>> /\ fetched = <<>> /\ replayed
  BY DEF CaughtUp, Polling, Base, PartsInv, SeenInv
<1>2. h \in Heights /\ h \in Nat /\ Content(chain, h) = chain[h]
  BY ChainHeights DEF Content
<1>3. EvPairs(live) = {} /\ EvPairs(fetched) = {}
  BY <1>1, NoLive DEF EvPairs
<1>4. last \in Int /\ progress \in Int /\ last <= progress /\ Resume \in Nat /\ last \in Positions
  BY IntFacts, ResumeFacts DEF Base, StoreInv
<1>5. CASE h >= Resume
  <2>1. ~Filling
    BY <1>1 DEF Filling
  <2> QED BY <1>1, <1>2, <1>3, <1>5, <2>1 DEF Delivers, Undelivered
<1>6. CASE ~(h >= Resume)
  <2>1. h <= last
    BY <1>2, <1>4, <1>6, ResumeFacts
  <2>2. h <= progress /\ ~(h < StartBlock)
    BY <1>2, <1>4, <2>1, PersistedAssumption
  <2>3. Copy[h] = chain[h] /\ Copy[h] = table[h]
    BY <1>2, <2>2, CanonicalIs DEF Copy
  <2>4. Pairs(h, table[h]) \subseteq seen
    BY <1>1, <1>2 DEF SeenInv
  <2> QED BY <2>3, <2>4
<1> QED BY <1>5, <1>6

(* CaughtUpMeansDelivered: while the chain replaces nothing buried Depth   *)
(* deep, a live tail that has drained its source has delivered every event *)
(* of the canonical chain from the start block on, halted persistence or   *)
(* not.                                                                    *)
THEOREM CaughtUpIsDelivered ==
  ASSUME FinalDepth <= Depth, ~DeepReorgs PROVE Spec => []CaughtUpMeansDelivered
<1> DEFINE DInv == Base /\ SeenInv /\ TipDelivers /\ Delivers
<1>1. Init => DInv
  BY InitBase, InitSeen, TipDelivered, AllDelivered
<1>2. DInv /\ [Next]_vars => DInv'
  <2> SUFFICES ASSUME DInv, [Next]_vars PROVE DInv'
    OBVIOUS
  <2>1. Base'
    BY NextBase, StutterBase
  <2>2. SeenInv'
    BY NextSeen, StutterSeen
  <2>3. TipDelivers' /\ Delivers'
    BY <2>1, TipDelivered, AllDelivered
  <2> QED BY <2>1, <2>2, <2>3
<1>3. DInv /\ promise!StoredIsCanonical => CaughtUpMeansDelivered
  BY DeliveredUpTo
<1> HIDE DEF DInv
<1> QED BY <1>1, <1>2, <1>3, StoreIsCanonicalPrefix, PTL DEF Spec

-----------------------------------------------------------------------------
(***************************************************************************)
(* What the backfill tail delivered is not delivered again.                *)
(***************************************************************************)

(* No retraction among the items i to j of F.                              *)
Runs(F, i, j) == \A m \in i..j : F[m].kind = "Event"

(* Between retractions the live source goes upwards.                       *)
LiveSorted(F) == \A i, j \in DOMAIN F : i <= j /\ Runs(F, i, j) => F[i].key <= F[j].key

(* What no retraction follows is of a block of the fork.                   *)
OnFork(F, fork) == \A j \in DOMAIN F : Runs(F, j, Len(F)) => Content(fork, F[j].key) # <<>>

(* The order of the live source.                                           *)
QueueInv == LiveSorted(live) /\ OnFork(live, chain)

(* The window has not met the live source.                                 *)
AllSeeded == \A b \in DOMAIN pending : pending[b].seeded

(* Or it has, and then the live source goes on from the head of the        *)
(* window, on the chain unless a retraction is to come.                    *)
HeadInv ==
  \/ AllSeeded
  \/ /\ \A j \in DOMAIN live : Runs(live, 1, j) => live[j].key >= head
     /\ Runs(live, 1, Len(live)) => head \in Heights /\ Content(chain, head) # <<>>

(* The rows of a group that the live source is to repeat.                  *)
Due(g) == IF g.seeded THEN g.rows ELSE g.expected

(* Every owed event above the watermark is due in the window.              *)
OwedInv ==
  \A e \in owed : e[1] > flushed =>
    e[1] \in DOMAIN pending /\ window!Contains(Due(pending[e[1]]), e[2])

(* The invariant of the boundary.                                          *)
BoundaryInv ==
  /\ QueueInv
  /\ owed \subseteq Heights \X Row
  /\ phase \notin {"backfill", "live"} => owed = {}
  /\ healthy /\ ~retracted => HeadInv /\ OwedInv

(* Removing one row leaves the others.                                     *)
LEMMA RemoveOneKeeps ==
  ASSUME NEW s \in Seq(Row), NEW r \in Row, NEW q, q # r, window!Contains(s, r), window!Contains(s, q)
  PROVE  window!Contains(window!RemoveOne(s, r), q)
<1> DEFINE i == CHOOSE j \in DOMAIN s : s[j] = r /\ \A m \in DOMAIN s : s[m] = r => j <= m
           n == Len(s)
           f == [j \in 1..(n - 1) |-> IF j = i THEN s[n] ELSE s[j]]
<1>1. n \in Nat /\ n >= 1 /\ DOMAIN s = 1..n
  BY DEF window!Contains
<1>2. \E j \in DOMAIN s : s[j] = r /\ \A m \in DOMAIN s : s[m] = r => j <= m
  <2> DEFINE T == {j \in DOMAIN s : s[j] = r}
  <2>1. T \in SUBSET Nat /\ T # {}
    BY <1>1 DEF window!Contains
  <2>2. PICK x \in T : \A y \in T : x <= y
    BY <2>1, Least
  <2> QED BY <2>2
<1>3. i \in DOMAIN s /\ s[i] = r
  BY <1>2
<1>4. window!RemoveOne(s, r) = f
  BY DEF window!RemoveOne
<1> HIDE DEF i, n
<1>5. DOMAIN f = 1..(n - 1) /\ \A j \in 1..(n - 1) : f[j] = IF j = i THEN s[n] ELSE s[j]
  OBVIOUS
<1> HIDE DEF f
<1>6. PICK j \in 1..n : s[j] = q
  BY <1>1 DEF window!Contains
<1>7. j # i
  BY <1>3, <1>6
<1>8. CASE j < n
  <2>1. j \in DOMAIN f /\ f[j] = q
    BY <1>1, <1>5, <1>6, <1>7, <1>8
  <2> QED BY <1>4, <2>1 DEF window!Contains
<1>9. CASE j = n
  <2>1. i \in DOMAIN f /\ f[i] = q
    BY <1>1, <1>3, <1>5, <1>6, <1>7, <1>9
  <2> QED BY <1>4, <2>1 DEF window!Contains
<1> QED BY <1>1, <1>6, <1>8, <1>9

-----------------------------------------------------------------------------
(* Added events are of blocks that hold rows.                              *)
LEMMA AddedOnFork ==
  ASSUME ChainTypeOK, NEW from, NEW R, NEW A, Moves(from, R, A), NEW j \in DOMAIN A
  PROVE  Content(chain', A[j].key) # <<>>
<1>1. A \in Seq(Item) /\ A[j].key \in from..Top' /\ Continues(A, A[j].key, <<>>, Content(chain', A[j].key))
  BY EventSeqIsItemSeq DEF Moves, AddedOK, Within
<1> SUFFICES ASSUME Content(chain', A[j].key) = <<>> PROVE FALSE
  OBVIOUS
<1>2. Absent(A, A[j].key)
  BY <1>1, ContinuesNothing, EmptyIsSeq
<1> QED BY <1>2 DEF Absent

(* A move that retracts nothing replaced empty blocks only.                *)
LEMMA CalmMoves ==
  ASSUME ChainTypeOK, NEW from, NEW R, NEW A, Moves(from, R, A), Len(R) = 0,
         NEW b \in Heights, Content(chain, b) # <<>>
  PROVE  b < from /\ Content(chain', b) = Content(chain, b)
<1>1. /\ from \in Nat /\ Top \in Nat /\ b \in Nat /\ from >= 1 /\ Top' \in Nat /\ Top' >= from - 1
      /\ DOMAIN chain = 0..Top /\ DOMAIN chain' = 0..Top'
      /\ \A h \in 0..(from - 1) : chain'[h] = chain[h]
      /\ R \in Seq(Retraction)
  BY PositionFacts DEF Moves, ChainTypeOK, RemovedOK
<1>2. b \in 0..Top
  BY <1>1 DEF Content
<1>3. Absent(R, b)
  BY <1>1 DEF Absent
<1>4. b \notin from..Top
  BY <1>3 DEF Moves, RemovedOK
<1>5. b < from
  BY <1>1, <1>2, <1>4
<1>6. b \in DOMAIN chain' /\ b \in DOMAIN chain /\ chain'[b] = chain[b]
  BY <1>1, <1>2, <1>5
<1> QED BY <1>5, <1>6 DEF Content

(* The live source after a move: what it held, then the retractions, then  *)
(* the new events.                                                         *)
LEMMA MovedLive ==
  ASSUME ChainTypeOK, NEW from, NEW R, NEW A, Moves(from, R, A), attached
  PROVE  LET n == Len(live)
             m == Len(R)
             t == Len(A)
         IN
         /\ n \in Nat /\ m \in Nat /\ t \in Nat /\ DOMAIN live = 1..n
         /\ Len(live') = n + m + t /\ DOMAIN live' = 1..(n + m + t)
         /\ \A j \in 1..n : live'[j] = live[j]
         /\ \A j \in (n + 1)..(n + m) : live'[j].kind = "Retract"
         /\ \A j \in (n + m + 1)..(n + m + t) :
              /\ live'[j].kind = "Event" /\ live'[j].key >= from /\ live'[j].key \in Nat
              /\ Content(chain', live'[j].key) # <<>>
         /\ \A i, j \in (n + m + 1)..(n + m + t) : i <= j => live'[i].key <= live'[j].key
<1> DEFINE N == R \o A
           n == Len(live)
           m == Len(R)
           t == Len(A)
<1>1. /\ N \in Seq(Item) /\ m \in Nat /\ t \in Nat /\ DOMAIN N = 1..(m + t)
      /\ \A j \in DOMAIN N :
           /\ N[j].key >= from /\ N[j].key \in Heights
           /\ j <= m => j \in DOMAIN R /\ N[j] = R[j] /\ R[j].kind = "Retract"
           /\ j > m => /\ j - m \in DOMAIN A /\ N[j] = A[j - m] /\ A[j - m].kind = "Event"
  BY NewItems
<1>2. live \in Seq(Item) /\ live' = live \o N /\ Sorted(A)
  BY DEF ChainTypeOK, Moves, AddedOK
<1>3. \A j \in DOMAIN A : Content(chain', A[j].key) # <<>>
  BY AddedOnFork
<1> HIDE DEF N, m, t
<1>4. /\ n \in Nat /\ DOMAIN live = 1..n /\ Len(live') = n + Len(N) /\ DOMAIN live' = 1..(n + Len(N))
      /\ \A j \in 1..n : live'[j] = live[j]
      /\ \A j \in 1..(n + Len(N)) : j > n => j - n \in 1..Len(N) /\ live'[j] = N[j - n]
  BY <1>1, <1>2, Concat
<1>5. Len(N) = m + t
  BY <1>1
<1> HIDE DEF n
<1>6. ASSUME NEW j \in (n + 1)..(n + m) PROVE live'[j].kind = "Retract"
  <2>1. j - n \in DOMAIN N /\ j - n <= m /\ live'[j] = N[j - n]
    BY <1>1, <1>4, <1>5
  <2> QED BY <1>1, <2>1
<1>7. ASSUME NEW j \in (n + m + 1)..(n + m + t)
      PROVE  /\ j - n - m \in DOMAIN A /\ live'[j] = A[j - n - m]
             /\ live'[j].kind = "Event" /\ live'[j].key >= from /\ live'[j].key \in Heights
  <2>1. j - n \in DOMAIN N /\ j - n > m /\ live'[j] = N[j - n]
    BY <1>1, <1>4, <1>5
  <2> QED BY <1>1, <2>1
<1>8. ASSUME NEW j \in (n + m + 1)..(n + m + t)
      PROVE  /\ live'[j].kind = "Event" /\ live'[j].key >= from /\ live'[j].key \in Nat
             /\ Content(chain', live'[j].key) # <<>>
  BY <1>3, <1>7, PositionFacts
<1>9. ASSUME NEW i \in (n + m + 1)..(n + m + t), NEW j \in (n + m + 1)..(n + m + t), i <= j
      PROVE  live'[i].key <= live'[j].key
  <2>1. i - n - m <= j - n - m
    BY <1>1, <1>4, <1>9
  <2> QED BY <1>2, <1>7, <2>1 DEF Sorted
<1>10. Len(live') = n + m + t /\ DOMAIN live' = 1..(n + m + t)
  BY <1>1, <1>4, <1>5
<1> QED BY <1>1, <1>4, <1>6, <1>8, <1>9, <1>10 DEF n, m, t

(* A run that passes the retractions of a move met none.                   *)
LEMMA RunsPast ==
  ASSUME NEW F, NEW n \in Nat, NEW m \in Nat, \A j \in (n + 1)..(n + m) : F[j].kind = "Retract",
         NEW i \in Nat, NEW j \in Nat, i <= n + 1, j >= n + m, Runs(F, i, j)
  PROVE  m = 0
<1> SUFFICES ASSUME m # 0 PROVE FALSE
  OBVIOUS
<1>1. n + 1 \in i..j /\ n + 1 \in (n + 1)..(n + m)
  OBVIOUS
<1> QED BY <1>1 DEF Runs

(* The order of the live source is preserved by a step of the chain.       *)
LEMMA SourceQueue ==
  ASSUME Base, QueueInv, Source
  PROVE  QueueInv'
<1>1. PICK from, R, A : Moves(from, R, A)
  BY SourceMoves
<1>2. ChainTypeOK
  BY DEF Base, TypeInv
<1>3. CASE ~attached
  <2>1. live' = <<>>
    BY <1>1, <1>3 DEF Moves, Base, SourceInv
  <2> QED BY <2>1, NoLive DEF QueueInv, LiveSorted, OnFork
<1>4. CASE attached
  <2> DEFINE n == Len(live)
             m == Len(R)
             t == Len(A)
             L == live'
  <2>1. /\ n \in Nat /\ m \in Nat /\ t \in Nat /\ DOMAIN live = 1..n
        /\ Len(L) = n + m + t /\ DOMAIN L = 1..(n + m + t)
        /\ \A j \in 1..n : L[j] = live[j]
        /\ \A j \in (n + 1)..(n + m) : L[j].kind = "Retract"
        /\ \A j \in (n + m + 1)..(n + m + t) :
             /\ L[j].kind = "Event" /\ L[j].key >= from /\ L[j].key \in Nat
             /\ Content(chain', L[j].key) # <<>>
        /\ \A i, j \in (n + m + 1)..(n + m + t) : i <= j => L[i].key <= L[j].key
    BY <1>1, <1>2, <1>4, MovedLive
  <2>2. \A j \in 1..n : live[j].key \in Heights /\ live[j].key \in Nat
    BY <1>2, <2>1, ItemKeys DEF ChainTypeOK
  <2>3. from \in Nat
    BY <1>1 DEF Moves
  <2> HIDE DEF n, m, t, L
  <2>4. ASSUME NEW i \in 1..n, NEW j \in n..(n + m + t), j >= n + m, Runs(L, i, j)
        PROVE  /\ m = 0 /\ live[i].key < from /\ Content(chain', live[i].key) = Content(chain, live[i].key)
               /\ Content(chain, live[i].key) # <<>>
    <3>1. m = 0
      <4>1. i \in Nat /\ j \in Nat /\ i <= n + 1
        BY <2>1
      <4> QED BY <2>1, <2>4, <4>1, RunsPast
    <3>2. Runs(live, i, n)
      BY <2>1, <2>4 DEF Runs
    <3>3. Content(chain, live[i].key) # <<>>
      BY <2>1, <3>2 DEF QueueInv, OnFork, n
    <3> QED BY <1>1, <1>2, <2>2, <3>1, <3>3, CalmMoves DEF m
  <2>5. LiveSorted(L)
    <3> SUFFICES ASSUME NEW i \in DOMAIN L, NEW j \in DOMAIN L, i <= j, Runs(L, i, j)
                 PROVE  L[i].key <= L[j].key
      BY DEF LiveSorted
    <3>0. L[i].kind = "Event" /\ L[j].kind = "Event"
      BY <2>1 DEF Runs
    <3>1. CASE j <= n
      <4>1. i \in 1..n /\ j \in 1..n /\ Runs(live, i, j)
        BY <2>1, <3>1 DEF Runs
      <4> QED BY <2>1, <4>1 DEF QueueInv, LiveSorted
    <3>2. CASE i > n
      <4>1. \A g \in DOMAIN L : g > n /\ L[g].kind = "Event" => g \in (n + m + 1)..(n + m + t)
        BY <2>1
      <4>2. i \in (n + m + 1)..(n + m + t) /\ j \in (n + m + 1)..(n + m + t)
        BY <2>1, <3>0, <3>2, <4>1
      <4> QED BY <2>1, <4>2
    <3>3. CASE i <= n /\ j > n
      <4>1. j \in (n + m + 1)..(n + m + t)
        BY <2>1, <3>0, <3>3
      <4>2. i \in 1..n /\ j \in n..(n + m + t) /\ j >= n + m
        BY <2>1, <3>3, <4>1
      <4>3. live[i].key < from /\ L[i] = live[i]
        BY <2>1, <2>4, <4>2
      <4> QED BY <2>1, <2>2, <2>3, <4>1, <4>2, <4>3
    <3> QED BY <2>1, <3>1, <3>2, <3>3
  <2>6. OnFork(L, chain')
    <3> SUFFICES ASSUME NEW j \in DOMAIN L, Runs(L, j, n + m + t)
                 PROVE  Content(chain', L[j].key) # <<>>
      BY <2>1 DEF OnFork
    <3>0. L[j].kind = "Event"
      BY <2>1 DEF Runs
    <3>1. CASE j <= n
      <4>1. j \in 1..n /\ n + m + t \in n..(n + m + t) /\ n + m + t >= n + m
        BY <2>1, <3>1
      <4>2. Content(chain', live[j].key) # <<>> /\ L[j] = live[j]
        BY <2>1, <2>4, <4>1
      <4> QED BY <4>2
    <3>2. CASE j > n
      <4>1. j \in (n + m + 1)..(n + m + t)
        BY <2>1, <3>0, <3>2
      <4> QED BY <2>1, <4>1
    <3> QED BY <2>1, <3>1, <3>2
  <2> QED BY <2>5, <2>6 DEF QueueInv, L
<1> QED BY <1>3, <1>4

(* HeadInv is preserved by a step of the chain.                            *)
LEMMA SourceHead ==
  ASSUME Base, HeadInv, Source
  PROVE  HeadInv'
<1>1. PICK from, R, A : Moves(from, R, A)
  BY SourceMoves
<1>2. ChainTypeOK /\ pending' = pending /\ head' = head
  BY SourceMoves DEF Base, TypeInv, windowVars
<1>3. CASE AllSeeded
  BY <1>2, <1>3 DEF HeadInv, AllSeeded
<1>4. CASE ~AllSeeded
  <2>0. attached
    <3>1. phase = "idle" => pending = window!NoGroups
      BY DEF Base, Fresh
    <3>2. phase = "idle" => AllSeeded
      BY <3>1, NoGroupsFacts DEF AllSeeded
    <3> QED BY <1>4, <3>2 DEF Base, SourceInv
  <2> DEFINE n == Len(live)
             m == Len(R)
             t == Len(A)
             L == live'
             Chain == chain'
  <2>1. /\ n \in Nat /\ m \in Nat /\ t \in Nat /\ DOMAIN live = 1..n
        /\ Len(L) = n + m + t /\ DOMAIN L = 1..(n + m + t)
        /\ \A j \in 1..n : L[j] = live[j]
        /\ \A j \in (n + 1)..(n + m) : L[j].kind = "Retract"
        /\ \A j \in (n + m + 1)..(n + m + t) :
             /\ L[j].kind = "Event" /\ L[j].key >= from /\ L[j].key \in Nat
    BY <1>1, <1>2, <2>0, MovedLive
  <2>2. /\ \A j \in DOMAIN live : Runs(live, 1, j) => live[j].key >= head
        /\ Runs(live, 1, n) => head \in Heights /\ Content(chain, head) # <<>>
    BY <1>4 DEF HeadInv
  <2>3. from \in Nat
    BY <1>1 DEF Moves
  <2> HIDE DEF n, m, t, L, Chain
  <2>4. ASSUME NEW j \in n..(n + m + t), j >= n + m, Runs(L, 1, j)
        PROVE  head < from /\ head \in Heights /\ Content(Chain, head) # <<>>
    <3>1. m = 0
      <4>1. 1 \in Nat /\ j \in Nat /\ 1 <= n + 1
        BY <2>1
      <4> QED BY <2>1, <2>4, <4>1, RunsPast
    <3>2. Runs(live, 1, n)
      BY <2>1, <2>4 DEF Runs
    <3> QED BY <1>1, <1>2, <2>2, <3>1, <3>2, CalmMoves DEF m, Chain
  <2>5. ASSUME NEW j \in DOMAIN L, Runs(L, 1, j) PROVE L[j].key >= head
    <3>0. L[j].kind = "Event"
      BY <2>1, <2>5 DEF Runs
    <3>1. CASE j <= n
      <4>1. j \in 1..n /\ Runs(live, 1, j)
        BY <2>1, <2>5, <3>1 DEF Runs
      <4> QED BY <2>1, <2>2, <4>1
    <3>2. CASE j > n
      <4>1. j \in (n + m + 1)..(n + m + t)
        BY <2>1, <3>0, <3>2
      <4>2. j \in n..(n + m + t) /\ j >= n + m
        BY <2>1, <4>1
      <4>3. head < from /\ head \in Nat
        BY <2>4, <2>5, <4>2, PositionFacts
      <4> QED BY <2>1, <2>3, <4>1, <4>3
    <3> QED BY <2>1, <3>1, <3>2
  <2>6. ASSUME Runs(L, 1, n + m + t) PROVE head \in Heights /\ Content(Chain, head) # <<>>
    <3>1. n + m + t \in n..(n + m + t) /\ n + m + t >= n + m
      BY <2>1
    <3> QED BY <2>4, <2>6, <3>1
  <2>7. /\ \A j \in DOMAIN L : Runs(L, 1, j) => L[j].key >= head
        /\ Runs(L, 1, Len(L)) => head \in Heights /\ Content(Chain, head) # <<>>
    BY <2>1, <2>5, <2>6
  <2> QED BY <1>2, <2>7 DEF HeadInv, L, Chain
<1> QED BY <1>3, <1>4

(* The order of the live source is preserved when an item is taken, and    *)
(* what is left goes on from an event that was.                            *)
LEMMA TailQueue ==
  ASSUME NEW F \in Seq(Item), F # <<>>, NEW fork, LiveSorted(F), OnFork(F, fork)
  PROVE  /\ LiveSorted(Tail(F)) /\ OnFork(Tail(F), fork)
         /\ F[1].kind = "Event" =>
              /\ \A j \in DOMAIN Tail(F) : Runs(Tail(F), 1, j) => Tail(F)[j].key >= F[1].key
              /\ Runs(Tail(F), 1, Len(Tail(F))) => Content(fork, F[1].key) # <<>>
<1> DEFINE T == Tail(F)
           n == Len(F)
<1>1. /\ n \in Nat /\ n >= 1 /\ Len(T) = n - 1 /\ DOMAIN F = 1..n /\ DOMAIN T = 1..(n - 1)
      /\ \A j \in 1..(n - 1) : T[j] = F[j + 1]
  BY TailFacts
<1>0. \A j \in 1..n : F[j].key \in Nat
  BY <1>1, ItemKeys
<1> HIDE DEF T, n
<1>2. ASSUME NEW i \in 1..n, NEW j \in 0..(n - 1), Runs(T, i, j) PROVE Runs(F, i + 1, j + 1)
  <2> SUFFICES ASSUME NEW g \in (i + 1)..(j + 1) PROVE F[g].kind = "Event"
    BY DEF Runs
  <2>1. g - 1 \in i..j /\ g - 1 \in 1..(n - 1) /\ (g - 1) + 1 = g
    BY <1>1
  <2> QED BY <1>1, <1>2, <2>1 DEF Runs
<1>3. ASSUME NEW i \in DOMAIN T, NEW j \in DOMAIN T, i <= j, Runs(T, i, j) PROVE T[i].key <= T[j].key
  <2>1. i + 1 \in DOMAIN F /\ j + 1 \in DOMAIN F /\ i + 1 <= j + 1 /\ T[i] = F[i + 1] /\ T[j] = F[j + 1]
        /\ i \in 1..n /\ j \in 0..(n - 1)
    BY <1>1, <1>3
  <2>2. Runs(F, i + 1, j + 1)
    BY <1>2, <1>3, <2>1
  <2> QED BY <2>1, <2>2 DEF LiveSorted
<1>4. ASSUME NEW j \in DOMAIN T, Runs(T, j, Len(T)) PROVE Content(fork, T[j].key) # <<>>
  <2>1. j + 1 \in DOMAIN F /\ T[j] = F[j + 1] /\ j \in 1..n /\ n - 1 \in 0..(n - 1) /\ (n - 1) + 1 = n /\ Len(T) = n - 1
    BY <1>1
  <2>2. Runs(F, j + 1, n)
    BY <1>2, <1>4, <2>1
  <2> QED BY <2>1, <2>2 DEF OnFork, n
<1>5. ASSUME F[1].kind = "Event", NEW j \in 0..(n - 1), Runs(T, 1, j) PROVE Runs(F, 1, j + 1)
  <2>1. Runs(F, 2, j + 1)
    BY <1>1, <1>2, <1>5
  <2>2. \A g \in 1..(j + 1) : g = 1 \/ g \in 2..(j + 1)
    BY <1>1
  <2> QED BY <1>5, <2>1, <2>2 DEF Runs
<1>6. ASSUME F[1].kind = "Event", NEW j \in DOMAIN T, Runs(T, 1, j) PROVE T[j].key >= F[1].key
  <2>1. 1 \in DOMAIN F /\ j + 1 \in DOMAIN F /\ 1 <= j + 1 /\ T[j] = F[j + 1] /\ j \in 0..(n - 1)
    BY <1>1
  <2>2. F[1].key <= F[j + 1].key
    BY <1>5, <1>6, <2>1 DEF LiveSorted
  <2> QED BY <1>0, <1>1, <2>1, <2>2
<1>7. ASSUME F[1].kind = "Event", Runs(T, 1, Len(T)) PROVE Content(fork, F[1].key) # <<>>
  <2>1. 1 \in DOMAIN F /\ n - 1 \in 0..(n - 1) /\ (n - 1) + 1 = n /\ Len(T) = n - 1
    BY <1>1
  <2>2. Runs(F, 1, n)
    BY <1>5, <1>7, <2>1
  <2> QED BY <2>1, <2>2 DEF OnFork, n
<1> QED BY <1>3, <1>4, <1>6, <1>7 DEF LiveSorted, OnFork, T

(* What a live event does to what is due: its own row is crossed off, the  *)
(* rest stays due, as long as no group that has met the live source is     *)
(* rewound.                                                                *)
LEMMA TakesDue ==
  ASSUME NEW k, NEW r, WindowTakes(k, r), AllSeeded \/ ~(k < head)
  PROVE  LET x == window!Touched(window!Rewound(k), k).expected IN
         /\ k \in DOMAIN pending => x = Due(pending[k])
         /\ k \in DOMAIN pending'
         /\ Due(pending'[k]) = IF window!Contains(x, r) THEN window!RemoveOne(x, r) ELSE x
         /\ \A b \in DOMAIN pending : b # k =>
              b \in DOMAIN pending' /\ Due(pending'[b]) = Due(pending[b])
<1> DEFINE q == window!Rewound(k)
           g == window!Touched(q, k)
           w == window!WithRow(g, r)
           p == window!Put(q, k, w)
<1>1. \A c : Due(window!Converted(c)) = c.rows /\ window!Converted(c).expected = c.rows
  BY DEF Due, window!Converted
<1>2. DOMAIN q = DOMAIN pending /\ \A b \in DOMAIN pending : Due(q[b]) = Due(pending[b])
  <2>1. CASE ~(k < head)
    BY <2>1 DEF window!Rewound
  <2>2. CASE k < head
    <3>1. /\ DOMAIN q = {x \in DOMAIN pending : x < k \/ pending[x].seeded}
          /\ \A b \in DOMAIN q : q[b] = IF b < k THEN pending[b] ELSE window!Converted(pending[b])
      BY <2>2 DEF window!Rewound, window!rewind
    <3>2. AllSeeded
      BY <2>2
    <3> HIDE DEF q
    <3>3. DOMAIN q = DOMAIN pending
      BY <3>1, <3>2 DEF AllSeeded
    <3>4. ASSUME NEW b \in DOMAIN pending PROVE Due(q[b]) = Due(pending[b])
      <4>1. Due(pending[b]) = pending[b].rows
        BY <3>2 DEF AllSeeded, Due
      <4>2. q[b] = pending[b] \/ q[b] = window!Converted(pending[b])
        BY <3>1, <3>3
      <4> QED BY <1>1, <4>1, <4>2
    <3> QED BY <3>3, <3>4
  <2> QED BY <2>1, <2>2
<1> HIDE DEF q
<1>3. k \in DOMAIN pending => g.expected = Due(pending[k])
  <2> SUFFICES ASSUME k \in DOMAIN pending PROVE g.expected = Due(q[k])
    BY <1>2
  <2>1. g = IF q[k].seeded THEN window!Converted(q[k]) ELSE q[k]
    BY <1>2 DEF window!Touched
  <2> QED BY <1>1, <2>1 DEF Due
<1> HIDE DEF g
<1>4. Due(w) = IF window!Contains(g.expected, r) THEN window!RemoveOne(g.expected, r) ELSE g.expected
  BY DEF window!WithRow, Due
<1> HIDE DEF w
<1>5. DOMAIN p = DOMAIN q \cup {k} /\ p[k] = w /\ \A b \in DOMAIN q : b # k => p[b] = q[b]
  BY DEF window!Put
<1> HIDE DEF p
<1>6. pending' = p
  BY DEF WindowTakes, Buffers, p, w, g, q
<1> QED BY <1>2, <1>3, <1>4, <1>5, <1>6 DEF g, q

(* The live event about to be recorded.                                    *)
LEMMA LiveEventIs ==
  ASSUME Base, live_event
  PROVE  LiveEvents = {<<live[1].key, live[1].row>>}
<1>1. Polling /\ live # <<>> /\ Head(live).kind = "Event" /\ Head(live) = live[1]
  BY LiveNext DEF live_event
<1> QED BY <1>1 DEF LiveEvents

(* While no group that has met the live source is rewound, a live event is *)
(* never behind one.                                                       *)
LEMMA LiveNotBehind ==
  ASSUME Base, HeadInv, live_event
  PROVE  AllSeeded \/ ~(live[1].key < head)
<1>1. live[1].kind = "Event" /\ 1 \in DOMAIN live /\ live[1].key \in Nat
  BY LiveEventForms, LiveNext
<1>2. Runs(live, 1, 1)
  BY <1>1 DEF Runs
<1>3. head \in Int
  BY PositionFacts DEF Base, TypeInv, WindowType
<1> QED BY <1>1, <1>2, <1>3 DEF HeadInv

(* A live event that is owed is suppressed, if the window stays healthy.   *)
LEMMA OwedSuppressed ==
  ASSUME Base, BoundaryInv, ~retracted, live_event, healthy',
         NEW e \in owed \cap LiveEvents
  PROVE  ~window!delivered(e[1], e[2])
<1> DEFINE k == live[1].key
           r == live[1].row
<1>1. e = <<k, r>> /\ e[1] = k /\ e[2] = r
  BY LiveEventIs
<1>2. WindowTakes(k, r)
  BY LiveEventForms DEF WindowSkips, WindowHalts, windowVars
<1>3. healthy /\ r \notin Unencodable /\ ~(k <= flushed)
  BY <1>2 DEF WindowTakes
<1>4. HeadInv /\ OwedInv
  BY <1>3 DEF BoundaryInv
<1>5. AllSeeded \/ ~(k < head)
  BY <1>4, LiveNotBehind
<1>6. k \in Nat /\ flushed \in Int
  BY LiveNext, PositionFacts DEF Base, TypeInv, WindowType
<1> HIDE DEF k, r
<1>7. k \in DOMAIN pending /\ window!Contains(Due(pending[k]), r)
  BY <1>1, <1>3, <1>4, <1>6 DEF OwedInv
<1>8. window!Contains(window!Touched(window!Rewound(k), k).expected, r)
  BY <1>2, <1>5, <1>7, TakesDue
<1> QED BY <1>1, <1>3, <1>8 DEF window!delivered, window!finalized, window!encodes

(* What is owed after a live event is still due.                           *)
LEMMA LiveEventOwed ==
  ASSUME Base, BoundaryInv, ~retracted, live_event, owed' = owed \ LiveEvents, healthy'
  PROVE  HeadInv' /\ OwedInv'
<1> DEFINE k == live[1].key
           r == live[1].row
<1>1. owed' = owed \ {<<k, r>>}
  BY LiveEventIs
<1>2. WindowTakes(k, r) /\ live[1].kind = "Event" /\ r \in Row
  BY LiveEventForms DEF WindowSkips, WindowHalts, windowVars
<1>3. healthy /\ r \notin Unencodable /\ ~(k <= flushed)
  BY <1>2 DEF WindowTakes
<1>4. HeadInv /\ OwedInv /\ QueueInv
  BY <1>3 DEF BoundaryInv
<1>5. AllSeeded \/ ~(k < head)
  BY <1>4, LiveNotBehind
<1>6. /\ phase = "live" /\ live \in Seq(Item) /\ live # <<>> /\ live' = Tail(live) /\ chain' = chain
      /\ k \in Heights /\ flushed' = flushed
  BY LiveNext
<1>7. WindowType /\ HeadCovers
  BY <1>6 DEF Base, TypeInv, LiveInv
<1>8. head' = k /\ WindowType'
  <2> HIDE DEF k, r
  <2> QED BY <1>2, <1>6, <1>7, TakesEffect
<1>9. HeadInv'
  <2>1. /\ \A j \in DOMAIN Tail(live) : Runs(Tail(live), 1, j) => Tail(live)[j].key >= k
        /\ Runs(Tail(live), 1, Len(Tail(live))) => Content(chain, k) # <<>>
    BY <1>2, <1>4, <1>6, TailQueue DEF QueueInv
  <2>2. /\ \A j \in DOMAIN live' : Runs(live', 1, j) => live'[j].key >= head'
        /\ Runs(live', 1, Len(live')) => head' \in Heights /\ Content(chain', head') # <<>>
    BY <1>6, <1>8, <2>1
  <2> QED BY <2>2 DEF HeadInv
<1>10. OwedInv'
  <2> HIDE DEF k, r
  <2> SUFFICES ASSUME NEW e \in owed, e # <<k, r>>, e[1] > flushed
               PROVE  e[1] \in DOMAIN pending' /\ window!Contains(Due(pending'[e[1]]), e[2])
    BY <1>1, <1>6 DEF OwedInv
  <2>1. e[1] \in DOMAIN pending /\ window!Contains(Due(pending[e[1]]), e[2])
    BY <1>4 DEF OwedInv
  <2>2. e[1] \in Heights /\ e[2] \in Row /\ e = <<e[1], e[2]>>
    BY DEF BoundaryInv
  <2>3. CASE e[1] # k
    <3>1. e[1] \in DOMAIN pending' /\ Due(pending'[e[1]]) = Due(pending[e[1]])
      BY <1>2, <1>5, <2>1, <2>3, TakesDue
    <3> QED BY <2>1, <3>1
  <2>4. CASE e[1] = k
    <3> DEFINE x == Due(pending[k])
    <3>1. k \in DOMAIN pending' /\ Due(pending'[k]) = IF window!Contains(x, r) THEN window!RemoveOne(x, r) ELSE x
      BY <1>2, <1>5, <2>1, <2>4, TakesDue
    <3>2. e[2] # r
      BY <2>2, <2>4
    <3>3. x \in Seq(Row)
      BY <1>7, <2>1, <2>4, GroupFields DEF WindowType, Groups, Due
    <3> HIDE DEF x
    <3>4. window!Contains(x, e[2])
      BY <2>1, <2>4 DEF x
    <3>5. window!Contains(Due(pending'[k]), e[2])
      BY <1>2, <3>1, <3>2, <3>3, <3>4, RemoveOneKeeps
    <3> QED BY <2>4, <3>1, <3>5
  <2> QED BY <2>3, <2>4
<1> QED BY <1>9, <1>10

(* A window before the live tail has not met the live source.              *)
LEMMA FillsSeeded ==
  ASSUME Base, phase # "live"
  PROVE  AllSeeded
<1>1. phase \in Phases
  BY DEF Base, TypeInv, StreamType
<1>2. CASE Filling
  BY <1>2 DEF Base, FillWindow, AllSeeded
<1>3. CASE ~Filling
  <2>1. pending = window!NoGroups
    BY <1>1, <1>3 DEF Base, Fresh, Filling, Phases
  <2> QED BY <2>1, NoGroupsFacts DEF AllSeeded
<1> QED BY <1>2, <1>3

(* Nor has it after a step to such a phase.                                *)
LEMMA FillsSeededNext ==
  ASSUME Base', phase' # "live"
  PROVE  AllSeeded'
<1>1. (phase \in Phases)'
  BY DEF Base, TypeInv, StreamType
<1>2. CASE Filling'
  BY <1>2 DEF Base, FillWindow, AllSeeded
<1>3. CASE ~Filling'
  <2>1. pending' = window!NoGroups
    BY <1>1, <1>3 DEF Base, Fresh, Filling, Phases
  <2> QED BY <2>1, NoGroupsFacts DEF AllSeeded
<1> QED BY <1>2, <1>3

(* The backfill tail owes what it seeds.                                   *)
LEMMA PollOwed ==
  ASSUME Base, BoundaryInv, ~retracted, poll_backfill, owed' = owed \cup TailEvents, healthy'
  PROVE  HeadInv' /\ OwedInv' /\ owed' \subseteq Heights \X Row
<1> DEFINE k == fetched[1].key
           r == fetched[1].row
<1>1. /\ phase = "backfill" /\ phase' = phase /\ parts = <<>> /\ fetched # <<>> /\ Head(fetched) = fetched[1]
      /\ k \in Heights /\ r \in Row
  BY NextFetched
<1>2. HeadInv'
  <2>1. Base' /\ phase' # "live"
    BY <1>1, PollBase
  <2>2. AllSeeded'
    BY <2>1, FillsSeededNext
  <2> QED BY <2>2 DEF HeadInv
<1>3. TailEvents = IF k > final_cut THEN {<<k, r>>} ELSE {}
  BY <1>1 DEF TailEvents
<1>4. final_cut \in Int /\ k \in Nat /\ WindowType /\ owed \subseteq Heights \X Row
  BY <1>1, CutFacts, PositionFacts DEF Base, TypeInv, StreamType, WindowType, TipInv, BoundaryInv
<1>5. owed' \subseteq Heights \X Row
  BY <1>1, <1>3, <1>4
<1>6. CASE k <= final_cut
  <2>1. UNCHANGED windowVars
    BY <1>1, <1>6 DEF poll_backfill
  <2>2. owed' = owed
    BY <1>3, <1>4, <1>6
  <2>3. UNCHANGED <<healthy, pending, flushed>>
    BY <2>1 DEF windowVars
  <2> QED BY <1>2, <1>5, <2>2, <2>3 DEF BoundaryInv, OwedInv
<1>7. CASE ~(k <= final_cut)
  <2>1. window!record_seeded(k, r)
    BY <1>1, <1>7 DEF poll_backfill
  <2>2. WindowSeeds(k, r)
    BY <2>1, WindowSeedsRecords DEF WindowSkips, WindowHalts, windowVars
  <2>3. healthy
    BY <2>2 DEF WindowSeeds
  <2>4. owed' = owed \cup {<<k, r>>}
    BY <1>3, <1>4, <1>7
  <2>5. AllSeeded /\ OwedInv
    BY <1>1, <2>3, FillsSeeded DEF BoundaryInv
  <2> HIDE DEF k, r
  <2>6. /\ WindowType'
        /\ DOMAIN pending' = DOMAIN pending \cup {k}
        /\ \A b \in DOMAIN pending : b # k => pending'[b] = pending[b]
        /\ pending'[k].rows = Append(PRows(k), r)
        /\ k \in DOMAIN pending => pending'[k].seeded = pending[k].seeded
        /\ k \notin DOMAIN pending => pending'[k].seeded
        /\ flushed' = flushed
    BY <1>1, <1>4, <2>2, SeedsEffect
  <2>7. Due(pending'[k]) = Append(PRows(k), r)
    BY <2>5, <2>6 DEF AllSeeded, Due
  <2>8. PRows(k) \in Seq(Row)
    BY <1>4, GroupFields, EmptyIsSeq DEF PRows, WindowType, Groups
  <2>9. \A q : (q = r \/ window!Contains(PRows(k), q)) => window!Contains(Append(PRows(k), r), q)
    <3> DEFINE s == PRows(k)
               z == Append(s, r)
    <3>1. s \in Seq(Row)
      BY <2>8
    <3> HIDE DEF s
    <3>2. /\ Len(s) \in Nat /\ DOMAIN s = 1..Len(s) /\ DOMAIN z = 1..(Len(s) + 1)
          /\ z[Len(s) + 1] = r /\ \A j \in 1..Len(s) : z[j] = s[j]
      BY <1>1, <3>1
    <3> HIDE DEF z
    <3>3. \A q : (q = r \/ window!Contains(s, q)) => window!Contains(z, q)
      BY <3>2 DEF window!Contains
    <3> QED BY <3>3 DEF s, z
  <2>10. OwedInv'
    <3> SUFFICES ASSUME NEW e \in owed \cup {<<k, r>>}, e[1] > flushed
                 PROVE  e[1] \in DOMAIN pending' /\ window!Contains(Due(pending'[e[1]]), e[2])
      BY <2>4, <2>6 DEF OwedInv
    <3>1. CASE e = <<k, r>>
      <4>1. e[1] = k /\ e[2] = r
        BY <3>1
      <4> QED BY <2>6, <2>7, <2>9, <4>1
    <3>2. CASE e \in owed
      <4>1. e[1] \in DOMAIN pending /\ window!Contains(Due(pending[e[1]]), e[2])
        BY <2>5, <3>2 DEF OwedInv
      <4>2. CASE e[1] = k
        <5>1. Due(pending[k]) = PRows(k)
          BY <2>5, <4>1, <4>2 DEF AllSeeded, Due, PRows
        <5> QED BY <2>6, <2>7, <2>9, <4>1, <4>2, <5>1
      <4>3. CASE e[1] # k
        BY <2>6, <4>1, <4>3
      <4> QED BY <4>2, <4>3
    <3> QED BY <3>1, <3>2
  <2> QED BY <1>2, <1>5, <2>10
<1> QED BY <1>6, <1>7

(* The end of the backfill leaves everything due.                          *)
LEMMA FinishOwed ==
  ASSUME Base, BoundaryInv, ~retracted, finish_backfill, owed' = owed, healthy'
  PROVE  HeadInv' /\ OwedInv'
<1>1. /\ phase = "backfill" /\ phase' = "live" /\ flushed' = flushed
      /\ settling' => pending' = pending /\ healthy' = healthy
      /\ ~settling' => healthy' = FALSE
  BY FinishForms
<1>2. pending' = pending /\ healthy
  BY <1>1
<1>3. AllSeeded
  BY <1>1, FillsSeeded
<1> QED BY <1>1, <1>2, <1>3 DEF BoundaryInv, HeadInv, AllSeeded, OwedInv

(* A flush takes only what it moves the watermark over.                    *)
LEMMA FlushOwed ==
  ASSUME Base, BoundaryInv, ~retracted, flush_matured, owed' = owed, healthy'
  PROVE  HeadInv' /\ OwedInv'
<1>1. healthy /\ live' = live /\ chain' = chain
  BY FlushForms
<1>2. PICK k \in Heights :
        /\ k > flushed /\ head' = head /\ flushed' = k
        /\ DOMAIN pending' = DOMAIN pending \ {k}
        /\ \A b \in DOMAIN pending' : pending'[b] = pending[b]
  BY FlushForms
<1>3. HeadInv /\ OwedInv /\ owed \subseteq Heights \X Row
  BY <1>1 DEF BoundaryInv
<1>4. AllSeeded => AllSeeded'
  BY <1>2 DEF AllSeeded
<1>5. HeadInv'
  BY <1>1, <1>2, <1>3, <1>4 DEF HeadInv
<1>6. flushed \in Int /\ k \in Nat
  BY PositionFacts DEF Base, TypeInv, WindowType
<1>7. ASSUME NEW e \in owed, e[1] > k
      PROVE  e[1] \in DOMAIN pending' /\ window!Contains(Due(pending'[e[1]]), e[2])
  <2>1. e[1] \in Nat
    BY <1>3, PositionFacts
  <2>2. e[1] > flushed /\ e[1] # k
    BY <1>2, <1>6, <1>7, <2>1
  <2>3. e[1] \in DOMAIN pending /\ window!Contains(Due(pending[e[1]]), e[2])
    BY <1>3, <2>2 DEF OwedInv
  <2> QED BY <1>2, <2>2, <2>3
<1> QED BY <1>2, <1>5, <1>7 DEF OwedInv

(* The order of the live source is preserved by every step.                *)
LEMMA NextQueue ==
  ASSUME Base, QueueInv, [Next]_vars
  PROVE  QueueInv'
<1>1. CASE Source
  BY <1>1, SourceQueue
<1>2. CASE subscribe_live \/ Ends
  BY <1>2, DropsLive, NoLive DEF QueueInv, LiveSorted, OnFork
<1>3. CASE Still
  BY <1>3, StillSource DEF QueueInv
<1>4. CASE live_event \/ live_retract
  <2>1. live # <<>> /\ live \in Seq(Item) /\ live' = Tail(live) /\ chain' = chain
    BY <1>4, LiveNext
  <2> QED BY <2>1, TailQueue DEF QueueInv
<1>5. CASE UNCHANGED vars
  BY <1>5 DEF QueueInv, vars, sourceVars
<1> QED BY <1>1, <1>2, <1>3, <1>4, <1>5, NextKinds

(* The steps that leave what is owed alone.                                *)
BoundaryQuiet ==
  /\ \/ Source \/ subscribe_live \/ read_tip \/ open_segments \/ query_first_part
     \/ poll_replay
     \/ query_next \/ finish_backfill \/ flush_matured
  /\ UNCHANGED <<owed, retracted>>

(* The steps of the boundary specification.                                *)
LEMMA BoundarySteps ==
  ASSUME BoundaryNext
  PROVE  /\ Next
         /\ \/ poll_backfill /\ owed' = owed \cup TailEvents /\ retracted' = retracted
            \/ live_event /\ owed' = owed \ LiveEvents /\ retracted' = retracted
            \/ live_retract /\ retracted' = TRUE /\ owed' = owed
            \/ BoundaryQuiet
            \/ Ends /\ owed' = {} /\ retracted' = FALSE
BY DEF BoundaryNext, Next, Stream, Ends, BoundaryQuiet

(* Steps of the subscription, before the first poll.                       *)
LEMMA EarlyOwed ==
  ASSUME Base, Base', BoundaryInv, owed' = owed,
         subscribe_live \/ read_tip \/ open_segments \/ query_first_part \/ poll_replay
  PROVE  owed' = {} /\ HeadInv' /\ OwedInv'
<1>1. phase \in {"idle", "attached", "tip", "split", "ready"} /\ phase' # "live"
  BY DEF subscribe_live, read_tip, open_segments, query_first_part, poll_replay
<1>2. owed' = {}
  BY <1>1 DEF BoundaryInv
<1>3. AllSeeded'
  BY <1>1, FillsSeededNext
<1> QED BY <1>2, <1>3 DEF HeadInv, OwedInv

(* BoundaryInv is preserved by every step.                                 *)
LEMMA NextBoundary ==
  ASSUME Base, BoundaryInv, BoundaryNext
  PROVE  BoundaryInv'
<1>1. Next /\ Base'
  BY BoundarySteps, NextBase
<1>2. QueueInv'
  BY <1>1, NextQueue DEF BoundaryInv
<1>3. CASE Ends /\ owed' = {} /\ retracted' = FALSE
  <2>1. phase' = "idle"
    BY <1>3, EndsForms DEF Closed
  <2>2. AllSeeded'
    BY <1>1, <2>1, FillsSeededNext
  <2> QED BY <1>2, <1>3, <2>2 DEF BoundaryInv, HeadInv, OwedInv
<1>4. CASE poll_backfill /\ owed' = owed \cup TailEvents /\ retracted' = retracted
  <2>1. phase' = "backfill"
    BY <1>4, NextFetched
  <2>2. owed' \subseteq Heights \X Row
    <3>1. fetched[1].key \in Heights /\ fetched[1].row \in Row /\ Head(fetched) = fetched[1]
      BY <1>4, NextFetched
    <3>2. TailEvents \subseteq Heights \X Row
      BY <3>1 DEF TailEvents
    <3> QED BY <1>4, <3>2 DEF BoundaryInv
  <2>3. healthy' /\ ~retracted' => HeadInv' /\ OwedInv'
    BY <1>4, PollOwed
  <2> QED BY <1>2, <2>1, <2>2, <2>3 DEF BoundaryInv
<1>5. CASE live_event /\ owed' = owed \ LiveEvents /\ retracted' = retracted
  <2>1. phase' = "live"
    BY <1>5, LiveNext
  <2>2. healthy' /\ ~retracted' => HeadInv' /\ OwedInv'
    BY <1>5, LiveEventOwed
  <2> QED BY <1>2, <1>5, <2>1, <2>2 DEF BoundaryInv
<1>6. CASE live_retract /\ retracted' = TRUE /\ owed' = owed
  <2>1. phase' = "live"
    BY <1>6, LiveNext
  <2> QED BY <1>2, <1>6, <2>1 DEF BoundaryInv
<1>7. CASE BoundaryQuiet
  <2>0. owed' = owed /\ retracted' = retracted
    BY <1>7 DEF BoundaryQuiet
  <2>1. CASE Source
    <3>1. UNCHANGED <<healthy, pending, head, flushed, phase>>
      BY <2>1, SourceMoves DEF windowVars
    <3>2. HeadInv => HeadInv'
      BY <2>1, SourceHead
    <3>3. OwedInv => OwedInv'
      BY <2>0, <3>1 DEF OwedInv
    <3> QED BY <1>2, <2>0, <3>1, <3>2, <3>3 DEF BoundaryInv
  <2>2. CASE subscribe_live \/ read_tip \/ open_segments \/ query_first_part \/ poll_replay
    BY <1>1, <1>2, <2>0, <2>2, EarlyOwed DEF BoundaryInv
  <2>3. CASE query_next
    <3>1. UNCHANGED <<healthy, pending, head, flushed, phase>> /\ phase = "backfill"
      BY <2>3 DEF query_next, windowVars
    <3>2. AllSeeded'
      BY <1>1, <3>1, FillsSeededNext
    <3>3. OwedInv => OwedInv'
      BY <2>0, <3>1 DEF OwedInv
    <3> QED BY <1>2, <2>0, <3>1, <3>2, <3>3 DEF BoundaryInv, HeadInv
  <2>4. CASE finish_backfill
    <3>1. phase' = "live"
      BY <2>4, FinishForms
    <3>2. healthy' /\ ~retracted' => HeadInv' /\ OwedInv'
      BY <2>0, <2>4, FinishOwed
    <3> QED BY <1>2, <2>0, <3>1, <3>2 DEF BoundaryInv
  <2>5. CASE flush_matured
    <3>1. phase' = "live"
      BY <2>5, FlushForms
    <3>2. healthy' /\ ~retracted' => HeadInv' /\ OwedInv'
      BY <2>0, <2>5, FlushOwed
    <3> QED BY <1>2, <2>0, <3>1, <3>2 DEF BoundaryInv
  <2> QED BY <1>7, <2>1, <2>2, <2>3, <2>4, <2>5 DEF BoundaryQuiet
<1> QED BY <1>3, <1>4, <1>5, <1>6, <1>7, BoundarySteps

(* BoundaryInv is preserved by stuttering.                                 *)
LEMMA StutterBoundary ==
  ASSUME Base, BoundaryInv, UNCHANGED boundaryVars
  PROVE  BoundaryInv'
<1>1. UNCHANGED vars /\ owed' = owed /\ retracted' = retracted
  BY DEF boundaryVars
<1>2. UNCHANGED <<chain, live, healthy, pending, head, flushed, phase>>
  BY <1>1 DEF vars, sourceVars, windowVars
<1>3. (HeadInv => HeadInv') /\ (OwedInv => OwedInv')
  BY <1>1, <1>2 DEF HeadInv, AllSeeded, OwedInv
<1>4. QueueInv'
  BY <1>1, NextQueue DEF BoundaryInv
<1> QED BY <1>1, <1>2, <1>3, <1>4 DEF BoundaryInv

(* Only live_event takes an event of the live source.                      *)
LEMMA TakesIsLive ==
  ASSUME Base, [BoundaryNext]_boundaryVars, LiveEvents # {}, attached', live' = Tail(live)
  PROVE  live_event
<1>1. phase = "live" /\ maturing = {} /\ ~poison /\ live # <<>> /\ Head(live).kind = "Event"
  BY DEF LiveEvents, Polling
<1>2. live \in Seq(Item)
  BY DEF Base, TypeInv, ChainTypeOK
<1>3. Len(live) \in Nat /\ Len(Tail(live)) = Len(live) - 1 /\ Len(live) >= 1
  BY <1>1, <1>2, TailFacts
<1>4. live' # live
  BY <1>3
<1>5. ~(UNCHANGED boundaryVars)
  BY <1>4 DEF boundaryVars, vars, sourceVars
<1>6. ~Still
  BY <1>4, StillSource
<1>7. ~Ends
  BY EndsForms DEF Closed, detach
<1>8. ~subscribe_live
  BY <1>1 DEF subscribe_live
<1>9. ~live_retract
  BY <1>1 DEF live_retract
<1>10. ~Source
  <2> SUFFICES ASSUME Source PROVE FALSE
    OBVIOUS
  <2>1. PICK from, R, A : Moves(from, R, A)
    BY SourceMoves
  <2>2. attached
    BY <2>1 DEF Moves
  <2>3. Len(live') = Len(live) + Len(R) + Len(A) /\ Len(R) \in Nat /\ Len(A) \in Nat
    BY <2>1, <2>2, MovedLive DEF Base, TypeInv
  <2> QED BY <1>3, <2>3
<1> QED BY <1>5, <1>6, <1>7, <1>8, <1>9, <1>10, BoundarySteps, NextKinds

(* OverlapDeliveredOnce: for every chain, depth, start block and chunk     *)
(* size, with failing queries and writes and reorgs of any depth, what the *)
(* backfill tail and the live tail both carry is delivered once, in a      *)
(* subscription without retractions, as long as the window does not halt.  *)
THEOREM OverlapIsDeliveredOnce == BoundarySpec => OverlapDeliveredOnce
<1>1. BoundaryInit => Base /\ BoundaryInv
  <2> SUFFICES ASSUME BoundaryInit PROVE Base /\ BoundaryInv
    OBVIOUS
  <2>1. Init /\ owed = {} /\ retracted = FALSE
    BY DEF BoundaryInit
  <2>2. live = <<>> /\ phase = "idle" /\ Base
    BY <2>1, InitBase DEF Init, SourceInit
  <2>3. QueueInv
    BY <2>2, NoLive DEF QueueInv, LiveSorted, OnFork
  <2>4. AllSeeded
    BY <2>2, FillsSeeded
  <2> QED BY <2>1, <2>2, <2>3, <2>4 DEF BoundaryInv, HeadInv, OwedInv
<1>2. Base /\ BoundaryInv /\ [BoundaryNext]_boundaryVars => Base' /\ BoundaryInv'
  <2> SUFFICES ASSUME Base, BoundaryInv, [BoundaryNext]_boundaryVars PROVE Base' /\ BoundaryInv'
    OBVIOUS
  <2>1. CASE BoundaryNext
    BY <2>1, BoundarySteps, NextBase, NextBoundary
  <2>2. CASE UNCHANGED boundaryVars
    <3>1. UNCHANGED vars
      BY <2>2 DEF boundaryVars
    <3> QED BY <2>2, <3>1, StutterBase, StutterBoundary
  <2> QED BY <2>1, <2>2
<1>3. Base /\ BoundaryInv /\ [BoundaryNext]_boundaryVars => [~retracted => Suppressed]_boundaryVars
  <2> SUFFICES ASSUME Base, BoundaryInv, [BoundaryNext]_boundaryVars, ~retracted,
                      NEW e \in owed \cap LiveEvents, attached', live' = Tail(live), healthy'
               PROVE  ~window!delivered(e[1], e[2])
    BY DEF Suppressed
  <2>1. live_event
    BY TakesIsLive
  <2> QED BY <2>1, OwedSuppressed
<1> QED BY <1>1, <1>2, <1>3, PTL DEF BoundarySpec, OverlapDeliveredOnce
=============================================================================
