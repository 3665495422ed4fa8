--------------------------- MODULE FeedbackProofs ---------------------------
(***************************************************************************)
(* What the sources, the composites over them and the feedback loop keep,  *)
(* for any items, trades, capacities and number of faults.                 *)
(***************************************************************************)
EXTENDS Feedback, FiniteSetTheorems, SequenceTheorems, TLAPS

(* Nothing is in q twice.                                                  *)
Once(q) == \A i, j \in DOMAIN q : q[i] = q[j] => i = j

Entries == [hash : Hashes, failures : Nat]

SourcesTypeOK ==
  /\ composition \in {"chain", "merge", "fallback"}
  /\ kind \in [Two -> {"block", "log", "mempool"}]
  /\ opening \in {1, 2, 3}
  /\ mode \in [Two -> {"closed", "pubsub", "poll", "ended"}]
  /\ avail \in [Two -> Seq(Hashes)]
  /\ pending \in [Two -> Seq(Entries)]
  /\ ready \in [Two -> Seq(Hashes)]
  /\ lookups \in [Two -> SUBSET Hashes]
  /\ fate \in [Two -> [Hashes -> {"none", "sent"}]]
  /\ tries \in [Two -> [Hashes -> Nat]]

(* One source: every place holds an item once, no two places hold the      *)
(* same, what is owed is what is somewhere, and the retry queue counts     *)
(* every failed fetch.                                                     *)
Placed(a, p, r, l, f, t) ==
  /\ Once(a) /\ Once(HashesOf(p)) /\ Once(r)
  /\ Elements(a) \cap Elements(HashesOf(p)) = {}
  /\ Elements(a) \cap Elements(r) = {}
  /\ Elements(a) \cap l = {}
  /\ Elements(HashesOf(p)) \cap Elements(r) = {}
  /\ Elements(HashesOf(p)) \cap l = {}
  /\ Elements(r) \cap l = {}
  /\ \A h \in Hashes :
       /\ (f[h] = "sent") <=>
            (h \in Elements(a) \cup Elements(HashesOf(p)) \cup Elements(r) \cup l)
       /\ t[h] = failures(p, h)

Sound(a, p, r, l, f, t) ==
  /\ a \in Seq(Hashes) /\ p \in Seq(Entries) /\ r \in Seq(Hashes) /\ l \in SUBSET Hashes
  /\ f \in [Hashes -> {"none", "sent"}] /\ t \in [Hashes -> Nat]
  /\ Placed(a, p, r, l, f, t)

AllPlaced ==
  \A s \in Two : Placed(avail[s], pending[s], ready[s], lookups[s], fate[s], tries[s])

(* How far the composite has got with its subscribes, by its kind.         *)
Opened ==
  /\ opening = 1 => mode[1] = "closed"
  /\ opening # Up => mode[2] = "closed"
  /\ composition # "fallback" => (opening # 1 => mode[1] # "closed")
  /\ composition # "fallback" => (opening = Up => mode[2] # "closed")
  /\ composition = "fallback" => (opening = 2 => mode[1] = "closed")
  /\ composition = "fallback" => (mode[1] = "closed" \/ mode[2] = "closed")

SourcesInv == SourcesTypeOK /\ AllPlaced /\ Opened

(* Cooldown's stamp is the time of the last action, and no batch starts    *)
(* while it cools.                                                         *)
Spaced ==
  /\ last_fired \in 0..Duration /\ since = last_fired
  /\ batch \in Seq(Allowed)
  /\ CooldownSpacing

-----------------------------------------------------------------------------
(* Sequences.                                                              *)

(* Ascending lists a finite set of numbers, each of them once.             *)
LEMMA AscendingIs ==
  ASSUME NEW I, I \subseteq Nat, IsFiniteSet(I)
  PROVE  /\ Cardinality(I) \in Nat
         /\ Ascending(I) \in [1..Cardinality(I) -> I]
         /\ \A m, n \in 1..Cardinality(I) : Ascending(I)[m] = Ascending(I)[n] => m = n
         /\ \A i \in I : \E n \in 1..Cardinality(I) : Ascending(I)[n] = i
<1> DEFINE below(i) == {j \in I : j <= i}
           c == Cardinality(I)
           rank == [i \in I |-> Cardinality(below(i))]
<1>1. c \in Nat
  BY FS_CardinalityType
<1>2. ASSUME NEW i \in I
      PROVE  /\ IsFiniteSet(below(i)) /\ Cardinality(below(i)) \in 1..c
  <2>1. below(i) \in SUBSET I /\ below(i) # {}
    BY DEF below
  <2> HIDE DEF below
  <2>2. IsFiniteSet(below(i)) /\ Cardinality(below(i)) <= c
    BY <2>1, FS_Subset
  <2>3. Cardinality(below(i)) \in Nat /\ Cardinality(below(i)) # 0
    BY <2>1, <2>2, FS_EmptySet, FS_CardinalityType
  <2> QED BY <1>1, <2>2, <2>3
<1>3. ASSUME NEW i \in I, NEW k \in I, i < k
      PROVE  Cardinality(below(i)) # Cardinality(below(k))
  <2>0. i \in Nat /\ k \in Nat /\ \A j \in I : j \in Nat
    OBVIOUS
  <2>1. below(i) \in SUBSET below(k) /\ k \in below(k) /\ k \notin below(i)
    <3>1. \A j \in I : j <= i => j <= k
      BY <1>3, <2>0
    <3>2. below(i) \subseteq below(k)
      BY <3>1
    <3> QED BY <1>3, <2>0, <3>2
  <2>2. IsFiniteSet(below(k))
    BY <1>2
  <2> HIDE DEF below
  <2> QED BY <2>1, <2>2, FS_Subset
<1>4. rank \in Injection(I, 1..c)
  <2>1. rank \in [I -> 1..c]
    BY <1>2
  <2>2. ASSUME NEW i \in I, NEW k \in I, rank[i] = rank[k] PROVE i = k
    <3>1. i \in Nat /\ k \in Nat /\ Cardinality(below(i)) = Cardinality(below(k))
      BY <2>2
    <3> HIDE DEF below
    <3> QED BY <3>1, <1>3
  <2> QED BY <2>1, <2>2 DEF Injection, IsInjective
<1>5. IsFiniteSet(1..c) /\ Cardinality(1..c) = c
  BY <1>1, FS_Interval
<1>6. rank \in Surjection(I, 1..c)
  <2> HIDE DEF rank, c
  <2>1. Cardinality(I) = Cardinality(1..c)
    BY <1>5 DEF c
  <2> QED BY <1>4, <1>5, <2>1, FS_Injection
<1>7. ASSUME NEW n \in 1..c
      PROVE  Ascending(I)[n] \in I /\ rank[Ascending(I)[n]] = n
  <2>1. \E i \in I : Cardinality({j \in I : j <= i}) = n
    BY <1>6 DEF Surjection
  <2>2. Ascending(I)[n] = CHOOSE i \in I : Cardinality({j \in I : j <= i}) = n
    BY DEF Ascending
  <2> QED BY <2>1, <2>2
<1>8. ASSUME NEW i \in I PROVE \E n \in 1..c : Ascending(I)[n] = i
  <2>1. rank[i] \in 1..c
    BY <1>4 DEF Injection
  <2>2. Ascending(I)[rank[i]] \in I /\ rank[Ascending(I)[rank[i]]] = rank[i]
    BY <1>7, <2>1
  <2>3. Ascending(I)[rank[i]] = i
    <3> HIDE DEF rank
    <3> QED BY <2>2, <1>4 DEF Injection, IsInjective
  <2> QED BY <2>1, <2>3
<1>9. Ascending(I) \in [1..c -> I]
  BY <1>7 DEF Ascending
<1> QED
  BY <1>1, <1>7, <1>8, <1>9

(* Kept has the elements at the positions I and no others, and a sequence  *)
(* without repetition keeps none twice.                                    *)
LEMMA KeptIs ==
  ASSUME NEW S, NEW q \in Seq(S), NEW I \in SUBSET DOMAIN q
  PROVE  /\ Kept(q, I) \in Seq(S)
         /\ \A x : x \in Elements(Kept(q, I)) <=> \E i \in I : x = q[i]
         /\ Once(q) => Once(Kept(q, I))
         /\ \E f \in [DOMAIN Kept(q, I) -> I] :
              \A n \in DOMAIN Kept(q, I) : Kept(q, I)[n] = q[f[n]]
<1> DEFINE c == Cardinality(I)  a == Ascending(I)
<1>1. Len(q) \in Nat /\ DOMAIN q = 1..Len(q) /\ q \in [1..Len(q) -> S]
  BY LenProperties
<1>2. I \subseteq Nat /\ IsFiniteSet(I)
  <2>1. IsFiniteSet(1..Len(q)) /\ I \in SUBSET (1..Len(q))
    BY <1>1, FS_Interval
  <2> QED BY <2>1, FS_Subset
<1>3. /\ c \in Nat /\ a \in [1..c -> I]
      /\ \A m, n \in 1..c : a[m] = a[n] => m = n
      /\ \A i \in I : \E n \in 1..c : a[n] = i
  BY <1>2, AscendingIs
<1>4. Kept(q, I) = [n \in 1..c |-> q[a[n]]]
  BY DEF Kept
<1> HIDE DEF c, a
<1>5. \A n \in 1..c : q[a[n]] \in S /\ a[n] \in DOMAIN q
  BY <1>1, <1>3
<1>6. Kept(q, I) \in Seq(S) /\ DOMAIN Kept(q, I) = 1..c
  BY <1>3, <1>4, <1>5
<1>7. \A x : x \in Elements(Kept(q, I)) <=> \E i \in I : x = q[i]
  <2>1. \A n \in 1..c : Kept(q, I)[n] = q[a[n]] /\ a[n] \in I
    BY <1>3, <1>4
  <2>2. \A x : x \in Elements(Kept(q, I)) => \E i \in I : x = q[i]
    BY <1>6, <2>1 DEF Elements
  <2>3. ASSUME NEW i \in I PROVE q[i] \in Elements(Kept(q, I))
    <3>1. PICK n \in 1..c : a[n] = i
      BY <1>3
    <3> QED BY <1>6, <2>1, <3>1 DEF Elements
  <2> QED BY <2>2, <2>3
<1>8. Once(q) => Once(Kept(q, I))
  BY <1>3, <1>4, <1>5, <1>6 DEF Once
<1>9. \E f \in [1..c -> I] : \A n \in 1..c : Kept(q, I)[n] = q[f[n]]
  BY <1>3, <1>4
<1> QED
  BY <1>6, <1>7, <1>8, <1>9

LEMMA NoElements ==
  Elements(<<>>) = {} /\ Once(<<>>) /\ Elements(HashesOf(<<>>)) = {} /\ Once(HashesOf(<<>>))
BY DEF Elements, Once, HashesOf

(* Adding at the end, and taking from the front.                           *)
LEMMA AppendIs ==
  ASSUME NEW S, NEW q \in Seq(S), NEW e \in S
  PROVE  /\ Append(q, e) \in Seq(S)
         /\ Elements(Append(q, e)) = Elements(q) \cup {e}
         /\ Once(q) /\ e \notin Elements(q) => Once(Append(q, e))
<1>1. /\ Append(q, e) \in Seq(S) /\ Len(Append(q, e)) = Len(q) + 1
      /\ \A i \in 1..Len(q) : Append(q, e)[i] = q[i]
      /\ Append(q, e)[Len(q) + 1] = e
  BY AppendProperties
<1>2. /\ Len(q) \in Nat /\ DOMAIN q = 1..Len(q)
      /\ DOMAIN Append(q, e) = 1..(Len(q) + 1)
  BY <1>1, LenProperties
<1>3. DOMAIN Append(q, e) = DOMAIN q \cup {Len(q) + 1} /\ Len(q) + 1 \notin DOMAIN q
  BY <1>2
<1>4. Elements(Append(q, e)) = Elements(q) \cup {e}
  BY <1>1, <1>2, <1>3 DEF Elements
<1>5. ASSUME Once(q), e \notin Elements(q) PROVE Once(Append(q, e))
  BY <1>1, <1>2, <1>3, <1>5 DEF Once, Elements
<1> QED BY <1>1, <1>4, <1>5

LEMMA TailIs ==
  ASSUME NEW S, NEW q \in Seq(S), q # <<>>
  PROVE  /\ Head(q) \in S /\ Head(q) \in Elements(q)
         /\ Tail(q) \in Seq(S)
         /\ Elements(Tail(q)) \subseteq Elements(q)
         /\ Once(q) => /\ Elements(Tail(q)) = Elements(q) \ {Head(q)}
                       /\ Once(Tail(q))
<1>1. /\ Head(q) \in S /\ Tail(q) \in Seq(S) /\ Len(Tail(q)) = Len(q) - 1
      /\ \A i \in 1..Len(Tail(q)) : Tail(q)[i] = q[i + 1]
  BY HeadTailProperties
<1>2. /\ Len(q) \in Nat \ {0} /\ DOMAIN q = 1..Len(q) /\ DOMAIN Tail(q) = 1..(Len(q) - 1)
      /\ Head(q) = q[1]
  BY <1>1, LenProperties, EmptySeq
<1>3. \A i \in DOMAIN Tail(q) : i + 1 \in DOMAIN q /\ i + 1 # 1 /\ Tail(q)[i] = q[i + 1]
  BY <1>1, <1>2
<1>4. \A i \in DOMAIN q : i # 1 => i - 1 \in DOMAIN Tail(q) /\ Tail(q)[i - 1] = q[i]
  BY <1>1, <1>2
<1>5. Head(q) \in Elements(q) /\ Elements(Tail(q)) \subseteq Elements(q)
  BY <1>2, <1>3 DEF Elements
<1>6. ASSUME Once(q) PROVE Elements(Tail(q)) = Elements(q) \ {Head(q)}
  <2>1. ASSUME NEW x \in Elements(Tail(q)) PROVE x # Head(q)
    <3>1. PICK i \in DOMAIN Tail(q) : x = Tail(q)[i]
      BY DEF Elements
    <3>2. i + 1 \in DOMAIN q /\ i + 1 # 1 /\ x = q[i + 1] /\ 1 \in DOMAIN q
      BY <1>2, <1>3, <3>1
    <3> QED BY <1>2, <1>6, <3>2 DEF Once
  <2>2. ASSUME NEW x \in Elements(q), x # Head(q) PROVE x \in Elements(Tail(q))
    <3>1. PICK i \in DOMAIN q : x = q[i]
      BY DEF Elements
    <3>2. i # 1
      BY <1>2, <2>2, <3>1
    <3> QED BY <1>4, <3>1, <3>2 DEF Elements
  <2> QED BY <1>5, <2>1, <2>2
<1>7. ASSUME Once(q) PROVE Once(Tail(q))
  <2>1. ASSUME NEW i \in DOMAIN Tail(q), NEW j \in DOMAIN Tail(q), Tail(q)[i] = Tail(q)[j]
        PROVE  i = j
    <3>1. i \in Nat /\ j \in Nat /\ i + 1 \in DOMAIN q /\ j + 1 \in DOMAIN q
          /\ q[i + 1] = q[j + 1]
      BY <1>2, <1>3, <2>1
    <3>2. i + 1 = j + 1
      BY <1>7, <3>1 DEF Once
    <3> QED BY <3>1, <3>2
  <2> QED BY <2>1 DEF Once
<1> QED BY <1>1, <1>5, <1>6, <1>7

(* Two sequences that share nothing, one after the other.                  *)
LEMMA ConcatIs ==
  ASSUME NEW S, NEW p \in Seq(S), NEW q \in Seq(S)
  PROVE  /\ p \o q \in Seq(S)
         /\ Elements(p \o q) = Elements(p) \cup Elements(q)
         /\ Once(p) /\ Once(q) /\ Elements(p) \cap Elements(q) = {} => Once(p \o q)
<1>1. /\ p \o q \in Seq(S) /\ Len(p \o q) = Len(p) + Len(q)
      /\ \A i \in 1..Len(p) + Len(q) :
           (p \o q)[i] = IF i <= Len(p) THEN p[i] ELSE q[i - Len(p)]
  BY ConcatProperties
<1>2. /\ Len(p) \in Nat /\ Len(q) \in Nat
      /\ DOMAIN p = 1..Len(p) /\ DOMAIN q = 1..Len(q) /\ DOMAIN (p \o q) = 1..(Len(p) + Len(q))
  BY <1>1, LenProperties
<1>3. \A i \in DOMAIN (p \o q) :
        \/ i \in DOMAIN p /\ (p \o q)[i] = p[i]
        \/ i \notin DOMAIN p /\ i - Len(p) \in DOMAIN q /\ (p \o q)[i] = q[i - Len(p)]
  BY <1>1, <1>2
<1>4. \A i \in DOMAIN p : i \in DOMAIN (p \o q) /\ (p \o q)[i] = p[i]
  BY <1>1, <1>2
<1>5. \A i \in DOMAIN q : i + Len(p) \in DOMAIN (p \o q) /\ (p \o q)[i + Len(p)] = q[i]
  BY <1>1, <1>2
<1>6. Elements(p \o q) = Elements(p) \cup Elements(q)
  <2>1. Elements(p \o q) \subseteq Elements(p) \cup Elements(q)
    BY <1>3 DEF Elements
  <2>2. Elements(p) \cup Elements(q) \subseteq Elements(p \o q)
    BY <1>4, <1>5 DEF Elements
  <2> QED BY <2>1, <2>2
<1>7. ASSUME Once(p), Once(q), Elements(p) \cap Elements(q) = {},
             NEW i \in DOMAIN (p \o q), NEW j \in DOMAIN (p \o q), (p \o q)[i] = (p \o q)[j]
      PROVE  i = j
  <2>1. i \in Nat /\ j \in Nat
    BY <1>2
  <2>2. CASE i \in DOMAIN p /\ j \in DOMAIN p
    BY <1>4, <1>7, <2>2 DEF Once
  <2>3. CASE i \notin DOMAIN p /\ j \notin DOMAIN p
    <3>1. i - Len(p) = j - Len(p)
      BY <1>3, <1>7, <2>3 DEF Once
    <3> QED BY <1>2, <2>1, <3>1
  <2>4. CASE i \in DOMAIN p /\ j \notin DOMAIN p
    BY <1>3, <1>7, <2>4 DEF Elements
  <2>5. CASE i \notin DOMAIN p /\ j \in DOMAIN p
    BY <1>3, <1>7, <2>5 DEF Elements
  <2> QED BY <2>2, <2>3, <2>4, <2>5
<1> QED BY <1>1, <1>6, <1>7 DEF Once

-----------------------------------------------------------------------------
(* The retry queue.                                                        *)

(* The queue knows how often a hash in it has failed, and of no failure of *)
(* any other.                                                              *)
LEMMA FailuresIs ==
  ASSUME NEW q \in Seq(Entries)
  PROVE  /\ HashesOf(q) \in Seq(Hashes) /\ DOMAIN HashesOf(q) = DOMAIN q
         /\ \A i \in DOMAIN q : HashesOf(q)[i] = q[i].hash
         /\ \A h : failures(q, h) \in Nat
         /\ \A h : h \notin Elements(HashesOf(q)) => failures(q, h) = 0
         /\ Once(HashesOf(q)) => \A i \in DOMAIN q : failures(q, q[i].hash) = q[i].failures
<1>1. /\ Len(q) \in Nat /\ DOMAIN q = 1..Len(q)
      /\ \A i \in DOMAIN q : q[i] \in Entries
  BY LenProperties
<1>2. \A i \in DOMAIN q : q[i].hash \in Hashes /\ q[i].failures \in Nat
  BY <1>1 DEF Entries
<1>3. /\ HashesOf(q) \in Seq(Hashes) /\ DOMAIN HashesOf(q) = DOMAIN q
      /\ \A i \in DOMAIN q : HashesOf(q)[i] = q[i].hash
  BY <1>1, <1>2 DEF HashesOf
<1>4. ASSUME NEW h, h \in Elements(HashesOf(q))
      PROVE  LET i == CHOOSE i \in DOMAIN q : q[i].hash = h IN
               /\ i \in DOMAIN q /\ q[i].hash = h /\ failures(q, h) = q[i].failures
  <2>1. \E i \in DOMAIN q : q[i].hash = h
    BY <1>3, <1>4 DEF Elements
  <2> QED BY <1>4, <2>1 DEF failures
<1>5. ASSUME NEW h PROVE failures(q, h) \in Nat
  <2>1. CASE h \in Elements(HashesOf(q))
    BY <1>2, <1>4, <2>1
  <2>2. CASE h \notin Elements(HashesOf(q))
    BY <2>2 DEF failures
  <2> QED BY <2>1, <2>2
<1>6. \A h : h \notin Elements(HashesOf(q)) => failures(q, h) = 0
  BY DEF failures
<1>7. ASSUME Once(HashesOf(q)), NEW i \in DOMAIN q
      PROVE  failures(q, q[i].hash) = q[i].failures
  <2>1. q[i].hash \in Elements(HashesOf(q))
    BY <1>3 DEF Elements
  <2>2. PICK k \in DOMAIN q : q[k].hash = q[i].hash /\ failures(q, q[i].hash) = q[k].failures
    BY <1>4, <2>1
  <2>3. k = i
    BY <1>3, <1>7, <2>2 DEF Once
  <2> QED BY <2>2, <2>3
<1> QED
  BY <1>3, <1>5, <1>6, <1>7

(* A tick fetches what is due and what is new, each hash once, and keeps   *)
(* of the queue what failed and is not given up, with one failure more.    *)
LEMMA RetryQueue ==
  ASSUME NEW q \in Seq(Entries), NEW new \in Seq(Hashes), NEW failed,
         Once(HashesOf(q)), Once(new), Elements(new) \cap Elements(HashesOf(q)) = {},
         failed \subseteq Elements(to_fetch(q, new))
  PROVE  /\ to_fetch(q, new) \in Seq(Hashes) /\ Once(to_fetch(q, new))
         /\ Elements(to_fetch(q, new)) = Elements(HashesOf(q)) \cup Elements(new)
         /\ retry_queue(q, new, failed) \in Seq(Entries)
         /\ Once(HashesOf(retry_queue(q, new, failed)))
         /\ \A h : h \in Elements(HashesOf(retry_queue(q, new, failed))) <=>
                    h \in failed /\ ~gives_up(q, h)
         /\ \A h \in failed : ~gives_up(q, h) =>
              failures(retry_queue(q, new, failed), h) = failures(q, h) + 1
<1> DEFINE all == to_fetch(q, new)
           E == [i \in DOMAIN all |-> [hash |-> all[i], failures |-> failures(q, all[i]) + 1]]
           I == {i \in DOMAIN all : all[i] \in failed /\ ~gives_up(q, all[i])}
           r == retry_queue(q, new, failed)
<1>1. HashesOf(q) \in Seq(Hashes) /\ \A h : failures(q, h) \in Nat
  BY FailuresIs
<1>2. /\ all \in Seq(Hashes) /\ Once(all)
      /\ Elements(all) = Elements(HashesOf(q)) \cup Elements(new)
  BY <1>1, ConcatIs DEF to_fetch
<1>3. r = Kept(E, I)
  BY DEF retry_queue
<1> HIDE DEF all, r
<1>4. Len(all) \in Nat /\ DOMAIN all = 1..Len(all) /\ \A i \in DOMAIN all : all[i] \in Hashes
  BY <1>2, LenProperties
<1>5. \A i \in DOMAIN all : E[i] \in Entries /\ E[i].hash = all[i]
                            /\ E[i].failures = failures(q, all[i]) + 1
  BY <1>1, <1>4 DEF Entries
<1>6. E \in Seq(Entries) /\ DOMAIN E = DOMAIN all
  BY <1>4, <1>5
<1> HIDE DEF E
<1>7. Once(E)
  BY <1>2, <1>5, <1>6 DEF Once
<1>8. I \in SUBSET DOMAIN E
  BY <1>6
<1>9. \A i \in I : i \in DOMAIN all /\ all[i] \in failed /\ ~gives_up(q, all[i])
  OBVIOUS
<1>10. \A i \in DOMAIN all : all[i] \in failed /\ ~gives_up(q, all[i]) => i \in I
  OBVIOUS
<1> HIDE DEF I
<1>11. /\ r \in Seq(Entries) /\ (\A x : x \in Elements(r) <=> \E i \in I : x = E[i]) /\ Once(r)
       /\ \E f \in [DOMAIN r -> I] : \A n \in DOMAIN r : r[n] = E[f[n]]
  BY <1>3, <1>6, <1>7, <1>8, KeptIs
<1>12. PICK f \in [DOMAIN r -> I] : \A n \in DOMAIN r : r[n] = E[f[n]]
  BY <1>11
<1>13. /\ HashesOf(r) \in Seq(Hashes) /\ DOMAIN HashesOf(r) = DOMAIN r
       /\ \A n \in DOMAIN r : HashesOf(r)[n] = r[n].hash
  BY <1>11, FailuresIs
<1>14. \A n \in DOMAIN r : f[n] \in I /\ f[n] \in DOMAIN all /\ r[n].hash = all[f[n]]
                           /\ r[n].failures = failures(q, all[f[n]]) + 1
  BY <1>5, <1>9, <1>12
<1>15. Once(HashesOf(r))
  <2>1. ASSUME NEW m \in DOMAIN r, NEW n \in DOMAIN r, r[m].hash = r[n].hash PROVE m = n
    <3>1. f[m] = f[n]
      BY <1>2, <1>14, <2>1 DEF Once
    <3>2. r[m] = r[n]
      BY <1>12, <3>1
    <3> QED BY <1>11, <3>2 DEF Once
  <2> QED BY <1>13, <2>1 DEF Once
<1>16. \A h : h \in Elements(HashesOf(r)) <=> h \in failed /\ ~gives_up(q, h)
  <2>1. ASSUME NEW h \in Elements(HashesOf(r)) PROVE h \in failed /\ ~gives_up(q, h)
    <3>1. PICK n \in DOMAIN r : h = r[n].hash
      BY <1>13 DEF Elements
    <3> QED BY <1>9, <1>14, <3>1
  <2>2. ASSUME NEW h \in failed, ~gives_up(q, h) PROVE h \in Elements(HashesOf(r))
    <3>1. PICK i \in DOMAIN all : h = all[i]
      BY DEF all, Elements
    <3>2. E[i] \in Elements(r)
      BY <1>10, <1>11, <2>2, <3>1
    <3>3. PICK n \in DOMAIN r : r[n] = E[i]
      BY <3>2 DEF Elements
    <3> QED BY <1>5, <1>13, <3>1, <3>3 DEF Elements
  <2> QED BY <2>1, <2>2
<1>17. ASSUME NEW h \in failed, ~gives_up(q, h)
       PROVE  failures(r, h) = failures(q, h) + 1
  <2>1. h \in Elements(HashesOf(r))
    BY <1>16, <1>17
  <2>2. PICK n \in DOMAIN r : h = r[n].hash
    BY <1>13, <2>1 DEF Elements
  <2>3. failures(r, r[n].hash) = r[n].failures
    BY <1>11, <1>15, FailuresIs
  <2> QED BY <1>14, <2>2, <2>3
<1> QED
  BY <1>2, <1>11, <1>15, <1>16, <1>17 DEF all, r

-----------------------------------------------------------------------------
(* What happens to the items of one source.                                *)

LEMMA NothingPlaced ==
  /\ <<>> \in Seq(Hashes) /\ <<>> \in Seq(Entries)
  /\ [h \in Hashes |-> "none"] \in [Hashes -> {"none", "sent"}]
  /\ [h \in Hashes |-> 0] \in [Hashes -> Nat]
  /\ Placed(<<>>, <<>>, <<>>, {}, [h \in Hashes |-> "none"], [h \in Hashes |-> 0])
<1>1. <<>> \in Seq(Hashes) /\ <<>> \in Seq(Entries)
  BY EmptySeq
<1>2. \A h : failures(<<>>, h) = 0
  BY NoElements DEF failures
<1> QED
  BY <1>1, <1>2, NoElements DEF Placed

(* An item that is nowhere is sent.                                        *)
LEMMA SentPlaced ==
  ASSUME NEW a \in Seq(Hashes), NEW p \in Seq(Entries), NEW r \in Seq(Hashes),
         NEW l \in SUBSET Hashes, NEW f \in [Hashes -> {"none", "sent"}],
         NEW t \in [Hashes -> Nat], Placed(a, p, r, l, f, t), NEW h \in Hashes,
         h \notin Elements(a) \cup Elements(HashesOf(p)) \cup Elements(r) \cup l
  PROVE  /\ Append(a, h) \in Seq(Hashes)
         /\ [f EXCEPT ![h] = "sent"] \in [Hashes -> {"none", "sent"}]
         /\ [t EXCEPT ![h] = 0] \in [Hashes -> Nat]
         /\ Placed(Append(a, h), p, r, l, [f EXCEPT ![h] = "sent"], [t EXCEPT ![h] = 0])
<1>1. /\ Append(a, h) \in Seq(Hashes) /\ Once(Append(a, h))
      /\ Elements(Append(a, h)) = Elements(a) \cup {h}
  BY AppendIs DEF Placed
<1>2. failures(p, h) = 0
  BY FailuresIs
<1>3. [f EXCEPT ![h] = "sent"] \in [Hashes -> {"none", "sent"}]
      /\ [t EXCEPT ![h] = 0] \in [Hashes -> Nat]
  OBVIOUS
<1> QED
  BY <1>1, <1>2, <1>3 DEF Placed

(* A tick of the block collector: what was fetched is ready, what failed   *)
(* is queued again or given up, never before its last attempt.             *)
Fetched(p, a, failed) ==
  LET all == to_fetch(p, a) IN Kept(all, {i \in DOMAIN all : all[i] \notin failed})
FatesAfter(p, failed, f, t) ==
  [h \in Hashes |->
     IF ~(h \in failed /\ gives_up(p, h)) THEN f[h]
     ELSE IF t[h] + 1 < MAX_FETCH_ATTEMPTS THEN "short" ELSE "none"]
TriesAfter(p, failed, t) ==
  [h \in Hashes |-> IF h \in failed /\ ~gives_up(p, h) THEN t[h] + 1 ELSE 0]

LEMMA FetchedPlaced ==
  ASSUME NEW a \in Seq(Hashes), NEW p \in Seq(Entries),
         NEW l \in SUBSET Hashes, NEW f \in [Hashes -> {"none", "sent"}],
         NEW t \in [Hashes -> Nat], Placed(a, p, <<>>, l, f, t),
         NEW failed \in SUBSET Elements(to_fetch(p, a))
  PROVE  Sound(<<>>, retry_queue(p, a, failed), Fetched(p, a, failed), l,
               FatesAfter(p, failed, f, t), TriesAfter(p, failed, t))
<1>1. /\ Once(HashesOf(p)) /\ Once(a) /\ Elements(a) \cap Elements(HashesOf(p)) = {}
      /\ failed \subseteq Elements(to_fetch(p, a))
  BY DEF Placed
<1>a. a \in Seq(Hashes) /\ p \in Seq(Entries)
  OBVIOUS
<1>b. /\ to_fetch(p, a) \in Seq(Hashes) /\ Once(to_fetch(p, a))
      /\ Elements(to_fetch(p, a)) = Elements(HashesOf(p)) \cup Elements(a)
      /\ retry_queue(p, a, failed) \in Seq(Entries)
      /\ Once(HashesOf(retry_queue(p, a, failed)))
      /\ \A h : h \in Elements(HashesOf(retry_queue(p, a, failed))) <=>
                h \in failed /\ ~gives_up(p, h)
      /\ \A h \in failed : ~gives_up(p, h) =>
           failures(retry_queue(p, a, failed), h) = failures(p, h) + 1
  <2>1. to_fetch(p, a) \in Seq(Hashes) /\ Once(to_fetch(p, a))
    BY ONLY <1>1, <1>a, RetryQueue
  <2>2. Elements(to_fetch(p, a)) = Elements(HashesOf(p)) \cup Elements(a)
    BY ONLY <1>1, <1>a, RetryQueue
  <2>3. retry_queue(p, a, failed) \in Seq(Entries) /\ Once(HashesOf(retry_queue(p, a, failed)))
    BY ONLY <1>1, <1>a, RetryQueue
  <2>4. \A h : h \in Elements(HashesOf(retry_queue(p, a, failed))) <=>
              h \in failed /\ ~gives_up(p, h)
    BY ONLY <1>1, <1>a, RetryQueue
  <2>5. ASSUME NEW h \in failed, ~gives_up(p, h)
        PROVE  failures(retry_queue(p, a, failed), h) = failures(p, h) + 1
    BY ONLY <1>1, <1>a, <2>5, h \in failed, RetryQueue, SMTT(30)
  <2> QED BY ONLY <2>1, <2>2, <2>3, <2>4, <2>5
<1> DEFINE q == retry_queue(p, a, failed)
           all == to_fetch(p, a)
           I == {i \in DOMAIN all : all[i] \notin failed}
           r == Fetched(p, a, failed)
           f2 == FatesAfter(p, failed, f, t)
           t2 == TriesAfter(p, failed, t)
<1>c. r = Kept(all, I)
  BY DEF Fetched
<1>d. ASSUME NEW h \in Hashes
      PROVE  /\ f2[h] = IF ~(h \in failed /\ gives_up(p, h)) THEN f[h]
                        ELSE IF t[h] + 1 < MAX_FETCH_ATTEMPTS THEN "short" ELSE "none"
             /\ t2[h] = IF h \in failed /\ ~gives_up(p, h) THEN t[h] + 1 ELSE 0
  BY DEF FatesAfter, TriesAfter
<1>2. /\ all \in Seq(Hashes) /\ Once(all) /\ Elements(all) = Elements(HashesOf(p)) \cup Elements(a)
      /\ q \in Seq(Entries) /\ Once(HashesOf(q))
      /\ \A h : h \in Elements(HashesOf(q)) <=> h \in failed /\ ~gives_up(p, h)
      /\ \A h \in failed : ~gives_up(p, h) => failures(q, h) = failures(p, h) + 1
  BY <1>b, Zenon
<1>e. failed \subseteq Elements(all)
  OBVIOUS
<1> HIDE DEF q, all, r, f2, t2
<1>3. r \in Seq(Hashes) /\ (\A x : x \in Elements(r) <=> \E i \in I : x = all[i]) /\ Once(r)
  <2>1. I \in SUBSET DOMAIN all /\ r = Kept(all, I)
    BY <1>c
  <2> HIDE DEF I
  <2>2. all \in Seq(Hashes) /\ Once(all)
    BY <1>2
  <2>3. Kept(all, I) \in Seq(Hashes)
    BY ONLY <2>1, <2>2, KeptIs
  <2>4. \A x : x \in Elements(Kept(all, I)) <=> \E i \in I : x = all[i]
    BY ONLY <2>1, <2>2, KeptIs
  <2>5. Once(Kept(all, I))
    BY ONLY <2>1, <2>2, KeptIs
  <2> QED BY ONLY <2>1, <2>3, <2>4, <2>5
<1>4. Elements(r) = Elements(all) \ failed
  <2>1. Elements(all) = {all[i] : i \in DOMAIN all}
    BY DEF Elements
  <2>2. \A i \in DOMAIN all : i \in I <=> all[i] \notin failed
    OBVIOUS
  <2>3. I \subseteq DOMAIN all
    OBVIOUS
  <2> HIDE DEF I
  <2> QED BY ONLY <1>3, <2>1, <2>2, <2>3
<1>5. \A h : h \notin Elements(HashesOf(q)) => failures(q, h) = 0
  BY <1>2, FailuresIs
<1>6. \A h : gives_up(p, h) => failures(p, h) + 1 >= MAX_FETCH_ATTEMPTS
  BY DEF gives_up
<1>7. ASSUME NEW h \in Hashes
      PROVE  /\ f2[h] = IF h \in failed /\ gives_up(p, h) THEN "none" ELSE f[h]
             /\ t2[h] \in Nat /\ t2[h] = failures(q, h)
  <2>1. t[h] = failures(p, h) /\ t[h] \in Nat /\ MAX_FETCH_ATTEMPTS \in Nat
    BY SourcesAssumption DEF Placed
  <2>2. gives_up(p, h) => ~(t[h] + 1 < MAX_FETCH_ATTEMPTS)
    BY <1>6, <2>1
  <2>3. CASE h \in failed /\ ~gives_up(p, h)
    BY <1>2, <1>d, <2>1, <2>3
  <2>4. CASE ~(h \in failed /\ ~gives_up(p, h))
    <3>1. failures(q, h) = 0
      BY <1>2, <1>5, <2>4
    <3> QED BY <1>d, <2>2, <2>4, <3>1
  <2> QED BY <2>3, <2>4
<1>8. f2 \in [Hashes -> {"none", "sent"}] /\ t2 \in [Hashes -> Nat]
  <2>1. f2 = [h \in Hashes |-> f2[h]] /\ t2 = [h \in Hashes |-> t2[h]]
    BY DEF f2, t2, FatesAfter, TriesAfter
  <2>2. \A h \in Hashes : f2[h] \in {"none", "sent"} /\ t2[h] \in Nat
    BY <1>7
  <2> QED BY <2>1, <2>2
<1>9. ASSUME NEW h \in Hashes
      PROVE  (f2[h] = "sent") <=> (h \in Elements(HashesOf(q)) \cup Elements(r) \cup l)
  <2>1. (f[h] = "sent") <=> (h \in Elements(all) \cup l)
    BY <1>2, NoElements DEF Placed
  <2>2. failed \subseteq Elements(all) /\ Elements(all) \cap l = {}
    BY <1>2, <1>e DEF Placed
  <2> QED BY <1>2, <1>4, <1>7, <2>1, <2>2
<1>10. /\ Elements(HashesOf(q)) \cap Elements(r) = {}
       /\ Elements(HashesOf(q)) \cap l = {} /\ Elements(r) \cap l = {}
  <2>1. failed \subseteq Elements(all) /\ Elements(all) \cap l = {}
    BY <1>2, <1>e DEF Placed
  <2> QED BY <1>2, <1>4, <2>1
<1>11. Placed(<<>>, q, r, l, f2, t2)
  BY <1>2, <1>3, <1>7, <1>9, <1>10, NoElements DEF Placed
<1> QED
  BY <1>2, <1>3, <1>8, <1>11, EmptySeq DEF Sound, q, r, f2, t2

(* A lookup is started, and one is dropped.                                *)
LEMMA StartedPlaced ==
  ASSUME NEW a \in Seq(Hashes), NEW p \in Seq(Entries), NEW r \in Seq(Hashes),
         NEW l \in SUBSET Hashes, NEW f \in [Hashes -> {"none", "sent"}],
         NEW t \in [Hashes -> Nat], Placed(a, p, r, l, f, t), a # <<>>
  PROVE  /\ Tail(a) \in Seq(Hashes) /\ l \cup {Head(a)} \in SUBSET Hashes
         /\ Placed(Tail(a), p, r, l \cup {Head(a)}, f, t)
<1>1. /\ Head(a) \in Hashes /\ Head(a) \in Elements(a) /\ Tail(a) \in Seq(Hashes)
      /\ Elements(Tail(a)) = Elements(a) \ {Head(a)} /\ Once(Tail(a))
  BY TailIs DEF Placed
<1> QED
  BY <1>1 DEF Placed

LEMMA DroppedPlaced ==
  ASSUME NEW a \in Seq(Hashes), NEW p \in Seq(Entries), NEW r \in Seq(Hashes),
         NEW l \in SUBSET Hashes, NEW f \in [Hashes -> {"none", "sent"}],
         NEW t \in [Hashes -> Nat], Placed(a, p, r, l, f, t), NEW h \in l
  PROVE  /\ [f EXCEPT ![h] = "none"] \in [Hashes -> {"none", "sent"}]
         /\ Placed(a, p, r, l \ {h}, [f EXCEPT ![h] = "none"], t)
BY DEF Placed

LEMMA TakenIs ==
  ASSUME NEW q \in Seq(Hashes), Once(q), NEW h
  PROVE  /\ taken(q, h) \in Seq(Hashes) /\ Once(taken(q, h))
         /\ Elements(taken(q, h)) = IF q # <<>> /\ Head(q) = h THEN Elements(q) \ {h}
                                    ELSE Elements(q)
BY TailIs DEF taken

(* An item that is at one of the places leaves it and is delivered.        *)
LEMMA PulledPlaced ==
  ASSUME NEW a \in Seq(Hashes), NEW p \in Seq(Entries), NEW r \in Seq(Hashes),
         NEW l \in SUBSET Hashes, NEW f \in [Hashes -> {"none", "sent"}],
         NEW t \in [Hashes -> Nat], Placed(a, p, r, l, f, t), NEW h \in Hashes,
         \/ h \in l
         \/ r # <<>> /\ h = Head(r)
         \/ a # <<>> /\ h = Head(a)
  PROVE  /\ taken(a, h) \in Seq(Hashes) /\ taken(r, h) \in Seq(Hashes)
         /\ f[h] = "sent"
         /\ [f EXCEPT ![h] = "none"] \in [Hashes -> {"none", "sent"}]
         /\ Placed(taken(a, h), p, taken(r, h), l \ {h}, [f EXCEPT ![h] = "none"], t)
<1>1. Once(a) /\ Once(r)
  BY DEF Placed
<1>2. /\ taken(a, h) \in Seq(Hashes) /\ Once(taken(a, h))
      /\ Elements(taken(a, h)) = IF a # <<>> /\ Head(a) = h THEN Elements(a) \ {h} ELSE Elements(a)
  BY <1>1, TakenIs
<1>3. /\ taken(r, h) \in Seq(Hashes) /\ Once(taken(r, h))
      /\ Elements(taken(r, h)) = IF r # <<>> /\ Head(r) = h THEN Elements(r) \ {h} ELSE Elements(r)
  BY <1>1, TakenIs
<1>4. (a # <<>> => Head(a) \in Elements(a)) /\ (r # <<>> => Head(r) \in Elements(r))
  BY TailIs
<1>5. CASE h \in l
  BY <1>2, <1>3, <1>4, <1>5 DEF Placed
<1>6. CASE r # <<>> /\ h = Head(r)
  BY <1>2, <1>3, <1>4, <1>6 DEF Placed
<1>7. CASE a # <<>> /\ h = Head(a)
  BY <1>2, <1>3, <1>4, <1>7 DEF Placed
<1> QED BY <1>5, <1>6, <1>7

-----------------------------------------------------------------------------
(* The steps of the sources.                                               *)

(* A step that moves the items of one source about.                        *)
Moves(s, a, p, r, l, f, t) ==
  /\ avail' = [avail EXCEPT ![s] = a] /\ pending' = [pending EXCEPT ![s] = p]
  /\ ready' = [ready EXCEPT ![s] = r] /\ lookups' = [lookups EXCEPT ![s] = l]
  /\ fate' = [fate EXCEPT ![s] = f] /\ tries' = [tries EXCEPT ![s] = t]
  /\ UNCHANGED <<composition, kind, opening>>
  /\ \/ mode' = mode
     \/ mode[s] \in {"pubsub", "poll"} /\ mode' = [mode EXCEPT ![s] = "ended"]

LEMMA OneSource ==
  ASSUME SourcesInv, NEW s \in Two, NEW a, NEW p, NEW r, NEW l, NEW f, NEW t,
         Sound(a, p, r, l, f, t), Moves(s, a, p, r, l, f, t)
  PROVE  SourcesInv'
<1> USE DEF Sound, Moves
<1>1. SourcesTypeOK'
  BY DEF SourcesInv, SourcesTypeOK
<1>2. ASSUME NEW u \in Two
      PROVE  Placed(avail'[u], pending'[u], ready'[u], lookups'[u], fate'[u], tries'[u])
  <2>1. CASE u = s
    BY <2>1 DEF SourcesInv, SourcesTypeOK
  <2>2. CASE u # s
    BY <2>2 DEF SourcesInv, SourcesTypeOK, AllPlaced
  <2> QED BY <2>1, <2>2
<1>3. AllPlaced'
  BY <1>2 DEF AllPlaced
<1>4. Opened'
  BY DEF SourcesInv, SourcesTypeOK, Opened, Two, Up
<1> QED BY <1>1, <1>3, <1>4 DEF SourcesInv

(* A variable that a step leaves alone, seen as one it sets.               *)
LEMMA Same ==
  ASSUME NEW S, NEW f \in [Two -> S], NEW s \in Two
  PROVE  f = [f EXCEPT ![s] = f[s]] /\ f[s] \in S
OBVIOUS

LEMMA TypedPlaces ==
  ASSUME SourcesInv, NEW s \in Two
  PROVE  /\ avail[s] \in Seq(Hashes) /\ avail = [avail EXCEPT ![s] = avail[s]]
         /\ pending[s] \in Seq(Entries) /\ pending = [pending EXCEPT ![s] = pending[s]]
         /\ ready[s] \in Seq(Hashes) /\ ready = [ready EXCEPT ![s] = ready[s]]
         /\ lookups[s] \in SUBSET Hashes /\ lookups = [lookups EXCEPT ![s] = lookups[s]]
         /\ fate[s] \in [Hashes -> {"none", "sent"}] /\ fate = [fate EXCEPT ![s] = fate[s]]
         /\ tries[s] \in [Hashes -> Nat] /\ tries = [tries EXCEPT ![s] = tries[s]]
         /\ Placed(avail[s], pending[s], ready[s], lookups[s], fate[s], tries[s])
BY Same DEF SourcesInv, SourcesTypeOK, AllPlaced

LEMMA ClosedInv ==
  ASSUME SourcesInv, Closed, opening' = 1, UNCHANGED <<composition, kind>>
  PROVE  SourcesInv'
<1>1. SourcesTypeOK'
  BY NothingPlaced DEF Closed, SourcesInv, SourcesTypeOK
<1>2. AllPlaced'
  BY NothingPlaced DEF Closed, AllPlaced
<1>3. Opened'
  BY DEF Closed, Opened, Two, Up
<1> QED BY <1>1, <1>2, <1>3 DEF SourcesInv

LEMMA SourcesInitInv == SourcesInit => SourcesInv
<1> SUFFICES ASSUME SourcesInit PROVE SourcesInv
  OBVIOUS
<1>1. PICK c \in Composites : composition = c.by /\ kind = c.of
  BY DEF SourcesInit
<1>2. composition \in {"chain", "merge", "fallback"} /\ kind \in [Two -> {"block", "log", "mempool"}]
  BY <1>1, SourcesAssumption
<1>3. SourcesTypeOK
  BY <1>2, NothingPlaced DEF SourcesInit, SourcesTypeOK
<1>4. AllPlaced
  BY NothingPlaced DEF SourcesInit, AllPlaced
<1>5. Opened
  BY DEF SourcesInit, Opened, Two, Up
<1> QED BY <1>3, <1>4, <1>5 DEF SourcesInv

LEMMA SubscribeInv == ASSUME SourcesInv, NEW s \in Two, subscribe(s) PROVE SourcesInv'
<1>1. PICK m \in {"pubsub", "poll", "error"} :
        \/ /\ m # "error"
           /\ mode' = [mode EXCEPT ![s] = m]
           /\ opening' = after_subscribe(s)
           /\ UNCHANGED <<avail, pending, ready, lookups, fate, tries>>
        \/ /\ m = "error" /\ composition = "fallback" /\ s = 1
           /\ opening' = 2
           /\ UNCHANGED <<mode, avail, pending, ready, lookups, fate, tries>>
        \/ opening' = 1 /\ Closed
  BY DEF subscribe
<1>2. opening = s /\ UNCHANGED <<composition, kind>>
  BY DEF subscribe
<1>3. CASE opening' = 1 /\ Closed
  BY <1>2, <1>3, ClosedInv
<1>4. CASE m # "error" /\ mode' = [mode EXCEPT ![s] = m] /\ opening' = after_subscribe(s)
           /\ UNCHANGED <<avail, pending, ready, lookups, fate, tries>>
  <2>1. m \in {"pubsub", "poll"} /\ opening' \in {2, 3}
    BY <1>4 DEF after_subscribe, Two, Up
  <2>2. SourcesTypeOK'
    BY <1>2, <1>4, <2>1 DEF SourcesInv, SourcesTypeOK
  <2>3. AllPlaced'
    BY <1>4 DEF SourcesInv, AllPlaced
  <2>4. Opened'
    BY <1>2, <1>4, <2>1 DEF SourcesInv, SourcesTypeOK, Opened, after_subscribe, Two, Up
  <2> QED BY <2>2, <2>3, <2>4 DEF SourcesInv
<1>5. CASE m = "error" /\ composition = "fallback" /\ s = 1 /\ opening' = 2
           /\ UNCHANGED <<mode, avail, pending, ready, lookups, fate, tries>>
  <2>1. SourcesTypeOK'
    BY <1>2, <1>5 DEF SourcesInv, SourcesTypeOK
  <2>2. AllPlaced'
    BY <1>5 DEF SourcesInv, AllPlaced
  <2>3. Opened'
    BY <1>2, <1>5 DEF SourcesInv, SourcesTypeOK, Opened, Two, Up
  <2> QED BY <2>1, <2>2, <2>3 DEF SourcesInv
<1> QED BY <1>1, <1>3, <1>4, <1>5

LEMMA PublishInv == ASSUME SourcesInv, NEW h \in Hashes, publish(h) PROVE SourcesInv'
<1> DEFINE open == {s \in Two : mode[s] \in {"pubsub", "poll"} /\ h \notin InUse(s)}
<1>1. /\ avail' = [s \in Two |-> IF s \in open THEN Append(avail[s], h) ELSE avail[s]]
      /\ fate' = [s \in Two |-> IF s \in open THEN [fate[s] EXCEPT ![h] = "sent"] ELSE fate[s]]
      /\ tries' = [s \in Two |-> IF s \in open THEN [tries[s] EXCEPT ![h] = 0] ELSE tries[s]]
      /\ UNCHANGED <<composition, kind, opening, mode, pending, ready, lookups, faults>>
  BY DEF publish
<1>2. ASSUME NEW s \in open PROVE s \in Two /\ h \notin InUse(s)
  OBVIOUS
<1> HIDE DEF open
<1>3. ASSUME NEW s \in Two
      PROVE  /\ avail'[s] \in Seq(Hashes) /\ fate'[s] \in [Hashes -> {"none", "sent"}]
             /\ tries'[s] \in [Hashes -> Nat]
             /\ Placed(avail'[s], pending'[s], ready'[s], lookups'[s], fate'[s], tries'[s])
  <2>1. /\ avail[s] \in Seq(Hashes) /\ pending[s] \in Seq(Entries) /\ ready[s] \in Seq(Hashes)
        /\ lookups[s] \in SUBSET Hashes /\ fate[s] \in [Hashes -> {"none", "sent"}]
        /\ tries[s] \in [Hashes -> Nat]
        /\ Placed(avail[s], pending[s], ready[s], lookups[s], fate[s], tries[s])
    BY TypedPlaces
  <2>2. CASE s \in open
    <3>1. h \notin Elements(avail[s]) \cup Elements(HashesOf(pending[s])) \cup Elements(ready[s])
                   \cup lookups[s]
      BY <1>2, <2>2 DEF InUse
    <3>2. /\ Append(avail[s], h) \in Seq(Hashes)
          /\ [fate[s] EXCEPT ![h] = "sent"] \in [Hashes -> {"none", "sent"}]
          /\ [tries[s] EXCEPT ![h] = 0] \in [Hashes -> Nat]
          /\ Placed(Append(avail[s], h), pending[s], ready[s], lookups[s],
                    [fate[s] EXCEPT ![h] = "sent"], [tries[s] EXCEPT ![h] = 0])
      BY ONLY <2>1, <3>1, h \in Hashes, SentPlaced
    <3>3. /\ avail'[s] = Append(avail[s], h) /\ fate'[s] = [fate[s] EXCEPT ![h] = "sent"]
          /\ tries'[s] = [tries[s] EXCEPT ![h] = 0]
          /\ pending'[s] = pending[s] /\ ready'[s] = ready[s] /\ lookups'[s] = lookups[s]
      BY <1>1, <2>2
    <3> QED BY ONLY <3>2, <3>3
  <2>3. CASE s \notin open
    BY <1>1, <2>1, <2>3
  <2> QED BY <2>2, <2>3
<1>4. SourcesTypeOK'
  BY <1>1, <1>3 DEF SourcesInv, SourcesTypeOK
<1>5. AllPlaced'
  BY <1>3 DEF AllPlaced
<1>6. Opened'
  BY <1>1 DEF SourcesInv, Opened
<1> QED BY <1>4, <1>5, <1>6 DEF SourcesInv

LEMMA StreamEndsInv == ASSUME SourcesInv, NEW s \in Two, stream_ends(s) PROVE SourcesInv'
<1>1. /\ mode[s] \in {"pubsub", "poll"} /\ ready[s] = <<>> /\ lookups[s] = {}
      /\ mode' = [mode EXCEPT ![s] = "ended"]
      /\ fate' = [fate EXCEPT ![s] = [h \in Hashes |-> IF h \in InUse(s) THEN "none" ELSE @[h]]]
      /\ tries' = [tries EXCEPT ![s] = [h \in Hashes |-> 0]]
      /\ avail' = [avail EXCEPT ![s] = <<>>]
      /\ pending' = [pending EXCEPT ![s] = <<>>]
      /\ UNCHANGED <<composition, kind, opening, ready, lookups>>
  BY DEF stream_ends
<1>2. [h \in Hashes |-> IF h \in InUse(s) THEN "none" ELSE fate[s][h]] = [h \in Hashes |-> "none"]
  <2>1. ASSUME NEW h \in Hashes, h \notin InUse(s) PROVE fate[s][h] = "none"
    BY <2>1, TypedPlaces DEF Placed, InUse
  <2> QED BY <2>1
<1>3. fate' = [fate EXCEPT ![s] = [h \in Hashes |-> "none"]]
  BY <1>1, <1>2
<1>4. ready' = [ready EXCEPT ![s] = <<>>] /\ lookups' = [lookups EXCEPT ![s] = {}]
  BY <1>1, TypedPlaces
<1>5. Sound(<<>>, <<>>, <<>>, {}, [h \in Hashes |-> "none"], [h \in Hashes |-> 0])
  BY NothingPlaced DEF Sound
<1>6. Moves(s, <<>>, <<>>, <<>>, {}, [h \in Hashes |-> "none"], [h \in Hashes |-> 0])
  BY <1>1, <1>3, <1>4 DEF Moves
<1> QED
  BY <1>5, <1>6, OneSource

LEMMA FetchTickInv == ASSUME SourcesInv, NEW s \in Two, fetch_tick(s) PROVE SourcesInv'
<1> DEFINE all == to_fetch(pending[s], avail[s])
<1>1. PICK failed \in SUBSET Elements(all) :
        /\ ready' = [ready EXCEPT ![s] = Kept(all, {i \in DOMAIN all : all[i] \notin failed})]
        /\ pending' = [pending EXCEPT ![s] = retry_queue(@, avail[s], failed)]
        /\ tries' = [tries EXCEPT ![s] = [h \in Hashes |->
                       IF h \in failed /\ ~gives_up(pending[s], h) THEN @[h] + 1 ELSE 0]]
        /\ fate' = [fate EXCEPT ![s] = [h \in Hashes |->
                      IF ~(h \in failed /\ gives_up(pending[s], h)) THEN @[h]
                      ELSE IF tries[s][h] + 1 < MAX_FETCH_ATTEMPTS THEN "short" ELSE "none"]]
  BY DEF fetch_tick
<1>2. /\ ready[s] = <<>> /\ avail' = [avail EXCEPT ![s] = <<>>]
      /\ UNCHANGED <<composition, kind, opening, mode, lookups>>
  BY DEF fetch_tick
<1> DEFINE r == Fetched(pending[s], avail[s], failed)
           q == retry_queue(pending[s], avail[s], failed)
           f == FatesAfter(pending[s], failed, fate[s], tries[s])
           t == TriesAfter(pending[s], failed, tries[s])
<1>3. /\ ready' = [ready EXCEPT ![s] = r] /\ pending' = [pending EXCEPT ![s] = q]
      /\ tries' = [tries EXCEPT ![s] = t] /\ fate' = [fate EXCEPT ![s] = f]
  BY <1>1 DEF Fetched, FatesAfter, TriesAfter
<1>4. /\ avail[s] \in Seq(Hashes) /\ pending[s] \in Seq(Entries)
      /\ lookups[s] \in SUBSET Hashes /\ fate[s] \in [Hashes -> {"none", "sent"}]
      /\ tries[s] \in [Hashes -> Nat] /\ lookups = [lookups EXCEPT ![s] = lookups[s]]
      /\ Placed(avail[s], pending[s], <<>>, lookups[s], fate[s], tries[s])
  BY <1>2, TypedPlaces
<1>6. Sound(<<>>, q, r, lookups[s], f, t)
  BY <1>4, FetchedPlaced
<1> HIDE DEF r, q, f, t
<1>7. Moves(s, <<>>, q, r, lookups[s], f, t)
  BY <1>2, <1>3, <1>4 DEF Moves
<1> QED
  BY <1>6, <1>7, OneSource

LEMMA StartLookupInv == ASSUME SourcesInv, NEW s \in Two, start_lookup(s) PROVE SourcesInv'
<1>1. /\ avail[s] # <<>>
      /\ lookups' = [lookups EXCEPT ![s] = lookups[s] \cup {Head(avail[s])}]
      /\ avail' = [avail EXCEPT ![s] = Tail(avail[s])]
      /\ UNCHANGED <<composition, kind, opening, mode, pending, ready, fate, tries>>
  BY DEF start_lookup
<1>2. /\ Tail(avail[s]) \in Seq(Hashes) /\ lookups[s] \cup {Head(avail[s])} \in SUBSET Hashes
      /\ Placed(Tail(avail[s]), pending[s], ready[s], lookups[s] \cup {Head(avail[s])},
                fate[s], tries[s])
  BY <1>1, TypedPlaces, StartedPlaced
<1> DEFINE l == lookups[s] \cup {Head(avail[s])}
<1>3. Sound(Tail(avail[s]), pending[s], ready[s], l, fate[s], tries[s])
  BY <1>2, TypedPlaces DEF Sound
<1>4. Moves(s, Tail(avail[s]), pending[s], ready[s], l, fate[s], tries[s])
  BY <1>1, TypedPlaces DEF Moves
<1> HIDE DEF l
<1> QED
  BY <1>3, <1>4, OneSource

LEMMA LookupFailsInv ==
  ASSUME SourcesInv, NEW s \in Two, NEW h \in Hashes, lookup_fails(s, h) PROVE SourcesInv'
<1>1. /\ h \in lookups[s]
      /\ lookups' = [lookups EXCEPT ![s] = lookups[s] \ {h}]
      /\ fate' = [fate EXCEPT ![s] = [fate[s] EXCEPT ![h] = "none"]]
      /\ UNCHANGED <<composition, kind, opening, mode, avail, pending, ready, tries>>
  BY DEF lookup_fails
<1>2. /\ [fate[s] EXCEPT ![h] = "none"] \in [Hashes -> {"none", "sent"}]
      /\ Placed(avail[s], pending[s], ready[s], lookups[s] \ {h},
                [fate[s] EXCEPT ![h] = "none"], tries[s])
  BY <1>1, TypedPlaces, DroppedPlaced
<1>3. lookups[s] \ {h} \in SUBSET Hashes
  BY TypedPlaces
<1> DEFINE l == lookups[s] \ {h}  f == [fate[s] EXCEPT ![h] = "none"]
<1>4. Sound(avail[s], pending[s], ready[s], l, f, tries[s])
  BY <1>2, <1>3, TypedPlaces DEF Sound
<1>5. Moves(s, avail[s], pending[s], ready[s], l, f, tries[s])
  BY <1>1, TypedPlaces DEF Moves
<1> HIDE DEF l, f
<1> QED
  BY <1>4, <1>5, OneSource

LEMMA PullInv ==
  ASSUME SourcesInv, NEW s \in Two, NEW h \in Hashes, Pull(s, h) PROVE SourcesInv'
<1>1. /\ h \in Offers(s)
      /\ lookups' = [lookups EXCEPT ![s] = lookups[s] \ {h}]
      /\ ready' = [ready EXCEPT ![s] = taken(ready[s], h)]
      /\ avail' = [avail EXCEPT ![s] = taken(avail[s], h)]
      /\ fate' = [fate EXCEPT ![s] =
                    [fate[s] EXCEPT ![h] = IF fate[s][h] = "sent" THEN "none" ELSE "twice"]]
      /\ UNCHANGED <<composition, kind, opening, mode, pending, tries>>
  BY DEF Pull
<1>2. \/ h \in lookups[s]
      \/ ready[s] # <<>> /\ h = Head(ready[s])
      \/ avail[s] # <<>> /\ h = Head(avail[s])
  BY <1>1 DEF Offers
<1>3. /\ taken(avail[s], h) \in Seq(Hashes) /\ taken(ready[s], h) \in Seq(Hashes)
      /\ fate[s][h] = "sent"
      /\ [fate[s] EXCEPT ![h] = "none"] \in [Hashes -> {"none", "sent"}]
      /\ Placed(taken(avail[s], h), pending[s], taken(ready[s], h), lookups[s] \ {h},
                [fate[s] EXCEPT ![h] = "none"], tries[s])
  BY <1>2, TypedPlaces, PulledPlaced
<1>4. fate' = [fate EXCEPT ![s] = [fate[s] EXCEPT ![h] = "none"]]
  BY <1>1, <1>3
<1>5. lookups[s] \ {h} \in SUBSET Hashes
  BY TypedPlaces
<1> DEFINE l == lookups[s] \ {h}  f == [fate[s] EXCEPT ![h] = "none"]
<1>6. Sound(taken(avail[s], h), pending[s], taken(ready[s], h), l, f, tries[s])
  BY <1>3, <1>5, TypedPlaces DEF Sound
<1>7. Moves(s, taken(avail[s], h), pending[s], taken(ready[s], h), l, f, tries[s])
  BY <1>1, <1>4, TypedPlaces DEF Moves
<1> HIDE DEF l, f
<1> QED
  BY <1>6, <1>7, OneSource

LEMMA SourcesKept ==
  ASSUME SourcesInv, UNCHANGED <<composition, kind, opening, mode, avail, pending, ready, lookups,
                                 fate, tries>>
  PROVE  SourcesInv'
<1>1. SourcesTypeOK'
  BY DEF SourcesInv, SourcesTypeOK
<1>2. AllPlaced'
  BY DEF SourcesInv, AllPlaced
<1>3. Opened'
  BY DEF SourcesInv, Opened
<1> QED BY <1>1, <1>2, <1>3 DEF SourcesInv

LEMMA SourcesStepInv == ASSUME SourcesInv, SourcesStep PROVE SourcesInv'
<1>1. CASE reconnect
  BY <1>1, ClosedInv DEF reconnect
<1>2. ASSUME NEW s \in Two,
             \/ subscribe(s) \/ stream_ends(s) \/ fetch_tick(s) \/ start_lookup(s)
             \/ \E h \in Hashes : lookup_fails(s, h)
      PROVE  SourcesInv'
  BY <1>2, SubscribeInv, StreamEndsInv, FetchTickInv, StartLookupInv, LookupFailsInv
<1>3. ASSUME NEW h \in Hashes, publish(h) PROVE SourcesInv'
  BY <1>3, PublishInv
<1> QED BY <1>1, <1>2, <1>3 DEF SourcesStep

(* The loop's own steps leave the sources alone, but for the faults.       *)
LEMMA NextSplit ==
  ASSUME [Next]_vars
  PROVE  \/ SourcesStep /\ UNCHANGED loopVars
         \/ \E s \in Two, h \in Hashes : collect(s, h)
         \/ /\ subscribe_channel \/ collect_outcome \/ process_event \/ pass_action \/ elapse
               \/ execute \/ execute_primary \/ execute_fallback
            /\ UNCHANGED <<composition, kind, opening, mode, avail, pending, ready, lookups, fate,
                           tries>>
         \/ UNCHANGED vars
BY DEF Next, sourceVars, subscribe_channel, collect_outcome, process_event, pass_action, elapse,
       execute, execute_primary, execute_fallback

LEMMA SourcesNext == SourcesInv /\ [Next]_vars => SourcesInv'
<1> SUFFICES ASSUME SourcesInv, [Next]_vars PROVE SourcesInv'
  OBVIOUS
<1>1. CASE SourcesStep
  BY <1>1, SourcesStepInv
<1>2. ASSUME NEW s \in Two, NEW h \in Hashes, collect(s, h) PROVE SourcesInv'
  BY <1>2, PullInv DEF collect
<1>3. CASE UNCHANGED <<composition, kind, opening, mode, avail, pending, ready, lookups, fate,
                       tries>>
  BY <1>3, SourcesKept
<1>4. CASE UNCHANGED vars
  BY <1>4, SourcesKept DEF vars, sourceVars
<1> QED BY <1>1, <1>2, <1>3, <1>4, NextSplit

LEMMA SourcesAlways == Spec => []SourcesInv
<1>1. Init => SourcesInv
  BY SourcesInitInv DEF Init
<1> QED BY <1>1, SourcesNext, PTL DEF Spec

(* How often a sequence without repetition has an element.                 *)
LEMMA Occurrences ==
  ASSUME NEW S, NEW q \in Seq(S), Once(q), NEW h
  PROVE  Cardinality({i \in DOMAIN q : q[i] = h}) = IF h \in Elements(q) THEN 1 ELSE 0
<1>1. CASE h \in Elements(q)
  <2>1. PICK i \in DOMAIN q : q[i] = h
    BY <1>1 DEF Elements
  <2>2. {j \in DOMAIN q : q[j] = h} = {i}
    BY <2>1 DEF Once
  <2> QED BY <1>1, <2>2, FS_Singleton
<1>2. CASE h \notin Elements(q)
  <2>1. {j \in DOMAIN q : q[j] = h} = {}
    BY <1>2 DEF Elements
  <2> QED BY <1>2, <2>1, FS_EmptySet
<1> QED BY <1>1, <1>2

LEMMA Accounted == ASSUME SourcesInv PROVE ItemsAccounted
<1> SUFFICES ASSUME NEW s \in Two, NEW h \in Hashes
             PROVE  /\ fate[s][h] \in {"none", "sent"}
                    /\ (fate[s][h] = "sent") <=> (h \in InUse(s))
                    /\ Cardinality({i \in DOMAIN avail[s] : avail[s][i] = h})
                       + Cardinality({i \in DOMAIN pending[s] : pending[s][i].hash = h})
                       + Cardinality({i \in DOMAIN ready[s] : ready[s][i] = h})
                       + Cardinality({h} \cap lookups[s]) <= 1
  BY DEF ItemsAccounted
<1> DEFINE A == Elements(avail[s])  P == Elements(HashesOf(pending[s]))
           R == Elements(ready[s])
<1>1. /\ avail[s] \in Seq(Hashes) /\ pending[s] \in Seq(Entries) /\ ready[s] \in Seq(Hashes)
      /\ lookups[s] \in SUBSET Hashes /\ fate[s] \in [Hashes -> {"none", "sent"}]
      /\ Placed(avail[s], pending[s], ready[s], lookups[s], fate[s], tries[s])
  BY TypedPlaces
<1>2. (fate[s][h] = "sent") <=> (h \in InUse(s))
  BY <1>1 DEF Placed, InUse
<1>3. Once(avail[s]) /\ Once(HashesOf(pending[s])) /\ Once(ready[s])
  BY <1>1 DEF Placed
<1>4. Cardinality({i \in DOMAIN avail[s] : avail[s][i] = h}) = IF h \in A THEN 1 ELSE 0
  BY <1>1, <1>3, Occurrences
<1>5. Cardinality({i \in DOMAIN ready[s] : ready[s][i] = h}) = IF h \in R THEN 1 ELSE 0
  BY <1>1, <1>3, Occurrences
<1>6. Cardinality({i \in DOMAIN pending[s] : pending[s][i].hash = h}) = IF h \in P THEN 1 ELSE 0
  <2>1. /\ HashesOf(pending[s]) \in Seq(Hashes) /\ DOMAIN HashesOf(pending[s]) = DOMAIN pending[s]
        /\ \A i \in DOMAIN pending[s] : HashesOf(pending[s])[i] = pending[s][i].hash
    BY <1>1, FailuresIs
  <2>2. {i \in DOMAIN pending[s] : pending[s][i].hash = h} =
          {i \in DOMAIN HashesOf(pending[s]) : HashesOf(pending[s])[i] = h}
    BY <2>1
  <2> QED BY <1>3, <2>1, <2>2, Occurrences
<1>7. Cardinality({h} \cap lookups[s]) = IF h \in lookups[s] THEN 1 ELSE 0
  <2>1. CASE h \in lookups[s]
    <3>1. {h} \cap lookups[s] = {h}
      BY <2>1
    <3> QED BY <2>1, <3>1, FS_Singleton
  <2>2. CASE h \notin lookups[s]
    <3>1. {h} \cap lookups[s] = {}
      BY <2>2
    <3> QED BY <2>2, <3>1, FS_EmptySet
  <2> QED BY <2>1, <2>2
<1>8. /\ A \cap P = {} /\ A \cap R = {} /\ A \cap lookups[s] = {}
      /\ P \cap R = {} /\ P \cap lookups[s] = {} /\ R \cap lookups[s] = {}
  BY <1>1 DEF Placed
<1> HIDE DEF A, P, R
<1>9. fate[s][h] \in {"none", "sent"}
  BY <1>1
<1> QED
  BY <1>2, <1>4, <1>5, <1>6, <1>7, <1>8, <1>9

(* Whatever the node sends, however its answers fail and whenever streams  *)
(* end, every item a stream was sent is at exactly one place until it is   *)
(* delivered once, given up after all its attempts or lost with the        *)
(* stream.                                                                 *)
THEOREM EveryItemAccounted == Spec => []ItemsAccounted
BY SourcesAlways, Accounted, PTL

-----------------------------------------------------------------------------
(* The composites.                                                         *)

(* What settles items of Chain's second source while the first is running  *)
(* ends the composite stream or that source.                               *)
LEMMA HeldBackKept ==
  ASSUME SourcesInv, [Next]_vars, composition = "chain", opening' = Up, mode'[2] # "ended",
         mode[1] # "ended", NEW h \in Hashes, fate[2][h] = "sent"
  PROVE  fate'[2][h] = "sent"
<1>1. HeldBack(2) /\ ~Polled(2) /\ 2 \in Two /\ 1 \in Two
  BY DEF HeldBack, Polled, Two
<1>2. fate \in [Two -> [Hashes -> {"none", "sent"}]]
  BY DEF SourcesInv, SourcesTypeOK
<1>3. mode \in [Two -> {"closed", "pubsub", "poll", "ended"}]
  BY DEF SourcesInv, SourcesTypeOK
<1>4. ASSUME NEW s \in Two, stream_ends(s) \/ fetch_tick(s) \/ \E g \in Hashes : lookup_fails(s, g)
      PROVE  fate'[2][h] = "sent"
  <2>1. s = 1
    BY <1>1, <1>3, <1>4 DEF stream_ends, fetch_tick, lookup_fails, Two
  <2>2. CASE stream_ends(s)
    <3>1. \E F : fate' = [fate EXCEPT ![1] = F]
      BY <2>1, <2>2 DEF stream_ends
    <3> QED BY <1>1, <1>2, <3>1
  <2>3. CASE fetch_tick(s)
    <3>1. \E F : fate' = [fate EXCEPT ![1] = F]
      BY <2>1, <2>3 DEF fetch_tick
    <3> QED BY <1>1, <1>2, <3>1
  <2>4. ASSUME NEW g \in Hashes, lookup_fails(s, g) PROVE fate'[2][h] = "sent"
    <3>1. fate' = [fate EXCEPT ![1] = [fate[1] EXCEPT ![g] = "none"]]
      BY <2>1, <2>4 DEF lookup_fails
    <3> QED BY <1>1, <1>2, <3>1
  <2> QED BY <1>4, <2>2, <2>3, <2>4
<1>5. ASSUME NEW s \in Two, NEW g \in Hashes, collect(s, g) PROVE fate'[2][h] = "sent"
  <2>1. Polled(s) /\ fate' = [fate EXCEPT ![s] = [fate[s] EXCEPT ![g] =
                                IF fate[s][g] = "sent" THEN "none" ELSE "twice"]]
    BY <1>5 DEF collect, Pull
  <2>2. s = 1
    BY <1>1, <2>1 DEF Two
  <2> QED BY <1>1, <1>2, <2>1, <2>2
<1>6. ASSUME NEW s \in Two, subscribe(s) PROVE fate'[2][h] = "sent"
  BY <1>6 DEF subscribe, Up
<1>7. ASSUME NEW g \in Hashes, publish(g) PROVE fate'[2][h] = "sent"
  <2>1. \/ fate'[2] = fate[2]
        \/ fate'[2] = [fate[2] EXCEPT ![g] = "sent"]
    BY <1>1, <1>7 DEF publish
  <2> QED BY <1>1, <1>2, <2>1
<1>8. CASE reconnect
  BY <1>8 DEF reconnect, Up
<1>9. CASE UNCHANGED fate
  BY <1>9
<1>10. ASSUME NEW s \in Two, start_lookup(s) PROVE fate'[2][h] = "sent"
  BY <1>10 DEF start_lookup
<1>11. CASE SourcesStep
  BY <1>4, <1>6, <1>7, <1>8, <1>10, <1>11 DEF SourcesStep
<1>12. CASE UNCHANGED vars
  BY <1>9, <1>12 DEF vars, sourceVars
<1> QED BY <1>5, <1>9, <1>11, <1>12, NextSplit

(* The composite stream is given up by reconnect alone.                    *)
LEMMA GivenUp ==
  ASSUME [Next]_vars, opening = Up, opening' # Up
  PROVE  StreamOver
<1>1. ASSUME NEW s \in Two, subscribe(s) PROVE FALSE
  BY <1>1 DEF subscribe, Two, Up
<1>2. CASE SourcesStep
  BY <1>1, <1>2 DEF SourcesStep, reconnect, stream_ends, fetch_tick, start_lookup, lookup_fails,
                    publish
<1>3. ASSUME NEW s \in Two, NEW h \in Hashes, collect(s, h) PROVE FALSE
  BY <1>3 DEF collect, Pull
<1>4. CASE UNCHANGED vars
  BY <1>4 DEF vars, sourceVars
<1> QED BY <1>2, <1>3, <1>4, NextSplit

(* Chain and Merge have every source subscribed and give their stream up   *)
(* only when all have ended, nothing of Chain's second source leaves       *)
(* before the first has ended, and Fallback has one source.                *)
THEOREM CompositesKeepContract == Spec => CompositeContract
<1>1. ASSUME SourcesInv, SourcesInv', [Next]_vars
      PROVE  /\ opening' = Up /\ composition # "fallback" => \A s \in Two : mode'[s] # "closed"
             /\ opening' = Up /\ composition = "fallback" => \E s \in Two : mode'[s] = "closed"
             /\ opening = Up /\ opening' # Up => \A s \in Two : mode[s] \in {"ended", "closed"}
             /\ composition = "chain" /\ opening' = Up /\ mode'[2] # "ended" /\ mode[1] # "ended" =>
                  \A h \in Hashes : fate[2][h] = "sent" => fate'[2][h] = "sent"
  <2>1. composition' = composition
    <3>1. CASE SourcesStep
      BY <3>1 DEF SourcesStep, subscribe, reconnect, stream_ends, fetch_tick, start_lookup,
                  lookup_fails, publish
    <3>2. ASSUME NEW s \in Two, NEW h \in Hashes, collect(s, h) PROVE composition' = composition
      BY <3>2 DEF collect, Pull
    <3>3. CASE UNCHANGED vars
      BY <3>3 DEF vars, sourceVars
    <3> QED BY <1>1, <3>1, <3>2, <3>3, NextSplit
  <2>2. /\ opening' = Up /\ composition # "fallback" => \A s \in Two : mode'[s] # "closed"
        /\ opening' = Up /\ composition = "fallback" => \E s \in Two : mode'[s] = "closed"
    BY <1>1, <2>1 DEF SourcesInv, Opened, Two, Up
  <2>3. opening = Up /\ opening' # Up => \A s \in Two : mode[s] \in {"ended", "closed"}
    BY <1>1, GivenUp DEF StreamOver
  <2>4. composition = "chain" /\ opening' = Up /\ mode'[2] # "ended" /\ mode[1] # "ended" =>
          \A h \in Hashes : fate[2][h] = "sent" => fate'[2][h] = "sent"
    BY <1>1, HeldBackKept
  <2> QED BY <2>2, <2>3, <2>4
<1>2. SourcesInv /\ SourcesInv' /\ [Next]_vars =>
        [/\ opening' = Up /\ composition # "fallback" => \A s \in Two : mode'[s] # "closed"
         /\ opening' = Up /\ composition = "fallback" => \E s \in Two : mode'[s] = "closed"
         /\ opening = Up /\ opening' # Up => \A s \in Two : mode[s] \in {"ended", "closed"}
         /\ composition = "chain" /\ opening' = Up /\ mode'[2] # "ended" /\ mode[1] # "ended" =>
              \A h \in Hashes : fate[2][h] = "sent" => fate'[2][h] = "sent"]_vars
  BY <1>1
<1> QED
  BY <1>2, SourcesAlways, PTL DEF Spec, CompositeContract

-----------------------------------------------------------------------------
(* The loop.                                                               *)

(* What one event yields, FilterActions has let through.                   *)
LEMMA Passing == Produced \in Seq(Allowed)
<1> DEFINE I == (Trades \ confirmed) \cap Allowed
<1>1. I \subseteq Allowed /\ I \subseteq Nat /\ IsFiniteSet(I)
  BY FS_Subset, FeedbackAssumption
<1>2. Cardinality(I) \in Nat /\ Ascending(I) \in [1..Cardinality(I) -> I]
  BY <1>1, AscendingIs
<1> HIDE DEF I
<1>3. Ascending(I) \in Seq(I)
  BY <1>2
<1>4. Ascending(I) \in Seq(Allowed)
  BY <1>1, <1>3, SeqMonotonic
<1> QED BY <1>4 DEF I, Produced

LEMMA SpacedInit == Init => Spaced
BY FeedbackAssumption DEF Init, Spaced, CooldownSpacing

LEMMA SpacedNext == Spaced /\ [Next]_vars => Spaced'
<1> SUFFICES ASSUME Spaced, [Next]_vars PROVE Spaced'
  OBVIOUS
<1> USE FeedbackAssumption
<1>1. CASE UNCHANGED <<batch, whole, last_fired, since>>
  BY <1>1 DEF Spaced, CooldownSpacing
<1>2. CASE process_event
  <2>1. CASE UNCHANGED <<batch, whole>>
    BY <1>1, <1>2, <2>1 DEF process_event
  <2>2. CASE batch' = IF cooling THEN <<>> ELSE Produced
    <3>1. batch' \in Seq(Allowed)
      BY <2>2, Passing
    <3>2. batch' # <<>> => since >= Duration
      BY <2>2 DEF Spaced, cooling
    <3>3. last_fired' = last_fired /\ since' = since
      BY <1>2 DEF process_event
    <3> QED BY <3>1, <3>2, <3>3 DEF Spaced, CooldownSpacing
  <2> QED BY <1>2, <2>1, <2>2 DEF process_event
<1>3. CASE pass_action
  <2>1. batch \in Seq(Allowed) /\ batch # <<>>
    BY <1>3 DEF pass_action, Spaced
  <2>2. batch' = Tail(batch) /\ whole' = (Len(batch) = 1) /\ last_fired' = 0 /\ since' = 0
    BY <1>3 DEF pass_action, stamp
  <2>3. Tail(batch) \in Seq(Allowed) /\ Len(Tail(batch)) = Len(batch) - 1
    BY <2>1, HeadTailProperties
  <2>4. Tail(batch) = <<>> \/ Len(Tail(batch)) \in Nat \ {0}
    BY <2>3, EmptySeq
  <2>5. Tail(batch) # <<>> => Len(batch) # 1
    BY <2>1, <2>3, <2>4, LenProperties
  <2>6. batch' # <<>> => ~whole'
    BY <2>2, <2>5, Zenon
  <2> QED BY <2>2, <2>3, <2>6 DEF Spaced, CooldownSpacing
<1>4. CASE elapse
  BY <1>4 DEF elapse, Spaced, CooldownSpacing
<1>5. CASE UNCHANGED loopVars
  BY <1>1, <1>5 DEF loopVars
<1>6. ASSUME NEW s \in Two, NEW h \in Hashes, collect(s, h) PROVE Spaced'
  BY <1>1, <1>6 DEF collect
<1>7. CASE subscribe_channel \/ collect_outcome \/ execute \/ execute_primary \/ execute_fallback
  BY <1>1, <1>7 DEF subscribe_channel, collect_outcome, execute, execute_primary, execute_fallback
<1> QED BY <1>2, <1>3, <1>4, <1>5, <1>6, <1>7 DEF Next, vars

(* Whatever the events and however many actions one of them yields, an     *)
(* action passes Cooldown only when the whole cooldown has gone by since   *)
(* the last action of an earlier event passed.                             *)
THEOREM CooldownSpacesEvents == Spec => []CooldownSpacing
<1>1. Spaced => CooldownSpacing
  BY DEF Spaced
<1> QED BY <1>1, SpacedInit, SpacedNext, PTL DEF Spec

(* The events of the loop when acc are the trades accepted so far: none    *)
(* confirms a trade that was routed to the executor and not accepted.      *)
Events == [is : {"tick", "outcome"}, trade : Nat, ok : BOOLEAN]
Vouched(acc) == acc \cup (Allowed \ Routed)
HonestIn(acc) == {e \in Events : e.ok => e.trade \in Vouched(acc)}

(* What the strategy holds for confirmed an executor has accepted, unless  *)
(* no executor was meant to get it, and the executor accepts nothing that  *)
(* the filters around the strategy and the executor keep back.             *)
ConfirmedIsAccepted ==
  /\ confirmed \subseteq Vouched(accepted)
  /\ accepted \subseteq Allowed \cap Routed

LoopInv ==
  /\ Spaced
  /\ inbox \in Seq(HonestIn(accepted)) /\ outcomes \in Seq(HonestIn(accepted))
  /\ actions \in Seq(Allowed)
  /\ executing = Idle
     \/ \E t \in Allowed \cap Routed : \E a \in {"primary", "fallback"} :
          executing = [at |-> a, trade |-> t]
  /\ ConfirmedIsAccepted

LEMMA TickIsHonest == Tick \in HonestIn(accepted)
<1>1. Tick \in Events
  BY DEF Tick, Events
<1>2. ~Tick.ok
  BY Zenon DEF Tick
<1> QED BY <1>1, <1>2 DEF HonestIn

LEMMA OutcomeIsHonest ==
  ASSUME NEW acc, NEW t \in Nat, NEW ok \in BOOLEAN, ok => t \in Vouched(acc)
  PROVE  Outcome(t, ok) \in HonestIn(acc)
<1>1. Outcome(t, ok) \in Events
  BY DEF Outcome, Events
<1>2. Outcome(t, ok).ok = ok /\ Outcome(t, ok).trade = t
  BY Zenon DEF Outcome
<1> QED BY <1>1, <1>2 DEF HonestIn

LEMMA HonestGrows ==
  ASSUME NEW acc, NEW more, acc \subseteq more
  PROVE  HonestIn(acc) \subseteq HonestIn(more)
BY DEF HonestIn, Vouched

(* The channel after a verdict holds honest events.                        *)
LEMMA Reported ==
  ASSUME NEW acc, NEW t \in Nat, NEW ok \in BOOLEAN, ok => t \in Vouched(acc),
         outcomes \in Seq(HonestIn(acc)), report(t, ok)
  PROVE  executing' = Idle /\ outcomes' \in Seq(HonestIn(acc))
<1> DEFINE e == Outcome(t, ok)
           sent == Append(outcomes, e)
<1>1. e \in HonestIn(acc)
  BY OutcomeIsHonest
<1>2. outcomes' = IF ~receiver THEN outcomes ELSE IF Len(sent) > Capacity THEN Tail(sent) ELSE sent
  BY DEF report
<1> HIDE DEF e
<1>3. sent \in Seq(HonestIn(acc)) /\ sent # <<>>
  BY <1>1, AppendProperties
<1>4. Tail(sent) \in Seq(HonestIn(acc))
  BY <1>3, HeadTailProperties
<1> HIDE DEF sent
<1> QED BY <1>2, <1>3, <1>4 DEF report

LEMMA LoopInit == Init => LoopInv
<1> SUFFICES ASSUME Init PROVE LoopInv
  OBVIOUS
<1>1. Spaced
  BY SpacedInit
<1> QED BY <1>1, EmptySeq DEF Init, LoopInv, ConfirmedIsAccepted

LEMMA LoopNext == LoopInv /\ [Next]_vars => LoopInv'
<1> SUFFICES ASSUME LoopInv, [Next]_vars PROVE LoopInv'
  OBVIOUS
<1> USE FeedbackAssumption
<1>1. Spaced'
  BY SpacedNext DEF LoopInv
<1>2. Allowed \subseteq Nat /\ Allowed \subseteq Trades
  OBVIOUS
<1>3. CASE UNCHANGED <<inbox, confirmed, actions, executing, outcomes, accepted>>
  BY <1>1, <1>3 DEF LoopInv, ConfirmedIsAccepted, Idle, Vouched
<1>4. ASSUME NEW s \in Two, NEW h \in Hashes, collect(s, h) PROVE LoopInv'
  <2>1. inbox' = inbox \/ inbox' = Append(inbox, Tick)
    BY <1>4 DEF collect
  <2>2. inbox' \in Seq(HonestIn(accepted))
    <3>1. inbox \in Seq(HonestIn(accepted))
      BY DEF LoopInv
    <3>2. Append(inbox, Tick) \in Seq(HonestIn(accepted))
      BY <3>1, TickIsHonest, AppendProperties
    <3> QED BY <2>1, <3>1, <3>2
  <2>3. UNCHANGED <<confirmed, actions, executing, outcomes, accepted>>
    BY <1>4 DEF collect
  <2> QED BY <1>1, <2>2, <2>3 DEF LoopInv, ConfirmedIsAccepted, Idle, Vouched
<1>5. CASE subscribe_channel
  <2>1. outcomes' \in Seq(HonestIn(accepted))
    BY <1>5, EmptySeq DEF subscribe_channel
  <2>2. UNCHANGED <<inbox, confirmed, actions, executing, accepted>>
    BY <1>5 DEF subscribe_channel
  <2> QED BY <1>1, <2>1, <2>2 DEF LoopInv, ConfirmedIsAccepted, Idle, Vouched
<1>6. CASE collect_outcome
  <2>1. /\ outcomes # <<>> /\ inbox' = Append(inbox, Head(outcomes)) /\ outcomes' = Tail(outcomes)
        /\ UNCHANGED <<confirmed, actions, executing, accepted>>
    BY <1>6 DEF collect_outcome
  <2>2. Head(outcomes) \in HonestIn(accepted) /\ outcomes' \in Seq(HonestIn(accepted))
    BY <2>1, HeadTailProperties DEF LoopInv
  <2>3. inbox' \in Seq(HonestIn(accepted))
    BY <2>1, <2>2, AppendProperties DEF LoopInv
  <2> QED BY <1>1, <2>1, <2>2, <2>3 DEF LoopInv, ConfirmedIsAccepted, Idle, Vouched
<1>7. CASE process_event
  <2>1. /\ inbox # <<>> /\ inbox' = Tail(inbox)
        /\ confirmed' = confirmed \/ confirmed' = learned(Head(inbox))
        /\ UNCHANGED <<actions, executing, outcomes, accepted>>
    BY <1>7 DEF process_event
  <2>2. Head(inbox) \in HonestIn(accepted) /\ inbox' \in Seq(HonestIn(accepted))
    BY <2>1, HeadTailProperties DEF LoopInv
  <2>3. learned(Head(inbox)) \subseteq Vouched(accepted)
    <3>1. Head(inbox).ok => Head(inbox).trade \in Vouched(accepted)
      BY <2>2 DEF HonestIn
    <3>2. confirmed \subseteq Vouched(accepted)
      BY DEF LoopInv, ConfirmedIsAccepted
    <3> QED BY <3>1, <3>2 DEF learned
  <2>4. confirmed' \subseteq Vouched(accepted)
    BY <2>1, <2>3 DEF LoopInv, ConfirmedIsAccepted
  <2> QED BY <1>1, <2>1, <2>2, <2>4 DEF LoopInv, ConfirmedIsAccepted, Idle, Vouched
<1>8. CASE pass_action
  <2>1. /\ batch # <<>> /\ actions' = Append(actions, Head(batch))
        /\ UNCHANGED <<inbox, confirmed, executing, outcomes, accepted>>
    BY <1>8 DEF pass_action
  <2>2. Head(batch) \in Allowed
    BY <2>1, HeadTailProperties DEF LoopInv, Spaced
  <2>3. actions' \in Seq(Allowed)
    BY <2>1, <2>2, AppendProperties DEF LoopInv
  <2> QED BY <1>1, <2>1, <2>3 DEF LoopInv, ConfirmedIsAccepted, Idle, Vouched
<1>9. CASE elapse
  BY <1>3, <1>9 DEF elapse
<1>10. CASE execute
  <2>1. /\ actions # <<>> /\ actions' = Tail(actions)
        /\ UNCHANGED <<inbox, confirmed, accepted>>
    BY <1>10 DEF execute
  <2>2. Head(actions) \in Allowed /\ actions' \in Seq(Allowed)
    BY <2>1, HeadTailProperties DEF LoopInv
  <2>3. CASE /\ Head(actions) \in Routed /\ UNCHANGED outcomes
             /\ executing' = [at |-> "primary", trade |-> Head(actions)]
    BY <1>1, <2>1, <2>2, <2>3 DEF LoopInv, ConfirmedIsAccepted, Idle, Vouched
  <2>4. CASE Head(actions) \notin Routed /\ report(Head(actions), TRUE)
    <3>1. Head(actions) \in Nat /\ Head(actions) \in Vouched(accepted)
      BY <1>2, <2>2, <2>4 DEF Vouched
    <3>2. executing' = Idle /\ outcomes' \in Seq(HonestIn(accepted))
      BY <2>4, <3>1, Reported DEF LoopInv
    <3> QED BY <1>1, <2>1, <2>2, <3>2 DEF LoopInv, ConfirmedIsAccepted, Idle, Vouched
  <2> QED BY <1>10, <2>3, <2>4 DEF execute
<1>11. CASE execute_primary \/ execute_fallback
  <2>1. executing # Idle /\ UNCHANGED <<inbox, confirmed, actions>>
    <3>1. executing.at \in {"primary", "fallback"} /\ UNCHANGED <<inbox, confirmed, actions>>
      BY <1>11 DEF execute_primary, execute_fallback
    <3>2. Idle.at = "idle"
      BY DEF Idle
    <3> QED BY <3>1, <3>2
  <2>2. PICK t \in Allowed \cap Routed, a \in {"primary", "fallback"} :
               executing = [at |-> a, trade |-> t]
    BY <2>1 DEF LoopInv
  <2>3. \/ accepted' = accepted \cup {t} /\ report(t, TRUE)
        \/ /\ accepted' = accepted /\ outcomes' = outcomes
           /\ executing' = [at |-> "fallback", trade |-> t]
        \/ accepted' = accepted /\ report(t, FALSE)
    BY <1>11, <2>2 DEF execute_primary, execute_fallback
  <2>4. CASE accepted' = accepted \cup {t} /\ report(t, TRUE)
    <3>1. HonestIn(accepted) \subseteq HonestIn(accepted')
      BY <2>4, HonestGrows
    <3>2. inbox \in Seq(HonestIn(accepted')) /\ outcomes \in Seq(HonestIn(accepted'))
      BY <3>1, SeqMonotonic DEF LoopInv
    <3>3. t \in Vouched(accepted')
      BY <2>4 DEF Vouched
    <3>4. executing' = Idle /\ outcomes' \in Seq(HonestIn(accepted'))
      BY <1>2, <2>4, <3>2, <3>3, Reported
    <3>5. ConfirmedIsAccepted'
      BY <2>1, <2>4 DEF LoopInv, ConfirmedIsAccepted, Vouched
    <3> QED BY <1>1, <2>1, <3>2, <3>4, <3>5 DEF LoopInv, Idle
  <2>5. CASE /\ accepted' = accepted /\ outcomes' = outcomes
             /\ executing' = [at |-> "fallback", trade |-> t]
    BY <1>1, <2>1, <2>5 DEF LoopInv, ConfirmedIsAccepted, Vouched, Idle
  <2>6. CASE accepted' = accepted /\ report(t, FALSE)
    <3>1. executing' = Idle /\ outcomes' \in Seq(HonestIn(accepted))
      <4>1. t \in Nat /\ outcomes \in Seq(HonestIn(accepted))
        BY <1>2 DEF LoopInv
      <4> QED BY <2>6, <4>1, Reported
    <3> QED BY <1>1, <2>1, <2>6, <3>1 DEF LoopInv, ConfirmedIsAccepted, Vouched, Idle
  <2> QED BY <2>3, <2>4, <2>5, <2>6
<1>12. CASE UNCHANGED loopVars
  BY <1>3, <1>12 DEF loopVars
<1> QED
  BY <1>4, <1>5, <1>6, <1>7, <1>8, <1>9, <1>10, <1>11, <1>12 DEF Next, vars

(* The safety half of the loop: whichever verdicts the channel drops and   *)
(* whichever executions fail, the strategy never holds a routed trade for  *)
(* confirmed that no executor accepted, and no executor accepts a trade    *)
(* that one of the filters keeps back.                                     *)
THEOREM ConfirmationsAreHonest == Spec => []ConfirmedIsAccepted
<1>1. LoopInv => ConfirmedIsAccepted
  BY DEF LoopInv
<1> QED BY <1>1, LoopInit, LoopNext, PTL DEF Spec

=============================================================================
