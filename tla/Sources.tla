------------------------------ MODULE Sources ------------------------------
(***************************************************************************)
(* The collectors over a node (src/collectors/) and the combinators that   *)
(* make one Collector of two (src/collector_ext/), under one Collector     *)
(* Driver that subscribes again when the composite stream ends or a        *)
(* subscribe fails.  (Its backoff and its giving up are CollectorDriver.)  *)
(*                                                                         *)
(* An item is a block, a log or a pending transaction, by its hash.  Only  *)
(* a stream that is polled does anything: what a held-back source has been *)
(* sent waits in the transport.                                            *)
(***************************************************************************)
EXTENDS Naturals, Sequences, FiniteSets

CONSTANTS
  Hashes,              \* items; one not in use anywhere may be sent again
  Composites,          \* the combinators, each with the two collectors in it
  Discarded,           \* hashes the FilterMap of the composite maps to None
  MAX_FETCH_ATTEMPTS,
  max_concurrent_lookups,
  MaxFaults            \* how many failures the outside world has in all

Two == {1, 2}
Up == 3

ASSUME SourcesAssumption ==
  /\ Composites \subseteq [by : {"chain", "merge", "fallback"},
                          of : [Two -> {"block", "log", "mempool"}]]
  /\ Discarded \subseteq Hashes
  /\ MAX_FETCH_ATTEMPTS \in Nat \ {0}
  /\ max_concurrent_lookups \in Nat \ {0}
  /\ MaxFaults \in Nat

VARIABLES
  composition,  \* "chain", "merge" or "fallback"
  kind,         \* what each source is: "block", "log" or "mempool"
  opening,      \* the source being subscribed, or Up
  mode,         \* a source's stream: "closed", "pubsub", "poll", "ended"
  avail,        \* sent to a stream and not yet taken
  pending,      \* FetchRetryQueue: [hash, failures], in first-failed order
  ready,        \* fetched by this tick and not yet yielded
  lookups,      \* transaction lookups in flight
  fate,         \* history: "sent" to a stream and not settled, else "none";
                \* "twice" or "short" when it was delivered again or given
                \* up too early
  tries,        \* history: failed fetches of an item since it was sent
  faults        \* failures of the outside world so far

sourceVars == <<composition, kind, opening, mode, avail, pending, ready, lookups, fate, tries,
                faults>>

(* The members of a finite set of numbers in ascending order, and the      *)
(* elements of q at such positions.                                        *)
Ascending(I) ==
  [n \in 1..Cardinality(I) |-> CHOOSE i \in I : Cardinality({j \in I : j <= i}) = n]
Kept(q, I) == [n \in 1..Cardinality(I) |-> q[Ascending(I)[n]]]

Elements(q) == {q[i] : i \in DOMAIN q}

Fault(n) == faults + n <= MaxFaults /\ faults' = faults + n

Closed ==
  /\ mode' = [s \in Two |-> "closed"]
  /\ avail' = [s \in Two |-> <<>>]
  /\ pending' = [s \in Two |-> <<>>]
  /\ ready' = [s \in Two |-> <<>>]
  /\ lookups' = [s \in Two |-> {}]
  /\ fate' = [s \in Two |-> [h \in Hashes |-> "none"]]
  /\ tries' = [s \in Two |-> [h \in Hashes |-> 0]]

-----------------------------------------------------------------------------
(* Subscribing.                                                            *)

(* subscribe_or_poll: pubsub, or polling when pubsub fails (which a        *)
(* transport without it always does), or an error when both do.            *)
subscribe_or_poll(s, m) ==
  /\ m \in {"pubsub", "poll", "error"}
  /\ Fault(IF m = "error" THEN 1 ELSE 0)

(* What the composite does once a source is subscribed.  Mutant: Chain     *)
(* subscribes its second source only when the first has ended.             *)
after_subscribe_lazy(s) == IF composition \in {"fallback", "chain"} THEN Up ELSE s + 1
after_subscribe(s) == IF composition = "fallback" THEN Up ELSE s + 1

subscribe(s) ==
  /\ opening = s
  /\ \E m \in {"pubsub", "poll", "error"} :
       /\ subscribe_or_poll(s, m)
       /\ \/ /\ m # "error"
             /\ mode' = [mode EXCEPT ![s] = m]
             /\ opening' = after_subscribe(s)
             /\ UNCHANGED <<avail, pending, ready, lookups, fate, tries>>
          \/ /\ m = "error" /\ composition = "fallback" /\ s = 1
             /\ opening' = 2
             /\ UNCHANGED <<mode, avail, pending, ready, lookups, fate, tries>>
          \/ /\ m = "error" /\ ~(composition = "fallback" /\ s = 1)
             /\ opening' = 1
             /\ Closed
  /\ UNCHANGED <<composition, kind>>

-----------------------------------------------------------------------------
(* The node.                                                               *)

HashesOf(q) == [i \in DOMAIN q |-> q[i].hash]

InUse(s) ==
  Elements(avail[s]) \cup Elements(HashesOf(pending[s])) \cup Elements(ready[s]) \cup lookups[s]

HeldBack(s) == composition = "chain" /\ s = 2 /\ mode[1] # "ended"

(* In the backlog of a held-back source one item stands for all that have  *)
(* the same hash.                                                          *)
publish(h) ==
  LET open == {s \in Two : mode[s] \in {"pubsub", "poll"} /\ h \notin InUse(s)} IN
    /\ open # {}
    /\ \A s \in Two : h \in InUse(s) => HeldBack(s)
    /\ avail' = [s \in Two |-> IF s \in open THEN Append(avail[s], h) ELSE avail[s]]
    /\ fate' = [s \in Two |-> IF s \in open THEN [fate[s] EXCEPT ![h] = "sent"] ELSE fate[s]]
    /\ tries' = [s \in Two |-> IF s \in open THEN [tries[s] EXCEPT ![h] = 0] ELSE tries[s]]
    /\ UNCHANGED <<composition, kind, opening, mode, pending, ready, lookups, faults>>

(* A stream ends: what the transport still had, and the hashes due for     *)
(* another attempt, go with it.                                            *)
stream_ends(s) ==
  /\ mode[s] \in {"pubsub", "poll"}
  /\ ready[s] = <<>> /\ lookups[s] = {}
  /\ Fault(1)
  /\ mode' = [mode EXCEPT ![s] = "ended"]
  /\ fate' = [fate EXCEPT ![s] = [h \in Hashes |-> IF h \in InUse(s) THEN "none" ELSE @[h]]]
  /\ tries' = [tries EXCEPT ![s] = [h \in Hashes |-> 0]]
  /\ avail' = [avail EXCEPT ![s] = <<>>]
  /\ pending' = [pending EXCEPT ![s] = <<>>]
  /\ UNCHANGED <<composition, kind, opening, ready, lookups>>

-----------------------------------------------------------------------------
(* Polling.                                                                *)

(* Chain polls its second stream once the first has ended.                 *)
Polled(s) ==
  /\ opening = Up
  /\ mode[s] \in {"pubsub", "poll"}
  /\ ~HeldBack(s)

(* record_failure, and whether it gives up.                                *)
failures(q, h) ==
  IF h \in Elements(HashesOf(q)) THEN q[CHOOSE i \in DOMAIN q : q[i].hash = h].failures ELSE 0

gives_up(q, h) == failures(q, h) + 1 >= MAX_FETCH_ATTEMPTS

(* What a tick fetches: the hashes that are due, then the new ones.        *)
to_fetch(q, new) == HashesOf(q) \o new

(* The queue after a tick: the hashes that failed and are not given up.    *)
(* Mutant: a hash that was fetched is not resolved.                        *)
unresolved_queue(q, new, failed) ==
  LET all == to_fetch(q, new) IN
    Kept([i \in DOMAIN all |-> [hash |-> all[i], failures |-> failures(q, all[i]) + 1]],
         {i \in DOMAIN all : ~gives_up(q, all[i])})
retry_queue(q, new, failed) ==
  LET all == to_fetch(q, new) IN
    Kept([i \in DOMAIN all |-> [hash |-> all[i], failures |-> failures(q, all[i]) + 1]],
         {i \in DOMAIN all : all[i] \in failed /\ ~gives_up(q, all[i])})

(* One poll tick of BlockCollector: all are fetched together and yielded   *)
(* in that order.                                                          *)
fetch_tick(s) ==
  LET all == to_fetch(pending[s], avail[s]) IN
    /\ kind[s] = "block" /\ mode[s] = "poll" /\ Polled(s)
    /\ ready[s] = <<>> /\ all # <<>>
    /\ \E failed \in SUBSET Elements(all) :
         /\ Fault(Cardinality(failed))
         /\ ready' = [ready EXCEPT ![s] = Kept(all, {i \in DOMAIN all : all[i] \notin failed})]
         /\ pending' = [pending EXCEPT ![s] = retry_queue(@, avail[s], failed)]
         /\ tries' = [tries EXCEPT ![s] = [h \in Hashes |->
                        IF h \in failed /\ ~gives_up(pending[s], h) THEN @[h] + 1 ELSE 0]]
         /\ fate' = [fate EXCEPT ![s] = [h \in Hashes |->
                       IF ~(h \in failed /\ gives_up(pending[s], h)) THEN @[h]
                       ELSE IF tries[s][h] + 1 < MAX_FETCH_ATTEMPTS THEN "short" ELSE "none"]]
    /\ avail' = [avail EXCEPT ![s] = <<>>]
    /\ UNCHANGED <<composition, kind, opening, mode, lookups>>

(* MempoolCollector: lookups are started in order, bounded, and end in any *)
(* order; one that fails, times out or finds nothing is dropped.           *)
start_lookup(s) ==
  /\ kind[s] = "mempool" /\ Polled(s) /\ avail[s] # <<>>
  /\ Cardinality(lookups[s]) < max_concurrent_lookups
  /\ lookups' = [lookups EXCEPT ![s] = @ \cup {Head(avail[s])}]
  /\ avail' = [avail EXCEPT ![s] = Tail(@)]
  /\ UNCHANGED <<composition, kind, opening, mode, pending, ready, fate, tries, faults>>

lookup_fails(s, h) ==
  /\ h \in lookups[s] /\ Polled(s)
  /\ Fault(1)
  /\ lookups' = [lookups EXCEPT ![s] = @ \ {h}]
  /\ fate' = [fate EXCEPT ![s][h] = "none"]
  /\ UNCHANGED <<composition, kind, opening, mode, avail, pending, ready, tries>>

(* The next item of a stream leaves the composite: a fetched block, a      *)
(* transaction that was found, or what the transport sent.                 *)
Offers(s) ==
  CASE kind[s] = "mempool"                    -> lookups[s]
    [] kind[s] = "block" /\ mode[s] = "poll"  -> IF ready[s] = <<>> THEN {} ELSE {Head(ready[s])}
    [] OTHER                                  -> IF avail[s] = <<>> THEN {} ELSE {Head(avail[s])}

taken(q, h) == IF q # <<>> /\ Head(q) = h THEN Tail(q) ELSE q

Pull(s, h) ==
  /\ Polled(s) /\ h \in Offers(s)
  /\ lookups' = [lookups EXCEPT ![s] = @ \ {h}]
  /\ ready' = [ready EXCEPT ![s] = taken(@, h)]
  /\ avail' = [avail EXCEPT ![s] = taken(@, h)]
  /\ fate' = [fate EXCEPT ![s][h] = IF @ = "sent" THEN "none" ELSE "twice"]
  /\ UNCHANGED <<composition, kind, opening, mode, pending, tries, faults>>

(* The composite stream is over.                                           *)
StreamOver == \A s \in Two : mode[s] \in {"ended", "closed"}

(* The driver subscribes again.                                            *)
reconnect ==
  /\ opening = Up /\ StreamOver
  /\ opening' = 1
  /\ Closed
  /\ UNCHANGED <<composition, kind, faults>>

SourcesInit ==
  /\ \E c \in Composites : composition = c.by /\ kind = c.of
  /\ opening = 1
  /\ mode = [s \in Two |-> "closed"]
  /\ avail = [s \in Two |-> <<>>]
  /\ pending = [s \in Two |-> <<>>]
  /\ ready = [s \in Two |-> <<>>]
  /\ lookups = [s \in Two |-> {}]
  /\ fate = [s \in Two |-> [h \in Hashes |-> "none"]]
  /\ tries = [s \in Two |-> [h \in Hashes |-> 0]]
  /\ faults = 0

(* Steps of the sources that deliver nothing.                              *)
SourcesStep ==
  \/ reconnect
  \/ \E s \in Two :
       \/ subscribe(s) \/ stream_ends(s) \/ fetch_tick(s) \/ start_lookup(s)
       \/ \E h \in Hashes : lookup_fails(s, h)
  \/ \E h \in Hashes : publish(h)
=============================================================================
