---------------------------- MODULE TimeFrontier ----------------------------
(***************************************************************************)
(* The reference Position of overlapping sources                           *)
(* (src/persistence/position.rs): a boundary instant and the identities    *)
(* observed at that instant.  Instants are natural numbers, identities     *)
(* (strings in the code, ordered as strings are) are integers.             *)
(***************************************************************************)
EXTENDS Integers, FiniteSets

CONSTANT Identity

None == [time_ms |-> -1, seen |-> {}]

REOBSERVATION == "Dedupe"

TimeFrontiers == [time_ms : Nat, seen : SUBSET Identity]

sort_key(p) == p.time_ms

(* The minimal frontier at an instant: nothing seen there yet.             *)
from_sort_key(k) == [time_ms |-> k, seen |-> {}]

(* A later instant drops the stale set, the same instant unions the sets,  *)
(* an earlier one changes nothing.  Mutant: the union keeps only the new   *)
(* identities.                                                             *)
advance_forgets(prev, next) == IF next.time_ms >= prev.time_ms THEN next ELSE prev
advance(prev, next) ==
  IF next.time_ms > prev.time_ms THEN next
  ELSE IF next.time_ms < prev.time_ms THEN prev
  ELSE [time_ms |-> prev.time_ms, seen |-> prev.seen \cup next.seen]

contains(w, pos) ==
  \/ pos.time_ms < w.time_ms
  \/ pos.time_ms = w.time_ms /\ pos.seen \subseteq w.seen

(* The boundary instant itself: a resume reads it again.                   *)
resume_key(p) == p.time_ms

(* The persisted text: a JSON object whose array lists the set in order.   *)
JsonArray(S) ==
  CHOOSE s \in [1..Cardinality(S) -> S] : \A i, j \in DOMAIN s : i < j => s[i] < s[j]

encode(p) == [kind |-> "json", time_ms |-> p.time_ms, seen |-> JsonArray(p.seen)]

decodes(text) == text.kind = "json"

decode(text) ==
  [time_ms |-> text.time_ms, seen |-> {text.seen[i] : i \in DOMAIN text.seen}]
=============================================================================
