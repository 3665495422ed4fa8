------------------------- MODULE ConfirmationWindow -------------------------
(***************************************************************************)
(* The writer of the live tail (src/persistence/writer/window.rs) for      *)
(* block positions, whose re-observation policy is Halt.  It holds the     *)
(* most recent Depth heights back from the Store so that a shallow reorg   *)
(* is corrected in the buffer.                                             *)
(*                                                                         *)
(* record and record_seeded end in flush_matured, a loop with one awaited  *)
(* Store write per matured group.  A task may be dropped or the process    *)
(* may die at each of these awaits, so every write is a step of its own    *)
(* (flush); maturing holds the keys the loop has still to write, and no    *)
(* other operation starts before it is empty.                              *)
(***************************************************************************)
EXTENDS GapFreeWriter

CONSTANT Depth   \* confirmation_depth

ASSUME DepthAssumption == Depth \in Nat \ {0}

VARIABLES
  healthy,   \* core.healthy: sticky, FALSE once persistence has halted
  pending,   \* buffered groups by sort key
  head,      \* highest sort key of the current fork, or None
  flushed,   \* finalized watermark, or None
  maturing   \* keys flush_matured has collected and not yet written

windowVars == <<healthy, pending, head, flushed, maturing>>
vars == <<windowVars, storeVars>>

Group == [rows : Seq(Row), expected : Seq(Row), seeded : BOOLEAN]

NoGroups == [b \in {} |-> [rows |-> <<>>, expected |-> <<>>, seeded |-> FALSE]]

TypeOK ==
  /\ StoreTypeOK
  /\ healthy \in BOOLEAN
  /\ DOMAIN pending \subseteq Keys
  /\ pending \in [DOMAIN pending -> Group]
  /\ head \in Positions
  /\ flushed \in Positions
  /\ maturing \subseteq DOMAIN pending

-----------------------------------------------------------------------------
(* The buffer.                                                             *)

(* swap_remove of the first row equal to r.                                *)
RemoveOne(s, r) ==
  LET i == CHOOSE j \in DOMAIN s : s[j] = r /\ \A m \in DOMAIN s : s[m] = r => j <= m
  IN  [j \in 1..(Len(s) - 1) |-> IF j = i THEN s[Len(s)] ELSE s[j]]

Contains(s, r) == \E j \in DOMAIN s : s[j] = r

(* A seeded group meets the live feed: its rows become the set of          *)
(* re-deliveries to expect.  Mutant: they are just dropped.                *)
Converted_forgets(g) == [rows |-> <<>>, expected |-> <<>>, seeded |-> FALSE]
Converted(g) == [rows |-> <<>>, expected |-> g.rows, seeded |-> FALSE]

(* rewind: at or above key a seeded group is converted and kept, any other *)
(* group is dropped.                                                       *)
rewind(p, key) ==
  [b \in {x \in DOMAIN p : x < key \/ p[x].seeded} |->
     IF b < key THEN p[b] ELSE Converted(p[b])]

(* The buffer record works on: rewound when the key is behind the head.    *)
Rewound(key) == IF key < head THEN rewind(pending, key) ELSE pending

(* The group record finds at its key, converted on the first live contact. *)
Touched(p, key) ==
  IF key \notin DOMAIN p
    THEN [rows |-> <<>>, expected |-> <<>>, seeded |-> FALSE]
    ELSE IF p[key].seeded THEN Converted(p[key]) ELSE p[key]

Put(p, key, g) ==
  [b \in DOMAIN p \cup {key} |-> IF b = key THEN g ELSE p[b]]

Without(p, keys) == [b \in DOMAIN p \ keys |-> p[b]]

(* The group with one more live row: a row the group expects is            *)
(* crossed off.                                                            *)
WithRow(g, row) ==
  [rows     |-> Append(g.rows, row),
   expected |-> IF Contains(g.expected, row) THEN RemoveOne(g.expected, row)
                                             ELSE g.expected,
   seeded   |-> FALSE]

(* The group with one more backfill row.                                   *)
Seeded(p, key, row) ==
  IF key \in DOMAIN p
    THEN [p[key] EXCEPT !.rows = Append(@, row)]
    ELSE [rows |-> <<row>>, expected |-> <<>>, seeded |-> TRUE]

(* Groups buried deep enough.  Mutants: one confirmation short, one too    *)
(* many.                                                                   *)
Matured_early(p, h) == {b \in DOMAIN p : h >= saturating_add(b, Depth - 1)}
Matured_late(p, h) == {b \in DOMAIN p : h > saturating_add(b, Depth)}
Matured(p, h) == {b \in DOMAIN p : h >= saturating_add(b, Depth)}

-----------------------------------------------------------------------------
(* The operations.                                                         *)

(* new: a fresh window, its watermark seeded by the caller.                *)
new(seed) ==
  /\ healthy' = TRUE
  /\ pending' = NoGroups
  /\ head' = None
  /\ flushed' = seed
  /\ maturing' = {}

(* fail, and the clear of the buffer that follows it at every call site.   *)
halt ==
  /\ healthy' = FALSE
  /\ pending' = NoGroups
  /\ UNCHANGED <<head, flushed, maturing>>

(* The buffer and head after a successful record or record_seeded, and the *)
(* groups that flush_matured collects from them.                           *)
Buffer(p, h) ==
  /\ pending' = p
  /\ head' = h
  /\ maturing' = Matured(p, h)
  /\ UNCHANGED <<healthy, flushed>>

(* A live item at or below the watermark: a reorg deeper than the depth,   *)
(* as far as the window can tell.  Mutant: the bound itself slips through. *)
finalized_off_by_one(key) == key < flushed
finalized(key) == key <= flushed

(* Whether record delivers the event downstream: only a row the group      *)
(* still expects from the backfill copy is suppressed.                     *)
delivered(key, row) ==
  ~ /\ healthy
    /\ ~finalized(key)
    /\ encodes(row)
    /\ Contains(Touched(Rewound(key), key).expected, row)

record(key, row) ==
  /\ maturing = {}
  /\ UNCHANGED storeVars
  /\ \/ ~healthy /\ UNCHANGED windowVars
     \/ healthy /\ finalized(key) /\ halt
     \/ healthy /\ ~finalized(key) /\ ~encodes(row) /\ halt
     \/ /\ healthy /\ ~finalized(key) /\ encodes(row)
        /\ LET p == Rewound(key)
               h == IF key < head THEN key ELSE head
           IN  Buffer(Put(p, key, WithRow(Touched(p, key), row)), advance(h, key))

record_seeded(key, row) ==
  /\ maturing = {}
  /\ UNCHANGED storeVars
  /\ \/ ~healthy /\ UNCHANGED windowVars
     \/ healthy /\ key < head /\ halt
     \/ healthy /\ key >= head /\ ~encodes(row) /\ halt
     \/ /\ healthy /\ key >= head /\ encodes(row)
        /\ Buffer(Put(pending, key, Seeded(pending, key, row)), advance(head, key))

(* absorb: fold the settled writer's watermark into this window's.         *)
absorb(settled) ==
  /\ flushed' = advance(flushed, settled)
  /\ UNCHANGED <<healthy, pending, head, maturing>>

retract(key) ==
  /\ maturing = {}
  /\ UNCHANGED storeVars
  /\ \/ ~healthy /\ UNCHANGED windowVars
     \/ healthy /\ finalized(key) /\ halt
     \/ /\ healthy /\ ~finalized(key)
        /\ pending' = rewind(pending, key)
        /\ head' = IF head < saturating_sub(key, 1) THEN head
                                                    ELSE saturating_sub(key, 1)
        /\ UNCHANGED <<healthy, flushed, maturing>>

(* One turn of the loop of flush_matured: the lowest collected group.      *)
(* Mutant: only the lowest group is flushed.                               *)
flush_one ==
  \E b \in maturing :
    /\ \A c \in maturing : b <= c
    /\ write(b, pending[b].rows)
    /\ pending' = Without(pending, {b})
    /\ flushed' = advance(flushed, b)
    /\ maturing' = {}
    /\ UNCHANGED <<healthy, head>>
flush ==
  \E b \in maturing :
    /\ \A c \in maturing : b <= c
    /\ \/ /\ write(b, pending[b].rows)
          /\ pending' = Without(pending, {b})
          /\ flushed' = advance(flushed, b)
          /\ maturing' = maturing \ {b}
          /\ UNCHANGED <<healthy, head>>
       \/ /\ failed_write(b, pending[b].rows)
          /\ healthy' = FALSE
          /\ pending' = NoGroups
          /\ maturing' = {}
          /\ UNCHANGED <<head, flushed>>

-----------------------------------------------------------------------------
(* The window on its own, under every sequence of calls its caller         *)
(* persist_and_emit can make.  Persisted.tla is the real caller.           *)

Init ==
  /\ StoreInit
  /\ healthy = TRUE
  /\ pending = NoGroups
  /\ head = None
  /\ flushed = None
  /\ maturing = {}

(* A subscription opens: the window starts at the stored position advanced *)
(* to the settled cut, if there is one.  Nothing survives of the one       *)
(* before, which may have been dropped at any await.                       *)
open(cut) == new(advance(progress, cut)) /\ UNCHANGED storeVars

(* The settled writer stores a group at or below the cut.                  *)
settled_write(key, row) ==
  /\ progress < key /\ key <= flushed /\ encodes(row)
  /\ write(key, <<row>>)
  /\ UNCHANGED windowVars

(* The backfill tail lies above the cut and the stored position.           *)
seed_tail(key, row) == key > flushed /\ record_seeded(key, row)

Next ==
  \/ \E cut \in Positions : open(cut)
  \/ \E key \in Keys, row \in Row :
       \/ settled_write(key, row)
       \/ seed_tail(key, row)
       \/ record(key, row)
  \/ \E key \in Keys : retract(key)
  \/ flush

Spec == Init /\ [][Next]_vars

-----------------------------------------------------------------------------
(* Properties.                                                             *)

(* The stored position is never ahead of the window's watermark and no     *)
(* buffered group is at or below it: whatever the order of live events,    *)
(* retractions and seeded rows, a later flush can neither rewrite a stored *)
(* height nor move the stored position over a group still in the buffer.   *)
WindowAboveWatermark ==
  healthy => /\ progress <= flushed
             /\ \A b \in DOMAIN pending : flushed < b

(* flush_matured leaves no group behind that has its confirmations: a      *)
(* retraction that lowers the head, a rewind that keeps converted groups   *)
(* above it, and the saturation at MaxKey included.                        *)
NothingMatureHeld ==
  Matured(pending, head) = maturing

(* The Store only grows upwards: rows are added at a key above the stored  *)
(* position only, that position then covers them, and it never moves back. *)
(* So no height is ever written twice, by this subscription or by a later  *)
(* one that resumes from the stored position.                              *)
StoreGrowsUpward ==
  [][/\ progress <= progress'
     /\ \A b \in Keys : table'[b] # table[b] => progress < b /\ b <= progress']_vars

(* Once halted the window writes nothing above its watermark, however many *)
(* events keep flowing, until a new subscription replaces it.              *)
HaltFreezesStore ==
  [][~healthy /\ ~healthy' =>
       \A b \in Keys : b > flushed => table'[b] = table[b]]_vars

(* A row the window writes is buried Depth deep under the head of the fork *)
(* it was observed on, or the head has reached the end of the key space.   *)
BuriedBeforeStored ==
  [][\A b \in Keys : b > flushed /\ table'[b] # table[b] =>
       head >= saturating_add(b, Depth)]_vars
=============================================================================
