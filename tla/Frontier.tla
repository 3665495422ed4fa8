------------------------------ MODULE Frontier ------------------------------
(***************************************************************************)
(* A Persisted Collector over an overlapping, append-only source, whose    *)
(* Position is a TimeFrontier and whose re-observation policy is Dedupe:   *)
(* the paths of BlockWriter, ConfirmationWindow and Persisted that block   *)
(* positions never take, over a ledger feed such as the one of             *)
(* examples/hypercore_ledger_example.rs.  The wrapper may be bounded       *)
(* (with_to_block), in which case it has no live tail.                     *)
(*                                                                         *)
(* An event is named by its identity.  One event of the feed is published  *)
(* at most Jitter instants behind the newest, and the feed reports a tip   *)
(* that lags by as much.  Every await of the code is a step boundary.      *)
(***************************************************************************)
EXTENDS TimeFrontier, Sequences

CONSTANTS
  MaxTime,      \* the largest instant: a bound on the feed
  Jitter,       \* how far behind the newest instant an event may appear
  Depth,        \* confirmation_depth
  Unencodable,  \* identities of events that encode rejects
  WriteFails    \* whether a Store write may return an error

ASSUME FrontierAssumption ==
  /\ Identity \subseteq Int /\ IsFiniteSet(Identity)
  /\ MaxTime \in Nat /\ Jitter \in Nat
  /\ Depth \in Nat \ {0}
  /\ Unencodable \subseteq Identity
  /\ WriteFails \in BOOLEAN

VARIABLES
  sorts,      \* whether the feed sorts what it is asked for
  at,         \* the instant an identity was published at, or Unbounded
  feed,       \* the published identities, in the order of publication
  rows,       \* how many rows the event table holds of an identity
  progress,   \* the text of the progress row, or NoText
  to_block,   \* the wrapper's cap, or Unbounded
  replayed,   \* the replay-once flag of the wrapper
  phase,      \* where subscribe, or the stream it returned, has got to
  tip,        \* the tip subscribe read
  last,       \* the stored position subscribe read
  fetched,    \* backfill events not yet pulled
  cursor,     \* how much of the live source has been pulled
  settled,    \* the BlockWriter
  window,     \* the ConfirmationWindow
  delivered   \* history: how often this stream delivered an identity

sourceVars == <<sorts, at, feed>>
storeVars == <<rows, progress>>
streamVars == <<phase, tip, last, fetched, cursor>>
vars == <<sourceVars, storeVars, streamVars, to_block, replayed, settled, window, delivered>>

Unbounded == -1
NoText == [kind |-> "null"]
Instants == 0..MaxTime

NoGroups == [k \in {} |-> [position |-> None, rows |-> <<>>]]

-----------------------------------------------------------------------------
(* The feed.                                                               *)

Published == {h \in Identity : at[h] # Unbounded}

Newest == CHOOSE t \in Instants \cup {Unbounded} :
            /\ t \in {at[h] : h \in Identity} \cup {Unbounded}
            /\ \A h \in Identity : at[h] <= t

(* The tip of the feed, lagged to where nothing older can still appear.    *)
tip_ms == IF Newest > Jitter THEN Newest - Jitter ELSE 0

(* The position an event carries: its instant and its own identity.        *)
item(h) == [time_ms |-> at[h], seen |-> {h}]

(* Every order of a set.                                                   *)
Orders(S) ==
  {q \in [1..Cardinality(S) -> S] : \A h \in S : \E i \in DOMAIN q : q[i] = h}

(* An inclusive range.  The scripted feed is sorted by instant; the        *)
(* contract of query_range promises no order.                              *)
query_range(from, to) ==
  {q \in Orders({h \in Published : from <= at[h] /\ at[h] <= to}) :
     sorts => \A i, j \in DOMAIN q : i < j => at[q[i]] <= at[q[j]]}

publish ==
  \E h \in Identity, t \in Instants :
    /\ at[h] = Unbounded
    /\ t >= tip_ms
    /\ at' = [at EXCEPT ![h] = t]
    /\ feed' = Append(feed, h)
    /\ UNCHANGED <<sorts, storeVars, streamVars, to_block, replayed, settled, window, delivered>>

-----------------------------------------------------------------------------
(* The Store.                                                              *)

stored_position == IF progress = NoText THEN None ELSE decode(progress)

Occurs(h, s) == Cardinality({i \in DOMAIN s : s[i] = h})

(* One transaction: the rows, and the position folded into the stored one. *)
write(position, hs) ==
  /\ rows' = [h \in Identity |-> rows[h] + Occurs(h, hs)]
  /\ progress' = encode(advance(stored_position, position))

(* An error of COMMIT leaves open whether the transaction took effect.     *)
failed_write(position, hs) ==
  /\ WriteFails
  /\ UNCHANGED storeVars \/ write(position, hs)

-----------------------------------------------------------------------------
(* The two writers on the Dedupe path.                                     *)

NewSettled(seed) == [healthy |-> TRUE, current |-> None, buffer |-> <<>>, watermark |-> seed]

NewWindow(seed) ==
  [healthy |-> TRUE, pending |-> NoGroups, head |-> Unbounded, watermark |-> seed, maturing |-> {}]

(* BlockWriter::covered: stored, or folded into the open group at the      *)
(* event's own instant.                                                    *)
block_covered(pos) ==
  \/ contains(settled.watermark, pos)
  \/ settled.current.time_ms = pos.time_ms /\ contains(settled.current, pos)

encodes(h) == h \notin Unencodable

(* A writer that cannot go on: persistence stops, the events keep flowing. *)
SettledHalts ==
  /\ settled' = [settled EXCEPT !.healthy = FALSE, !.buffer = <<>>]
  /\ UNCHANGED storeVars

(* BlockWriter::record of an event that is not covered.                    *)
block_record(h) ==
  LET pos == item(h) IN
    \/ ~settled.healthy /\ UNCHANGED <<settled, storeVars>>
    \/ settled.healthy /\ ~encodes(h) /\ SettledHalts
    \/ settled.healthy /\ encodes(h) /\ pos.time_ms < settled.current.time_ms /\ SettledHalts
    \/ /\ settled.healthy /\ encodes(h)
       /\ settled.current = None \/ settled.current.time_ms = pos.time_ms
       /\ settled' = [settled EXCEPT !.current = advance(@, pos), !.buffer = Append(@, h)]
       /\ UNCHANGED storeVars
    \/ /\ settled.healthy /\ encodes(h)
       /\ settled.current # None /\ pos.time_ms > settled.current.time_ms
       /\ \/ /\ write(settled.current, settled.buffer)
             /\ settled' = [settled EXCEPT !.watermark = advance(@, settled.current),
                                           !.current = pos, !.buffer = <<h>>]
          \/ /\ failed_write(settled.current, settled.buffer)
             /\ settled' = [settled EXCEPT !.healthy = FALSE, !.current = None, !.buffer = <<>>]

(* BlockWriter::finish: the trailing group.  Mutant: its position is not   *)
(* folded into the watermark the window is going to absorb.                *)
finish_unfolded ==
  \/ ~(settled.healthy /\ settled.current # None) /\ UNCHANGED <<settled, storeVars>>
  \/ /\ settled.healthy /\ settled.current # None
     /\ write(settled.current, settled.buffer)
     /\ settled' = [settled EXCEPT !.current = None, !.buffer = <<>>]
finish ==
  \/ ~(settled.healthy /\ settled.current # None) /\ UNCHANGED <<settled, storeVars>>
  \/ /\ settled.healthy /\ settled.current # None
     /\ \/ /\ write(settled.current, settled.buffer)
           /\ settled' = [settled EXCEPT !.watermark = advance(@, settled.current),
                                         !.current = None, !.buffer = <<>>]
        \/ /\ failed_write(settled.current, settled.buffer)
           /\ settled' = [settled EXCEPT !.healthy = FALSE, !.current = None, !.buffer = <<>>]

(* ConfirmationWindow::covered: stored, or pending at its own instant.     *)
covered(pos) ==
  \/ contains(window.watermark, pos)
  \/ /\ pos.time_ms \in DOMAIN window.pending
     /\ contains(window.pending[pos.time_ms].position, pos)

Matured(pending, head) == {k \in DOMAIN pending : head >= k + Depth}

(* The event joins the group of its instant; nothing is ever rewound.      *)
Joined(h) ==
  LET t == at[h]
      old == IF t \in DOMAIN window.pending THEN window.pending[t]
             ELSE [position |-> None, rows |-> <<>>]
  IN  [k \in DOMAIN window.pending \cup {t} |->
         IF k = t THEN [position |-> advance(old.position, item(h)),
                        rows     |-> Append(old.rows, h)]
                  ELSE window.pending[k]]

(* ConfirmationWindow::record of an event that is not covered; the groups  *)
(* it matures are written by the flush steps that follow.                  *)
record(h) ==
  /\ window.maturing = {}
  /\ UNCHANGED storeVars
  /\ \/ ~window.healthy /\ UNCHANGED window
     \/ /\ window.healthy /\ ~encodes(h)
        /\ window' = [window EXCEPT !.healthy = FALSE, !.pending = NoGroups]
     \/ /\ window.healthy /\ encodes(h)
        /\ LET head == IF at[h] > window.head THEN at[h] ELSE window.head IN
             window' = [window EXCEPT !.pending = Joined(h), !.head = head,
                                      !.maturing = Matured(Joined(h), head)]

(* ConfirmationWindow::record_seeded differs only on the Halt path.        *)
record_seeded(h) == record(h)

(* One turn of flush_matured: the lowest group, folded into the watermark. *)
flush_matured ==
  /\ \E k \in window.maturing :
       LET g == window.pending[k]
           others == DOMAIN window.pending \ {k}
       IN  /\ \A j \in window.maturing : k <= j
           /\ \/ /\ write(g.position, g.rows)
                 /\ window' = [window EXCEPT !.pending = [j \in others |-> window.pending[j]],
                                             !.watermark = advance(@, g.position),
                                             !.maturing = @ \ {k}]
              \/ /\ failed_write(g.position, g.rows)
                 /\ window' = [window EXCEPT !.healthy = FALSE, !.pending = NoGroups,
                                             !.maturing = {}]
  /\ UNCHANGED <<sourceVars, streamVars, to_block, replayed, settled, delivered>>

(* ConfirmationWindow::absorb.  Mutant: nothing is folded in.              *)
absorb_nothing(position) == window
absorb(position) == [window EXCEPT !.watermark = advance(@, position)]

window_halt == [window EXCEPT !.healthy = FALSE, !.pending = NoGroups]

-----------------------------------------------------------------------------
(* subscribe, and the stream it returns.                                   *)

Bounded == to_block # Unbounded

effective_tip == IF Bounded /\ to_block < tip THEN to_block ELSE tip

(* None, below every instant, when the tip is younger than the depth.      *)
final_cut ==
  IF Bounded THEN effective_tip
  ELSE IF tip >= Depth THEN tip - Depth ELSE Unbounded

Deliver(hs) == [h \in Identity |-> IF h \in hs THEN delivered[h] + 1 ELSE delivered[h]]

Closed ==
  /\ phase' = "idle" /\ tip' = 0 /\ last' = None /\ fetched' = <<>> /\ cursor' = 0
  /\ settled' = NewSettled(None) /\ window' = NewWindow(None)
  /\ delivered' = [h \in Identity |-> 0]

(* The live source replays its feed from the start; a bounded wrapper does *)
(* not open it.                                                            *)
subscribe_live ==
  /\ phase = "idle"
  /\ phase' = "attached"
  /\ UNCHANGED <<sourceVars, storeVars, tip, last, fetched, cursor, to_block, replayed,
                 settled, window, delivered>>

read_tip ==
  /\ phase = "attached"
  /\ phase' = "tip"
  /\ tip' = tip_ms
  /\ UNCHANGED <<sourceVars, storeVars, last, fetched, cursor, to_block, replayed,
                 settled, window, delivered>>

(* The gap is queried from the boundary instant itself.  Mutant: from the  *)
(* instant after it.                                                       *)
backfill_from_next(p) == IF p = None THEN 0 ELSE resume_key(p) + 1
backfill_from(p) == IF p = None THEN 0 ELSE resume_key(p)

open_segments ==
  /\ phase = "tip"
  /\ phase' = "ready"
  /\ last' = stored_position
  /\ fetched' \in IF backfill_from(last') > effective_tip THEN {<<>>}
                  ELSE query_range(backfill_from(last'), effective_tip)
  /\ settled' = NewSettled(last')
  /\ window' = NewWindow(IF final_cut = Unbounded THEN last'
                         ELSE advance(last', from_sort_key(final_cut)))
  /\ UNCHANGED <<sourceVars, storeVars, tip, cursor, to_block, replayed, delivered>>

(* Everything stored up to the position read, clamped to the cap of a      *)
(* bounded wrapper.                                                        *)
replay_up_to ==
  IF Bounded /\ last.time_ms > to_block THEN from_sort_key(to_block) ELSE last

replay_stored ==
  {h \in Identity : rows[h] > 0 /\ at[h] <= sort_key(replay_up_to)}

poll_replay ==
  /\ phase = "ready"
  /\ phase' = "backfill"
  /\ delivered' = IF replayed THEN delivered ELSE Deliver(replay_stored)
  /\ replayed' = TRUE
  /\ UNCHANGED <<sourceVars, storeVars, tip, last, fetched, cursor, to_block, settled, window>>

(* One backfill event: settled at or below the cut, pending above it.      *)
poll_backfill ==
  /\ phase = "backfill" /\ window.maturing = {}
  /\ fetched # <<>>
  /\ LET h == Head(fetched)
         settles == at[h] <= final_cut
         suppressed == IF settles THEN settled.healthy /\ block_covered(item(h))
                                  ELSE window.healthy /\ covered(item(h))
     IN  \/ suppressed /\ UNCHANGED <<storeVars, settled, window, delivered>>
         \/ /\ ~suppressed
            /\ IF settles THEN block_record(h) /\ UNCHANGED window
                          ELSE record_seeded(h) /\ UNCHANGED settled
            /\ delivered' = Deliver({h})
  /\ fetched' = Tail(fetched)
  /\ UNCHANGED <<sourceVars, phase, tip, last, cursor, to_block, replayed>>

(* The trailing group is written, and the window takes over.               *)
finish_backfill ==
  /\ phase = "backfill" /\ window.maturing = {}
  /\ fetched = <<>>
  /\ finish
  /\ window' = IF settled'.healthy THEN absorb(settled'.watermark) ELSE window_halt
  /\ phase' = "live"
  /\ UNCHANGED <<sourceVars, tip, last, fetched, cursor, to_block, replayed, delivered>>

live_event ==
  /\ phase = "live" /\ window.maturing = {}
  /\ ~Bounded /\ cursor < Len(feed)
  /\ LET h == feed[cursor + 1]
         suppressed == window.healthy /\ covered(item(h))
     IN  \/ suppressed /\ UNCHANGED <<storeVars, window, delivered>>
         \/ ~suppressed /\ record(h) /\ delivered' = Deliver({h})
  /\ cursor' = cursor + 1
  /\ UNCHANGED <<sourceVars, phase, tip, last, fetched, to_block, replayed, settled>>

(* The stream ends or is dropped, or an await of subscribe fails; the      *)
(* wrapper is subscribed to again.                                         *)
stream_ends ==
  /\ phase # "idle"
  /\ Closed
  /\ UNCHANGED <<sourceVars, storeVars, to_block, replayed>>

(* The process dies; the next one may be configured otherwise.             *)
restart ==
  /\ Closed
  /\ replayed' = FALSE
  /\ to_block' \in Instants \cup {Unbounded}
  /\ UNCHANGED <<sourceVars, storeVars>>

Init ==
  /\ sorts \in BOOLEAN /\ at = [h \in Identity |-> Unbounded] /\ feed = <<>>
  /\ rows = [h \in Identity |-> 0] /\ progress = NoText
  /\ to_block \in Instants \cup {Unbounded} /\ replayed = FALSE
  /\ phase = "idle" /\ tip = 0 /\ last = None /\ fetched = <<>> /\ cursor = 0
  /\ settled = NewSettled(None) /\ window = NewWindow(None)
  /\ delivered = [h \in Identity |-> 0]

Next ==
  \/ publish
  \/ subscribe_live \/ read_tip \/ open_segments \/ poll_replay
  \/ poll_backfill \/ finish_backfill \/ live_event \/ flush_matured
  \/ stream_ends \/ restart

Spec == Init /\ [][Next]_vars

-----------------------------------------------------------------------------
(* Properties.                                                             *)

(* However often the feed repeats itself, across overlapping resumes,      *)
(* live re-deliveries, ambiguous commits and restarts, no event is stored  *)
(* twice: at-least-once delivery becomes one row.                          *)
StoredOnce == \A h \in Identity : rows[h] <= 1

(* The stored frontier is exactly what a resume needs: the identities it   *)
(* lists are the rows stored at its instant, and no row lies above it.     *)
SeenAtBoundary ==
  LET p == stored_position IN
    /\ p.seen = {h \in Published : rows[h] > 0 /\ at[h] = p.time_ms}
    /\ \A h \in Published : rows[h] > 0 => at[h] <= p.time_ms

Healthy == settled.healthy /\ window.healthy

(* While persistence is healthy, one stream (its replay, its backfill and  *)
(* its live tail together) delivers an event at most once.                 *)
DeliveredOnce == Healthy => \A h \in Identity : delivered[h] <= 1

InWindow(h) ==
  at[h] \in DOMAIN window.pending /\ Occurs(h, window.pending[at[h]].rows) > 0

(* With a feed that sorts its answers and a depth that covers its jitter   *)
(* no event is ever late: a healthy live tail that has caught up has       *)
(* stored, or still holds, every event ever published.                     *)
NothingLost ==
  sorts /\ Depth >= Jitter /\ Healthy /\ phase = "live" /\ ~Bounded /\ cursor = Len(feed) =>
    \A h \in Published : rows[h] > 0 \/ InWindow(h)
=============================================================================
