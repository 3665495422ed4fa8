------------------------------ MODULE Persisted ------------------------------
(***************************************************************************)
(* The Persisted Collector (src/persistence/persisted.rs) over a block     *)
(* source: the steps of subscribe, the segments Replay, Backfill and Live  *)
(* Tail, and the writer pipeline persist_and_emit, composed with the chain *)
(* (EventSource), the two writers and the Store.  The engine's driver      *)
(* polls the stream and subscribes again whenever it ends.                 *)
(*                                                                         *)
(* Every await of the code is a step boundary: the chain moves, and the    *)
(* process may die, between any two steps.                                 *)
(***************************************************************************)
EXTENDS EventSource

CONSTANTS
  Row, Unencodable, MaxKey, WriteFails,
  Depth,        \* confirmation_depth
  StartBlock,   \* start_block
  ChunkSize,    \* backfill_chunk_size
  QueryFails,   \* whether a query_range may fail
  ResponseCap   \* whether the provider may reject a window as too large

ASSUME PersistedAssumption ==
  /\ Contents \subseteq Seq(Row) /\ Unencodable \subseteq Row
  /\ Depth \in Nat \ {0}
  /\ MaxKey \in Nat /\ MaxHeight + Depth <= MaxKey   \* no height saturates
  /\ StartBlock \in Nat
  /\ ChunkSize \in Nat \ {0}
  /\ {WriteFails, QueryFails, ResponseCap} \subseteq BOOLEAN

VARIABLES
  table, progress,                               \* the Store
  settling, current, buffer, watermark,          \* BlockWriter
  healthy, pending, head, flushed, maturing,     \* ConfirmationWindow
  phase,      \* where subscribe, or the stream it returned, has got to
  opened,     \* the height of the chain when the live source was opened
  tip,        \* the tip subscribe read
  last,       \* the stored position subscribe read
  fetched,    \* events of the current backfill window not yet pulled
  parts,      \* parts of that window, split by the cap, not yet queried
  next_from,  \* first key of the next backfill window
  poison,     \* a backfill window failed: the live tail is to end
  replayed,   \* the replay-once flag
  seen        \* history: the (height, row) pairs this process delivered

window == INSTANCE ConfirmationWindow
settled == INSTANCE BlockWriter

storeVars == <<table, progress>>
blockVars == <<settling, current, buffer, watermark>>
windowVars == <<healthy, pending, head, flushed, maturing>>
streamVars == <<opened, tip, last, fetched, parts, next_from, poison>>
vars == <<sourceVars, storeVars, blockVars, windowVars, streamVars, phase, replayed, seen>>

None == -1
Positions == Heights \cup {None}

Phases ==
  {"idle",       \* no stream: the driver is about to subscribe
   "attached",   \* subscribe has opened the live source
   "tip",        \* subscribe has read the tip
   "split",      \* subscribe is querying its first window in parts
   "ready",      \* subscribe has returned a stream nobody has polled
   "backfill",   \* the Backfill segment is being pulled
   "live"}       \* the Live Tail is being pulled

Init ==
  /\ SourceInit
  /\ window!Init
  /\ settling = TRUE /\ current = None /\ buffer = <<>> /\ watermark = None
  /\ phase = "idle"
  /\ opened = None /\ tip = None /\ last = None
  /\ fetched = <<>> /\ parts = <<>> /\ next_from = 0 /\ poison = FALSE
  /\ replayed = FALSE
  /\ seen = {}

-----------------------------------------------------------------------------
(* subscribe.                                                              *)

(* final_cut: checked_sub, so None when the tip is younger than the depth. *)
(* Mutants: a saturating subtraction; the whole gap settled at once.       *)
final_cut_saturating == IF tip >= Depth THEN tip - Depth ELSE 0
final_cut_at_tip == tip
final_cut == IF tip >= Depth THEN tip - Depth ELSE None

backfill_from(l) ==
  LET resume == window!resume_key(l) IN IF resume > StartBlock THEN resume ELSE StartBlock

(* The last key of a backfill window.                                      *)
window_end(from, to) == IF from + ChunkSize - 1 < to THEN from + ChunkSize - 1 ELSE to

(* The stream, or the subscribe that was building it, is gone: the writers *)
(* and the live source go with it, what the Store holds stays.             *)
Closed ==
  /\ phase' = "idle"
  /\ detach
  /\ window!new(None) /\ settled!new(None)
  /\ opened' = None /\ tip' = None /\ last' = None
  /\ fetched' = <<>> /\ parts' = <<>> /\ next_from' = 0 /\ poison' = FALSE
  /\ UNCHANGED storeVars

subscribe_live ==
  /\ phase = "idle"
  /\ subscribe_indexed
  /\ phase' = "attached"
  /\ opened' = Top
  /\ UNCHANGED <<storeVars, blockVars, windowVars, tip, last, fetched, parts, next_from,
                 poison, replayed, seen>>

read_tip ==
  /\ phase = "attached"
  /\ phase' = "tip"
  /\ tip' = Top
  /\ UNCHANGED <<sourceVars, storeVars, blockVars, windowVars, opened, last, fetched,
                 parts, next_from, poison, replayed, seen>>

(* query_range_split, one call of query_range: the first part is answered, *)
(* or it is over the provider's cap and is split in two.  The lower half,  *)
(* and all it is split into, is queried before the upper one; the parts'   *)
(* answers are joined in order.                                            *)
halves(p) ==
  LET mid == p.from + (p.to - p.from) \div 2 IN
    <<[from |-> p.from, to |-> mid], [from |-> mid + 1, to |-> p.to]>>

query_range_split(ps, joined) ==
  \/ /\ fetched' = joined \o query_range(Head(ps).from, Head(ps).to)
     /\ parts' = Tail(ps)
  \/ /\ ResponseCap /\ Head(ps).from < Head(ps).to
     /\ parts' = halves(Head(ps)) \o Tail(ps)
     /\ fetched' = joined

(* The first backfill window, or nothing when the Store has reached the    *)
(* tip already.                                                            *)
backfill_segment(from) ==
  \/ from > tip /\ fetched' = <<>> /\ parts' = <<>> /\ next_from' = tip + 1
  \/ /\ from <= tip
     /\ query_range_split(<<[from |-> from, to |-> window_end(from, tip)]>>, <<>>)
     /\ next_from' = window_end(from, tip) + 1

(* The stored position, the Replay rows and the first backfill window are  *)
(* read before subscribe returns; a failure of the window's query fails    *)
(* the subscribe.  Mutant: the replay-once flag flips here, not at the     *)
(* first poll.                                                             *)
open_segments_marks ==
  /\ phase = "tip"
  /\ backfill_segment(backfill_from(progress))
  /\ last' = progress
  /\ phase' = IF parts' = <<>> THEN "ready" ELSE "split"
  /\ replayed' = TRUE
  /\ settled!new(progress)
  /\ window!new(window!advance(progress, final_cut))
  /\ UNCHANGED <<sourceVars, storeVars, opened, tip, poison, seen>>
open_segments ==
  /\ phase = "tip"
  /\ backfill_segment(backfill_from(progress))
  /\ last' = progress
  /\ phase' = IF parts' = <<>> THEN "ready" ELSE "split"
  /\ settled!new(progress)
  /\ window!new(window!advance(progress, final_cut))
  /\ UNCHANGED <<sourceVars, storeVars, opened, tip, poison, replayed, seen>>

(* The parts of the first window, while subscribe has not returned.        *)
query_first_part ==
  /\ phase = "split"
  /\ query_range_split(parts, fetched)
  /\ phase' = IF parts' = <<>> THEN "ready" ELSE "split"
  /\ UNCHANGED <<sourceVars, storeVars, blockVars, windowVars, opened, tip, last, next_from,
                 poison, replayed, seen>>

(* Any await of subscribe fails: nothing was delivered, nothing stored.    *)
subscribe_fails ==
  /\ QueryFails
  /\ phase \in {"attached", "tip", "split"}
  /\ Closed
  /\ UNCHANGED <<replayed, seen>>

(* A sibling of a composite collector fails its own subscribe, and the     *)
(* stream is dropped before its first poll.                                *)
drop_unpolled ==
  /\ phase = "ready"
  /\ Closed
  /\ UNCHANGED <<replayed, seen>>

(* The rows of the table, each with its height.                            *)
StoredEvents == UNION {{<<h, table[h][i]>> : i \in DOMAIN table[h]} : h \in Heights}

(* The events replay_stored reconstructs: everything up to last, unless an *)
(* earlier stream of this process was polled.                              *)
replay_stored ==
  IF replayed THEN {}
  ELSE {e \in StoredEvents : e[1] <= last}

(* The first poll sets the flag, and Replay is delivered before anything   *)
(* else.  Its events are in memory: nothing is awaited between them.       *)
poll_replay ==
  /\ phase = "ready"
  /\ phase' = "backfill"
  /\ replayed' = TRUE
  /\ seen' = seen \cup replay_stored
  /\ UNCHANGED <<sourceVars, storeVars, blockVars, windowVars, streamVars>>

-----------------------------------------------------------------------------
(* persist_and_emit: the Backfill segment.                                 *)

(* One event of the backfill: settled at or below the cut, pending in the  *)
(* window above it.  Block positions are always delivered here.            *)
poll_backfill ==
  /\ phase = "backfill" /\ maturing = {}
  /\ fetched # <<>> /\ parts = <<>>
  /\ LET e == Head(fetched) IN
       /\ IF e.key <= final_cut
            THEN settled!record(e.key, e.row) /\ UNCHANGED windowVars
            ELSE window!record_seeded(e.key, e.row) /\ UNCHANGED blockVars
       /\ seen' = seen \cup {<<e.key, e.row>>}
  /\ fetched' = Tail(fetched)
  /\ UNCHANGED <<sourceVars, opened, tip, last, parts, next_from, poison, phase, replayed>>

(* chunked_query asks for the next window, or for its next part; a failure *)
(* drops what the window had and poisons the live tail.  Mutant: a failed  *)
(* window is skipped.                                                      *)
query_failed_skips == fetched' = <<>> /\ parts' = <<>> /\ UNCHANGED poison
query_failed == fetched' = <<>> /\ parts' = <<>> /\ poison' = TRUE

query_next ==
  /\ phase = "backfill" /\ maturing = {}
  /\ IF parts = <<>>
       THEN /\ fetched = <<>> /\ next_from <= tip /\ ~poison
            /\ next_from' = window_end(next_from, tip) + 1
       ELSE UNCHANGED next_from
  /\ \/ /\ parts = <<>>
        /\ query_range_split(<<[from |-> next_from, to |-> window_end(next_from, tip)]>>, <<>>)
        /\ UNCHANGED poison
     \/ /\ parts # <<>>
        /\ query_range_split(parts, fetched)
        /\ UNCHANGED poison
     \/ QueryFails /\ query_failed
  /\ UNCHANGED <<sourceVars, storeVars, blockVars, windowVars, opened, tip, last, phase,
                 replayed, seen>>

(* The backfill is exhausted: the trailing settled group is written, and   *)
(* the window takes over the settled watermark, or halts with it.          *)
finish_backfill ==
  /\ phase = "backfill" /\ maturing = {}
  /\ fetched = <<>> /\ parts = <<>> /\ (next_from > tip \/ poison)
  /\ settled!finish
  /\ IF settling' THEN window!absorb(watermark') ELSE window!halt
  /\ phase' = "live"
  /\ UNCHANGED <<sourceVars, streamVars, replayed, seen>>

-----------------------------------------------------------------------------
(* persist_and_emit: the Live Tail.                                        *)

Polling == phase = "live" /\ maturing = {} /\ ~poison

live_event ==
  /\ Polling
  /\ live # <<>> /\ Head(live).kind = "Event"
  /\ LET e == Head(live) IN
       /\ window!record(e.key, e.row)
       /\ seen' = IF window!delivered(e.key, e.row) THEN seen \cup {<<e.key, e.row>>}
                                                    ELSE seen
  /\ take_live
  /\ UNCHANGED <<blockVars, streamVars, phase, replayed>>

live_retract ==
  /\ Polling
  /\ live # <<>> /\ Head(live).kind = "Retract"
  /\ window!retract(Head(live).key)
  /\ take_live
  /\ UNCHANGED <<blockVars, streamVars, phase, replayed, seen>>

flush_matured ==
  /\ window!flush
  /\ UNCHANGED <<sourceVars, blockVars, streamVars, phase, replayed, seen>>

(* The poison ends the live tail, and with it the stream: the driver will  *)
(* subscribe again and backfill from the stored position.                  *)
poison_ends ==
  /\ phase = "live" /\ poison
  /\ Closed
  /\ UNCHANGED <<replayed, seen>>

(* The live source went away.  The unflushed window is dropped, not        *)
(* drained.                                                                *)
stream_ends ==
  /\ Polling
  /\ Closed
  /\ UNCHANGED <<replayed, seen>>

(* The process dies and starts again with what is in the Store.            *)
crash ==
  /\ Closed
  /\ replayed' = FALSE
  /\ seen' = {}

-----------------------------------------------------------------------------
Source == (mine \/ reorg) /\ UNCHANGED <<storeVars, blockVars, windowVars, streamVars,
                                         phase, replayed, seen>>

Stream ==
  \/ subscribe_live \/ read_tip \/ open_segments \/ query_first_part \/ poll_replay
  \/ poll_backfill \/ query_next \/ finish_backfill
  \/ live_event \/ live_retract \/ flush_matured \/ poison_ends

Next == Source \/ Stream \/ subscribe_fails \/ drop_unpolled \/ stream_ends \/ crash

Spec == Init /\ [][Next]_vars

-----------------------------------------------------------------------------
(* Properties.                                                             *)

promise == INSTANCE DurablePrefix WITH
             Heights <- Heights,
             table   <- [h \in Heights |-> table[h]]

(* While reorgs stay within the depth, everything any sequence of          *)
(* subscriptions, failures, reconnects and crashes does to the Store is a  *)
(* commit of the next final height with its canonical events: no orphaned  *)
(* row, no hole, no duplicate, whatever the live source had buffered when  *)
(* the backfill read the same heights.                                     *)
StoreIsDurablePrefix == promise!Spec

(* Once this process has polled a stream, no stored event is hidden from   *)
(* its strategies: the replay-once flag never skips history that backfill  *)
(* will not deliver either, however many streams were dropped unpolled.    *)
NoStoredEventUnseen == replayed => StoredEvents \subseteq seen

CaughtUp == Polling /\ live = <<>>

(* When the live tail has drained what the source buffered, every event of *)
(* the canonical chain from the start block on has been delivered, halted  *)
(* persistence or not: the segments leave no gap between them.             *)
CaughtUpMeansDelivered ==
  CaughtUp =>
    \A h \in DOMAIN chain : \A i \in DOMAIN chain[h] :
      h >= StartBlock => <<h, chain[h][i]>> \in seen

(* With deep reorgs allowed: a window that is still healthy when it has    *)
(* caught up has stored nothing in this subscription that the chain        *)
(* disowned, so a reorg below the watermark has halted it.                 *)
HealthyMeansCanonical ==
  CaughtUp /\ healthy =>
    \A h \in DOMAIN chain : backfill_from(last) <= h /\ h <= progress =>
      table[h] = chain[h]

NoFault == ~WriteFails /\ Unencodable = {} /\ ~deep

(* Without a fault and a deep reorg, persistence halts only in a           *)
(* subscription whose tip had moved on when subscribe read it.             *)
HaltHasCause == NoFault /\ phase # "idle" /\ tip = opened => healthy /\ settling

(* What the documentation says of a halt: a live re-emission is deduped,   *)
(* corrected in the window, or halts persistence because the reorg is      *)
(* deeper than the depth.  So without a fault and a deep reorg there is no *)
(* halt.  The code breaks this when the chain grows past the depth between *)
(* the opening of the live source and the reading of the tip.              *)
HaltOnlyOnDeepReorg == NoFault => healthy /\ settling

(* The highest height of the chain that holds an event.                    *)
Highest(h) ==
  /\ chain[h] # <<>>
  /\ \A g \in DOMAIN chain : g > h => chain[g] = <<>>

(* If subscriptions stop ending and persistence stays healthy, every event *)
(* the last of them saw buried Depth deep under another is stored at last: *)
(* no group is held back for ever by a rewind, a lowered head or a lost    *)
(* wake-up.                                                                *)
BuriedEventuallyStored ==
  <>[](phase # "idle" /\ healthy /\ settling) =>
    <>[](\A h, g \in DOMAIN chain :
           Highest(g) /\ h + Depth <= g /\ h >= backfill_from(last) => table[h] = chain[h])
=============================================================================
