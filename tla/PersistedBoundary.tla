-------------------------- MODULE PersistedBoundary --------------------------
(***************************************************************************)
(* Persisted with a history of what the backfill tail delivered and the    *)
(* live tail has not repeated yet, to ask which re-deliveries across the   *)
(* backfill/live boundary reach the strategies.                            *)
(***************************************************************************)
EXTENDS Persisted

VARIABLES
  owed,      \* events the backfill tail delivered in this subscription
  retracted  \* whether the live tail saw a retraction in it

boundaryVars == <<vars, owed, retracted>>

(* The live event about to be recorded, if any.                            *)
LiveEvents == IF Polling /\ live # <<>> /\ Head(live).kind = "Event"
                THEN {<<Head(live).key, Head(live).row>>} ELSE {}

TailEvents == IF phase = "backfill" /\ parts = <<>> /\ fetched # <<>> /\ Head(fetched).key > final_cut
                THEN {<<Head(fetched).key, Head(fetched).row>>} ELSE {}

BoundaryInit == Init /\ owed = {} /\ retracted = FALSE

BoundaryNext ==
  \/ poll_backfill /\ owed' = owed \cup TailEvents /\ UNCHANGED retracted
  \/ live_event /\ owed' = owed \ LiveEvents /\ UNCHANGED retracted
  \/ /\ live_retract
     /\ retracted' = TRUE
     /\ UNCHANGED owed
  \/ /\ \/ Source \/ subscribe_live \/ read_tip \/ open_segments \/ query_first_part
        \/ poll_replay
        \/ query_next \/ finish_backfill \/ flush_matured
     /\ UNCHANGED <<owed, retracted>>
  \/ /\ subscribe_fails \/ drop_unpolled \/ poison_ends \/ stream_ends \/ crash
     /\ owed' = {} /\ retracted' = FALSE

(* The driver's task is polled as long as it can run; nothing makes the    *)
(* chain move, a source fail or the process die.                           *)
BoundarySpec == BoundaryInit /\ [][BoundaryNext]_boundaryVars /\ WF_vars(Stream)

(* An event the backfill tail delivered, which the live tail is about to   *)
(* take again, is suppressed downstream unless the window halts on it.     *)
Suppressed ==
  \A e \in owed \cap LiveEvents :
    attached' /\ live' = Tail(live) /\ healthy' => ~window!delivered(e[1], e[2])

(* In a subscription without retractions the backfill tail and the live    *)
(* tail overlap without a trace: whatever the source had buffered before   *)
(* the backfill ran, what both carry is delivered once.                    *)
OverlapDeliveredOnce == [][~retracted => Suppressed]_boundaryVars
=============================================================================
