------------------------------ MODULE Feedback ------------------------------
(***************************************************************************)
(* A pipeline whose strategy reacts to its own submissions, the one of     *)
(* examples/feedback_example.rs: Sources deliver ticks; the strategy, in a *)
(* FilterActions and a Cooldown, submits every trade it has not seen       *)
(* confirmed; an executor with a Fallback, behind a FilterMapAction and    *)
(* under a Report, publishes its verdicts; a ChannelCollector feeds them   *)
(* back.  The engine's broadcast channels are sequences here (their lag is *)
(* modelled in Engine).                                                    *)
(***************************************************************************)
EXTENDS Sources

CONSTANTS
  Trades,      \* the trades the strategy wants submitted
  Allowed,     \* those the predicate of FilterActions lets pass
  Routed,      \* those the FilterMapAction routes to the executor
  Duration,    \* the cooldown
  Capacity,    \* of the outcomes channel
  MaxQueue     \* a bound on the events and actions under way

ASSUME FeedbackAssumption ==
  /\ Trades \subseteq Nat /\ IsFiniteSet(Trades) /\ Routed \subseteq Trades /\ Allowed \subseteq Trades
  /\ Duration \in Nat /\ Capacity \in Nat \ {0} /\ MaxQueue \in Nat \ {0}

VARIABLES
  inbox,       \* events on their way to the strategy
  confirmed,   \* PersistentStrategy.confirmed
  batch,       \* actions of the current event's stream, not yet passed
  whole,       \* no action of this stream has passed yet
  last_fired,  \* time since the stamp of Cooldown, up to Duration
  since,       \* history: time since an action really passed, up to Duration
  actions,     \* actions on their way to the executor
  executing,   \* the executor's step and action
  receiver,    \* whether the ChannelCollector has a receiver
  outcomes,    \* the verdicts its receiver has not read
  accepted     \* history: trades an executor accepted

loopVars == <<inbox, confirmed, batch, whole, last_fired, since, actions, executing, receiver,
              outcomes, accepted>>
vars == <<sourceVars, loopVars>>

Idle == [at |-> "idle", trade |-> 0]
Tick == [is |-> "tick", trade |-> 0, ok |-> FALSE]
Outcome(t, ok) == [is |-> "outcome", trade |-> t, ok |-> ok]

-----------------------------------------------------------------------------
(* Events in.                                                              *)

(* An item of the composite: mapped to a tick, or discarded.               *)
collect(s, h) ==
  /\ Len(inbox) < MaxQueue
  /\ Pull(s, h)
  /\ inbox' = IF h \in Discarded THEN inbox ELSE Append(inbox, Tick)
  /\ UNCHANGED <<confirmed, batch, whole, last_fired, since, actions, executing, receiver,
                 outcomes, accepted>>

(* ChannelCollector::subscribe: a fresh receiver sees later sends only.    *)
subscribe_channel ==
  /\ ~receiver
  /\ receiver' = TRUE
  /\ outcomes' = <<>>
  /\ UNCHANGED <<sourceVars, inbox, confirmed, batch, whole, last_fired, since, actions,
                 executing, accepted>>

collect_outcome ==
  /\ outcomes # <<>> /\ Len(inbox) < MaxQueue
  /\ inbox' = Append(inbox, Head(outcomes))
  /\ outcomes' = Tail(outcomes)
  /\ UNCHANGED <<sourceVars, confirmed, batch, whole, last_fired, since, actions, executing,
                 receiver, accepted>>

-----------------------------------------------------------------------------
(* The strategy.                                                           *)

cooling == last_fired < Duration

(* The actions of an event: PersistentStrategy, then FilterActions.        *)
Produced == Ascending((Trades \ confirmed) \cap Allowed)

(* What PersistentStrategy learns from an outcome.  Mutant: Cooldown keeps *)
(* the events of its quiet time from the strategy.                         *)
learned_awake(e) == IF e.ok /\ ~cooling THEN confirmed \cup {e.trade} ELSE confirmed
learned(e) == IF e.ok THEN confirmed \cup {e.trade} ELSE confirmed

(* Cooldown::process_event: the inner strategy sees the event either way.  *)
process_event ==
  /\ inbox # <<>> /\ batch = <<>>
  /\ inbox' = Tail(inbox)
  /\ \/ /\ Head(inbox).is = "outcome"
        /\ confirmed' = learned(Head(inbox))
        /\ UNCHANGED <<batch, whole>>
     \/ /\ Head(inbox).is = "tick"
        /\ batch' = IF cooling THEN <<>> ELSE Produced
        /\ whole' = TRUE
        /\ UNCHANGED confirmed
  /\ UNCHANGED <<sourceVars, last_fired, since, actions, executing, receiver, outcomes, accepted>>

(* The stamp: every action that passes refreshes it.  Mutant: the first    *)
(* action of a batch alone does.                                           *)
stamp_first == IF whole THEN 0 ELSE last_fired
stamp == 0

pass_action ==
  /\ batch # <<>> /\ Len(actions) < MaxQueue
  /\ actions' = Append(actions, Head(batch))
  /\ batch' = Tail(batch)
  /\ whole' = (Len(batch) = 1)
  /\ last_fired' = stamp
  /\ since' = 0
  /\ UNCHANGED <<sourceVars, inbox, confirmed, executing, receiver, outcomes, accepted>>

elapse ==
  /\ last_fired < Duration \/ since < Duration
  /\ last_fired' = IF last_fired < Duration THEN last_fired + 1 ELSE last_fired
  /\ since' = IF since < Duration THEN since + 1 ELSE since
  /\ UNCHANGED <<sourceVars, inbox, confirmed, batch, whole, actions, executing, receiver,
                 outcomes, accepted>>

-----------------------------------------------------------------------------
(* The executor.                                                           *)

(* Report: the verdict is sent after the inner executor returned.  Without *)
(* a receiver it is dropped; a full channel drops the oldest.              *)
report(t, ok) ==
  /\ executing' = Idle
  /\ outcomes' = IF ~receiver THEN outcomes
                 ELSE LET sent == Append(outcomes, Outcome(t, ok)) IN
                        IF Len(sent) > Capacity THEN Tail(sent) ELSE sent

(* FilterMapAction: an action it maps to None is Ok at once.               *)
execute ==
  /\ executing = Idle /\ actions # <<>>
  /\ actions' = Tail(actions)
  /\ \/ /\ Head(actions) \in Routed
        /\ executing' = [at |-> "primary", trade |-> Head(actions)]
        /\ UNCHANGED outcomes
     \/ /\ Head(actions) \notin Routed
        /\ report(Head(actions), TRUE)
  /\ UNCHANGED <<sourceVars, inbox, confirmed, batch, whole, last_fired, since, receiver, accepted>>

(* Fallback: the primary, and on its error the other, whose verdict it is. *)
execute_primary ==
  /\ executing.at = "primary"
  /\ \/ /\ accepted' = accepted \cup {executing.trade}
        /\ report(executing.trade, TRUE)
        /\ UNCHANGED faults
     \/ /\ Fault(1)
        /\ executing' = [executing EXCEPT !.at = "fallback"]
        /\ UNCHANGED <<accepted, outcomes>>
  /\ UNCHANGED <<composition, kind, opening, mode, avail, pending, ready, lookups, fate, tries,
                 inbox, confirmed, batch, whole, last_fired, since, actions, receiver>>

execute_fallback ==
  /\ executing.at = "fallback"
  /\ \/ /\ accepted' = accepted \cup {executing.trade}
        /\ report(executing.trade, TRUE)
        /\ UNCHANGED faults
     \/ /\ Fault(1)
        /\ report(executing.trade, FALSE)
        /\ UNCHANGED accepted
  /\ UNCHANGED <<composition, kind, opening, mode, avail, pending, ready, lookups, fate, tries,
                 inbox, confirmed, batch, whole, last_fired, since, actions, receiver>>

-----------------------------------------------------------------------------
Init ==
  /\ SourcesInit
  /\ inbox = <<>> /\ confirmed = {} /\ batch = <<>> /\ whole = TRUE
  /\ last_fired = Duration /\ since = Duration
  /\ actions = <<>> /\ executing = Idle
  /\ receiver = FALSE /\ outcomes = <<>> /\ accepted = {}

Next ==
  \/ SourcesStep /\ UNCHANGED loopVars
  \/ \E s \in Two, h \in Hashes : collect(s, h)
  \/ subscribe_channel \/ collect_outcome
  \/ process_event \/ pass_action \/ elapse
  \/ execute \/ execute_primary \/ execute_fallback

(* Blocks keep coming, and every task that can run does.  A send to the    *)
(* engine's broadcast channel never waits, so that the ticks filling the   *)
(* bounded inbox must not keep an outcome out forever: strong fairness.    *)
Fairness ==
  /\ WF_vars(\E h \in Hashes \ Discarded : publish(h) /\ UNCHANGED loopVars)
  /\ WF_vars((reconnect \/ \E s \in Two : subscribe(s)) /\ UNCHANGED loopVars)
  /\ \A s \in Two :
       /\ WF_vars((fetch_tick(s) \/ start_lookup(s)) /\ UNCHANGED loopVars)
       /\ WF_vars(\E h \in Hashes : collect(s, h))
  /\ WF_vars(subscribe_channel) /\ SF_vars(collect_outcome)
  /\ WF_vars(process_event) /\ WF_vars(pass_action) /\ WF_vars(elapse)
  /\ WF_vars(execute \/ execute_primary \/ execute_fallback)

Spec == Init /\ [][Next]_vars /\ Fairness

-----------------------------------------------------------------------------
(* Properties.                                                             *)

(* Every item a stream was sent is at exactly one place until it is        *)
(* settled: delivered once, or given up after all its attempts, or lost    *)
(* with the stream.                                                        *)
ItemsAccounted ==
  \A s \in Two, h \in Hashes :
    /\ fate[s][h] \in {"none", "sent"}
    /\ (fate[s][h] = "sent") <=> (h \in InUse(s))
    /\ Cardinality({i \in DOMAIN avail[s] : avail[s][i] = h})
       + Cardinality({i \in DOMAIN pending[s] : pending[s][i].hash = h})
       + Cardinality({i \in DOMAIN ready[s] : ready[s][i] = h})
       + Cardinality({h} \cap lookups[s]) <= 1

(* What the composites promise while their stream is up.  Chain and Merge  *)
(* have every source subscribed, and give the stream up only when all have *)
(* ended; nothing of Chain's second source leaves before the first has     *)
(* ended; Fallback has one source, the first unless its subscribe failed.  *)
CompositeContract ==
  [][/\ opening' = Up /\ composition # "fallback" => \A s \in Two : mode'[s] # "closed"
     /\ opening' = Up /\ composition = "fallback" => \E s \in Two : mode'[s] = "closed"
     /\ opening = Up /\ opening' # Up => \A s \in Two : mode[s] \in {"ended", "closed"}
     /\ composition = "chain" /\ opening' = Up /\ mode'[2] # "ended" /\ mode[1] # "ended" =>
          \A h \in Hashes : fate[2][h] = "sent" => fate'[2][h] = "sent"]_vars

(* An action passes only when the whole cooldown has gone by since the     *)
(* last action of an earlier event passed.                                 *)
CooldownSpacing == batch # <<>> /\ whole => since >= Duration

(* After finitely many failures of the outside world the loop closes:      *)
(* every trade that may pass is confirmed and the strategy goes quiet, and *)
(* what it holds for confirmed an executor has accepted, unless no         *)
(* executor was meant to get it.                                           *)
LoopCloses ==
  <>[](Allowed \subseteq confirmed /\ confirmed \cap Routed \subseteq accepted)
=============================================================================
