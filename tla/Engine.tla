------------------------------- MODULE Engine -------------------------------
(***************************************************************************)
(* The engine (src/engine.rs): Engine::run and the tasks it spawns, joined *)
(* by the event and the action channel (src/engine/channel.rs).            *)
(*                                                                         *)
(* A channel is a tokio broadcast ring: it is represented by the number of *)
(* messages sent, a receiver by the number of the next one it will read.   *)
(* The ring keeps the last capacity messages.  The collector drivers are   *)
(* those of CollectorDriver: their events go into the event channel, and   *)
(* their root token is the one every other task observes.                  *)
(***************************************************************************)
EXTENDS CollectorDriver

CONSTANTS
  NumStrategies, Executors, Observers,
  EventCapacity,    \* event_channel_capacity
  ActionCapacity,   \* action_channel_capacity
  Fanouts,          \* numbers of actions an event may lead to
  MaxEvents,        \* bound: events sent
  Followed          \* numbers of the actions that ActionsExecuted follows

Strategies == 1..NumStrategies

ASSUME EngineAssumption ==
  /\ NumStrategies \in Nat
  /\ EventCapacity \in Nat \ {0} /\ ActionCapacity \in Nat \ {0}
  /\ Fanouts \subseteq Nat /\ Followed \subseteq Nat
  /\ MaxEvents \in Nat
  /\ Observers \cap (Strategies \cup Executors) = {}

Lagged == -1
EventReaders == Strategies \cup Observers
ActionReaders == Executors \cup Observers

VARIABLES
  phase,          \* of Engine::run
  synced,         \* strategies synced and spawned
  strategies, executors, observers,   \* state of each task
  left,           \* actions still to come from the stream of the current event
  events, actions,           \* messages sent on the two channels
  next_event, next_action,   \* receivers
  got_events, got_actions    \* history: messages a receiver delivered, Lagged
                             \* once it was overrun

startup == <<phase, synced>>
tasks == <<strategies, executors, observers, left>>
event_channel == <<events, next_event, got_events>>
action_channel == <<actions, next_action, got_actions>>
vars == <<startup, driverVars, tasks, event_channel, action_channel>>

TypeOK ==
  /\ DriverTypeOK
  /\ phase \in {"starting", "running", "failed"}
  /\ synced \in 0..NumStrategies
  /\ strategies \in [Strategies -> {"unborn", "waiting", "processing", "draining", "ended"}]
  /\ executors \in [Executors -> {"waiting", "executing", "ended"}]
  /\ observers \in [Observers -> {"waiting", "ended"}]
  /\ left \in [Strategies -> Nat]
  /\ events \in 0..MaxEvents /\ actions \in Nat
  /\ next_event \in [EventReaders -> 1..(MaxEvents + 1)]
  /\ next_action \in [ActionReaders -> Nat \ {0}]
  /\ got_events \in [EventReaders -> Nat \cup {Lagged}]
  /\ got_actions \in [ActionReaders -> Nat \cup {Lagged}]

(* Executors and observers are spawned and every receiver is subscribed    *)
(* before anything is sent.                                                *)
Init ==
  /\ DriverInit
  /\ phase = "starting" /\ synced = 0
  /\ strategies = [s \in Strategies |-> "unborn"]
  /\ executors = [x \in Executors |-> "waiting"]
  /\ observers = [o \in Observers |-> "waiting"]
  /\ left = [s \in Strategies |-> 0]
  /\ events = 0 /\ actions = 0
  /\ next_event = [r \in EventReaders |-> 1]
  /\ next_action = [r \in ActionReaders |-> 1]
  /\ got_events = [r \in EventReaders |-> 0]
  /\ got_actions = [r \in ActionReaders |-> 0]

-----------------------------------------------------------------------------
(* The broadcast ring, and the stream that channel::into_stream makes of a *)
(* receiver.                                                               *)

(* The oldest message kept after n were sent.                              *)
oldest(n, capacity) == IF n > capacity THEN n - capacity + 1 ELSE 1

(* The message a receiver delivers: an overrun one goes on at the oldest.  *)
into_stream(next, n, capacity) ==
  IF next < oldest(n, capacity) THEN oldest(n, capacity) ELSE next

(* The stream has an item; take_until polls the token first.               *)
yields(next, n) == ~root /\ next <= n

(* The stream ends: cancelled, or closed and drained.  Mutant: it also     *)
(* ends when the receiver lags.                                            *)
over_on_lag(next, n, capacity, closed) ==
  root \/ (closed /\ next > n) \/ next < oldest(n, capacity)
over(next, n, capacity, closed) == root \/ (closed /\ next > n)

(* A channel closes with its last sender: run, the drivers, the strategies.*)
event_closed == phase = "running" /\ \A c \in Collectors : state[c] = "done"
action_closed == phase = "running" /\ \A s \in Strategies : strategies[s] = "ended"

counted(got) == IF got = Lagged THEN Lagged ELSE got + 1

(* Reader r takes its next message.  Mutant: the readers share a receiver. *)
recv_event_shared(r) ==
  LET m == into_stream(next_event[r], events, EventCapacity) IN
    /\ yields(next_event[r], events)
    /\ next_event' = [q \in EventReaders |-> m + 1]
    /\ got_events' = [got_events EXCEPT ![r] = counted(@)]
    /\ UNCHANGED events
recv_event(r) ==
  LET m == into_stream(next_event[r], events, EventCapacity) IN
    /\ yields(next_event[r], events)
    /\ next_event' = [next_event EXCEPT ![r] = m + 1]
    /\ got_events' = [got_events EXCEPT ![r] = counted(@)]
    /\ UNCHANGED events

(* Mutant: the newest action is held back until another one follows.       *)
recv_action_late(r) ==
  LET m == into_stream(next_action[r], actions, ActionCapacity) IN
    /\ yields(next_action[r], actions) /\ m < actions
    /\ next_action' = [next_action EXCEPT ![r] = m + 1]
    /\ got_actions' = [got_actions EXCEPT ![r] = counted(@)]
    /\ UNCHANGED actions
recv_action(r) ==
  LET m == into_stream(next_action[r], actions, ActionCapacity) IN
    /\ yields(next_action[r], actions)
    /\ next_action' = [next_action EXCEPT ![r] = m + 1]
    /\ got_actions' = [got_actions EXCEPT ![r] = counted(@)]
    /\ UNCHANGED actions

-----------------------------------------------------------------------------
(* Engine::run.                                                            *)

(* sync_state of the next strategy succeeds and its task is spawned.  The  *)
(* token cannot be cancelled yet: only the handle, which run has not       *)
(* returned, and the drivers, which are not spawned, can do that.          *)
sync ==
  /\ phase = "starting" /\ synced < NumStrategies
  /\ synced' = synced + 1
  /\ strategies' = [strategies EXCEPT ![synced + 1] = "waiting"]
  /\ UNCHANGED <<phase, driverVars, executors, observers, left,
                 event_channel, action_channel>>

(* It fails: run returns the error, and dropping the JoinSet aborts every  *)
(* task there is.                                                          *)
sync_fails ==
  /\ phase = "starting" /\ synced < NumStrategies
  /\ phase' = "failed"
  /\ strategies' = [s \in Strategies |-> "ended"]
  /\ executors' = [x \in Executors |-> "ended"]
  /\ observers' = [o \in Observers |-> "ended"]
  /\ UNCHANGED <<synced, driverVars, left, event_channel, action_channel>>

(* The drivers come last, and run returns the handle.                      *)
spawn_collectors ==
  /\ phase = "starting" /\ synced = NumStrategies
  /\ phase' = "running"
  /\ UNCHANGED <<synced, driverVars, tasks, event_channel, action_channel>>

(* The caller cancels the token of the handle.                             *)
cancel_handle ==
  /\ phase = "running"
  /\ cancel
  /\ UNCHANGED <<startup, tasks, event_channel, action_channel>>

-----------------------------------------------------------------------------
(* The tasks.                                                              *)

(* A driver is there.  Mutant: the drivers do not wait for the strategies. *)
spawned_early == phase # "failed"
spawned == phase = "running"

(* A driver sends an event; its select may do so though the token is set.  *)
send_event(c) ==
  /\ spawned /\ event(c)
  /\ events < MaxEvents
  /\ events' = events + 1
  /\ got_events' = [r \in EventReaders |->
       IF next_event[r] < oldest(events + 1, EventCapacity) THEN Lagged ELSE got_events[r]]
  /\ UNCHANGED <<startup, tasks, next_event, action_channel>>

(* What else a driver does, by itself or to end.                           *)
drive(c) ==
  /\ spawned
  /\ subscribed(c) \/ creation_failed(c) \/ stream_ended(c) \/ wake(c)
  /\ UNCHANGED <<startup, tasks, event_channel, action_channel>>

driver_ends(c) ==
  /\ spawned
  /\ shut_down(c) \/ escalate_fatal(c) \/ escalate_root(c)
  /\ UNCHANGED <<startup, tasks, event_channel, action_channel>>

strategy_takes(s) ==
  /\ strategies[s] = "waiting"
  /\ recv_event(s)
  /\ strategies' = [strategies EXCEPT ![s] = "processing"]
  /\ UNCHANGED <<startup, driverVars, executors, observers, left, action_channel>>

(* process_event returns a stream of actions, or an error that is logged.  *)
process_event(s) ==
  /\ strategies[s] = "processing"
  /\ \/ /\ strategies' = [strategies EXCEPT ![s] = "draining"]
        /\ \E n \in Fanouts : left' = [left EXCEPT ![s] = n]
     \/ /\ strategies' = [strategies EXCEPT ![s] = "waiting"]
        /\ UNCHANGED left
  /\ UNCHANGED <<startup, driverVars, executors, observers,
                 event_channel, action_channel>>

(* Taking an action off the stream and sending it are one step: nobody     *)
(* receives what is sent after a cancellation between the two.             *)
send_action(s) ==
  /\ strategies[s] = "draining" /\ left[s] > 0 /\ ~root
  /\ left' = [left EXCEPT ![s] = @ - 1]
  /\ actions' = actions + 1
  /\ got_actions' = [r \in ActionReaders |->
       IF next_action[r] < oldest(actions + 1, ActionCapacity) THEN Lagged ELSE got_actions[r]]
  /\ UNCHANGED <<startup, driverVars, strategies, executors, observers,
                 event_channel, next_action>>

(* The stream ends by itself, which it need not do.                        *)
stream_ends(s) ==
  /\ strategies[s] = "draining" /\ left[s] = 0
  /\ strategies' = [strategies EXCEPT ![s] = "waiting"]
  /\ UNCHANGED <<startup, driverVars, executors, observers, left,
                 event_channel, action_channel>>

(* take_until cuts it off at shutdown.  Mutant: only once it is drained.   *)
cut_off_drained(s) ==
  /\ strategies[s] = "draining" /\ left[s] = 0 /\ root
  /\ strategies' = [strategies EXCEPT ![s] = "waiting"]
  /\ UNCHANGED <<startup, driverVars, executors, observers, left,
                 event_channel, action_channel>>
cut_off(s) ==
  /\ strategies[s] = "draining" /\ root
  /\ strategies' = [strategies EXCEPT ![s] = "waiting"]
  /\ UNCHANGED <<startup, driverVars, executors, observers, left,
                 event_channel, action_channel>>

strategy_ends(s) ==
  /\ strategies[s] = "waiting"
  /\ over(next_event[s], events, EventCapacity, event_closed)
  /\ strategies' = [strategies EXCEPT ![s] = "ended"]
  /\ UNCHANGED <<startup, driverVars, executors, observers, left,
                 event_channel, action_channel>>

execute(x) ==
  /\ executors[x] = "waiting"
  /\ recv_action(x)
  /\ executors' = [executors EXCEPT ![x] = "executing"]
  /\ UNCHANGED <<startup, driverVars, strategies, observers, left, event_channel>>

(* execute returns; an error is logged.                                    *)
executed(x) ==
  /\ executors[x] = "executing"
  /\ executors' = [executors EXCEPT ![x] = "waiting"]
  /\ UNCHANGED <<startup, driverVars, strategies, observers, left,
                 event_channel, action_channel>>

executor_ends(x) ==
  /\ executors[x] = "waiting"
  /\ over(next_action[x], actions, ActionCapacity, action_closed)
  /\ executors' = [executors EXCEPT ![x] = "ended"]
  /\ UNCHANGED <<startup, driverVars, strategies, observers, left,
                 event_channel, action_channel>>

observe_event(o) ==
  /\ observers[o] = "waiting"
  /\ recv_event(o)
  /\ UNCHANGED <<startup, driverVars, tasks, action_channel>>

observe_action(o) ==
  /\ observers[o] = "waiting"
  /\ recv_action(o)
  /\ UNCHANGED <<startup, driverVars, tasks, event_channel>>

(* Both streams have ended.                                                *)
observer_ends(o) ==
  /\ observers[o] = "waiting"
  /\ over(next_event[o], events, EventCapacity, event_closed)
  /\ over(next_action[o], actions, ActionCapacity, action_closed)
  /\ observers' = [observers EXCEPT ![o] = "ended"]
  /\ UNCHANGED <<startup, driverVars, strategies, executors, left,
                 event_channel, action_channel>>

strategy_task(s) ==
  \/ strategy_takes(s) \/ process_event(s) \/ send_action(s) \/ cut_off(s) \/ strategy_ends(s)
executor_task(x) == execute(x) \/ executed(x) \/ executor_ends(x)
observer_task(o) == observe_event(o) \/ observe_action(o) \/ observer_ends(o)

Next ==
  \/ sync \/ sync_fails \/ spawn_collectors \/ cancel_handle
  \/ \E c \in Collectors : send_event(c) \/ drive(c) \/ driver_ends(c)
  \/ \E s \in Strategies : strategy_task(s) \/ stream_ends(s)
  \/ \E x \in Executors : executor_task(x)
  \/ \E o \in Observers : observer_task(o)

Spec == Init /\ [][Next]_vars

(* Every task runs, process_event, execute and the observers return, and a *)
(* driver takes the branch of its cancelled token at last and completes an *)
(* escalation, as in CollectorDriver.  Nothing else is promised: a source  *)
(* may be silent, sync_state may hang, a stream of actions may never end.  *)
FairSpec ==
  /\ Spec
  /\ \A c \in Collectors : WF_vars(driver_ends(c))
  /\ \A s \in Strategies : WF_vars(strategy_task(s))
  /\ \A x \in Executors : WF_vars(executor_task(x))
  /\ \A o \in Observers : WF_vars(observer_task(o))

-----------------------------------------------------------------------------
(* Properties.                                                             *)

(* No event is sent before every strategy is synced and draining, so none  *)
(* is lost to a ring that fills up during a long sync_state.               *)
SyncedBeforeEvents ==
  events > 0 => \A s \in Strategies : strategies[s] # "unborn"

(* Every reader that was never overrun has delivered exactly the messages  *)
(* up to its position, from the first one on: fan-out loses nothing but    *)
(* through lag, and the readers do not take messages from each other.      *)
NoLossWithoutLag ==
  /\ \A r \in EventReaders : got_events[r] \in {next_event[r] - 1, Lagged}
  /\ \A r \in ActionReaders : got_actions[r] \in {next_action[r] - 1, Lagged}

(* No lag, error or slow peer ends a task: in an engine that started, only *)
(* shutdown does, or having no collector or no strategy at all, whose      *)
(* channel is closed from the start.                                       *)
EndsOnlyAtShutdown ==
  phase = "running" /\ Collectors # {} /\ Strategies # {} /\ ~root =>
    /\ \A s \in Strategies : strategies[s] # "ended"
    /\ \A x \in Executors : executors[x] # "ended"
    /\ \A o \in Observers : observers[o] # "ended"

(* No executor starts an action after the token was cancelled.             *)
QuietAfterCancel ==
  [][root => \A x \in Executors : executors'[x] = "executing" => executors[x] = "executing"]_vars

AllEnded ==
  /\ \A c \in Collectors : state[c] = "done"
  /\ \A s \in Strategies : strategies[s] = "ended"
  /\ \A x \in Executors : executors[x] = "ended"
  /\ \A o \in Observers : observers[o] = "ended"

(* A cancelled engine stops, every task of it, also one whose stream of    *)
(* actions has no end.                                                     *)
ShutdownCompletes == root ~> AllEnded

(* An action sent reaches every executor at last, unless the executor was  *)
(* overrun or the engine is shut down.                                     *)
ActionsExecuted ==
  \A x \in Executors : \A i \in Followed :
    (actions >= i) ~> (got_actions[x] >= i \/ got_actions[x] = Lagged \/ root)
=============================================================================
