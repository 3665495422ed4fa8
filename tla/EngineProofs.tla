---------------------------- MODULE EngineProofs ----------------------------
(***************************************************************************)
(* What the drivers guarantee for any set of collectors and any limit, and *)
(* what Engine, which runs them, does for any number of tasks and any      *)
(* capacities.                                                             *)
(***************************************************************************)
EXTENDS Engine, TLAPS

-----------------------------------------------------------------------------
(* The drivers by themselves.                                              *)

(* The driver is in one of the states that await a token.                  *)
Running(c) == state[c] \in {"subscribing", "pumping", "sleeping"}

(* A driver that is still running is short of the limit, and one that      *)
(* escalates has reached it.                                               *)
CountsMatchStates ==
  \A c \in Collectors :
    /\ Running(c) => failures[c] < Limit
    /\ state[c] \in {"escalating", "tearing"} => failures[c] >= MaxFailures
    /\ state[c] = "tearing" => fatal

(* The inductive invariant.                                                *)
DriverInv == DriverTypeOK /\ CountsMatchStates /\ FatalBeforeRoot /\ FatalHasCulprit

(* The limit is the smallest count at which record_failure gives up.       *)
LEMMA LimitFacts ==
  /\ Limit \in Nat /\ Limit >= 1 /\ Limit >= MaxFailures
  /\ \A n \in 0..Limit : n < Limit =>
       n + 1 \in 0..Limit /\ (n + 1 < MaxFailures => n + 1 < Limit)
BY DriverAssumption DEF Limit

LEMMA InitDriverInv == DriverInit => DriverInv
<1> SUFFICES ASSUME DriverInit PROVE DriverInv
  OBVIOUS
<1> USE DEF DriverInit
<1>1. 0 \in 0..Limit /\ 0 < Limit
  BY LimitFacts
<1>2. DriverTypeOK
  BY <1>1 DEF DriverTypeOK, States
<1>3. CountsMatchStates
  BY <1>1 DEF CountsMatchStates, Running
<1>4. FatalBeforeRoot /\ FatalHasCulprit
  BY DEF FatalBeforeRoot, FatalHasCulprit
<1> QED BY <1>2, <1>3, <1>4 DEF DriverInv

(* A failure of a running driver is counted, and is Fatal at the limit.    *)
LEMMA FailureDriverInv ==
  ASSUME DriverInv, NEW c \in Collectors, Running(c), record_failure(c), UNCHANGED Tokens
  PROVE  DriverInv'
<1> USE DEF record_failure, Tokens, DriverInv
<1>1. failures[c] \in 0..Limit /\ failures[c] < Limit
  BY DEF DriverTypeOK, CountsMatchStates
<1>2. failures[c] + 1 \in 0..Limit /\ failures[c] + 1 \in Nat /\ 
      (~(failures[c] + 1 >= MaxFailures) => failures[c] + 1 < Limit)
  BY <1>1, LimitFacts, DriverAssumption
<1>3. DriverTypeOK'
  BY <1>2 DEF DriverTypeOK, States
<1>4. CountsMatchStates'
  BY <1>2 DEF DriverTypeOK, CountsMatchStates, Running
<1>5. FatalBeforeRoot'
  BY DEF FatalBeforeRoot
<1>6. FatalHasCulprit'
  BY DEF DriverTypeOK, FatalHasCulprit, Running
<1> QED BY <1>3, <1>4, <1>5, <1>6

(* A running driver moves on with its count kept or cleared.               *)
LEMMA MoveDriverInv ==
  ASSUME DriverInv, NEW c \in Collectors, Running(c), UNCHANGED Tokens,
         NEW s \in {"subscribing", "pumping", "sleeping", "done"},
         state' = [state EXCEPT ![c] = s],
         failures' = failures \/ failures' = [failures EXCEPT ![c] = 0]
  PROVE  DriverInv'
<1> USE DEF Tokens, DriverInv
<1>1. DriverTypeOK'
  BY LimitFacts DEF DriverTypeOK, States
<1>2. CountsMatchStates'
  BY LimitFacts DEF DriverTypeOK, CountsMatchStates, Running
<1>3. FatalBeforeRoot'
  BY DEF FatalBeforeRoot
<1>4. FatalHasCulprit'
  BY DEF DriverTypeOK, FatalHasCulprit, Running
<1> QED BY <1>1, <1>2, <1>3, <1>4

LEMMA EscalateDriverInv ==
  ASSUME DriverInv, NEW c \in Collectors, escalate_fatal(c) \/ escalate_root(c)
  PROVE  DriverInv'
<1> USE DEF DriverInv
<1>1. CASE escalate_fatal(c)
  BY <1>1 DEF escalate_fatal, DriverTypeOK, States, CountsMatchStates, Running,
              FatalBeforeRoot, FatalHasCulprit
<1>2. CASE escalate_root(c)
  BY <1>2 DEF escalate_root, DriverTypeOK, States, CountsMatchStates, Running,
              FatalBeforeRoot, FatalHasCulprit
<1> QED BY <1>1, <1>2

(* Every step keeps the invariant.                                         *)
LEMMA NextDriverInv == DriverInv /\ [DriverNext]_driverVars => DriverInv'
<1> SUFFICES ASSUME DriverInv, [DriverNext]_driverVars PROVE DriverInv'
  OBVIOUS
<1>1. CASE cancel
  BY <1>1 DEF cancel, DriverInv, DriverTypeOK, CountsMatchStates, Running, FatalBeforeRoot,
              FatalHasCulprit
<1>2. ASSUME NEW c \in Collectors, Driver(c) PROVE DriverInv'
  <2>1. CASE shut_down(c)
    BY <2>1, MoveDriverInv DEF shut_down, Running
  <2>2. CASE subscribed(c)
    BY <2>2, MoveDriverInv DEF subscribed, Running
  <2>3. CASE creation_failed(c)
    BY <2>3, FailureDriverInv DEF creation_failed, Running
  <2>4. CASE event(c)
    <3>1. state' = [state EXCEPT ![c] = "pumping"]
      BY <2>4 DEF event, on_events_received, DriverInv, DriverTypeOK
    <3> QED BY <2>4, <3>1, MoveDriverInv DEF event, on_events_received, Running
  <2>5. CASE stream_ended(c)
    BY <2>5, FailureDriverInv, MoveDriverInv DEF stream_ended, on_healthy_end, Running
  <2>6. CASE wake(c)
    BY <2>6, MoveDriverInv DEF wake, Running
  <2>7. CASE escalate_fatal(c) \/ escalate_root(c)
    BY <2>7, EscalateDriverInv
  <2> QED BY <1>2, <2>1, <2>2, <2>3, <2>4, <2>5, <2>6, <2>7 DEF Driver
<1>3. CASE UNCHANGED driverVars
  BY <1>3 DEF driverVars, DriverInv, DriverTypeOK, CountsMatchStates, Running, FatalBeforeRoot,
              FatalHasCulprit
<1> QED BY <1>1, <1>2, <1>3 DEF DriverNext

LEMMA DriverInvAlways == DriverSpec => []DriverInv
BY InitDriverInv, NextDriverInv, PTL DEF DriverSpec

(* Every variable keeps its type; the failure count never passes the       *)
(* limit.                                                                  *)
THEOREM DriversTypeCorrect == DriverSpec => []DriverTypeOK
<1>1. DriverInv => DriverTypeOK
  BY DEF DriverInv
<1> QED BY <1>1, DriverInvAlways, PTL

(* No driver tears the engine down without having said why, for any number *)
(* of collectors escalating at once.                                       *)
THEOREM TeardownHasReason == DriverSpec => []FatalBeforeRoot
<1>1. DriverInv => FatalBeforeRoot
  BY DEF DriverInv
<1> QED BY <1>1, DriverInvAlways, PTL

(* The fatal token always stands for a collector that used up its          *)
(* failures.                                                               *)
THEOREM FatalIsEarned == DriverSpec => []FatalHasCulprit
<1>1. DriverInv => FatalHasCulprit
  BY DEF DriverInv
<1> QED BY <1>1, DriverInvAlways, PTL
-----------------------------------------------------------------------------
(* The drivers in the engine.                                              *)

(* Every step of the engine is a step of the drivers, or leaves them and   *)
(* their tokens alone.                                                     *)
LEMMA DriversStep == [Next]_vars => [DriverNext]_driverVars
<1> SUFFICES ASSUME [Next]_vars PROVE [DriverNext]_driverVars
  OBVIOUS
<1>1. CASE cancel_handle
  BY <1>1 DEF cancel_handle, DriverNext
<1>2. ASSUME NEW c \in Collectors, send_event(c) \/ drive(c) \/ driver_ends(c)
      PROVE  DriverNext
  BY <1>2 DEF send_event, drive, driver_ends, DriverNext, Driver
<1>3. CASE UNCHANGED driverVars
  BY <1>3
<1>4. \/ UNCHANGED driverVars \/ cancel_handle
      \/ \E c \in Collectors : send_event(c) \/ drive(c) \/ driver_ends(c)
  BY DEF Next, vars, sync, sync_fails, spawn_collectors, strategy_task, strategy_takes,
         process_event, send_action, stream_ends, cut_off, strategy_ends, executor_task,
         execute, executed, executor_ends, observer_task, observe_event, observe_action,
         observer_ends
<1> QED BY <1>1, <1>2, <1>3, <1>4

(* The engine implements the specification of its drivers: spawning them   *)
(* last, feeding their events to the ring and sharing the root token with  *)
(* every other task takes nothing from what CollectorDriver promises.      *)
THEOREM EngineRunsDrivers == Spec => DriverSpec
<1>1. Init => DriverInit
  BY DEF Init
<1> QED
  BY <1>1, DriversStep, PTL DEF Spec, DriverSpec

-----------------------------------------------------------------------------
(* The ring.                                                               *)

(* A receiver that has something to read is given a message that was sent, *)
(* and never one before its position.                                      *)
LEMMA Delivers ==
  ASSUME NEW n \in Nat, NEW next \in Nat \ {0}, NEW capacity \in Nat \ {0}, next <= n
  PROVE  /\ into_stream(next, n, capacity) \in next..n
         /\ next >= oldest(n, capacity) => into_stream(next, n, capacity) = next
BY DEF into_stream, oldest

(* A send moves the oldest message by one at most.                         *)
LEMMA OldestMoves ==
  ASSUME NEW n \in Nat, NEW capacity \in Nat \ {0}
  PROVE  /\ oldest(n, capacity) \in 1..(n + 1)
         /\ oldest(n + 1, capacity) >= oldest(n, capacity)
BY DEF oldest

-----------------------------------------------------------------------------
(* Delivery.                                                               *)

EventsOK ==
  /\ events \in 0..MaxEvents
  /\ next_event \in [EventReaders -> 1..(MaxEvents + 1)]
  /\ got_events \in [EventReaders -> Nat \cup {Lagged}]
  /\ \A r \in EventReaders : next_event[r] <= events + 1
  /\ \A r \in EventReaders : got_events[r] # Lagged =>
       /\ got_events[r] = next_event[r] - 1
       /\ next_event[r] >= oldest(events, EventCapacity)

ActionsOK ==
  /\ actions \in Nat
  /\ next_action \in [ActionReaders -> Nat \ {0}]
  /\ got_actions \in [ActionReaders -> Nat \cup {Lagged}]
  /\ \A r \in ActionReaders : next_action[r] <= actions + 1
  /\ \A r \in ActionReaders : got_actions[r] # Lagged =>
       /\ got_actions[r] = next_action[r] - 1
       /\ next_action[r] >= oldest(actions, ActionCapacity)

LEMMA DeliveryInit == Init => EventsOK /\ ActionsOK
<1> SUFFICES ASSUME Init PROVE EventsOK /\ ActionsOK
  OBVIOUS
<1>1. oldest(0, EventCapacity) = 1 /\ oldest(0, ActionCapacity) = 1
  BY EngineAssumption DEF oldest
<1>2. EventsOK
  BY <1>1, EngineAssumption DEF Init, EventsOK
<1>3. ActionsOK
  BY <1>1, EngineAssumption DEF Init, ActionsOK
<1> QED
  BY <1>2, <1>3

LEMMA RecvEvent ==
  ASSUME EventsOK, NEW r \in EventReaders, recv_event(r)
  PROVE  EventsOK'
<1> DEFINE m == into_stream(next_event[r], events, EventCapacity)
<1>1. /\ events \in Nat /\ events <= MaxEvents /\ MaxEvents \in Nat
      /\ next_event[r] \in Nat \ {0} /\ next_event[r] <= events
  BY EngineAssumption DEF EventsOK, recv_event, yields
<1>2. m \in next_event[r]..events
      /\ (next_event[r] >= oldest(events, EventCapacity) => m = next_event[r])
  BY <1>1, Delivers, EngineAssumption
<1>3. /\ next_event' = [next_event EXCEPT ![r] = m + 1]
      /\ got_events' = [got_events EXCEPT ![r] = counted(@)]
      /\ events' = events
  BY DEF recv_event
<1> HIDE DEF m
<1>4. /\ m \in Nat \ {0} /\ m + 1 <= events + 1 /\ m + 1 \in 1..(MaxEvents + 1)
      /\ m >= next_event[r]
  BY <1>1, <1>2
<1>5. counted(got_events[r]) \in Nat \cup {Lagged}
  BY DEF EventsOK, counted, Lagged
<1>6. oldest(events, EventCapacity) \in Nat
  BY <1>1, OldestMoves, EngineAssumption
<1>7. counted(got_events[r]) # Lagged =>
        counted(got_events[r]) = m /\ m + 1 >= oldest(events, EventCapacity)
  BY <1>1, <1>2, <1>4, <1>6 DEF EventsOK, counted, Lagged
<1>8. /\ next_event' \in [EventReaders -> 1..(MaxEvents + 1)]
      /\ got_events' \in [EventReaders -> Nat \cup {Lagged}]
  BY <1>3, <1>4, <1>5 DEF EventsOK
<1>9. ASSUME NEW q \in EventReaders
      PROVE  /\ next_event'[q] <= events' + 1
             /\ got_events'[q] # Lagged =>
                  /\ got_events'[q] = next_event'[q] - 1
                  /\ next_event'[q] >= oldest(events', EventCapacity)
  <2>1. CASE q = r
    BY <1>3, <1>4, <1>7, <2>1 DEF EventsOK
  <2>2. CASE q # r
    BY <1>3, <2>2 DEF EventsOK
  <2> QED BY <2>1, <2>2
<1> QED
  BY <1>3, <1>8, <1>9 DEF EventsOK

LEMMA RecvAction ==
  ASSUME ActionsOK, NEW r \in ActionReaders, recv_action(r)
  PROVE  ActionsOK'
<1> DEFINE m == into_stream(next_action[r], actions, ActionCapacity)
<1>1. /\ actions \in Nat
      /\ next_action[r] \in Nat \ {0} /\ next_action[r] <= actions
  BY DEF ActionsOK, recv_action, yields
<1>2. m \in next_action[r]..actions
      /\ (next_action[r] >= oldest(actions, ActionCapacity) => m = next_action[r])
  BY <1>1, Delivers, EngineAssumption
<1>3. /\ next_action' = [next_action EXCEPT ![r] = m + 1]
      /\ got_actions' = [got_actions EXCEPT ![r] = counted(@)]
      /\ actions' = actions
  BY DEF recv_action
<1> HIDE DEF m
<1>4. m \in Nat \ {0} /\ m + 1 <= actions + 1 /\ m + 1 \in Nat \ {0} /\ m >= next_action[r]
  BY <1>1, <1>2
<1>5. counted(got_actions[r]) \in Nat \cup {Lagged}
  BY DEF ActionsOK, counted, Lagged
<1>6. oldest(actions, ActionCapacity) \in Nat
  BY <1>1, OldestMoves, EngineAssumption
<1>7. counted(got_actions[r]) # Lagged =>
        counted(got_actions[r]) = m /\ m + 1 >= oldest(actions, ActionCapacity)
  BY <1>1, <1>2, <1>4, <1>6 DEF ActionsOK, counted, Lagged
<1>8. /\ next_action' \in [ActionReaders -> Nat \ {0}]
      /\ got_actions' \in [ActionReaders -> Nat \cup {Lagged}]
  BY <1>3, <1>4, <1>5 DEF ActionsOK
<1>9. ASSUME NEW q \in ActionReaders
      PROVE  /\ next_action'[q] <= actions' + 1
             /\ got_actions'[q] # Lagged =>
                  /\ got_actions'[q] = next_action'[q] - 1
                  /\ next_action'[q] >= oldest(actions', ActionCapacity)
  <2>1. CASE q = r
    BY <1>3, <1>4, <1>7, <2>1 DEF ActionsOK
  <2>2. CASE q # r
    BY <1>3, <2>2 DEF ActionsOK
  <2> QED BY <2>1, <2>2
<1> QED
  BY <1>1, <1>3, <1>8, <1>9 DEF ActionsOK

LEMMA SendEvent ==
  ASSUME EventsOK, NEW c, send_event(c)
  PROVE  EventsOK'
<1>1. events \in Nat /\ events < MaxEvents /\ MaxEvents \in Nat /\ events' = events + 1
      /\ next_event' = next_event
  BY EngineAssumption DEF EventsOK, send_event
<1>2. got_events' = [r \in EventReaders |->
        IF next_event[r] < oldest(events + 1, EventCapacity) THEN Lagged ELSE got_events[r]]
  BY DEF send_event
<1>3. oldest(events + 1, EventCapacity) \in Nat
  BY <1>1, OldestMoves, EngineAssumption
<1>4. ASSUME NEW r \in EventReaders
      PROVE  /\ next_event'[r] <= events' + 1
             /\ got_events'[r] \in Nat \cup {Lagged}
             /\ got_events'[r] # Lagged =>
                  /\ got_events'[r] = next_event'[r] - 1
                  /\ next_event'[r] >= oldest(events', EventCapacity)
  BY <1>1, <1>2, <1>3 DEF EventsOK
<1> QED
  BY <1>1, <1>2, <1>4 DEF EventsOK

LEMMA SendAction ==
  ASSUME ActionsOK, NEW s, send_action(s)
  PROVE  ActionsOK'
<1>1. actions \in Nat /\ actions' = actions + 1 /\ next_action' = next_action
  BY DEF ActionsOK, send_action
<1>2. got_actions' = [r \in ActionReaders |->
        IF next_action[r] < oldest(actions + 1, ActionCapacity) THEN Lagged ELSE got_actions[r]]
  BY DEF send_action
<1>3. oldest(actions + 1, ActionCapacity) \in Nat
  BY <1>1, OldestMoves, EngineAssumption
<1>4. ASSUME NEW r \in ActionReaders
      PROVE  /\ next_action'[r] <= actions' + 1
             /\ got_actions'[r] \in Nat \cup {Lagged}
             /\ got_actions'[r] # Lagged =>
                  /\ got_actions'[r] = next_action'[r] - 1
                  /\ next_action'[r] >= oldest(actions', ActionCapacity)
  BY <1>1, <1>2, <1>3 DEF ActionsOK
<1> QED
  BY <1>1, <1>2, <1>4 DEF ActionsOK

(* A step that leaves a channel alone.                                     *)
LEMMA EventsKept == EventsOK /\ UNCHANGED event_channel => EventsOK'
BY DEF EventsOK, event_channel
LEMMA ActionsKept == ActionsOK /\ UNCHANGED action_channel => ActionsOK'
BY DEF ActionsOK, action_channel

LEMMA DeliveryNext == EventsOK /\ ActionsOK /\ [Next]_vars => EventsOK' /\ ActionsOK'
<1> SUFFICES ASSUME EventsOK, ActionsOK, [Next]_vars PROVE EventsOK' /\ ActionsOK'
  OBVIOUS
<1>1. CASE sync \/ sync_fails \/ spawn_collectors \/ cancel_handle
  BY <1>1, EventsKept, ActionsKept DEF sync, sync_fails, spawn_collectors, cancel_handle
<1>2. ASSUME NEW c \in Collectors, send_event(c) \/ drive(c) \/ driver_ends(c)
      PROVE  EventsOK' /\ ActionsOK'
  <2>1. CASE send_event(c)
    <3>1. UNCHANGED action_channel
      BY <2>1 DEF send_event
    <3> QED BY <2>1, <3>1, SendEvent, ActionsKept
  <2>2. CASE drive(c) \/ driver_ends(c)
    BY <2>2, EventsKept, ActionsKept DEF drive, driver_ends
  <2> QED BY <1>2, <2>1, <2>2
<1>3. ASSUME NEW s \in Strategies, strategy_task(s) \/ stream_ends(s)
      PROVE  EventsOK' /\ ActionsOK'
  <2>1. CASE strategy_takes(s)
    <3>1. recv_event(s) /\ UNCHANGED action_channel /\ s \in EventReaders
      BY <2>1 DEF strategy_takes, EventReaders
    <3> QED BY <3>1, RecvEvent, ActionsKept
  <2>2. CASE send_action(s)
    <3>1. UNCHANGED event_channel
      BY <2>2 DEF send_action
    <3> QED BY <2>2, <3>1, SendAction, EventsKept
  <2>3. CASE process_event(s) \/ stream_ends(s) \/ cut_off(s) \/ strategy_ends(s)
    BY <2>3, EventsKept, ActionsKept DEF process_event, stream_ends, cut_off, strategy_ends
  <2> QED BY <1>3, <2>1, <2>2, <2>3 DEF strategy_task
<1>4. ASSUME NEW x \in Executors, executor_task(x)
      PROVE  EventsOK' /\ ActionsOK'
  <2>1. CASE execute(x)
    <3>1. recv_action(x) /\ UNCHANGED event_channel /\ x \in ActionReaders
      BY <2>1 DEF execute, ActionReaders
    <3> QED BY <3>1, RecvAction, EventsKept
  <2>2. CASE executed(x) \/ executor_ends(x)
    BY <2>2, EventsKept, ActionsKept DEF executed, executor_ends
  <2> QED BY <1>4, <2>1, <2>2 DEF executor_task
<1>5. ASSUME NEW o \in Observers, observer_task(o)
      PROVE  EventsOK' /\ ActionsOK'
  <2>1. CASE observe_event(o)
    <3>1. recv_event(o) /\ UNCHANGED action_channel /\ o \in EventReaders
      BY <2>1 DEF observe_event, EventReaders
    <3> QED BY <3>1, RecvEvent, ActionsKept
  <2>2. CASE observe_action(o)
    <3>1. recv_action(o) /\ UNCHANGED event_channel /\ o \in ActionReaders
      BY <2>2 DEF observe_action, ActionReaders
    <3> QED BY <3>1, RecvAction, EventsKept
  <2>3. CASE observer_ends(o)
    BY <2>3, EventsKept, ActionsKept DEF observer_ends
  <2> QED BY <1>5, <2>1, <2>2, <2>3 DEF observer_task
<1>6. CASE UNCHANGED vars
  BY <1>6, EventsKept, ActionsKept DEF vars, event_channel, action_channel
<1> QED
  BY <1>1, <1>2, <1>3, <1>4, <1>5, <1>6 DEF Next

(* Fan-out loses nothing but through lag, for any number of readers and    *)
(* any capacity of the rings.                                              *)
THEOREM DeliveredUnlessLagged == Spec => []NoLossWithoutLag
<1>1. EventsOK /\ ActionsOK => NoLossWithoutLag
  BY DEF EventsOK, ActionsOK, NoLossWithoutLag
<1> QED
  BY <1>1, DeliveryInit, DeliveryNext, PTL DEF Spec

-----------------------------------------------------------------------------
(* Start-up and shutdown.                                                  *)

(* Nothing flows while run is starting, and no driver has ended before the *)
(* token is cancelled.                                                     *)
LifeOK ==
  /\ synced \in 0..NumStrategies /\ events \in Nat
  /\ strategies \in [Strategies -> {"unborn", "waiting", "processing", "draining", "ended"}]
  /\ state \in [Collectors -> States]
  /\ executors \in [Executors -> {"waiting", "executing", "ended"}]
  /\ observers \in [Observers -> {"waiting", "ended"}]
  /\ phase \in {"starting", "running", "failed"} /\ root \in BOOLEAN
  /\ phase # "running" => events = 0 /\ ~root
  /\ phase = "running" => synced = NumStrategies
  /\ \A s \in Strategies : s <= synced => strategies[s] # "unborn"
  /\ \A c \in Collectors : state[c] = "done" => root
  /\ (phase = "starting" \/ (phase = "running" /\ Collectors # {} /\ Strategies # {} /\ ~root)) =>
       /\ \A s \in Strategies : strategies[s] # "ended"
       /\ \A x \in Executors : executors[x] # "ended"
       /\ \A o \in Observers : observers[o] # "ended"

LEMMA LifeInit == Init => LifeOK
<1> SUFFICES ASSUME Init PROVE LifeOK
  OBVIOUS
<1>1. synced \in 0..NumStrategies /\ events \in Nat
  BY EngineAssumption DEF Init
<1>2. \A s \in Strategies : ~(s <= synced)
  BY EngineAssumption DEF Init, Strategies
<1> QED
  BY <1>1, <1>2 DEF Init, DriverInit, States, LifeOK

(* The channels of a running engine are open until the token is cancelled. *)
LEMMA OpenChannels ==
  ASSUME LifeOK, ~root
  PROVE  /\ Collectors # {} => ~event_closed
         /\ Collectors # {} /\ Strategies # {} => ~action_closed
         /\ phase # "running" => ~event_closed /\ ~action_closed
BY DEF LifeOK, event_closed, action_closed

LEMMA LifeNext == LifeOK /\ [Next]_vars => LifeOK'
<1> SUFFICES ASSUME LifeOK, [Next]_vars PROVE LifeOK'
  OBVIOUS
<1> USE EngineAssumption
<1>1. CASE sync
  BY <1>1 DEF sync, driverVars, LifeOK, Strategies, event_channel
<1>2. CASE sync_fails
  BY <1>2 DEF sync_fails, driverVars, LifeOK, Strategies, event_channel
<1>3. CASE spawn_collectors
  BY <1>3 DEF spawn_collectors, LifeOK, Strategies, driverVars, tasks, event_channel
<1>4. CASE cancel_handle
  BY <1>4 DEF cancel_handle, cancel, LifeOK, startup, tasks, event_channel
<1>5. ASSUME NEW c \in Collectors, send_event(c) PROVE LifeOK'
  BY <1>5 DEF send_event, spawned, event, on_events_received, Tokens, LifeOK, startup, tasks
<1>6. ASSUME NEW c \in Collectors, drive(c) \/ driver_ends(c) PROVE LifeOK'
  <2>1. CASE drive(c)
    BY <2>1 DEF drive, spawned, subscribed, creation_failed, stream_ended, wake,
                record_failure, on_healthy_end, Tokens, States, LifeOK, startup, tasks,
                event_channel
  <2>2. CASE driver_ends(c)
    BY <2>2 DEF driver_ends, spawned, shut_down, escalate_fatal, escalate_root, Tokens,
                States, LifeOK, startup, tasks, event_channel
  <2> QED BY <1>6, <2>1, <2>2
<1>7. ASSUME NEW s \in Strategies, strategy_task(s) \/ stream_ends(s) PROVE LifeOK'
  <2>1. CASE strategy_takes(s)
    BY <2>1 DEF strategy_takes, driverVars, recv_event, LifeOK, startup
  <2>2. CASE process_event(s)
    BY <2>2 DEF process_event, driverVars, LifeOK, startup, event_channel
  <2>3. CASE send_action(s)
    BY <2>3 DEF send_action, driverVars, LifeOK, startup, event_channel
  <2>4. CASE stream_ends(s)
    BY <2>4 DEF stream_ends, driverVars, LifeOK, startup, event_channel
  <2>5. CASE cut_off(s)
    BY <2>5 DEF cut_off, driverVars, LifeOK, startup, event_channel
  <2>6. CASE strategy_ends(s)
    <3>1. root \/ event_closed
      BY <2>6 DEF strategy_ends, driverVars, over
    <3>2. root \/ (phase = "running" /\ Collectors = {})
      BY <3>1, OpenChannels DEF event_closed
    <3> QED BY <2>6, <3>2 DEF strategy_ends, driverVars, LifeOK, startup, event_channel
  <2> QED BY <1>7, <2>1, <2>2, <2>3, <2>4, <2>5, <2>6 DEF strategy_task
<1>8. ASSUME NEW x \in Executors, executor_task(x) PROVE LifeOK'
  <2>1. CASE execute(x)
    BY <2>1 DEF execute, driverVars, LifeOK, startup, event_channel
  <2>2. CASE executed(x)
    BY <2>2 DEF executed, driverVars, LifeOK, startup, event_channel
  <2>3. CASE executor_ends(x)
    <3>1. root \/ action_closed
      BY <2>3 DEF executor_ends, driverVars, over
    <3>2. root \/ (phase = "running" /\ (Collectors = {} \/ Strategies = {}))
      BY <3>1, OpenChannels DEF action_closed
    <3> QED BY <2>3, <3>2 DEF executor_ends, driverVars, LifeOK, startup, event_channel
  <2> QED BY <1>8, <2>1, <2>2, <2>3 DEF executor_task
<1>9. ASSUME NEW o \in Observers, observer_task(o) PROVE LifeOK'
  <2>1. CASE observe_event(o)
    BY <2>1 DEF observe_event, driverVars, recv_event, LifeOK, startup, tasks
  <2>2. CASE observe_action(o)
    BY <2>2 DEF observe_action, driverVars, LifeOK, startup, tasks, event_channel
  <2>3. CASE observer_ends(o)
    <3>1. root \/ event_closed
      BY <2>3 DEF observer_ends, driverVars, over
    <3>2. root \/ (phase = "running" /\ Collectors = {})
      BY <3>1, OpenChannels DEF event_closed
    <3> QED BY <2>3, <3>2 DEF observer_ends, driverVars, LifeOK, startup, event_channel
  <2> QED BY <1>9, <2>1, <2>2, <2>3 DEF observer_task
<1>10. CASE UNCHANGED vars
  BY <1>10 DEF vars, driverVars, LifeOK, startup, tasks, event_channel
<1> QED
  BY <1>1, <1>2, <1>3, <1>4, <1>5, <1>6, <1>7, <1>8, <1>9, <1>10 DEF Next

(* No event is sent before every strategy is synced and its task spawned.  *)
THEOREM NothingBeforeSync == Spec => []SyncedBeforeEvents
<1>1. LifeOK => SyncedBeforeEvents
  BY EngineAssumption DEF LifeOK, SyncedBeforeEvents, Strategies
<1> QED
  BY <1>1, LifeInit, LifeNext, PTL DEF Spec

(* In a running engine with collectors and strategies no task ends before  *)
(* the token is cancelled.                                                 *)
THEOREM TasksOutliveFaults == Spec => []EndsOnlyAtShutdown
<1>1. LifeOK => EndsOnlyAtShutdown
  BY DEF LifeOK, EndsOnlyAtShutdown
<1> QED
  BY <1>1, LifeInit, LifeNext, PTL DEF Spec

(* A strategy, an executor or an observer of a running engine, with        *)
(* collectors and strategies, has ended.                                   *)
SomeTaskEnded ==
  /\ phase = "running" /\ Collectors # {} /\ Strategies # {}
  /\ \/ \E s \in Strategies : strategies[s] = "ended"
     \/ \E x \in Executors : executors[x] = "ended"
     \/ \E o \in Observers : observers[o] = "ended"

(* Whenever a task of a running engine has ended, the caller asked for it, *)
(* or the fatal token is set and there is a collector whose failures       *)
(* reached the limit: nothing stops without a reason that can be read.     *)
THEOREM StopsForReason ==
  Spec => [](SomeTaskEnded => caller \/ (fatal /\ FatalHasCulprit))
<1>1. LifeOK /\ DriverInv => (SomeTaskEnded => caller \/ (fatal /\ FatalHasCulprit))
  BY DEF LifeOK, DriverInv, SomeTaskEnded, FatalBeforeRoot
<1> QED
  BY <1>1, LifeInit, LifeNext, EngineRunsDrivers, DriverInvAlways, PTL DEF Spec

(* Every variable keeps its type; no receiver moves past what was sent.    *)
THEOREM TypeCorrect == Spec => []TypeOK
<1> DEFINE LeftOK == left \in [Strategies -> Nat]
<1>1. Init => LeftOK
  BY DEF Init
<1>2. LeftOK /\ [Next]_vars => LeftOK'
  <2> SUFFICES ASSUME LeftOK, [Next]_vars PROVE LeftOK'
    OBVIOUS
  <2>1. ASSUME NEW s \in Strategies, process_event(s) PROVE LeftOK'
    BY <2>1, EngineAssumption DEF process_event
  <2>2. ASSUME NEW s \in Strategies, send_action(s) PROVE LeftOK'
    <3>1. left[s] \in Nat /\ left[s] > 0 /\ left' = [left EXCEPT ![s] = left[s] - 1]
      BY <2>2 DEF send_action
    <3> QED BY <3>1
  <2>3. CASE UNCHANGED left
    BY <2>3
  <2>4. \/ UNCHANGED left
        \/ \E s \in Strategies : process_event(s) \/ send_action(s)
    BY DEF Next, vars, tasks, sync, sync_fails, spawn_collectors, cancel_handle, send_event,
           drive, driver_ends, strategy_task, strategy_takes, stream_ends, cut_off, strategy_ends,
           executor_task, execute, executed, executor_ends, observer_task, observe_event,
           observe_action, observer_ends
  <2> QED BY <2>1, <2>2, <2>3, <2>4
<1>3. DriverInv /\ EventsOK /\ ActionsOK /\ LifeOK /\ LeftOK => TypeOK
  BY DEF DriverInv, EventsOK, ActionsOK, LifeOK, TypeOK
<1> QED
  BY <1>1, <1>2, <1>3, DeliveryInit, DeliveryNext, LifeInit, LifeNext, EngineRunsDrivers,
     DriverInvAlways, PTL DEF Spec

(* No executor starts an action once the token is cancelled.               *)
THEOREM CancelIsQuiet == Spec => QuietAfterCancel
<1>1. ASSUME [Next]_vars, LifeOK, root, NEW x \in Executors, executors'[x] = "executing"
      PROVE  executors[x] = "executing"
  <2>1. ASSUME NEW y \in Executors, execute(y) PROVE FALSE
    BY <1>1, <2>1 DEF execute, recv_action, yields
  <2>2. ASSUME NEW y \in Executors, executed(y) \/ executor_ends(y)
        PROVE  executors[x] = "executing"
    BY <1>1, <2>2 DEF executed, executor_ends, LifeOK
  <2>3. CASE sync_fails
    BY <1>1, <2>3 DEF sync_fails
  <2>4. CASE UNCHANGED executors
    BY <1>1, <2>4
  <2>5. \/ UNCHANGED executors \/ sync_fails
        \/ \E y \in Executors : execute(y) \/ executed(y) \/ executor_ends(y)
    BY <1>1 DEF Next, vars, tasks, sync, spawn_collectors, cancel_handle, send_event,
           drive, driver_ends, strategy_task, strategy_takes, process_event, send_action,
           stream_ends, cut_off, strategy_ends, executor_task, observer_task,
           observe_event, observe_action, observer_ends
  <2> QED BY <2>1, <2>2, <2>3, <2>4, <2>5
<1>2. LifeOK /\ [Next]_vars =>
        [root => \A x \in Executors :
           executors'[x] = "executing" => executors[x] = "executing"]_vars
  BY <1>1
<1> QED
  BY <1>2, LifeInit, LifeNext, PTL DEF Spec, QuietAfterCancel
=============================================================================
