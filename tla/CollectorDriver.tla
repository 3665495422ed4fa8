--------------------------- MODULE CollectorDriver ---------------------------
(***************************************************************************)
(* The Collector Drivers of an engine (src/engine/driver.rs), each with    *)
(* its Reconnect Policy (src/engine/reconnect.rs), and the two tokens they *)
(* share: root, which every task observes through a child token, and       *)
(* fatal, which only says why.  Drivers run on a multi-threaded runtime:   *)
(* the two cancels of an escalation are separate steps.                    *)
(***************************************************************************)
EXTENDS Integers

CONSTANTS
  Collectors,
  MaxFailures,   \* ReconnectConfig.max_failures
  Zombies        \* collectors that never deliver and never stay up

ASSUME DriverAssumption ==
  /\ MaxFailures \in Nat
  /\ Zombies \subseteq Collectors

VARIABLES
  state,      \* where each driver's loop is
  failures,   \* the policy's count of consecutive failures
  root,       \* the root token is cancelled
  fatal,      \* the fatal token is cancelled
  caller      \* history: the caller cancelled root before any driver did

driverVars == <<state, failures, root, fatal, caller>>

States ==
  {"subscribing",  \* awaiting subscribe, or the driver's token
   "pumping",      \* awaiting the next event of the stream, or the token
   "sleeping",     \* awaiting the backoff, or the token
   "escalating",   \* Fatal: about to cancel the fatal token
   "tearing",      \* ... and then the root token
   "done"}

(* The failures at which record_failure gives up: the count is incremented *)
(* before it is compared, so a limit of 0 acts like 1.                     *)
Limit == IF MaxFailures = 0 THEN 1 ELSE MaxFailures

DriverTypeOK ==
  /\ state \in [Collectors -> States]
  /\ failures \in [Collectors -> 0..Limit]
  /\ root \in BOOLEAN /\ fatal \in BOOLEAN /\ caller \in BOOLEAN

DriverInit ==
  /\ state = [c \in Collectors |-> "subscribing"]
  /\ failures = [c \in Collectors |-> 0]
  /\ root = FALSE /\ fatal = FALSE /\ caller = FALSE

-----------------------------------------------------------------------------
(* The policy.                                                             *)

(* One more failure: Fatal once the limit is reached.                      *)
record_failure(c) ==
  /\ failures' = [failures EXCEPT ![c] = @ + 1]
  /\ state' = [state EXCEPT ![c] =
                 IF failures[c] + 1 >= MaxFailures THEN "escalating" ELSE "sleeping"]

(* A delivered event, or the end of a stream that was up for               *)
(* healthy_uptime, clears the count.                                       *)
on_events_received(c) ==
  /\ failures' = [failures EXCEPT ![c] = 0]
  /\ UNCHANGED state

on_healthy_end(c) ==
  /\ failures' = [failures EXCEPT ![c] = 0]
  /\ state' = [state EXCEPT ![c] = "sleeping"]

-----------------------------------------------------------------------------
(* The driver's loop.                                                      *)

Tokens == <<root, fatal, caller>>

(* The cancelled branch of each select.  Mutant: the sleep is not raced    *)
(* against the token.                                                      *)
shut_down_awake(c) ==
  /\ state[c] \in {"subscribing", "pumping"}
  /\ root
  /\ state' = [state EXCEPT ![c] = "done"]
  /\ UNCHANGED <<failures, Tokens>>
shut_down(c) ==
  /\ state[c] \in {"subscribing", "pumping", "sleeping"}
  /\ root
  /\ state' = [state EXCEPT ![c] = "done"]
  /\ UNCHANGED <<failures, Tokens>>

(* The select around subscribe is biased: a cancelled token wins.  Mutant: *)
(* a stream that opens clears the count.                                   *)
subscribed_resets(c) ==
  /\ state[c] = "subscribing" /\ ~root
  /\ state' = [state EXCEPT ![c] = "pumping"]
  /\ failures' = [failures EXCEPT ![c] = 0]
  /\ UNCHANGED Tokens
subscribed(c) ==
  /\ state[c] = "subscribing" /\ ~root
  /\ state' = [state EXCEPT ![c] = "pumping"]
  /\ UNCHANGED <<failures, Tokens>>

creation_failed(c) ==
  /\ state[c] = "subscribing" /\ ~root
  /\ record_failure(c)
  /\ UNCHANGED Tokens

(* The other selects are not: a ready event, an ended stream or an expired *)
(* sleep may be taken though the token is cancelled.                       *)
event(c) ==
  /\ c \notin Zombies
  /\ state[c] = "pumping"
  /\ on_events_received(c)
  /\ UNCHANGED Tokens

stream_ended(c) ==
  /\ state[c] = "pumping"
  /\ \/ record_failure(c)
     \/ c \notin Zombies /\ on_healthy_end(c)
  /\ UNCHANGED Tokens

wake(c) ==
  /\ state[c] = "sleeping"
  /\ state' = [state EXCEPT ![c] = "subscribing"]
  /\ UNCHANGED <<failures, Tokens>>

(* escalate: fatal first, then root, and the driver returns.  Mutant: root *)
(* first.                                                                  *)
escalate_root_first(c) ==
  /\ state[c] = "escalating"
  /\ root' = TRUE
  /\ state' = [state EXCEPT ![c] = "tearing"]
  /\ UNCHANGED <<failures, fatal, caller>>
escalate_fatal(c) ==
  /\ state[c] = "escalating"
  /\ fatal' = TRUE
  /\ state' = [state EXCEPT ![c] = "tearing"]
  /\ UNCHANGED <<failures, root, caller>>

escalate_root(c) ==
  /\ state[c] = "tearing"
  /\ root' = TRUE
  /\ state' = [state EXCEPT ![c] = "done"]
  /\ UNCHANGED <<failures, fatal, caller>>

(* The binary cancels EngineHandle.token.                                  *)
cancel ==
  /\ ~root
  /\ root' = TRUE /\ caller' = TRUE
  /\ UNCHANGED <<state, failures, fatal>>

Driver(c) ==
  \/ shut_down(c) \/ subscribed(c) \/ creation_failed(c) \/ event(c)
  \/ stream_ended(c) \/ wake(c) \/ escalate_fatal(c) \/ escalate_root(c)

DriverNext == cancel \/ \E c \in Collectors : Driver(c)

DriverSpec == DriverInit /\ [][DriverNext]_driverVars

(* A cancelled token is ready for ever and select! polls its branches in   *)
(* random order, so the branch is taken at last; the runtime polls every   *)
(* task that can run.  A zombie's subscribe answers and its streams end.   *)
DriverFairness ==
  /\ \A c \in Collectors :
       WF_driverVars(shut_down(c)) /\ WF_driverVars(escalate_fatal(c) \/ escalate_root(c))
  /\ \A c \in Zombies :
       /\ WF_driverVars(subscribed(c) \/ creation_failed(c))
       /\ WF_driverVars(stream_ended(c))
       /\ WF_driverVars(wake(c))

FairDriverSpec == DriverSpec /\ DriverFairness

-----------------------------------------------------------------------------
(* Properties.                                                             *)

(* A teardown the caller did not ask for always has its reason set first,  *)
(* whichever driver escalates and however several of them interleave: a    *)
(* task that sees root cancelled can trust the fatal token to say why.     *)
FatalBeforeRoot == root /\ ~caller => fatal

(* The fatal token is only cancelled on behalf of a collector whose        *)
(* failures reached the limit with no delivered event or healthy stream in *)
(* between.                                                                *)
FatalHasCulprit ==
  fatal => \E c \in Collectors :
             state[c] \in {"tearing", "done"} /\ failures[c] >= MaxFailures

(* Once root is cancelled, by anybody, every driver ends: none is left     *)
(* asleep, subscribing or pumping a stream that never runs dry.            *)
CancelStopsAll == root ~> \A c \in Collectors : state[c] = "done"

(* A collector that connects, or fails to, but never delivers and never    *)
(* stays up is not retried for ever: it takes the engine down, or somebody *)
(* else has.                                                               *)
ZombieEscalates == Zombies # {} => <>root
=============================================================================
