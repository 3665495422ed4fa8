-------------------------- MODULE ReliabilityStack --------------------------
(***************************************************************************)
(* The wrappers of src/executor_ext around one executor, nested as         *)
(* README.md nests them:                                                   *)
(*   executor.deadline().retry(..).rate_limit(..).circuit_breaker(..).gated(..) *)
(* Actions come one at a time, from the executor's task.  The operator     *)
(* holds the breaker's handle and the flag of the gate.                    *)
(*                                                                         *)
(* Time is relative: ages and remaining times, moved on by tick.  An age   *)
(* of Window or more is kept as Window.                                    *)
(***************************************************************************)
EXTENDS Integers, Sequences

CONSTANTS
  MaxFailures,   \* threshold of the CircuitBreaker
  PerSecond,     \* cap of the RateLimit
  Window,        \* its WINDOW, in ticks
  MaxRetries,    \* RetryPolicy.max_retries
  BaseDelay,     \* RetryPolicy.base_delay, in ticks
  MaxFactor,     \* u32::MAX
  MaxDelay,      \* Duration::MAX
  Lifetimes      \* times to expiry that actions arrive with

(* An action that does not expire in the time looked at.                   *)
Forever == -1

ASSUME StackAssumption ==
  /\ MaxFailures \in Nat \ {0} /\ PerSecond \in Nat \ {0} /\ Window \in Nat \ {0}
  /\ MaxRetries \in Nat /\ BaseDelay \in Nat /\ MaxDelay \in Nat
  /\ MaxFactor \in Nat
  /\ Lifetimes \subseteq Nat \cup {Forever}

VARIABLES
  enabled,    \* the flag of Gated
  failures,   \* BreakerState.failures
  sent,       \* RateLimit.sent, as ages
  step,       \* where the action in hand is
  life,       \* its remaining time to expiry
  retries,    \* of Retry::execute
  wait,       \* remaining backoff
  verdict,    \* what the last action returned
  passed,     \* history: ages below Window of the calls the limit let through
  in_row,     \* history: failed actions since a submission succeeded or a reset
  dropped     \* history: whether an action expired among them

gate == enabled
breaker == <<failures, in_row, dropped>>
limit == <<sent, passed>>
action == <<step, life, retries, wait>>
vars == <<gate, breaker, limit, action, verdict>>

Init ==
  /\ enabled \in BOOLEAN
  /\ failures = 0 /\ in_row = 0 /\ dropped = FALSE
  /\ sent = <<>> /\ passed = <<>>
  /\ step = "idle" /\ life = 0 /\ retries = 0 /\ wait = 0
  /\ verdict = "none"

-----------------------------------------------------------------------------
is_open == failures >= MaxFailures

(* The stack returns; the state of the action is forgotten.                *)
finish(v) ==
  /\ verdict' = v
  /\ step' = "idle" /\ life' = 0 /\ retries' = 0 /\ wait' = 0

(* Backoff::delay: the factor and the product saturate.                    *)
Saturated(x, most) == IF x > most THEN most ELSE x
delay(attempt) == Saturated(BaseDelay * Saturated(2 ^ attempt, MaxFactor), MaxDelay)

(* Gated: the action is dropped with Ok before any other layer sees it.    *)
gated_off ==
  /\ step = "idle" /\ ~enabled
  /\ finish("ok")
  /\ UNCHANGED <<gate, breaker, limit>>

(* CircuitBreaker: the circuit is open.                                    *)
rejected ==
  /\ step = "idle" /\ enabled /\ is_open
  /\ finish("err")
  /\ UNCHANGED <<gate, breaker, limit>>

(* Both let the action in, and the RateLimit has it.                       *)
admitted ==
  /\ step = "idle" /\ enabled /\ ~is_open
  /\ \E l \in Lifetimes : life' = l
  /\ step' = "limited"
  /\ UNCHANGED <<gate, breaker, limit, retries, wait, verdict>>

(* The PerSecond-th last submission has left the window.  Mutant: one more *)
(* is let through.                                                         *)
below_cap_plus_one ==
  Len(sent) > PerSecond => sent[Len(sent) - PerSecond] >= Window
below_cap ==
  Len(sent) >= PerSecond => sent[Len(sent) - PerSecond + 1] >= Window

(* Ages are kept oldest first, and those from the front that have left the *)
(* window are forgotten, up to the first that has not.                     *)
FirstKept(ages) ==
  CHOOSE i \in 1..(Len(ages) + 1) :
    /\ \A j \in 1..(i - 1) : ages[j] >= Window
    /\ i <= Len(ages) => ages[i] < Window
pop_expired(ages) == SubSeq(ages, FirstKept(ages), Len(ages))

let_through ==
  /\ step = "limited" /\ below_cap
  /\ sent' = Append(pop_expired(sent), 0)
  /\ passed' = Append(passed, 0)
  /\ step' = "attempting"
  /\ UNCHANGED <<gate, breaker, life, retries, wait, verdict>>

(* Deadline: an expired action is dropped with Ok, which Retry passes on   *)
(* and the breaker takes for a success.                                    *)
expired ==
  /\ step = "attempting" /\ life = 0
  /\ failures' = 0
  /\ dropped' = TRUE
  /\ finish("ok")
  /\ UNCHANGED <<gate, in_row, limit>>

submit ==
  /\ step = "attempting" /\ life # 0
  /\ step' = "submitting"
  /\ UNCHANGED <<gate, breaker, limit, life, retries, wait, verdict>>

submitted ==
  /\ step = "submitting"
  /\ failures' = 0 /\ in_row' = 0 /\ dropped' = FALSE
  /\ finish("ok")
  /\ UNCHANGED <<gate, limit>>

(* Retry backs off while it has retries left.                              *)
back_off ==
  /\ step = "submitting" /\ retries < MaxRetries
  /\ step' = "backing_off"
  /\ wait' = delay(retries)
  /\ UNCHANGED <<gate, breaker, limit, life, retries, verdict>>

(* The last error reaches the breaker.  Mutant: it is not counted.         *)
failed_uncounted ==
  /\ step = "submitting" /\ retries >= MaxRetries
  /\ in_row' = IF in_row < MaxFailures THEN in_row + 1 ELSE in_row
  /\ finish("err")
  /\ UNCHANGED <<gate, failures, dropped, limit>>
failed ==
  /\ step = "submitting" /\ retries >= MaxRetries
  /\ failures' = failures + 1
  /\ in_row' = IF in_row < MaxFailures THEN in_row + 1 ELSE in_row
  /\ finish("err")
  /\ UNCHANGED <<gate, dropped, limit>>

(* Mutant: the retry is not counted.                                       *)
retry_uncounted ==
  /\ step = "backing_off" /\ wait = 0
  /\ step' = "attempting"
  /\ UNCHANGED <<gate, breaker, limit, life, retries, wait, verdict>>
retry ==
  /\ step = "backing_off" /\ wait = 0
  /\ retries' = retries + 1
  /\ step' = "attempting"
  /\ UNCHANGED <<gate, breaker, limit, life, wait, verdict>>

(* The operator, at any time.                                              *)
reset ==
  /\ failures' = 0 /\ in_row' = 0 /\ dropped' = FALSE
  /\ UNCHANGED <<gate, limit, action, verdict>>

flip ==
  /\ enabled' = ~enabled
  /\ UNCHANGED <<breaker, limit, action, verdict>>

(* Time passes.                                                            *)
Older(age) == IF age < Window THEN age + 1 ELSE Window
tick ==
  /\ sent' = [i \in DOMAIN sent |-> Older(sent[i])]
  /\ passed' = pop_expired([i \in DOMAIN passed |-> Older(passed[i])])
  /\ life' = IF life > 0 THEN life - 1 ELSE life
  /\ wait' = IF wait > 0 THEN wait - 1 ELSE wait
  /\ UNCHANGED <<gate, breaker, step, retries, verdict>>

Stack ==
  \/ let_through \/ expired \/ submit \/ submitted \/ back_off \/ failed \/ retry

Next ==
  \/ gated_off \/ rejected \/ admitted \/ Stack
  \/ reset \/ flip \/ tick

Spec == Init /\ [][Next]_vars

(* The task runs, the executor inside answers, and time goes on.           *)
FairSpec == Spec /\ WF_vars(Stack) /\ WF_vars(tick)

-----------------------------------------------------------------------------
(* Properties.                                                             *)

(* In any sliding window the limit lets at most PerSecond calls through,   *)
(* however late its sleeps wake up and however lazily it forgets.          *)
RateCap == Len(passed) <= PerSecond

(* Failing closed: no action is anywhere below an open circuit, waiting,   *)
(* in backoff or being submitted, however resets fall between its steps.   *)
OpenMeansIdle == is_open => step = "idle"

(* Only the operator closes an open circuit: the count of an open breaker  *)
(* changes by nothing that happens to an action.                           *)
OnlyResetCloses == [][is_open /\ failures' # failures => UNCHANGED <<action, verdict>>]_vars

(* MaxFailures failed actions in a row, with resets, rejections and gated  *)
(* actions anywhere between them, open the circuit if none has expired     *)
(* among them.  (An expired drop reaches the breaker as an Ok and restarts *)
(* its count, although CONTEXT.md calls the drop invisible to the breaker.)*)
FreshFailuresOpen == in_row >= MaxFailures /\ ~dropped => is_open

(* Every action admitted is answered at last.                              *)
ActionEnds == step # "idle" ~> step = "idle"
=============================================================================
