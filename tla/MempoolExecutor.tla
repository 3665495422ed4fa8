--------------------------- MODULE MempoolExecutor ---------------------------
(***************************************************************************)
(* One execute of the MempoolExecutor (src/executors/mempool_executor.rs)  *)
(* against a node: pricing, submission, the confirmation watch and the     *)
(* replacement loop with its ReplacementSchedule, and the receipt sweep.   *)
(*                                                                         *)
(* The node is external.  A request travels on the wire, and the node may  *)
(* handle it after the caller has given up on the answer.  Whatever the    *)
(* node has accepted may be mined, also after it was replaced in the pool  *)
(* of this node, as long as the account's nonce is the transaction's.      *)
(***************************************************************************)
EXTENDS Pricing, Sequences

CONSTANTS
  MaxReplacements,       \* policy.max_replacements
  MaxTransportFailures,  \* MAX_TRANSPORT_FAILURES
  EscalationPercent,     \* policy.escalation_percent
  BumpPercent,           \* priority_fee_bump_percent
  Estimates,             \* fee suggestions of the provider
  GasUsages,             \* results of eth_estimateGas
  Bids,                  \* gas bids of actions, NoBid included
  MaxForeign,            \* bound: other transactions of the account that mine
  RpcFails,              \* requests may fail without reaching the node
  SendTimesOut,          \* a send may time out whatever the node does with it
  LookupFails            \* a receipt lookup may fail or time out

(* EscalationPercent::MIN, the bump a node asks for.                       *)
MIN == 110

ASSUME ExecutorAssumption ==
  /\ MaxReplacements \in Nat /\ MaxTransportFailures \in Nat /\ MaxForeign \in Nat
  /\ EscalationPercent \in Nat /\ EscalationPercent >= MIN
  /\ BumpPercent \in Nat
  /\ Estimates \subseteq Fees /\ GasUsages \subseteq Nat
  /\ Bids \subseteq {NoBid} \cup [profit : Nat, percentage : Nat]
  /\ {RpcFails, SendTimesOut, LookupFails} \subseteq BOOLEAN

VARIABLES
  replacing,           \* a replacement policy is configured
  step,                \* where execute has got to
  result,              \* what it returned
  fees,                \* the fees of the last submission
  pinned,              \* the nonce every submission carries
  sent,                \* ids of the submissions whose hash the executor knows
  issued,              \* replacements issued
  transport_failures,  \* watches in a row that failed
  swept,               \* position of the receipt sweep in sent
  wire,                \* the request on its way to the node
  answer,              \* the node's answer to it
  accepted, mined,     \* submissions the node accepted, and those mined
  account,             \* the account's nonce
  foreign,             \* other transactions mined so far
  watches,             \* history: watches started
  owed,                \* history: what was mined when the sweep began
  underpriced          \* history: the node refused a submission for its fees

schedule == <<fees, issued, transport_failures>>
local == <<step, result, schedule, pinned, sent, swept>>
history == <<watches, owed>>
node == <<accepted, mined, account, foreign, underpriced>>
rpc == <<wire, answer>>
vars == <<replacing, local, history, node, rpc>>

Ids == 1..(MaxReplacements + 1)
Submission == [id : Ids, nonce : Nat, fees : Fees]
Steps == {"pricing", "pinning", "sending", "watching", "resending", "sweeping", "done"}

TypeOK ==
  /\ replacing \in BOOLEAN
  /\ step \in Steps
  /\ result \in {"none", "ok", "err"} /\ (step = "done" <=> result # "none")
  /\ fees \in Fees
  /\ pinned \in Nat
  /\ sent \in Seq(Ids) /\ Len(sent) <= issued + 1
  /\ issued \in 0..MaxReplacements
  /\ transport_failures \in 0..(MaxTransportFailures + 1)
  /\ swept \in 0..(MaxReplacements + 1)
  /\ wire \subseteq Submission
  /\ answer \in {"none", "accepted", "refused"}
  /\ accepted \subseteq Submission /\ mined \subseteq accepted
  /\ account \in Nat /\ foreign \in 0..MaxForeign
  /\ watches \in Nat /\ owed \in {"nothing", "hidden", "known"} /\ underpriced \in BOOLEAN

Init ==
  /\ replacing \in BOOLEAN
  /\ step = "pricing" /\ result = "none"
  /\ fees = [max_fee |-> 0, priority |-> 0]
  /\ pinned = 0 /\ sent = <<>> /\ swept = 0
  /\ issued = 0 /\ transport_failures = 0
  /\ wire = {} /\ answer = "none"
  /\ accepted = {} /\ mined = {} /\ account = 0 /\ foreign = 0
  /\ watches = 0 /\ owed = "nothing" /\ underpriced = FALSE

-----------------------------------------------------------------------------
(* Parts of the actions.                                                   *)

return(r) == step' = "done" /\ result' = r

(* The pending count of the account: behind its other transactions that    *)
(* wait in the pool, which are among those still to be mined.              *)
PendingCounts == account..(account + MaxForeign - foreign)

(* A send_transaction call begins.                                         *)
transmit(id, nonce, f) ==
  /\ wire' = {[id |-> id, nonce |-> nonce, fees |-> f]}
  /\ answer' = "none"

(* The call returns an error: the node refused, or rpc_timeout is over.    *)
SendFailed == answer = "refused" \/ SendTimesOut

Mined(id) == \E s \in mined : s.id = id

(* A failure verdict is near: the receipts of every known hash are looked  *)
(* up first.  The history keeps whether one of them is mined, or only one  *)
(* whose hash was never returned.                                          *)
begin_sweep ==
  /\ step' = "sweeping"
  /\ swept' = 1
  /\ owed' = IF mined = {} THEN "nothing"
             ELSE IF \E i \in DOMAIN sent : Mined(sent[i]) THEN "known" ELSE "hidden"

-----------------------------------------------------------------------------
(* execute: up to the first submission.                                    *)

execute_refused ==
  /\ step = "pricing"
  /\ \/ RpcFails
     \/ \E est \in Estimates, g \in GasUsages, b \in Bids :
          price_1559(est, g, BumpPercent, b) = Refused
  /\ return("err")
  /\ UNCHANGED <<replacing, schedule, pinned, sent, swept, history, node, rpc>>

execute ==
  /\ step = "pricing"
  /\ \E est \in Estimates, g \in GasUsages, b \in Bids :
       LET f == price_1559(est, g, BumpPercent, b) IN
         /\ f # Refused
         /\ fees' = f
         /\ IF replacing
              THEN step' = "pinning" /\ UNCHANGED rpc
              ELSE step' = "sending" /\ \E n \in PendingCounts : transmit(1, n, f)
  /\ UNCHANGED <<replacing, result, issued, transport_failures, pinned, sent, swept,
                 history, node>>

(* The nonce is read, or cannot be (no tx.from, or the request failed).    *)
pin_nonce ==
  /\ step = "pinning"
  /\ \/ /\ pinned' \in PendingCounts
        /\ transmit(1, pinned', fees)
        /\ step' = "sending"
        /\ UNCHANGED result
     \/ /\ RpcFails
        /\ return("err")
        /\ UNCHANGED <<pinned, rpc>>
  /\ UNCHANGED <<replacing, schedule, sent, swept, history, node>>

(* Fire and forget ends here; with a policy the schedule starts and the    *)
(* first watch begins.                                                     *)
send_answered ==
  /\ step = "sending" /\ answer = "accepted"
  /\ IF replacing
       THEN /\ step' = "watching"
            /\ sent' = <<1>>
            /\ watches' = 1
            /\ UNCHANGED result
       ELSE return("ok") /\ UNCHANGED <<sent, watches>>
  /\ UNCHANGED <<replacing, schedule, pinned, swept, owed, node, rpc>>

send_failed ==
  /\ step = "sending" /\ SendFailed
  /\ return("err")
  /\ UNCHANGED <<replacing, schedule, pinned, sent, swept, history, node, rpc>>

-----------------------------------------------------------------------------
(* send_with_replacement: the loop.  next_step and escalate of the         *)
(* schedule decide what follows a watch.                                   *)

watch_confirmed ==
  /\ step = "watching" /\ Mined(sent[Len(sent)])
  /\ return("ok")
  /\ UNCHANGED <<replacing, schedule, pinned, sent, swept, history, node, rpc>>

(* The nonce of a replacement.  Mutant: it is read again for each one.     *)
replacement_nonce_fresh == IF \E s \in accepted : s.nonce = account THEN account + 1 ELSE account
replacement_nonce == pinned

(* Nothing was seen before the confirmation timeout, though a block may    *)
(* hold the transaction by now.                                            *)
watch_timed_out ==
  /\ step = "watching"
  /\ transport_failures' = 0
  /\ IF issued >= MaxReplacements
       THEN begin_sweep /\ UNCHANGED <<fees, issued, rpc>>
       ELSE /\ issued' = issued + 1
            /\ fees' = escalate(fees, EscalationPercent)
            /\ transmit(issued + 2, replacement_nonce, escalate(fees, EscalationPercent))
            /\ step' = "resending"
            /\ UNCHANGED <<swept, owed>>
  /\ UNCHANGED <<replacing, result, pinned, sent, watches, node>>

(* The watch itself failed: the same hash is watched again, a few times.   *)
(* Mutant: one time more.                                                  *)
exhausted_late(failed) == failed > MaxTransportFailures + 1
exhausted(failed) == failed > MaxTransportFailures

watch_broken ==
  /\ step = "watching" /\ RpcFails
  /\ transport_failures' = transport_failures + 1
  /\ IF exhausted(transport_failures + 1)
       THEN begin_sweep /\ UNCHANGED watches
       ELSE watches' = watches + 1 /\ UNCHANGED <<step, swept, owed>>
  /\ UNCHANGED <<replacing, result, fees, issued, pinned, sent, node, rpc>>

resend_answered ==
  /\ step = "resending" /\ answer = "accepted"
  /\ step' = "watching"
  /\ sent' = Append(sent, issued + 1)
  /\ watches' = watches + 1
  /\ UNCHANGED <<replacing, result, schedule, pinned, swept, owed, node, rpc>>

resend_failed ==
  /\ step = "resending" /\ SendFailed
  /\ begin_sweep
  /\ UNCHANGED <<replacing, result, schedule, pinned, sent, watches, node, rpc>>

(* any_mined: one lookup.  A failed lookup counts as unmined and the sweep *)
(* moves on.  Mutants: it counts as mined; it is tried again; only the     *)
(* first hash is looked up.                                                *)
swept_past(i) ==
  IF i >= Len(sent) THEN return("err") /\ UNCHANGED swept
                    ELSE swept' = i + 1 /\ UNCHANGED <<step, result>>
any_mined_trusting ==
  /\ step = "sweeping"
  /\ \/ (LookupFails \/ Mined(sent[swept])) /\ return("ok") /\ UNCHANGED swept
     \/ ~Mined(sent[swept]) /\ swept_past(swept)
  /\ UNCHANGED <<replacing, schedule, pinned, sent, history, node, rpc>>
any_mined_retrying ==
  /\ step = "sweeping"
  /\ Mined(sent[swept]) /\ return("ok") /\ UNCHANGED swept
  /\ UNCHANGED <<replacing, schedule, pinned, sent, history, node, rpc>>
any_mined_first ==
  /\ step = "sweeping"
  /\ return(IF Mined(sent[1]) THEN "ok" ELSE "err")
  /\ UNCHANGED <<replacing, schedule, pinned, sent, swept, history, node, rpc>>
any_mined ==
  /\ step = "sweeping"
  /\ \/ Mined(sent[swept]) /\ return("ok") /\ UNCHANGED <<swept, owed>>
     \/ ~Mined(sent[swept]) /\ swept_past(swept) /\ UNCHANGED owed
     \/ /\ LookupFails /\ Mined(sent[swept])
        /\ swept_past(swept)
        /\ owed' = "hidden"
  /\ UNCHANGED <<replacing, schedule, pinned, sent, watches, node, rpc>>

Executor ==
  \/ execute_refused \/ execute \/ pin_nonce \/ send_answered \/ send_failed
  \/ watch_confirmed \/ watch_timed_out \/ watch_broken
  \/ resend_answered \/ resend_failed \/ any_mined

-----------------------------------------------------------------------------
(* The node.                                                               *)

(* A transaction replaces another of its nonce only if both fees rise, by  *)
(* the minimum bump at least.                                              *)
Bumps(old, new) == new > old /\ new >= (old * MIN) \div 100
Clears(s) ==
  \A t \in accepted : t.nonce = s.nonce =>
    Bumps(t.fees.max_fee, s.fees.max_fee) /\ Bumps(t.fees.priority, s.fees.priority)

node_accepts ==
  /\ \E s \in wire :
       /\ s.nonce >= account /\ Clears(s)
       /\ accepted' = accepted \cup {s}
  /\ wire' = {} /\ answer' = "accepted"
  /\ UNCHANGED <<replacing, local, history, mined, account, foreign, underpriced>>

node_refuses ==
  /\ \E s \in wire :
       /\ s.nonce < account \/ ~Clears(s) \/ RpcFails
       /\ underpriced' = (underpriced \/ (s.nonce >= account /\ ~Clears(s)))
  /\ wire' = {} /\ answer' = "refused"
  /\ UNCHANGED <<replacing, local, history, accepted, mined, account, foreign>>

mine ==
  /\ \E s \in accepted : s.nonce = account /\ mined' = mined \cup {s}
  /\ account' = account + 1
  /\ UNCHANGED <<replacing, local, history, accepted, foreign, underpriced, rpc>>

(* Another transaction of the same account takes the next nonce.           *)
foreign_mined ==
  /\ foreign < MaxForeign
  /\ foreign' = foreign + 1
  /\ account' = account + 1
  /\ UNCHANGED <<replacing, local, history, accepted, mined, underpriced, rpc>>

Next == Executor \/ node_accepts \/ node_refuses \/ mine \/ foreign_mined

Spec == Init /\ [][Next]_vars

(* Every request of execute ends at rpc_timeout, every watch at the        *)
(* confirmation timeout; the node need not do anything.                    *)
FairSpec == Spec /\ WF_vars(Executor)

-----------------------------------------------------------------------------
(* Properties.                                                             *)

(* One action has one effect: however many replacements are on their way,  *)
(* late ones the executor has given up on included, at most one is mined.  *)
AtMostOneEffect == \A s, t \in mined : s.id = t.id

(* With a policy, Ok is only returned for a submission that is mined.      *)
OkMeansMined == replacing /\ result = "ok" => mined # {}

(* A submission mined before the receipts were swept is never reported as  *)
(* a failure that the circuit breaker would count, whichever of the        *)
(* submissions it is and however the watch of the last one went, if its    *)
(* hash was returned and its lookup does not fail.                         *)
KnownIsReported == result = "err" => owed # "known"

(* What CONTEXT.md says of any of them.  It is not so when the send of a   *)
(* replacement timed out: its hash is not among those remembered.          *)
MinedIsReported == result = "err" => owed = "nothing"

(* How long one action can hold the executor's task: failed watches are    *)
(* repeated a bounded number of times per submission.                      *)
WatchBudget == watches <= (MaxReplacements + 1) * (MaxTransportFailures + 1)

(* execute returns, whatever the node does.                                *)
ExecuteReturns == <>(step = "done")

(* The node never refuses a replacement for its fees: the escalation       *)
(* clears the minimum bump on both fields, round after round, when the     *)
(* fees are ten units at least (below, the division swallows the bump).    *)
NeverUnderpriced == ~underpriced

(* For which prices that is: every tip is ten units at least, and reach    *)
(* bounds the fees after n replacements short of saturation.               *)
HasRoom(reach) ==
  /\ \A est \in Estimates, g \in GasUsages, b \in Bids :
       LET f == price_1559(est, g, BumpPercent, b) IN
         f # Refused => f.priority >= 10 /\ f.max_fee <= reach[0]
  /\ \A n \in 0..(MaxReplacements - 1) :
       /\ reach[n] * EscalationPercent <= MaxFee
       /\ scale_percent(reach[n], EscalationPercent) <= reach[n + 1]
=============================================================================
