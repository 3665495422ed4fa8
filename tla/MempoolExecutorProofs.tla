------------------------ MODULE MempoolExecutorProofs ------------------------
(***************************************************************************)
(* What execute of the MempoolExecutor guarantees for every replacement    *)
(* policy, every fee and every behaviour of the node.                      *)
(***************************************************************************)
EXTENDS MempoolExecutor, TLAPS

-----------------------------------------------------------------------------
(* A pending count is a nonce.                                             *)
LEMMA PendingIsNat == ASSUME account \in Nat, NEW n \in PendingCounts PROVE n \in Nat
  BY DEF PendingCounts

-----------------------------------------------------------------------------
(* The fee arithmetic stays within u128.                                   *)

(* Scaling by a percentage saturates at the top of the width.              *)
LEMMA ScaleInRange ==
  ASSUME NEW v \in Nat, NEW percent \in Nat
  PROVE  scale_percent(v, percent) \in Fee
<1> DEFINE x == v * percent
<1>1. x \in Nat
  OBVIOUS
<1> HIDE DEF x
<1>2. x \div 100 \in Nat /\ x \div 100 <= x
  BY <1>1, SMT
<1>3. (IF x > MaxFee THEN MaxFee ELSE x \div 100) \in Fee
  BY <1>1, <1>2, FeeAssumption DEF Fee
<1> QED
  BY <1>3 DEF x, scale_percent

(* clamped makes Fees of any two fees, the tip at most the maximum.        *)
LEMMA ClampedIsFees ==
  ASSUME NEW a \in Fee, NEW b \in Fee
  PROVE  clamped(a, b) \in Fees
BY DEF clamped, Fees, Fee

(* Escalation keeps the width of both fields.                              *)
LEMMA EscalateIsFees ==
  ASSUME NEW f \in Fees
  PROVE  escalate(f, EscalationPercent) \in Fees
<1>1. f.max_fee \in Nat /\ f.priority \in Nat
  BY FeeAssumption DEF Fees, Fee
<1>2. EscalationPercent \in Nat
  BY ExecutorAssumption
<1> QED
  BY <1>1, <1>2, ScaleInRange, ClampedIsFees DEF escalate

(* A price is Fees or a refusal.                                           *)
LEMMA PriceIsFees ==
  ASSUME NEW est \in Estimates, NEW g \in GasUsages, NEW b \in Bids,
         price_1559(est, g, BumpPercent, b) # Refused
  PROVE  price_1559(est, g, BumpPercent, b) \in Fees
<1> DEFINE tip == scale_percent(est.priority, BumpPercent)
           headroom == IF est.max_fee > est.priority
                         THEN est.max_fee - est.priority ELSE 0
           open == IF headroom + tip > MaxFee THEN MaxFee ELSE headroom + tip
           bidden == scale_percent(b.profit \div g, b.percentage)
<1>1. est.max_fee \in Nat /\ est.priority \in Nat
  BY ExecutorAssumption, FeeAssumption DEF Fees, Fee
<1>2. tip \in Fee
  BY <1>1, ScaleInRange, ExecutorAssumption
<1>3. headroom \in Nat
  BY <1>1
<1>4. open \in Fee
  <2> HIDE DEF tip, headroom
  <2> QED BY <1>2, <1>3, FeeAssumption DEF Fee
<1>5. CASE b = NoBid
  <2>1. price_1559(est, g, BumpPercent, b) = clamped(open, tip)
    BY <1>5 DEF price_1559
  <2> HIDE DEF open, tip
  <2> QED BY <2>1, <1>2, <1>4, ClampedIsFees
<1>6. CASE b # NoBid /\ b.percentage <= 100 /\ g > 0
  <2>1. b.profit \in Nat /\ b.percentage \in Nat /\ g \in Nat \ {0}
    BY <1>6, ExecutorAssumption
  <2>2. b.profit \div g \in Nat
    BY <2>1
  <2>3. bidden \in Fee
    BY <2>1, <2>2, ScaleInRange
  <2>4. price_1559(est, g, BumpPercent, b) = clamped(bidden, tip)
    BY <1>6 DEF price_1559
  <2> HIDE DEF bidden, tip
  <2> QED BY <2>3, <2>4, <1>2, ClampedIsFees
<1>7. CASE b # NoBid /\ ~(b.percentage <= 100 /\ g > 0)
  BY <1>7 DEF price_1559
<1> QED
  BY <1>5, <1>6, <1>7

(* Multiplication and integer division are monotonic.                      *)
LEMMA Monotonic ==
  ASSUME NEW a \in Nat, NEW b \in Nat, NEW p \in Nat, a <= b
  PROVE  a * p <= b * p /\ (a * p) \div 100 <= (b * p) \div 100
<1> DEFINE x == a * p
           y == b * p
<1>1. x \in Nat /\ y \in Nat
  OBVIOUS
<1>2. PICK d \in Nat : b = a + d
  <2>1. b - a \in Nat /\ b = a + (b - a)
    OBVIOUS
  <2> QED BY <2>1
<1>3. y = x + d * p /\ d * p \in Nat
  BY <1>2
<1>4. x <= y
  BY <1>1, <1>3
<1> HIDE DEF x, y
<1>5. x \div 100 <= y \div 100
  BY <1>1, <1>4
<1> QED
  BY <1>4, <1>5 DEF x, y

(* What the comment on escalate claims: for a pair whose tip is at most    *)
(* its maximum, scaling both never needs the clamp.                        *)
THEOREM EscalateNeverClamps ==
  ASSUME NEW f \in Fees, f.priority <= f.max_fee
  PROVE  escalate(f, EscalationPercent) =
           [max_fee  |-> scale_percent(f.max_fee, EscalationPercent),
            priority |-> scale_percent(f.priority, EscalationPercent)]
<1> DEFINE p == EscalationPercent
           x == f.priority * p
           y == f.max_fee * p
<1>1. f.max_fee \in Nat /\ f.priority \in Nat /\ p \in Nat
  BY FeeAssumption, ExecutorAssumption DEF Fees, Fee
<1> HIDE DEF p
<1>2. x \in Nat /\ y \in Nat /\ x <= y /\ x \div 100 <= y \div 100
  BY <1>1, Monotonic
<1>3. /\ scale_percent(f.priority, p) = IF x > MaxFee THEN MaxFee ELSE x \div 100
      /\ scale_percent(f.max_fee, p) = IF y > MaxFee THEN MaxFee ELSE y \div 100
  BY DEF scale_percent
<1> HIDE DEF x, y
<1>4. scale_percent(f.priority, p) <= scale_percent(f.max_fee, p)
  BY <1>2, <1>3, FeeAssumption
<1>5. scale_percent(f.priority, p) \in Nat /\ scale_percent(f.max_fee, p) \in Nat
  <2>1. scale_percent(f.priority, p) \in Fee /\ scale_percent(f.max_fee, p) \in Fee
    BY <1>1, ScaleInRange
  <2> QED BY <2>1, FeeAssumption DEF Fee
<1> QED
  BY <1>4, <1>5 DEF p, escalate, clamped

(* What with_replacement claims, and for which fees it is true: from ten   *)
(* units on, and short of saturation, one escalation clears the node's     *)
(* minimum bump.  Below ten the rounding may swallow the increase.         *)
THEOREM EscalationClears ==
  ASSUME NEW v \in Nat, v >= 10, v * EscalationPercent <= MaxFee
  PROVE  Bumps(v, scale_percent(v, EscalationPercent))
<1> DEFINE x == v * EscalationPercent
           m == v * MIN
<1>1. EscalationPercent \in Nat /\ MIN <= EscalationPercent /\ MIN \in Nat
  BY ExecutorAssumption DEF MIN
<1>2. m \in Nat /\ x \in Nat /\ m <= x
  <2>1. MIN * v <= EscalationPercent * v
    BY <1>1, Monotonic
  <2> QED BY <1>1, <2>1
<1>3. m = 110 * v
  BY DEF MIN
<1>4. scale_percent(v, EscalationPercent) = x \div 100
  <2>1. ~(x > MaxFee)
    BY <1>2, FeeAssumption
  <2> QED BY <2>1 DEF scale_percent
<1> HIDE DEF x, m
<1>5. x \div 100 >= m \div 100 /\ m \div 100 > v
  BY <1>2, <1>3
<1>6. x \div 100 \in Nat /\ m \div 100 \in Nat
  BY <1>2
<1> QED
  BY <1>4, <1>5, <1>6 DEF Bumps, m

-----------------------------------------------------------------------------
(* Types and the watch budget.                                             *)

Early == {"pricing", "pinning", "sending"}
PerSubmission == MaxTransportFailures + 1

(* What the schedule knows at each step: a submission that is being        *)
(* watched has used one watch and one per failure in a row, an earlier one *)
(* PerSubmission at most.                                                  *)
ScheduleOK ==
  /\ step \in Early =>
       issued = 0 /\ transport_failures = 0 /\ watches = 0 /\ sent = <<>>
  /\ step = "watching" =>
       /\ transport_failures <= MaxTransportFailures
       /\ watches <= issued * PerSubmission + transport_failures + 1
  /\ step = "resending" =>
       /\ issued >= 1 /\ transport_failures = 0 /\ Len(sent) <= issued
       /\ watches <= issued * PerSubmission
  /\ watches <= (issued + 1) * PerSubmission

SInv == TypeOK /\ ScheduleOK

LEMMA SInvInit == Init => SInv
<1> SUFFICES ASSUME Init PROVE SInv
  OBVIOUS
<1>1. (0 + 1) * PerSubmission \in Nat
  BY ExecutorAssumption DEF PerSubmission
<1>2. TypeOK
  <2>1. sent \in Seq(Ids) /\ Len(sent) <= issued + 1
    BY DEF Init
  <2>2. fees \in Fees
    BY FeeAssumption DEF Init, Fees, Fee
  <2>3. issued \in 0..MaxReplacements /\ transport_failures \in 0..(MaxTransportFailures + 1)
        /\ swept \in 0..(MaxReplacements + 1) /\ foreign \in 0..MaxForeign
    BY ExecutorAssumption DEF Init
  <2> QED BY <2>1, <2>2, <2>3 DEF Init, TypeOK, Steps
<1>3. ScheduleOK
  BY <1>1 DEF Init, ScheduleOK, Early
<1> QED
  BY <1>2, <1>3 DEF SInv

(* One more submission allows PerSubmission more watches.                  *)
LEMMA OneMore ==
  ASSUME NEW n \in Nat
  PROVE  /\ PerSubmission \in Nat /\ n * PerSubmission \in Nat
         /\ (n + 1) * PerSubmission = n * PerSubmission + MaxTransportFailures + 1
         /\ (n + 1) * PerSubmission \in Nat
<1>1. PerSubmission \in Nat
  BY ExecutorAssumption DEF PerSubmission
<1>2. n * PerSubmission \in Nat /\ (n + 1) * PerSubmission = n * PerSubmission + PerSubmission
  BY <1>1
<1> QED
  BY <1>1, <1>2, ExecutorAssumption DEF PerSubmission

LEMMA SInvNext == SInv /\ [Next]_vars => SInv'
<1> SUFFICES ASSUME SInv, [Next]_vars PROVE SInv'
  OBVIOUS
<1> USE ExecutorAssumption
<1> USE DEF SInv
<1>a. TypeOK /\ ScheduleOK
  OBVIOUS
<1>n. issued \in Nat /\ transport_failures \in Nat /\ watches \in Nat
  BY <1>a DEF TypeOK
<1>m. /\ PerSubmission \in Nat /\ issued * PerSubmission \in Nat
      /\ (issued + 1) * PerSubmission = issued * PerSubmission + MaxTransportFailures + 1
  BY <1>n, OneMore
<1>1. CASE execute_refused
  <2>1. TypeOK'
    BY <1>1, <1>a DEF execute_refused, return, TypeOK, Steps, schedule, history, node, rpc
  <2>2. ScheduleOK'
    BY <1>1, <1>a DEF execute_refused, return, ScheduleOK, Early, schedule, history, node, rpc
  <2> QED BY <2>1, <2>2
<1>2. CASE execute
  <2>1. PICK est \in Estimates, g \in GasUsages, b \in Bids :
          LET f == price_1559(est, g, BumpPercent, b) IN
            /\ f # Refused
            /\ fees' = f
            /\ IF replacing
                 THEN step' = "pinning" /\ UNCHANGED rpc
                 ELSE step' = "sending" /\ \E n \in PendingCounts : transmit(1, n, f)
    BY <1>2 DEF execute
  <2>2. fees' \in Fees
    BY <2>1, PriceIsFees
  <2>3. wire' \subseteq Submission /\ answer' \in {"none", "accepted", "refused"}
    BY <2>1, <2>2, <1>a, PendingIsNat DEF transmit, Submission, Ids, TypeOK, rpc
  <2>4. step' \in {"pinning", "sending"} /\ step = "pricing"
    BY <1>2, <2>1 DEF execute
  <2>5. TypeOK'
    BY <1>2, <1>a, <2>2, <2>3, <2>4 DEF execute, TypeOK, Steps, history, node
  <2>6. ScheduleOK'
    BY <1>2, <1>a, <2>4 DEF execute, ScheduleOK, Early, history
  <2> QED BY <2>5, <2>6
<1>3. CASE pin_nonce
  <2>1. step = "pinning" /\ step' \in {"sending", "done"} /\ fees' = fees
        /\ (step' = "done" <=> result' # "none") /\ result' \in {"none", "ok", "err"}
    BY <1>3, <1>a DEF pin_nonce, return, schedule, TypeOK
  <2>2. wire' \subseteq Submission /\ answer' \in {"none", "accepted", "refused"} /\ pinned' \in Nat
    BY <1>3, <1>a, PendingIsNat DEF pin_nonce, transmit, Submission, Ids, TypeOK, rpc
  <2>3. TypeOK'
    BY <1>3, <1>a, <2>1, <2>2 DEF pin_nonce, TypeOK, Steps, schedule, history, node
  <2>4. ScheduleOK'
    BY <1>3, <1>a, <2>1 DEF pin_nonce, ScheduleOK, Early, schedule, history
  <2> QED BY <2>3, <2>4
<1>4. CASE send_answered
  <2>1. TypeOK'
    <3>1. 1 \in Ids /\ <<1>> \in Seq(Ids) /\ Len(<<1>>) = 1
      BY DEF Ids
    <3>2. sent' \in {sent, <<1>>} /\ watches' \in {watches, 1} /\ issued' = issued
      BY <1>4 DEF send_answered, schedule
    <3>3. sent' \in Seq(Ids) /\ Len(sent') <= issued' + 1
      <4>1. sent \in Seq(Ids) /\ Len(sent) <= issued + 1
        BY <1>a DEF TypeOK
      <4>2. CASE sent' = sent
        BY <3>2, <4>1, <4>2
      <4>3. CASE sent' = <<1>>
        BY <1>n, <3>1, <3>2, <4>3
      <4> QED BY <3>2, <4>2, <4>3
    <3>4. step' \in Steps /\ result' \in {"none", "ok", "err"} /\ (step' = "done" <=> result' # "none")
      BY <1>4, <1>a DEF send_answered, return, TypeOK, Steps
    <3> QED BY <1>4, <1>a, <3>2, <3>3, <3>4 DEF send_answered, TypeOK, schedule, node, rpc
  <2>2. issued' = issued /\ transport_failures' = transport_failures /\ issued = 0
        /\ transport_failures = 0
    BY <1>4, <1>a DEF send_answered, schedule, ScheduleOK, Early
  <2>3. watches' \in {0, 1} /\ step' \in {"watching", "done"}
    BY <1>4, <1>a DEF send_answered, return, ScheduleOK, Early
  <2>4. ScheduleOK'
    BY <1>m, <1>n, <2>2, <2>3 DEF ScheduleOK, Early
  <2> QED BY <2>1, <2>4
<1>5. CASE send_failed
  <2>1. TypeOK'
    BY <1>5, <1>a DEF send_failed, return, TypeOK, Steps, schedule, history, node, rpc
  <2>2. ScheduleOK'
    BY <1>5, <1>a DEF send_failed, return, ScheduleOK, Early, schedule, history
  <2> QED BY <2>1, <2>2
<1>6. CASE watch_confirmed
  <2>1. TypeOK'
    BY <1>6, <1>a DEF watch_confirmed, return, TypeOK, Steps, schedule, history, node, rpc
  <2>2. ScheduleOK'
    BY <1>6, <1>a DEF watch_confirmed, return, ScheduleOK, Early, schedule, history
  <2> QED BY <2>1, <2>2
<1>7. CASE watch_timed_out
  <2>0. step = "watching" /\ watches' = watches /\ transport_failures' = 0 /\ sent' = sent
    BY <1>7 DEF watch_timed_out
  <2>1. CASE issued >= MaxReplacements
    <3>1. begin_sweep /\ UNCHANGED <<fees, issued, rpc>>
      BY <1>7, <2>1 DEF watch_timed_out
    <3>2. TypeOK'
      BY <1>7, <1>a, <3>1 DEF watch_timed_out, begin_sweep, TypeOK, Steps, node, rpc
    <3>3. ScheduleOK'
      BY <1>a, <2>0, <3>1 DEF begin_sweep, ScheduleOK, Early
    <3> QED BY <3>2, <3>3
  <2>2. CASE ~(issued >= MaxReplacements)
    <3>1. /\ issued' = issued + 1
          /\ fees' = escalate(fees, EscalationPercent)
          /\ transmit(issued + 2, replacement_nonce, escalate(fees, EscalationPercent))
          /\ step' = "resending"
          /\ UNCHANGED <<swept, owed>>
      BY <1>7, <2>2 DEF watch_timed_out
    <3>2. fees' \in Fees
      BY <3>1, <1>a, EscalateIsFees DEF TypeOK
    <3>3. wire' \subseteq Submission /\ answer' = "none"
      BY <3>1, <3>2, <2>2, <1>a DEF transmit, Submission, Ids, TypeOK, replacement_nonce
    <3>4. TypeOK'
      BY <1>7, <1>a, <2>0, <2>2, <3>1, <3>2, <3>3
      DEF watch_timed_out, TypeOK, Steps, node
    <3>5. watches <= (issued + 1) * PerSubmission
      BY <1>a DEF ScheduleOK
    <3>6. (issued' + 1) * PerSubmission = (issued + 1) * PerSubmission + MaxTransportFailures + 1
      BY <3>1, <1>n, OneMore
    <3>7. Len(sent) <= issued + 1
      BY <1>a DEF TypeOK
    <3>8. ScheduleOK'
      <4>1. issued' >= 1 /\ Len(sent') <= issued'
        BY <2>0, <3>1, <3>7, <1>n
      <4>2. watches' <= issued' * PerSubmission
        BY <2>0, <3>1, <3>5
      <4>3. watches' <= (issued' + 1) * PerSubmission
        <5>1. (issued + 1) * PerSubmission \in Nat
          BY <1>n, OneMore
        <5> HIDE DEF PerSubmission
        <5> QED BY <2>0, <3>5, <3>6, <5>1, <1>n
      <4> QED BY <2>0, <3>1, <4>1, <4>2, <4>3 DEF ScheduleOK, Early, PerSubmission
    <3> QED BY <3>4, <3>8
  <2> QED BY <2>1, <2>2
<1>8. CASE watch_broken
  <2>0. /\ step = "watching" /\ issued' = issued /\ sent' = sent
        /\ transport_failures' = transport_failures + 1
        /\ transport_failures <= MaxTransportFailures
    BY <1>8, <1>a DEF watch_broken, ScheduleOK
  <2>1. CASE transport_failures + 1 > MaxTransportFailures
    <3>1. begin_sweep /\ UNCHANGED watches
      BY <1>8, <2>1 DEF watch_broken, exhausted
    <3>2. TypeOK'
      BY <1>8, <1>a, <2>0, <3>1 DEF watch_broken, begin_sweep, TypeOK, Steps, node, rpc
    <3>3. ScheduleOK'
      BY <1>a, <2>0, <3>1 DEF begin_sweep, ScheduleOK, Early, PerSubmission
    <3> QED BY <3>2, <3>3
  <2>2. CASE ~(transport_failures + 1 > MaxTransportFailures)
    <3>1. watches' = watches + 1 /\ UNCHANGED <<step, swept, owed>>
      BY <1>8, <2>2 DEF watch_broken, exhausted
    <3>2. TypeOK'
      BY <1>8, <1>a, <2>0, <3>1 DEF watch_broken, TypeOK, node, rpc
    <3>3. watches <= issued * PerSubmission + transport_failures + 1
      BY <1>a, <2>0 DEF ScheduleOK
    <3>4. /\ transport_failures' <= MaxTransportFailures
          /\ watches' <= issued * PerSubmission + transport_failures' + 1
          /\ watches' <= (issued + 1) * PerSubmission
      <4> HIDE DEF PerSubmission
      <4> QED BY <1>m, <1>n, <2>0, <2>2, <3>1, <3>3
    <3>5. ScheduleOK'
      BY <2>0, <3>1, <3>4 DEF ScheduleOK, Early, PerSubmission
    <3> QED BY <3>2, <3>5
  <2> QED BY <2>1, <2>2
<1>9. CASE resend_answered
  <2>0. /\ step = "resending" /\ step' = "watching" /\ watches' = watches + 1
        /\ sent' = Append(sent, issued + 1) /\ issued' = issued
        /\ transport_failures' = transport_failures
    BY <1>9 DEF resend_answered, schedule
  <2>1. /\ issued >= 1 /\ transport_failures = 0 /\ Len(sent) <= issued
        /\ watches <= issued * PerSubmission
    BY <1>a, <2>0 DEF ScheduleOK
  <2>2. sent' \in Seq(Ids) /\ Len(sent') <= issued + 1
    BY <1>a, <2>0, <2>1 DEF TypeOK, Ids
  <2>3. TypeOK'
    BY <1>9, <1>a, <2>0, <2>2 DEF resend_answered, TypeOK, Steps, schedule, node, rpc
  <2>4. /\ watches' <= issued * PerSubmission + transport_failures + 1
        /\ watches' <= (issued + 1) * PerSubmission
    <3> HIDE DEF PerSubmission
    <3> QED BY <1>m, <1>n, <2>0, <2>1
  <2>5. ScheduleOK'
    BY <2>0, <2>1, <2>4 DEF ScheduleOK, Early, PerSubmission
  <2> QED BY <2>3, <2>5
<1>10. CASE resend_failed
  <2>1. TypeOK'
    BY <1>10, <1>a DEF resend_failed, begin_sweep, TypeOK, Steps, schedule, node, rpc
  <2>2. ScheduleOK'
    BY <1>10, <1>a DEF resend_failed, begin_sweep, ScheduleOK, Early, schedule
  <2> QED BY <2>1, <2>2
<1>11. CASE any_mined
  <2>1. TypeOK'
    BY <1>11, <1>a DEF any_mined, swept_past, return, TypeOK, Steps, schedule, history, node, rpc
  <2>2. ScheduleOK'
    BY <1>11, <1>a DEF any_mined, swept_past, return, ScheduleOK, Early, schedule, history
  <2> QED BY <2>1, <2>2
<1>12. CASE node_accepts
  <2>1. TypeOK'
    BY <1>12, <1>a DEF node_accepts, TypeOK, local, schedule, history
  <2>2. ScheduleOK'
    BY <1>12, <1>a DEF node_accepts, ScheduleOK, local, schedule, history
  <2> QED BY <2>1, <2>2
<1>13. CASE node_refuses
  <2>1. TypeOK'
    BY <1>13, <1>a DEF node_refuses, TypeOK, local, schedule, history
  <2>2. ScheduleOK'
    BY <1>13, <1>a DEF node_refuses, ScheduleOK, local, schedule, history
  <2> QED BY <2>1, <2>2
<1>14. CASE mine
  <2>1. TypeOK'
    BY <1>14, <1>a DEF mine, TypeOK, local, schedule, history, rpc
  <2>2. ScheduleOK'
    BY <1>14, <1>a DEF mine, ScheduleOK, local, schedule, history
  <2> QED BY <2>1, <2>2
<1>15. CASE foreign_mined
  <2>1. TypeOK'
    BY <1>15, <1>a DEF foreign_mined, TypeOK, local, schedule, history, rpc
  <2>2. ScheduleOK'
    BY <1>15, <1>a DEF foreign_mined, ScheduleOK, local, schedule, history
  <2> QED BY <2>1, <2>2
<1>16. CASE UNCHANGED vars
  <2>1. TypeOK'
    BY <1>16, <1>a DEF vars, TypeOK, local, schedule, history, node, rpc
  <2>2. ScheduleOK'
    BY <1>16, <1>a DEF vars, ScheduleOK, local, schedule, history
  <2> QED BY <2>1, <2>2
<1> QED
  BY <1>1, <1>2, <1>3, <1>4, <1>5, <1>6, <1>7, <1>8, <1>9, <1>10, <1>11, <1>12, <1>13,
     <1>14, <1>15, <1>16 DEF Next, Executor

(* The executor's and the node's state keep their types: fees stay within  *)
(* u128 through every escalation, and no more hashes are remembered than   *)
(* submissions were made.                                                  *)
THEOREM TypeCorrect == Spec => []TypeOK
<1>1. SInv => TypeOK
  BY DEF SInv
<1> QED
  BY <1>1, SInvInit, SInvNext, PTL DEF Spec

(* One action is watched at most MaxTransportFailures + 1 times for each   *)
(* of its MaxReplacements + 1 submissions, for every policy.               *)
THEOREM BoundedWatches == Spec => []WatchBudget
<1>1. SInv => WatchBudget
  <2> SUFFICES ASSUME SInv PROVE WatchBudget
    OBVIOUS
  <2>1. /\ issued \in Nat /\ watches \in Nat /\ issued <= MaxReplacements
        /\ watches <= (issued + 1) * PerSubmission
    BY ExecutorAssumption DEF SInv, TypeOK, ScheduleOK
  <2>2. PerSubmission \in Nat /\ MaxReplacements + 1 \in Nat /\ issued + 1 \in Nat
        /\ issued + 1 <= MaxReplacements + 1
    BY <2>1, ExecutorAssumption DEF PerSubmission
  <2>3. (issued + 1) * PerSubmission <= (MaxReplacements + 1) * PerSubmission
    BY <2>2, Monotonic
  <2>4. (issued + 1) * PerSubmission \in Nat /\ (MaxReplacements + 1) * PerSubmission \in Nat
    BY <2>2
  <2> HIDE DEF PerSubmission
  <2>5. watches <= (MaxReplacements + 1) * PerSubmission
    BY <2>1, <2>3, <2>4
  <2> QED BY <2>5 DEF WatchBudget, PerSubmission
<1> QED
  BY <1>1, SInvInit, SInvNext, PTL DEF Spec

-----------------------------------------------------------------------------
(* The effect of an action.                                                *)

(* With a policy every submission carries the pinned nonce; without one    *)
(* there is a single submission.  A nonce is mined once.                   *)
NonceOK ==
  /\ account \in Nat /\ pinned \in Nat /\ replacing \in BOOLEAN
  /\ \A s \in accepted \cup wire :
       /\ s.nonce \in Nat
       /\ replacing => s.nonce = pinned
       /\ ~replacing => s.id = 1
  /\ step \in {"pricing", "pinning"} => accepted \cup wire = {}
  /\ step \in {"watching", "resending"} => replacing
  /\ step = "pinning" => replacing
  /\ mined \subseteq accepted
  /\ \A s \in mined : s.nonce < account
  /\ \A s, t \in mined : s.nonce = t.nonce => s = t

LEMMA NonceInit == Init => NonceOK
BY DEF Init, NonceOK

LEMMA NonceNext == NonceOK /\ [Next]_vars => NonceOK'
<1> SUFFICES ASSUME NonceOK, [Next]_vars PROVE NonceOK'
  OBVIOUS
<1>1. CASE execute_refused
  BY <1>1 DEF execute_refused, return, NonceOK, node, rpc
<1>2. CASE execute
  <2>1. PICK f : IF replacing
                   THEN step' = "pinning" /\ UNCHANGED rpc
                   ELSE step' = "sending" /\ \E n \in PendingCounts : transmit(1, n, f)
    BY <1>2 DEF execute
  <2>2. accepted = {} /\ wire = {}
    BY <1>2 DEF execute, NonceOK
  <2>3. \A n \in PendingCounts : n \in Nat
    BY PendingIsNat DEF NonceOK
  <2> QED BY <1>2, <2>1, <2>2, <2>3 DEF execute, transmit, NonceOK, node, rpc
<1>3. CASE pin_nonce
  <2>1. accepted = {} /\ wire = {} /\ replacing
    BY <1>3 DEF pin_nonce, NonceOK
  <2>2. \A n \in PendingCounts : n \in Nat
    BY PendingIsNat DEF NonceOK
  <2> QED BY <1>3, <2>1, <2>2 DEF pin_nonce, transmit, return, NonceOK, node, rpc
<1>4. CASE send_answered
  BY <1>4 DEF send_answered, return, NonceOK, node, rpc
<1>5. CASE send_failed
  BY <1>5 DEF send_failed, return, NonceOK, node, rpc
<1>6. CASE watch_confirmed
  BY <1>6 DEF watch_confirmed, return, NonceOK, node, rpc
<1>7. CASE watch_timed_out
  <2>1. /\ replacing /\ replacing' = replacing /\ pinned' = pinned
        /\ step' \in {"resending", "sweeping"}
    BY <1>7 DEF watch_timed_out, begin_sweep, NonceOK
  <2>2. pinned \in Nat
    BY DEF NonceOK
  <2>3. wire' = wire \/ \E i, f : wire' = {[id |-> i, nonce |-> pinned, fees |-> f]}
    BY <1>7 DEF watch_timed_out, transmit, replacement_nonce, rpc
  <2> QED BY <1>7, <2>1, <2>2, <2>3 DEF watch_timed_out, NonceOK, node
<1>8. CASE watch_broken
  BY <1>8 DEF watch_broken, begin_sweep, NonceOK, node, rpc
<1>9. CASE resend_answered
  BY <1>9 DEF resend_answered, NonceOK, node, rpc
<1>10. CASE resend_failed
  BY <1>10 DEF resend_failed, begin_sweep, NonceOK, node, rpc
<1>11. CASE any_mined
  BY <1>11 DEF any_mined, swept_past, return, NonceOK, node, rpc
<1>12. CASE node_accepts
  BY <1>12 DEF node_accepts, NonceOK, local, schedule
<1>13. CASE node_refuses
  BY <1>13 DEF node_refuses, NonceOK, local, schedule
<1>14. CASE mine
  BY <1>14 DEF mine, NonceOK, local, schedule, rpc
<1>15. CASE foreign_mined
  BY <1>15 DEF foreign_mined, NonceOK, local, schedule, rpc
<1>16. CASE UNCHANGED vars
  BY <1>16 DEF vars, NonceOK, local, schedule, node, rpc
<1> QED
  BY <1>1, <1>2, <1>3, <1>4, <1>5, <1>6, <1>7, <1>8, <1>9, <1>10, <1>11, <1>12, <1>13,
     <1>14, <1>15, <1>16 DEF Next, Executor

(* At most one submission of an action is mined, whatever the node does    *)
(* with late ones and however many replacements the policy allows.         *)
THEOREM OneEffect == Spec => []AtMostOneEffect
<1>1. NonceOK => AtMostOneEffect
  BY DEF NonceOK, AtMostOneEffect
<1> QED
  BY <1>1, NonceInit, NonceNext, PTL DEF Spec

(* With a policy, execute returns Ok only for a mined submission.          *)
THEOREM OkIsMined == Spec => []OkMeansMined
<1>1. Init => OkMeansMined
  BY DEF Init, OkMeansMined
<1>2. OkMeansMined /\ [Next]_vars => OkMeansMined'
  <2> SUFFICES ASSUME OkMeansMined, [Next]_vars PROVE OkMeansMined'
    OBVIOUS
  <2>1. replacing' = replacing /\ (mined # {} => mined' # {})
    BY DEF Next, Executor, vars, execute_refused, execute, pin_nonce, send_answered,
           send_failed, watch_confirmed, watch_timed_out, watch_broken, resend_answered,
           resend_failed, any_mined, node_accepts, node_refuses, mine, foreign_mined,
           node
  <2>2. result' = "ok" /\ replacing => result = "ok" \/ mined # {}
    BY DEF Next, Executor, vars, execute_refused, execute, pin_nonce, send_answered,
           send_failed, watch_confirmed, watch_timed_out, watch_broken, resend_answered,
           resend_failed, any_mined, node_accepts, node_refuses, mine, foreign_mined,
           return, swept_past, local, Mined
  <2> QED BY <2>1, <2>2 DEF OkMeansMined
<1> QED
  BY <1>1, <1>2, PTL DEF Spec

-----------------------------------------------------------------------------
(* The receipt sweep.                                                      *)

(* While the sweep runs, a known hash that was mined when it began is      *)
(* still ahead of it.                                                      *)
SweepOK ==
  /\ sent \in Seq(Ids) /\ swept \in Nat
  /\ step \notin {"sweeping", "done"} => owed = "nothing"
  /\ step # "done" => result = "none"
  /\ step = "sweeping" /\ owed = "known" =>
       \E i \in DOMAIN sent : swept <= i /\ Mined(sent[i])
  /\ result = "err" => owed # "known"

LEMMA SweepNext == SInv /\ SweepOK /\ [Next]_vars => SweepOK'
<1> SUFFICES ASSUME SInv, SInv', SweepOK, [Next]_vars PROVE SweepOK'
  BY SInvNext
<1>t. sent' \in Seq(Ids) /\ swept' \in Nat
  BY ExecutorAssumption DEF SInv, TypeOK
<1>d. \A i \in DOMAIN sent : 1 <= i /\ i \in Nat /\ i <= Len(sent)
  BY DEF SweepOK
<1>1. CASE execute_refused \/ execute \/ pin_nonce \/ send_answered \/ send_failed
  <2>1. owed = "nothing" /\ owed' = owed /\ step' # "sweeping" /\ (step' # "done" => result' = result)
    BY <1>1 DEF execute_refused, execute, pin_nonce, send_answered, send_failed, return,
                SweepOK, history
  <2>2. step # "done"
    BY <1>1 DEF execute_refused, execute, pin_nonce, send_answered, send_failed
  <2> QED BY <1>t, <2>1, <2>2 DEF SweepOK
<1>2. CASE watch_confirmed \/ resend_answered
  BY <1>2, <1>t DEF watch_confirmed, resend_answered, return, SweepOK, history
<1>3. ASSUME begin_sweep, step # "done", UNCHANGED <<result, sent, mined>>
      PROVE  SweepOK'
  <2>1. step' = "sweeping" /\ swept' = 1 /\ result' = "none"
    BY <1>3 DEF begin_sweep, SweepOK
  <2>2. owed' = "known" => \E i \in DOMAIN sent : Mined(sent[i])
    BY <1>3 DEF begin_sweep
  <2>3. owed' = "known" => \E i \in DOMAIN sent' : swept' <= i /\ Mined(sent[i])'
    BY <1>3, <1>d, <2>1, <2>2 DEF Mined
  <2> QED BY <1>t, <2>1, <2>3 DEF SweepOK
<1>4. CASE watch_timed_out
  <2>1. CASE issued >= MaxReplacements
    BY <1>3, <1>4, <2>1 DEF watch_timed_out, node
  <2>2. CASE ~(issued >= MaxReplacements)
    BY <1>4, <1>t, <2>2 DEF watch_timed_out, SweepOK
  <2> QED BY <2>1, <2>2
<1>5. CASE watch_broken
  <2>1. CASE exhausted(transport_failures + 1)
    BY <1>3, <1>5, <2>1 DEF watch_broken, node
  <2>2. CASE ~exhausted(transport_failures + 1)
    BY <1>5, <1>t, <2>2 DEF watch_broken, SweepOK
  <2> QED BY <2>1, <2>2
<1>6. CASE resend_failed
  BY <1>3, <1>6 DEF resend_failed, node
<1>7. CASE any_mined
  <2>0. step = "sweeping" /\ UNCHANGED <<sent, mined>>
    BY <1>7 DEF any_mined, node
  <2>1. CASE Mined(sent[swept]) /\ return("ok") /\ UNCHANGED <<swept, owed>>
    BY <1>t, <2>1 DEF return, SweepOK
  <2>2. CASE ~Mined(sent[swept]) /\ swept_past(swept) /\ UNCHANGED owed
    <3>1. owed = "known" => \E i \in DOMAIN sent : swept + 1 <= i /\ Mined(sent[i])
      BY <1>d, <2>0, <2>2 DEF SweepOK
    <3>2. CASE swept >= Len(sent)
      <4>1. owed # "known"
        BY <1>d, <3>1, <3>2 DEF SweepOK
      <4> QED BY <1>t, <2>2, <3>2, <4>1 DEF swept_past, return, SweepOK
    <3>3. CASE ~(swept >= Len(sent))
      <4>1. swept' = swept + 1 /\ UNCHANGED <<step, result, owed>>
        BY <2>2, <3>3 DEF swept_past
      <4>2. owed' = "known" => \E i \in DOMAIN sent' : swept' <= i /\ Mined(sent[i])'
        BY <2>0, <3>1, <4>1 DEF Mined
      <4> QED BY <1>t, <2>0, <4>1, <4>2 DEF SweepOK
    <3> QED BY <3>2, <3>3
  <2>3. CASE swept_past(swept) /\ owed' = "hidden"
    BY <1>t, <2>0, <2>3 DEF swept_past, return, SweepOK
  <2> QED BY <1>7, <2>1, <2>2, <2>3 DEF any_mined
<1>8. CASE node_accepts \/ node_refuses \/ mine \/ foreign_mined \/ UNCHANGED vars
  <2>1. UNCHANGED <<step, result, sent, swept, owed>> /\ mined \subseteq mined'
    BY <1>8 DEF node_accepts, node_refuses, mine, foreign_mined, vars, local, history, node
  <2>2. \A i \in DOMAIN sent : Mined(sent[i]) => Mined(sent[i])'
    BY <2>1 DEF Mined
  <2> QED BY <2>1, <2>2 DEF SweepOK
<1> QED
  BY <1>1, <1>2, <1>4, <1>5, <1>6, <1>7, <1>8 DEF Next, Executor

(* A submission whose hash is known and which is mined when the sweep      *)
(* begins is never reported as a failure, whichever submission it is,      *)
(* unless its own receipt lookup fails.                                    *)
THEOREM SweepReports == Spec => []KnownIsReported
<1>1. Init => SweepOK
  BY DEF Init, SweepOK
<1>2. SweepOK => KnownIsReported
  BY DEF SweepOK, KnownIsReported
<1> QED
  BY <1>1, <1>2, SInvInit, SInvNext, SweepNext, PTL DEF Spec

-----------------------------------------------------------------------------
(* Fees of replacements.                                                   *)

(* A higher fee than one that clears the bump clears it too, and so does   *)
(* one that clears a higher fee.                                           *)
LEMMA BumpsBelow ==
  ASSUME NEW a \in Nat, NEW b \in Nat, NEW c \in Nat, a <= b, Bumps(b, c)
  PROVE  Bumps(a, c)
<1>1. MIN \in Nat /\ (a * MIN) \div 100 <= (b * MIN) \div 100
  BY Monotonic DEF MIN
<1>2. (a * MIN) \div 100 \in Nat /\ (b * MIN) \div 100 \in Nat
  BY DEF MIN
<1> QED BY <1>1, <1>2 DEF Bumps

(* A price keeps its tip below its maximum.                                *)
LEMMA PriceIsClamped ==
  ASSUME NEW est, NEW g, NEW b, price_1559(est, g, BumpPercent, b) # Refused
  PROVE  \E x, y : price_1559(est, g, BumpPercent, b) = clamped(x, y)
BY DEF price_1559

(* The fees after so many replacements: the tip ten units at least and no  *)
(* more than the maximum, the maximum within reach.                        *)
FeesWithin(reach) ==
  10 <= fees.priority /\ fees.priority <= fees.max_fee /\ fees.max_fee <= reach[issued]

(* Nothing the node accepted is above the current fees, the request on its *)
(* way carries them and clears all of it, and no request is on its way     *)
(* while a submission is watched.                                          *)
FeesOK(reach) ==
  /\ ~underpriced
  /\ step \in Steps
  /\ step \in {"pricing", "pinning"} => accepted = {} /\ wire = {}
  /\ \A t \in accepted : t.fees.max_fee <= fees.max_fee /\ t.fees.priority <= fees.priority
  /\ \A s \in wire : s.fees = fees /\ Clears(s)
  /\ answer = "accepted" \/ step = "watching" => wire = {}
  /\ step \in {"pinning", "sending", "watching", "resending"} => FeesWithin(reach)

(* One escalation: both fields clear the bump and stay within reach.       *)
LEMMA EscalationWithin ==
  ASSUME NEW reach \in [0..MaxReplacements -> Nat], HasRoom(reach),
         NEW n \in 0..(MaxReplacements - 1), NEW f \in Fees,
         10 <= f.priority, f.priority <= f.max_fee, f.max_fee <= reach[n],
         NEW e, e = escalate(f, EscalationPercent)
  PROVE  /\ e \in Fees
         /\ Bumps(f.max_fee, e.max_fee) /\ Bumps(f.priority, e.priority)
         /\ 10 <= e.priority /\ e.priority <= e.max_fee /\ e.max_fee <= reach[n + 1]
<1> DEFINE p == EscalationPercent
           x == f.max_fee * p
           y == f.priority * p
           z == reach[n] * p
<1>1. /\ f.max_fee \in Nat /\ f.priority \in Nat /\ p \in Nat /\ MaxFee \in Nat
      /\ reach[n] \in Nat /\ reach[n + 1] \in Nat
  BY FeeAssumption, ExecutorAssumption DEF Fees, Fee
<1>2. z <= MaxFee /\ scale_percent(reach[n], p) <= reach[n + 1]
  BY DEF HasRoom
<1>3. /\ e.max_fee = scale_percent(f.max_fee, p) /\ e.priority = scale_percent(f.priority, p)
      /\ e \in Fees
  BY EscalateNeverClamps, EscalateIsFees
<1> HIDE DEF p
<1>4. x <= z /\ y <= x /\ x \div 100 <= z \div 100 /\ y \div 100 <= x \div 100
  BY <1>1, Monotonic
<1>5. x \in Nat /\ y \in Nat /\ z \in Nat
  BY <1>1
<1>6. /\ scale_percent(f.max_fee, p) = IF x > MaxFee THEN MaxFee ELSE x \div 100
      /\ scale_percent(f.priority, p) = IF y > MaxFee THEN MaxFee ELSE y \div 100
      /\ scale_percent(reach[n], p) = IF z > MaxFee THEN MaxFee ELSE z \div 100
  BY DEF scale_percent
<1>7. x <= MaxFee /\ y <= MaxFee
  <2> HIDE DEF x, y, z
  <2> QED BY <1>1, <1>2, <1>4, <1>5
<1>8. Bumps(f.max_fee, e.max_fee) /\ Bumps(f.priority, e.priority)
  BY <1>1, <1>3, <1>7, EscalationClears DEF p
<1> HIDE DEF x, y, z
<1>9. /\ e.max_fee = x \div 100 /\ e.priority = y \div 100 /\ z \div 100 <= reach[n + 1]
      /\ x \div 100 \in Nat /\ y \div 100 \in Nat /\ z \div 100 \in Nat
  BY <1>1, <1>2, <1>3, <1>5, <1>6, <1>7
<1>10. f.priority < e.priority
  BY <1>8 DEF Bumps
<1> QED BY <1>1, <1>3, <1>4, <1>8, <1>9, <1>10

(* A step that leaves fees and node alone and sends nothing.               *)
LEMMA FeesQuiet ==
  ASSUME NEW reach, FeesOK(reach), UNCHANGED <<fees, issued, node, rpc>>, step' \in Steps,
         step' \in {"watching", "sweeping", "done"} \/ step' = step,
         step' = "watching" => wire = {} /\ step \in {"sending", "watching", "resending"}
  PROVE  FeesOK(reach)'
<1>1. \A s : Clears(s)' <=> Clears(s)
  BY DEF Clears, node
<1>2. /\ UNCHANGED <<fees, issued, accepted, underpriced, wire, answer>>
  BY DEF node, rpc
<1>3. step' \in {"pinning", "sending", "watching", "resending"} =>
        step \in {"pinning", "sending", "watching", "resending"}
  OBVIOUS
<1> QED BY <1>1, <1>2, <1>3 DEF FeesOK, FeesWithin

LEMMA FeesNext ==
  ASSUME NEW reach \in [0..MaxReplacements -> Nat], HasRoom(reach),
         SInv, SInv', FeesOK(reach), [Next]_vars
  PROVE  FeesOK(reach)'
<1>t. /\ step \in Steps /\ step' \in Steps /\ fees \in Fees /\ accepted \subseteq Submission
      /\ wire \subseteq Submission /\ issued \in 0..MaxReplacements
  BY DEF SInv, TypeOK
<1>n. issued \in Nat
  BY <1>t
<1>1. CASE execute_refused \/ send_failed \/ watch_confirmed
  BY <1>1, <1>t, FeesQuiet DEF execute_refused, send_failed, watch_confirmed, return, schedule
<1>2. CASE execute
  <2>1. PICK est \in Estimates, g \in GasUsages, b \in Bids :
          LET f == price_1559(est, g, BumpPercent, b) IN
            /\ f # Refused
            /\ fees' = f
            /\ IF replacing
                 THEN step' = "pinning" /\ UNCHANGED rpc
                 ELSE step' = "sending" /\ \E n \in PendingCounts : transmit(1, n, f)
    BY <1>2 DEF execute
  <2>2. accepted = {} /\ wire = {} /\ UNCHANGED <<issued, accepted, underpriced>> /\ issued = 0
    BY <1>2 DEF execute, FeesOK, SInv, ScheduleOK, Early, node
  <2>3. fees' \in Fees /\ 10 <= fees'.priority /\ fees'.max_fee <= reach[0]
    BY <2>1, PriceIsFees DEF HasRoom
  <2>4. fees'.priority <= fees'.max_fee
    <3>1. PICK x, y : fees' = clamped(x, y)
      BY <2>1, PriceIsClamped
    <3>2. fees'.max_fee = x /\ fees'.priority = IF y < x THEN y ELSE x
      BY <3>1 DEF clamped
    <3>3. fees'.max_fee \in Nat /\ fees'.priority \in Nat
      BY <2>3, FeeAssumption DEF Fees, Fee
    <3> QED BY <3>2, <3>3
  <2>5. FeesWithin(reach)'
    BY <2>2, <2>3, <2>4 DEF FeesWithin
  <2>6. step' \in {"pinning", "sending"}
    BY <2>1
  <2>7. step' = "pinning" => wire' = {}
    BY <2>1, <2>2 DEF rpc
  <2>8. \A s \in wire' : s.fees = fees' /\ answer' = "none"
    BY <2>1, <2>2 DEF rpc, transmit
  <2>9. \A s \in wire' : Clears(s)'
    BY <2>2 DEF Clears
  <2>10. (answer' = "accepted" => wire' = {}) /\ ~underpriced'
    BY <2>2, <2>8 DEF FeesOK
  <2> QED BY <1>t, <2>2, <2>5, <2>6, <2>7, <2>8, <2>9, <2>10 DEF FeesOK
<1>3. CASE pin_nonce
  <2>1. CASE step' = "done" /\ UNCHANGED rpc
    BY <1>3, <1>t, <2>1, FeesQuiet DEF pin_nonce, schedule
  <2>2. CASE step' = "sending" /\ transmit(1, pinned', fees)
    <3>1. /\ accepted = {} /\ UNCHANGED <<fees, issued, accepted, underpriced>> /\ FeesWithin(reach)
          /\ ~underpriced
      BY <1>3 DEF pin_nonce, FeesOK, schedule, node
    <3>2. FeesWithin(reach)' /\ \A s \in wire' : s.fees = fees' /\ Clears(s)'
      BY <2>2, <3>1 DEF FeesWithin, transmit, Clears
    <3> QED BY <1>t, <2>2, <3>1, <3>2 DEF FeesOK, transmit
  <2> QED BY <1>3, <2>1, <2>2 DEF pin_nonce, return
<1>4. CASE send_answered
  BY <1>4, <1>t, FeesQuiet DEF send_answered, return, schedule, FeesOK
<1>5. CASE watch_timed_out
  <2>1. CASE issued >= MaxReplacements
    BY <1>5, <1>t, <2>1, FeesQuiet DEF watch_timed_out, begin_sweep
  <2>2. CASE ~(issued >= MaxReplacements)
    <3> DEFINE e == escalate(fees, EscalationPercent)
    <3>1. /\ issued' = issued + 1 /\ fees' = e /\ step' = "resending"
          /\ wire' = {[id |-> issued + 2, nonce |-> replacement_nonce, fees |-> e]}
          /\ answer' = "none" /\ UNCHANGED <<accepted, underpriced>>
      BY <1>5, <2>2 DEF watch_timed_out, transmit, node
    <3>2. issued \in 0..(MaxReplacements - 1)
      BY <1>t, <2>2, ExecutorAssumption
    <3>3. FeesWithin(reach) /\ ~underpriced
      BY <1>5 DEF watch_timed_out, FeesOK
    <3>4. /\ e \in Fees
          /\ Bumps(fees.max_fee, e.max_fee) /\ Bumps(fees.priority, e.priority)
          /\ 10 <= e.priority /\ e.priority <= e.max_fee /\ e.max_fee <= reach[issued + 1]
      BY <1>t, <3>2, <3>3, EscalationWithin DEF FeesWithin
    <3> HIDE DEF e
    <3>5. /\ e.max_fee \in Nat /\ e.priority \in Nat /\ fees.max_fee \in Nat /\ fees.priority \in Nat
          /\ \A t \in accepted : t.fees.max_fee \in Nat /\ t.fees.priority \in Nat
      BY <1>t, <3>4, FeeAssumption DEF Fees, Fee, Submission
    <3>6. \A t \in accepted : t.fees.max_fee <= fees.max_fee /\ t.fees.priority <= fees.priority
      BY DEF FeesOK
    <3>7. \A t \in accepted : Bumps(t.fees.max_fee, e.max_fee) /\ Bumps(t.fees.priority, e.priority)
      BY <3>4, <3>5, <3>6, BumpsBelow
    <3>8. \A s \in wire' : s.fees = fees' /\ Clears(s)'
      BY <3>1, <3>7 DEF Clears
    <3>9. \A t \in accepted' : t.fees.max_fee <= fees'.max_fee /\ t.fees.priority <= fees'.priority
      BY <3>1, <3>4, <3>5, <3>6 DEF Bumps
    <3> QED BY <1>t, <3>1, <3>3, <3>4, <3>8, <3>9 DEF FeesOK, FeesWithin
  <2> QED BY <2>1, <2>2
<1>6. CASE watch_broken
  BY <1>6, <1>t, FeesQuiet DEF watch_broken, begin_sweep, FeesOK
<1>7. CASE resend_answered
  BY <1>7, <1>t, FeesQuiet DEF resend_answered, schedule, FeesOK
<1>8. CASE resend_failed
  BY <1>8, <1>t, FeesQuiet DEF resend_failed, begin_sweep, schedule
<1>9. CASE any_mined
  <2>1. step = "sweeping" /\ step' \in {"sweeping", "done"} /\ UNCHANGED <<fees, issued, node, rpc>>
    BY <1>9 DEF any_mined, swept_past, return, schedule
  <2> QED BY <1>t, <2>1, FeesQuiet
<1>10. CASE node_accepts
  <2>1. PICK s \in wire : accepted' = accepted \cup {s}
    BY <1>10 DEF node_accepts
  <2>2. UNCHANGED <<fees, issued, step, underpriced>> /\ wire' = {}
    BY <1>10 DEF node_accepts, local, schedule
  <2>3. s.fees = fees /\ fees.max_fee \in Nat /\ fees.priority \in Nat
    BY <1>t, <2>1, FeeAssumption DEF FeesOK, Fees, Fee
  <2>4. step \notin {"pricing", "pinning"}
    BY <2>1 DEF FeesOK
  <2>5. \A t \in accepted' : t.fees.max_fee <= fees.max_fee /\ t.fees.priority <= fees.priority
    BY <2>1, <2>3 DEF FeesOK
  <2> QED BY <2>2, <2>4, <2>5 DEF FeesOK, FeesWithin
<1>11. CASE node_refuses
  <2>1. PICK s \in wire : underpriced' = (underpriced \/ (s.nonce >= account /\ ~Clears(s)))
    BY <1>11 DEF node_refuses
  <2>2. UNCHANGED <<fees, issued, step, accepted>> /\ wire' = {} /\ answer' = "refused"
    BY <1>11 DEF node_refuses, local, schedule
  <2>3. ~underpriced'
    BY <2>1 DEF FeesOK
  <2> QED BY <2>2, <2>3 DEF FeesOK, FeesWithin
<1>12. CASE mine \/ foreign_mined \/ UNCHANGED vars
  <2>1. UNCHANGED <<fees, issued, step, accepted, underpriced, wire, answer>>
    BY <1>12 DEF mine, foreign_mined, vars, local, schedule, node, rpc
  <2> QED BY <2>1 DEF FeesOK, FeesWithin, Clears
<1> QED
  BY <1>1, <1>2, <1>3, <1>4, <1>5, <1>6, <1>7, <1>8, <1>9, <1>10, <1>11, <1>12
  DEF Next, Executor

(* What with_replacement promises for a whole action: if every price has a *)
(* tip of ten units and the fees stay short of saturation for all the      *)
(* replacements, the node never refuses a submission for its fees, late    *)
(* requests the executor has given up on included.                         *)
THEOREM ReplacementsClear ==
  ASSUME NEW reach \in [0..MaxReplacements -> Nat], HasRoom(reach)
  PROVE  Spec => []NeverUnderpriced
<1>1. Init => FeesOK(reach)
  BY DEF Init, FeesOK, Steps
<1>2. SInv /\ SInv' /\ FeesOK(reach) /\ [Next]_vars => FeesOK(reach)'
  BY FeesNext
<1>3. FeesOK(reach) => NeverUnderpriced
  BY DEF FeesOK, NeverUnderpriced
<1> QED
  BY <1>1, <1>2, <1>3, SInvInit, SInvNext, PTL DEF Spec
=============================================================================
