----------------------- MODULE ReliabilityStackProofs -----------------------
(***************************************************************************)
(* The circuit breaker and the rate limit in the stack, for every          *)
(* threshold, cap, window and policy.                                      *)
(***************************************************************************)
EXTENDS ReliabilityStack, WellFoundedInduction, SequenceTheorems, TLAPS

(* An action is only ever in hand while the circuit is closed.             *)
BreakerOK ==
  /\ failures \in 0..MaxFailures
  /\ step # "idle" => failures < MaxFailures

LEMMA BreakerInit == Init => BreakerOK
BY StackAssumption DEF Init, BreakerOK

LEMMA BreakerNext == BreakerOK /\ [Next]_vars => BreakerOK'
<1> SUFFICES ASSUME BreakerOK, [Next]_vars PROVE BreakerOK'
  OBVIOUS
<1> USE StackAssumption DEF BreakerOK
<1>1. CASE gated_off \/ rejected
  BY <1>1 DEF gated_off, rejected, finish, breaker
<1>2. CASE admitted
  BY <1>2 DEF admitted, is_open, breaker
<1>3. CASE let_through \/ submit \/ back_off \/ retry
  BY <1>3 DEF let_through, submit, back_off, retry, breaker
<1>4. CASE expired \/ submitted
  BY <1>4 DEF expired, submitted, finish
<1>5. CASE failed
  BY <1>5 DEF failed, finish
<1>6. CASE reset
  BY <1>6 DEF reset, action
<1>7. CASE flip \/ tick
  BY <1>7 DEF flip, tick, breaker, action
<1>8. CASE UNCHANGED vars
  BY <1>8 DEF vars, breaker, action
<1> QED
  BY <1>1, <1>2, <1>3, <1>4, <1>5, <1>6, <1>7, <1>8 DEF Next, Stack

(* The count of an open breaker is changed by the operator's reset only,   *)
(* never by the outcome of an action.                                      *)
THEOREM OpenUntilReset == Spec => OnlyResetCloses
<1>1. BreakerOK /\ [Next]_vars =>
        [is_open /\ failures' # failures => UNCHANGED <<action, verdict>>]_vars
  <2> SUFFICES ASSUME BreakerOK, Next, is_open, failures' # failures
               PROVE  UNCHANGED <<action, verdict>>
    OBVIOUS
  <2>1. step = "idle"
    BY StackAssumption DEF BreakerOK, is_open
  <2>2. ~Stack
    BY <2>1 DEF Stack, let_through, expired, submit, submitted, back_off, failed, retry
  <2>3. ~(gated_off \/ rejected \/ admitted \/ flip \/ tick)
    BY DEF gated_off, rejected, admitted, flip, tick, breaker
  <2> QED BY <2>2, <2>3 DEF Next, reset
<1> QED
  BY <1>1, BreakerInit, BreakerNext, PTL DEF Spec, OnlyResetCloses

(* No action is in hand, or can be, below an open circuit.                 *)
THEOREM OpenIsIdle == Spec => []OpenMeansIdle
<1>1. BreakerOK => OpenMeansIdle
  BY StackAssumption DEF BreakerOK, OpenMeansIdle, is_open
<1> QED
  BY <1>1, BreakerInit, BreakerNext, PTL DEF Spec

(* Until an action expires, the breaker's count is that of the failures in *)
(* a row.                                                                  *)
CountOK ==
  /\ BreakerOK
  /\ in_row \in 0..MaxFailures
  /\ ~dropped => in_row <= failures

LEMMA CountNext == CountOK /\ [Next]_vars => CountOK'
<1> SUFFICES ASSUME CountOK, [Next]_vars PROVE CountOK'
  OBVIOUS
<1>0. BreakerOK'
  BY BreakerNext DEF CountOK
<1>a. failures \in 0..MaxFailures /\ in_row \in 0..MaxFailures /\ MaxFailures \in Nat
  BY StackAssumption DEF CountOK, BreakerOK
<1>1. CASE gated_off \/ rejected \/ admitted
  BY <1>0, <1>1 DEF gated_off, rejected, admitted, breaker, CountOK
<1>2. CASE let_through \/ submit \/ back_off \/ retry
  BY <1>0, <1>2 DEF let_through, submit, back_off, retry, breaker, CountOK
<1>3. CASE expired
  BY <1>0, <1>3 DEF expired, CountOK
<1>4. CASE submitted \/ reset
  BY <1>0, <1>4, <1>a DEF submitted, reset, CountOK
<1>5. CASE failed
  <2>1. /\ failures' = failures + 1 /\ dropped' = dropped
        /\ in_row' = IF in_row < MaxFailures THEN in_row + 1 ELSE in_row
    BY <1>5 DEF failed
  <2> QED BY <1>0, <1>a, <2>1 DEF CountOK
<1>6. CASE flip \/ tick \/ UNCHANGED vars
  BY <1>0, <1>6 DEF flip, tick, vars, breaker, CountOK
<1> QED
  BY <1>1, <1>2, <1>3, <1>4, <1>5, <1>6 DEF Next, Stack

(* The threshold of failed actions in a row opens the circuit, for every   *)
(* threshold and whatever else happens, unless an action expired between   *)
(* them.                                                                   *)
THEOREM FreshFailuresCount == Spec => []FreshFailuresOpen
<1>1. Init => CountOK
  BY BreakerInit, StackAssumption DEF Init, CountOK
<1>2. CountOK => FreshFailuresOpen
  BY StackAssumption DEF CountOK, BreakerOK, FreshFailuresOpen, is_open
<1> QED
  BY <1>1, <1>2, CountNext, PTL DEF Spec

-----------------------------------------------------------------------------
(* The rate limit.                                                         *)

(* Ages up to Window, oldest first.                                        *)
Ages(s) == s \in Seq(0..Window) /\ \A i, j \in 1..Len(s) : i <= j => s[i] >= s[j]

LEMMA AgesFacts ==
  ASSUME NEW s, Ages(s)
  PROVE  /\ Len(s) \in Nat /\ DOMAIN s = 1..Len(s) /\ Window \in Nat
         /\ \A i \in 1..Len(s) : s[i] \in 0..Window /\ s[i] \in Nat /\ s[i] <= Window
<1>1. Len(s) \in Nat /\ DOMAIN s = 1..Len(s) /\ Window \in Nat
  BY StackAssumption DEF Ages
<1>2. \A i \in 1..Len(s) : s[i] \in 0..Window
  BY <1>1 DEF Ages
<1> QED BY <1>1, <1>2

(* What is left after the expired ages were popped from the front is what  *)
(* is inside the window, since the ages are ordered.                       *)
LEMMA PopExpired ==
  ASSUME NEW s, Ages(s)
  PROVE  \E f \in 1..(Len(s) + 1) :
           /\ pop_expired(s) = SubSeq(s, f, Len(s))
           /\ \A j \in 1..(f - 1) : s[j] = Window
           /\ \A j \in f..Len(s) : s[j] < Window
<1>1. /\ Window \in Nat /\ Len(s) \in Nat
      /\ \A j \in 1..Len(s) : s[j] \in Nat /\ s[j] <= Window
  BY StackAssumption DEF Ages
<1> DEFINE T == {i \in 1..(Len(s) + 1) : i <= Len(s) => s[i] < Window}
           P(i) == /\ \A j \in 1..(i - 1) : s[j] >= Window
                   /\ i <= Len(s) => s[i] < Window
<1>2. T \in SUBSET Nat /\ Len(s) + 1 \in T
  BY <1>1
<1>3. PICK x \in T : \A y \in T : ~ (<<y, x>> \in OpToRel(<, Nat))
  BY <1>2, NatLessThanWellFounded, WFMin
<1>4. \A y \in T : ~(y < x)
  BY <1>2, <1>3 DEF OpToRel
<1>5. x \in 1..(Len(s) + 1) /\ P(x)
  <2>1. ASSUME NEW j \in 1..(x - 1) PROVE s[j] >= Window
    <3>1. j \in 1..Len(s) /\ j < x
      BY <1>1, <1>2
    <3>2. j \notin T
      BY <1>4, <3>1
    <3> QED BY <1>1, <3>1, <3>2
  <2> QED BY <2>1
<1> DEFINE f == FirstKept(s)
<1>6. f \in 1..(Len(s) + 1) /\ P(f)
  BY <1>5 DEF FirstKept
<1> HIDE DEF f
<1>7. \A j \in 1..(f - 1) : s[j] = Window
  <2> SUFFICES ASSUME NEW j \in 1..(f - 1) PROVE s[j] = Window
    OBVIOUS
  <2>1. j \in 1..Len(s) /\ s[j] >= Window
    BY <1>1, <1>6
  <2> QED BY <1>1, <2>1
<1>8. \A j \in f..Len(s) : s[j] < Window
  <2> SUFFICES ASSUME NEW j \in f..Len(s) PROVE s[j] < Window
    OBVIOUS
  <2>1. f \in 1..Len(s) /\ j \in 1..Len(s) /\ f <= j /\ s[f] < Window
    BY <1>1, <1>6
  <2>2. s[f] >= s[j]
    BY <2>1 DEF Ages
  <2> QED BY <1>1, <2>1, <2>2
<1>9. pop_expired(s) = SubSeq(s, f, Len(s))
  BY DEF pop_expired, f
<1> QED BY <1>6, <1>7, <1>8, <1>9

(* The ages that count are the end of those the limit remembers, and all   *)
(* that come before have left the window.                                  *)
EndOf(s, p) ==
  /\ Len(p) <= Len(s)
  /\ \A i \in 1..Len(p) : p[i] = s[Len(s) - Len(p) + i] /\ p[i] < Window
  /\ \A i \in 1..(Len(s) - Len(p)) : s[i] = Window

LimitOK == Ages(sent) /\ Ages(passed) /\ EndOf(sent, passed) /\ Len(passed) <= PerSecond

(* A suffix of ages is ages.                                               *)
LEMMA SuffixAges ==
  ASSUME NEW s, Ages(s), NEW f \in 1..(Len(s) + 1), NEW q, q = SubSeq(s, f, Len(s))
  PROVE  /\ Ages(q) /\ Len(q) = Len(s) - f + 1
         /\ \A i \in 1..Len(q) : q[i] = s[f + i - 1]
<1>1. s \in Seq(0..Window) /\ Len(s) \in Nat /\ f \in Nat
  BY DEF Ages
<1>2. q \in Seq(0..Window) /\ Len(q) = Len(s) - f + 1 /\ \A i \in 1..Len(q) : q[i] = s[f + i - 1]
  <2>1. \A i \in f..Len(s) : s[i] \in 0..Window
    BY <1>1, AgesFacts
  <2>2. /\ q \in Seq(0..Window) /\ Len(q) = IF f <= Len(s) THEN Len(s) - f + 1 ELSE 0
        /\ \A i \in 1..(Len(s) - f + 1) : q[i] = s[f + i - 1]
    BY <1>1, <2>1, SubSeqProperties
  <2>3. Len(q) = Len(s) - f + 1
    BY <1>1, <2>2
  <2> QED BY <2>2, <2>3
<1>3. ASSUME NEW i \in 1..Len(q), NEW j \in 1..Len(q), i <= j PROVE q[i] >= q[j]
  <2>1. f + i - 1 \in 1..Len(s) /\ f + j - 1 \in 1..Len(s) /\ f + i - 1 <= f + j - 1
    BY <1>1, <1>2, <1>3
  <2>2. s[f + i - 1] >= s[f + j - 1]
    BY <2>1 DEF Ages
  <2> QED BY <1>2, <2>2
<1> QED BY <1>2, <1>3 DEF Ages

(* A call is let through: one more age, and still no more than the cap.    *)
LEMMA LetThrough ==
  ASSUME LimitOK, let_through PROVE LimitOK'
<1>1. /\ Window \in Nat \ {0} /\ PerSecond \in Nat \ {0} /\ Len(sent) \in Nat /\ Len(passed) \in Nat
      /\ sent \in Seq(0..Window) /\ passed \in Seq(0..Window) /\ Len(passed) <= Len(sent)
  BY StackAssumption DEF LimitOK, Ages, EndOf
<1>2. Len(passed) < PerSecond
  <2>1. CASE Len(sent) >= PerSecond
    <3> SUFFICES ASSUME Len(passed) >= PerSecond PROVE FALSE
      BY <1>1
    <3> DEFINE i == Len(passed) - PerSecond + 1
    <3>1. i \in 1..Len(passed) /\ Len(sent) - Len(passed) + i = Len(sent) - PerSecond + 1
      BY <1>1
    <3>2. sent[Len(sent) - PerSecond + 1] >= Window
      BY <2>1 DEF let_through, below_cap
    <3>3. passed[i] = sent[Len(sent) - PerSecond + 1] /\ passed[i] < Window /\ passed[i] \in Nat
      BY <3>1, AgesFacts DEF LimitOK, EndOf
    <3> QED BY <1>1, <3>2, <3>3
  <2>2. CASE ~(Len(sent) >= PerSecond)
    BY <1>1, <2>2
  <2> QED BY <2>1, <2>2
<1>3. PICK f \in 1..(Len(sent) + 1) :
        /\ pop_expired(sent) = SubSeq(sent, f, Len(sent))
        /\ \A j \in 1..(f - 1) : sent[j] = Window
        /\ \A j \in f..Len(sent) : sent[j] < Window
  BY PopExpired DEF LimitOK
<1> DEFINE q == pop_expired(sent)
<1>4. /\ Ages(q) /\ Len(q) = Len(sent) - f + 1
      /\ \A i \in 1..Len(q) : q[i] = sent[f + i - 1]
  BY <1>3, SuffixAges DEF LimitOK
<1> HIDE DEF q
<1>5. /\ q \in Seq(0..Window) /\ Len(q) \in Nat /\ \A i \in 1..Len(q) : q[i] \in Nat
      /\ \A i, j \in 1..Len(q) : i <= j => q[i] >= q[j]
  BY <1>4, AgesFacts DEF Ages
<1>6. Len(q) = Len(passed)
  <2>1. CASE Len(q) < Len(passed)
    <3>1. /\ 1 \in 1..Len(passed) /\ Len(sent) - Len(passed) + 1 \in 1..(f - 1)
      BY <1>1, <1>4, <2>1
    <3>2. passed[1] = sent[Len(sent) - Len(passed) + 1] /\ passed[1] < Window
      BY <3>1 DEF LimitOK, EndOf
    <3> QED BY <1>1, <1>3, <3>1, <3>2
  <2>2. CASE Len(q) > Len(passed)
    <3>1. f \in 1..(Len(sent) - Len(passed)) /\ f \in f..Len(sent)
      BY <1>1, <1>4, <2>2
    <3>2. sent[f] = Window
      BY <3>1 DEF LimitOK, EndOf
    <3> QED BY <1>1, <1>3, <3>1, <3>2
  <2> QED BY <1>1, <1>5, <2>1, <2>2
<1>7. sent' = Append(q, 0) /\ passed' = Append(passed, 0)
  BY DEF let_through, q
<1>8. ASSUME NEW s, Ages(s) PROVE Ages(Append(s, 0)) /\ Len(Append(s, 0)) = Len(s) + 1
  <2>1. s \in Seq(0..Window) /\ Len(s) \in Nat /\ 0 \in 0..Window
    BY <1>1, <1>8 DEF Ages
  <2> DEFINE a == Append(s, 0)
  <2>2. /\ a \in Seq(0..Window) /\ Len(a) = Len(s) + 1 /\ a[Len(s) + 1] = 0
        /\ \A i \in 1..Len(s) : a[i] = s[i] /\ s[i] \in Nat
    BY <1>8, <2>1, AgesFacts, AppendProperties
  <2> HIDE DEF a
  <2>3. ASSUME NEW i \in 1..Len(a), NEW j \in 1..Len(a), i <= j PROVE a[i] >= a[j]
    <3>1. CASE j = Len(s) + 1
      BY <2>1, <2>2, <3>1
    <3>2. CASE j # Len(s) + 1
      <4>1. i \in 1..Len(s) /\ j \in 1..Len(s)
        BY <2>1, <2>2, <2>3, <3>2
      <4> QED BY <1>8, <2>2, <2>3, <4>1 DEF Ages
    <3> QED BY <3>1, <3>2
  <2> QED BY <2>2, <2>3 DEF Ages, a
<1>9. Ages(sent)' /\ Ages(passed)' /\ Len(sent') = Len(q) + 1 /\ Len(passed') = Len(passed) + 1
  <2>1. Ages(sent') /\ Ages(passed') /\ Len(sent') = Len(q) + 1 /\ Len(passed') = Len(passed) + 1
    BY <1>4, <1>7, <1>8 DEF LimitOK
  <2> QED BY <2>1 DEF Ages
<1>10. ASSUME NEW i \in 1..Len(passed')
       PROVE  passed'[i] = sent'[Len(sent') - Len(passed') + i] /\ passed'[i] < Window
  <2>1. CASE i = Len(passed) + 1
    BY <1>1, <1>5, <1>6, <1>7, <1>9, <2>1
  <2>2. CASE i # Len(passed) + 1
    <3>1. i \in 1..Len(passed) /\ i \in 1..Len(q) /\ Len(sent') - Len(passed') + i = i
      BY <1>1, <1>6, <1>9, <2>2
    <3>2. passed'[i] = passed[i] /\ sent'[i] = q[i]
      BY <1>1, <1>5, <1>7, <3>1
    <3>3. passed[i] = sent[Len(sent) - Len(passed) + i] /\ passed[i] < Window
      BY <3>1 DEF LimitOK, EndOf
    <3>4. Len(sent) - Len(passed) + i = f + i - 1
      <4>1. Len(passed) = Len(sent) - f + 1
        BY <1>4, <1>6
      <4>2. f \in Int
        BY <1>1
      <4>3. i \in Int
        BY <1>1, <3>1
      <4> QED BY <1>1, <4>1, <4>2, <4>3
    <3> QED BY <1>4, <3>1, <3>2, <3>3, <3>4
  <2> QED BY <2>1, <2>2
<1>11. EndOf(sent', passed')
  BY <1>1, <1>6, <1>9, <1>10 DEF EndOf
<1>12. Len(passed') <= PerSecond
  BY <1>1, <1>2, <1>9
<1> QED BY <1>9, <1>11, <1>12 DEF LimitOK, EndOf

(* Time passes: all ages grow, and some of those that counted expire.      *)
LEMMA TickLimit ==
  ASSUME LimitOK, tick PROVE LimitOK'
<1>1. /\ Window \in Nat \ {0} /\ PerSecond \in Nat \ {0} /\ Len(sent) \in Nat /\ Len(passed) \in Nat
      /\ sent \in Seq(0..Window) /\ passed \in Seq(0..Window) /\ Len(passed) <= Len(sent)
      /\ Len(passed) <= PerSecond
  BY StackAssumption DEF LimitOK, Ages, EndOf
<1>2. ASSUME NEW s, Ages(s), NEW o, o = [i \in DOMAIN s |-> Older(s[i])]
      PROVE  Ages(o) /\ Len(o) = Len(s) /\ \A i \in 1..Len(s) : o[i] = Older(s[i])
  <2>1. s \in Seq(0..Window) /\ Len(s) \in Nat /\ DOMAIN s = 1..Len(s)
    BY <1>2 DEF Ages
  <2>2. \A i \in 1..Len(s) : Older(s[i]) \in 0..Window
    BY <1>1, <2>1 DEF Older
  <2>3. o \in Seq(0..Window) /\ Len(o) = Len(s) /\ \A i \in 1..Len(s) : o[i] = Older(s[i])
    BY <1>2, <2>1, <2>2
  <2>4. ASSUME NEW i \in 1..Len(s), NEW j \in 1..Len(s), i <= j PROVE o[i] >= o[j]
    <3>1. s[i] >= s[j] /\ s[i] \in 0..Window /\ s[j] \in 0..Window
      BY <1>2, <2>4, AgesFacts DEF Ages
    <3>2. /\ o[i] = IF s[i] < Window THEN s[i] + 1 ELSE Window
          /\ o[j] = IF s[j] < Window THEN s[j] + 1 ELSE Window
      BY <2>3 DEF Older
    <3> QED BY <1>1, <3>1, <3>2
  <2> QED BY <2>3, <2>4 DEF Ages
<1> DEFINE o == [i \in DOMAIN passed |-> Older(passed[i])]
<1>3. /\ Ages(sent') /\ Len(sent') = Len(sent) /\ \A i \in 1..Len(sent) : sent'[i] = Older(sent[i])
      /\ Ages(o) /\ Len(o) = Len(passed) /\ \A i \in 1..Len(passed) : o[i] = Older(passed[i])
      /\ passed' = pop_expired(o)
  BY <1>2 DEF LimitOK, tick
<1> HIDE DEF o
<1>4. PICK f \in 1..(Len(o) + 1) :
        /\ pop_expired(o) = SubSeq(o, f, Len(o))
        /\ \A j \in 1..(f - 1) : o[j] = Window
        /\ \A j \in f..Len(o) : o[j] < Window
  BY <1>3, PopExpired
<1>5. /\ Ages(passed') /\ Len(passed') = Len(passed) - f + 1
      /\ \A i \in 1..Len(passed') : passed'[i] = o[f + i - 1]
  <2>1. passed' = SubSeq(o, f, Len(o))
    BY <1>3, <1>4
  <2>2. /\ Ages(passed') /\ Len(passed') = Len(o) - f + 1
        /\ \A i \in 1..Len(passed') : passed'[i] = o[f + i - 1]
    <3>1. \A q : q = SubSeq(o, f, Len(o)) =>
            /\ Ages(q) /\ Len(q) = Len(o) - f + 1
            /\ \A i \in 1..Len(q) : q[i] = o[f + i - 1]
      BY <1>3, SuffixAges
    <3> QED BY <2>1, <3>1
  <2> QED BY <1>3, <2>2
<1>6. f \in Nat /\ f >= 1 /\ f <= Len(passed) + 1
  BY <1>1, <1>3, <1>4
<1>7. \A i \in 1..Len(passed) : o[i] = sent'[Len(sent) - Len(passed) + i]
  <2> SUFFICES ASSUME NEW i \in 1..Len(passed) PROVE o[i] = sent'[Len(sent) - Len(passed) + i]
    OBVIOUS
  <2>1. passed[i] = sent[Len(sent) - Len(passed) + i] /\ Len(sent) - Len(passed) + i \in 1..Len(sent)
    BY <1>1 DEF LimitOK, EndOf
  <2> QED BY <1>3, <2>1
<1>8. ASSUME NEW i \in 1..Len(passed')
      PROVE  passed'[i] = sent'[Len(sent') - Len(passed') + i] /\ passed'[i] < Window
  <2>1. /\ f + i - 1 \in 1..Len(passed) /\ f + i - 1 \in f..Len(o)
        /\ Len(sent) - Len(passed) + (f + i - 1) = Len(sent') - Len(passed') + i
    BY <1>1, <1>3, <1>5, <1>6
  <2> QED BY <1>4, <1>5, <1>7, <2>1
<1>9. ASSUME NEW i \in 1..(Len(sent') - Len(passed')) PROVE sent'[i] = Window
  <2>1. CASE i <= Len(sent) - Len(passed)
    <3>1. i \in 1..(Len(sent) - Len(passed)) /\ i \in 1..Len(sent)
      BY <1>1, <1>3, <2>1
    <3>2. sent[i] = Window
      BY <3>1 DEF LimitOK, EndOf
    <3> QED BY <1>1, <1>3, <3>1, <3>2 DEF Older
  <2>2. CASE i > Len(sent) - Len(passed)
    <3> DEFINE j == i - (Len(sent) - Len(passed))
    <3>1. j \in 1..Len(passed) /\ j \in 1..(f - 1) /\ Len(sent) - Len(passed) + j = i
      BY <1>1, <1>3, <1>5, <1>6, <2>2
    <3> QED BY <1>4, <1>7, <3>1
  <2> QED BY <1>1, <1>3, <2>1, <2>2
<1>10. Len(passed') \in Nat /\ Len(passed') <= Len(sent') /\ Len(passed') <= PerSecond
  BY <1>1, <1>3, <1>5, <1>6
<1>11. EndOf(sent', passed')
  BY <1>8, <1>9, <1>10 DEF EndOf
<1> QED BY <1>3, <1>5, <1>10, <1>11 DEF LimitOK, EndOf, Ages

(* The cap holds in every window of every length, for every cap, however   *)
(* late a waiting call wakes up: the limit forgets only what has left the  *)
(* window, and looks at the one submission that decides.                   *)
THEOREM CapHolds == Spec => []RateCap
<1>1. Init => LimitOK
  BY StackAssumption DEF Init, LimitOK, Ages, EndOf
<1>2. LimitOK /\ [Next]_vars => LimitOK'
  <2> SUFFICES ASSUME LimitOK, [Next]_vars PROVE LimitOK'
    OBVIOUS
  <2>1. CASE let_through
    BY <2>1, LetThrough
  <2>2. CASE tick
    BY <2>2, TickLimit
  <2>3. CASE UNCHANGED limit
    BY <2>3 DEF limit, LimitOK, Ages, EndOf
  <2>4. let_through \/ tick \/ UNCHANGED limit
    BY DEF Next, Stack, gated_off, rejected, admitted, expired, submit, submitted, back_off,
           failed, retry, reset, flip, vars
  <2> QED BY <2>1, <2>2, <2>3, <2>4
<1>3. LimitOK => RateCap
  BY DEF LimitOK, RateCap
<1> QED
  BY <1>1, <1>2, <1>3, PTL DEF Spec
=============================================================================
