------------------------------- MODULE Pricing -------------------------------
(***************************************************************************)
(* The fee arithmetic of src/executors/pricing.rs: u128 fees 0..MaxFee,    *)
(* integer division, saturation instead of overflow.                       *)
(***************************************************************************)
EXTENDS Integers

CONSTANT MaxFee   \* u128::MAX

ASSUME FeeAssumption == MaxFee \in Nat

Fee == 0..MaxFee
Fees == [max_fee : Fee, priority : Fee]

(* No fees: price_1559 returned an error.                                  *)
Refused == [max_fee |-> -1, priority |-> -1]

(* An action without a GasBidInfo.                                         *)
NoBid == [profit |-> 0, percentage |-> -1]

scale_percent(v, percent) ==
  IF v * percent > MaxFee THEN MaxFee ELSE (v * percent) \div 100

(* The only constructor of Fees.                                           *)
clamped(max_fee, priority) ==
  [max_fee |-> max_fee, priority |-> IF priority < max_fee THEN priority ELSE max_fee]

(* Both fields, by the same factor.  Mutant: the tip is left as it is.     *)
escalate_keeps_tip(fees, percent) ==
  clamped(scale_percent(fees.max_fee, percent), fees.priority)
escalate(fees, percent) ==
  clamped(scale_percent(fees.max_fee, percent), scale_percent(fees.priority, percent))

(* A bid above the whole profit, or one for no gas at all, is refused.     *)
price_1559(est, gas, bump, bid) ==
  LET tip      == scale_percent(est.priority, bump)
      headroom == IF est.max_fee > est.priority THEN est.max_fee - est.priority ELSE 0
      open     == IF headroom + tip > MaxFee THEN MaxFee ELSE headroom + tip
  IN  IF bid = NoBid THEN clamped(open, tip)
      ELSE IF bid.percentage <= 100 /\ gas > 0
        THEN clamped(scale_percent(bid.profit \div gas, bid.percentage), tip)
        ELSE Refused
=============================================================================
