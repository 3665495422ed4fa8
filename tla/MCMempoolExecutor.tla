-------------------------- MODULE MCMempoolExecutor --------------------------
(* MempoolExecutor with a few fee suggestions and bids.                     *)
EXTENDS MempoolExecutor

(* A usual suggestion, and one whose tip is above its own maximum.          *)
Usual == {[max_fee |-> 37, priority |-> 12], [max_fee |-> 11, priority |-> 15]}

(* No bid, half the profit, all of it, and more than all of it.             *)
SomeBids == {NoBid, [profit |-> 500, percentage |-> 50],
             [profit |-> 250, percentage |-> 100], [profit |-> 250, percentage |-> 101]}

(* The prices these make leave room for every escalation.                   *)
ASSUME RoomAssumption == HasRoom([n \in 0..MaxReplacements |-> 40 + 5 * n])
=============================================================================
