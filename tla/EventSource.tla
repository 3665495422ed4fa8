----------------------------- MODULE EventSource -----------------------------
(***************************************************************************)
(* The chain an EventCollector reads (src/collectors/event_collector.rs):  *)
(* the node behind the provider is external, and is modelled by what the   *)
(* collector gets from it.  A live subscription delivers the logs of every *)
(* new block in order and, when a fork replaces blocks, the logs of the    *)
(* replaced blocks again, marked removed, before the logs of the new ones. *)
(*                                                                         *)
(* chain[h] is the sequence of matching events in the block at height h of *)
(* the canonical fork.  A block buried Depth deep under the highest block  *)
(* ever seen is final unless DeepReorgs allows otherwise.                  *)
(***************************************************************************)
EXTENDS Integers, Sequences, FiniteSets

CONSTANTS
  Contents,    \* what a block may hold: a set of sequences of rows
  MaxHeight,   \* bound: height of the chain
  MaxReorgs,   \* bound: number of reorgs
  FinalDepth,  \* no reorg replaces a block buried this deep ...
  DeepReorgs   \* ... unless this is TRUE

ASSUME SourceAssumption ==
  /\ MaxHeight \in Nat /\ MaxReorgs \in Nat /\ FinalDepth \in Nat
  /\ DeepReorgs \in BOOLEAN

VARIABLES
  chain,     \* the canonical fork, heights 0..Top
  peak,      \* the highest block there has been on any canonical fork
  reorgs,    \* reorgs so far
  deep,      \* history: one of them replaced a block buried FinalDepth deep
  attached,  \* a live subscription is open
  live       \* what it has delivered and nobody has polled yet

sourceVars == <<chain, peak, reorgs, deep, attached, live>>

Heights == 0..MaxHeight
Top == Cardinality(DOMAIN chain) - 1

(* live_item: what becomes of the log of row r in the block at height h.   *)
(* A removed log says where, not what.  (A log without a block number is   *)
(* skipped; here every log has one.)                                       *)
live_item(removed, h, r) ==
  IF removed THEN [kind |-> "Retract", key |-> h]
             ELSE [kind |-> "Event", key |-> h, row |-> r]

(* The items of one block.                                                 *)
BlockItems(removed, h, rows) == [i \in DOMAIN rows |-> live_item(removed, h, rows[i])]

(* The items of heights from..to of a fork, in order.                      *)
Items(removed, fork, from, to) ==
  LET upTo[h \in (from - 1)..to] ==
        IF h < from THEN <<>>
        ELSE upTo[h - 1] \o (IF h \in DOMAIN fork THEN BlockItems(removed, h, fork[h]) ELSE <<>>)
  IN  IF to < from THEN <<>> ELSE upTo[to]

Reversed(s) == [i \in 1..Len(s) |-> s[Len(s) + 1 - i]]

SourceInit ==
  /\ \E c \in Contents : chain = [h \in {0} |-> c]
  /\ peak = 0
  /\ reorgs = 0 /\ deep = FALSE
  /\ attached = FALSE
  /\ live = <<>>

Deliver(items) == live' = IF attached THEN live \o items ELSE live

(* A block is added on top of the chain.                                   *)
mine ==
  /\ Top < MaxHeight
  /\ \E c \in Contents :
       /\ chain' = [h \in 0..(Top + 1) |-> IF h = Top + 1 THEN c ELSE chain[h]]
       /\ Deliver(BlockItems(FALSE, Top + 1, c))
  /\ peak' = IF Top + 1 > peak THEN Top + 1 ELSE peak
  /\ UNCHANGED <<reorgs, deep, attached>>

(* A fork replaces the blocks from height fork upwards, in either order of *)
(* removed logs; the new fork may be shorter until it is extended.         *)
reorg ==
  /\ reorgs < MaxReorgs
  /\ \E fork \in 1..Top : \E top \in fork..Top : \E c \in [fork..top -> Contents] :
       /\ DeepReorgs \/ fork > peak - FinalDepth
       /\ deep' = (deep \/ fork <= peak - FinalDepth)
       /\ chain' = [h \in 0..top |-> IF h < fork THEN chain[h] ELSE c[h]]
       /\ LET removed == Items(TRUE, chain, fork, Top)
              added   == Items(FALSE, c, fork, top)
          IN  \E r \in {removed, Reversed(removed)} : Deliver(r \o added)
  /\ reorgs' = reorgs + 1
  /\ UNCHANGED <<peak, attached>>

(* subscribe_indexed: from here on the source buffers what it delivers.    *)
subscribe_indexed ==
  /\ attached' = TRUE
  /\ live' = <<>>
  /\ UNCHANGED <<chain, peak, reorgs, deep>>

(* The subscription and what it buffered are dropped.                      *)
detach ==
  /\ attached' = FALSE
  /\ live' = <<>>
  /\ UNCHANGED <<chain, peak, reorgs, deep>>

(* next of the live stream.                                                *)
take_live ==
  /\ live' = Tail(live)
  /\ UNCHANGED <<chain, peak, reorgs, deep, attached>>

(* query_range over the canonical fork of this moment.                     *)
query_range(from, to) == Items(FALSE, chain, from, to)
=============================================================================
