---------------------------- MODULE DurablePrefix ----------------------------
(***************************************************************************)
(* What the Persisted Collector promises of its Store, without saying how: *)
(* the table is a gap-free copy of a final prefix of the canonical chain.  *)
(* The chain moves on its own; the only other step commits the next height *)
(* that holds events, once it is final, with exactly the events the chain  *)
(* holds there.                                                            *)
(***************************************************************************)
EXTENDS Integers, Sequences

CONSTANTS
  Heights,      \* the heights blocks may have
  FinalDepth,   \* a block buried this deep under the peak is final
  StartBlock    \* the first height that must be covered

VARIABLES
  chain,     \* the canonical fork: the events of the block at each height
  peak,      \* the highest block there has been
  table,     \* the events stored under each height
  progress   \* the highest height committed, or -1

vars == <<chain, peak, table, progress>>

Final(h) == h <= peak - FinalDepth

Init ==
  /\ DOMAIN chain \subseteq Heights
  /\ peak \in Heights
  /\ table = [h \in Heights |-> <<>>]
  /\ progress = -1

(* Blocks are added, or replaced above the final ones.                     *)
ChainMoves ==
  /\ DOMAIN chain' \subseteq Heights
  /\ peak' \in Heights /\ peak' >= peak
  /\ \A h \in DOMAIN chain \cup DOMAIN chain' :
       Final(h) => h \in DOMAIN chain /\ h \in DOMAIN chain' /\ chain'[h] = chain[h]
  /\ UNCHANGED <<table, progress>>

(* Height h is committed: final, above everything committed, and with no   *)
(* uncommitted event below it.                                             *)
Commit(h) ==
  /\ h \in DOMAIN chain /\ h > progress /\ Final(h)
  /\ \A g \in DOMAIN chain : progress < g /\ StartBlock <= g /\ g < h => chain[g] = <<>>
  /\ table' = [table EXCEPT ![h] = chain[h]]
  /\ progress' = h
  /\ UNCHANGED <<chain, peak>>

Next == ChainMoves \/ \E h \in Heights : Commit(h)

Spec == Init /\ [][Next]_vars

-----------------------------------------------------------------------------
(* Every stored height holds exactly the canonical events of that height,  *)
(* every height from StartBlock up to the stored position is stored, and   *)
(* nothing is stored above it.                                             *)
StoredIsCanonical ==
  \A h \in Heights :
    /\ h > progress => table[h] = <<>>
    /\ h <= progress /\ h \in DOMAIN chain =>
         \/ table[h] = chain[h]
         \/ h < StartBlock /\ table[h] = <<>>
=============================================================================
