----------------------------- MODULE BlockWriter -----------------------------
(***************************************************************************)
(* The writer of the settled part of the backfill                          *)
(* (src/persistence/writer/block.rs) for block positions.  It holds one    *)
(* open group and writes it when a higher key arrives, or at the end of    *)
(* the backfill.  Each operation makes at most one Store write.            *)
(***************************************************************************)
EXTENDS GapFreeWriter

VARIABLES
  settling,   \* core.healthy of this writer
  current,    \* the open group's key, or None
  buffer,     \* the open group's rows
  watermark   \* what this writer knows to be stored, folded over its seed

blockVars == <<settling, current, buffer, watermark>>

new(seed) ==
  /\ settling' = TRUE
  /\ current' = None
  /\ buffer' = <<>>
  /\ watermark' = seed

(* fail, with the open group's rows dropped.                               *)
halt ==
  /\ settling' = FALSE
  /\ buffer' = <<>>
  /\ UNCHANGED <<current, watermark>>

record(key, row) ==
  \/ ~settling /\ UNCHANGED <<blockVars, storeVars>>
  \/ settling /\ ~encodes(row) /\ halt /\ UNCHANGED storeVars
  \/ settling /\ encodes(row) /\ key < current /\ halt /\ UNCHANGED storeVars
  \/ /\ settling /\ encodes(row) /\ (current = None \/ key = current)
     /\ current' = key
     /\ buffer' = Append(buffer, row)
     /\ UNCHANGED <<settling, watermark, storeVars>>
  \/ /\ settling /\ encodes(row) /\ current # None /\ key > current
     /\ \/ /\ write(current, buffer)
           /\ watermark' = advance(watermark, current)
           /\ current' = key
           /\ buffer' = <<row>>
           /\ UNCHANGED settling
        \/ /\ failed_write(current, buffer)
           /\ settling' = FALSE
           /\ current' = None
           /\ buffer' = <<>>
           /\ UNCHANGED watermark

(* finish: the trailing group is complete because the range is.            *)
finish ==
  \/ (~settling \/ current = None) /\ UNCHANGED <<blockVars, storeVars>>
  \/ /\ settling /\ current # None
     /\ current' = None
     /\ buffer' = <<>>
     /\ \/ /\ write(current, buffer)
           /\ watermark' = advance(watermark, current)
           /\ UNCHANGED settling
        \/ /\ failed_write(current, buffer)
           /\ settling' = FALSE
           /\ UNCHANGED watermark
=============================================================================
