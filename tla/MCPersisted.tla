----------------------------- MODULE MCPersisted -----------------------------
(* Persisted over a small chain: what a block may hold.                     *)
EXTENDS Persisted

CONSTANTS a, b, bad

(* An event or none.                                                        *)
AtMostOne == {<<>>, <<a>>}

(* Empty blocks, blocks with two events, blocks with an event that cannot   *)
(* be encoded.                                                              *)
TwoOrBad == {<<>>, <<a, b>>, <<bad>>}
=============================================================================
