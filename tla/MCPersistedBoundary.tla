------------------------- MODULE MCPersistedBoundary -------------------------
EXTENDS PersistedBoundary

CONSTANTS a, b

AtMostOne == {<<>>, <<a>>}
=============================================================================
