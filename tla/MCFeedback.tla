----------------------------- MODULE MCFeedback -----------------------------
EXTENDS Feedback

ThreeComposites ==
  {[by |-> "chain", of |-> <<"log", "block">>],
   [by |-> "merge", of |-> <<"log", "mempool">>],
   [by |-> "fallback", of |-> <<"block", "mempool">>]}
=============================================================================
