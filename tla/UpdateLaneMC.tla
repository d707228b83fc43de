---------------------------- MODULE UpdateLaneMC ----------------------------
\* UpdateLane for model checking.
EXTENDS UpdateLane

\* One lane in depth, with updates of no plans or of three, and two lanes that
\* share the flush budget.
MCLimits ==
  {[lanes |-> 1, generations |-> 4, plans |-> {0, 3}],
   [lanes |-> 2, generations |-> 3, plans |-> {1}]}
=============================================================================
