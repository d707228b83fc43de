------------------------- MODULE NativeResourcesMC -------------------------
EXTENDS NativeResources

CONSTANTS chat, data

MCSpecs == {[channel |-> chat, enabled |-> TRUE], [channel |-> chat, enabled |-> FALSE],
            [channel |-> data, enabled |-> TRUE]}
\* Three changes of mind, or two and a renewed authorization.
MCLimits == {[stages |-> 3, grants |-> 1], [stages |-> 2, grants |-> 2]}
MCSize == [k \in (1 .. MaxRevision) \cup {SessionKey} |-> 1]
=============================================================================
