--------------------------- MODULE MCCacheProgress ---------------------------
EXTENDS CacheProgress
MCOne == [c \in Caches |-> 1]
MCReads == [c \in Caches |-> IF c = "L2C" THEN 3 ELSE 1]
MCL2Two == [c \in Caches |-> IF c = "L2C" THEN 2 ELSE 1]
MCL1DTwo == [c \in Caches |-> IF c = "L1D" THEN 2 ELSE 1]
\* Block b is code and data, block d is data and prefetched, into L1D or into L2C only.
MCCode == {"b"}
MCData == {"b", "d"}
MCPrefetches == {[cache |-> "L1D", addr |-> "d", level |-> 1],
                 [cache |-> "L1D", addr |-> "d", level |-> 2]}
\* Block b alone, which L1D also prefetches.
MCSharedPrefetch == {[cache |-> "L1D", addr |-> "b", level |-> 1]}
=============================================================================
