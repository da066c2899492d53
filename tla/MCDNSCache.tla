----------------------------- MODULE MCDNSCache -----------------------------
(* The cache with the order of last use recorded beside it: a stamp for    *)
(* every hit and every store, independent of the OrderedDict.              *)
EXTENDS DNSCache

CONSTANT MaxUses  \* bound of the model on hits and stores

VARIABLES lastUse, uses

usedCacheVars == <<cacheVars, lastUse, uses>>

Used(d) ==
    /\ uses < MaxUses
    /\ uses' = uses + 1
    /\ lastUse' = [lastUse EXCEPT ![d] = uses + 1]

UsedCacheInit == CacheInit /\ uses = 0 /\ lastUse = [d \in Domains |-> 0]

UsedCacheNext ==
    \/ \E d \in Domains : LookupHits(d) /\ Used(d)
    \/ \E d \in Domains :
          misses < MaxUses /\ LookupMisses(d) /\ UNCHANGED <<lastUse, uses>>
    \/ \E d \in Domains, r \in Responses : Store(d, r) /\ Used(d)
    \/ ClearCache /\ UNCHANGED <<lastUse, uses>>
    \/ RemoveExpired /\ UNCHANGED <<lastUse, uses>>
    \/ CacheTick /\ UNCHANGED <<lastUse, uses>>

UsedCacheSpec == UsedCacheInit /\ [][UsedCacheNext]_usedCacheVars

\* cache.py, "automatic eviction": a store takes out at most one other entry,
\* only from a full cache, and then the one unused for longest.
EvictsLeastRecentlyUsed ==
    [][uses' = uses + 1 =>
          \A d \in Cached(cache) \ Cached(cache') :
             /\ Cardinality(Cached(cache)) = Capacity
             /\ \A e \in Cached(cache) : e # d => lastUse[e] > lastUse[d]
             /\ Cached(cache) \ {d} \subseteq Cached(cache')
      ]_usedCacheVars
=============================================================================
