------------------------------ MODULE DNSCache ------------------------------
(***************************************************************************)
(* dns_engine/cache.py: responses by domain, in an OrderedDict whose order *)
(* is the order of last use.  Only the DNS thread looks up and stores; the *)
(* cache has no lock.                                                      *)
(***************************************************************************)
EXTENDS Integers, Sequences, FiniteSets, Subsequences

CONSTANTS
    Domains,    \* domain names, as the parser normalises them
    Responses,  \* responses
    NoEntry,    \* a domain that is not cached
    TTL,        \* DEFAULT_TTL, in clock units
    Capacity,   \* MAX_CACHE_SIZE
    LastClock   \* bound of the model on the clock

ASSUME CacheAssumption ==
    /\ TTL \in Nat \ {0}
    /\ Capacity \in Nat \ {0}
    /\ LastClock \in Nat
    /\ NoEntry \notin [response : Responses, expires : Nat]

VARIABLES
    cache,   \* the entries and their order, least recently used first
    hits,    \* self.hits
    misses,  \* self.misses
    clock    \* time()

cacheVars == <<cache, hits, misses, clock>>

Entry == [response : Responses, expires : Nat]

EmptyCache == [entry |-> [d \in Domains |-> NoEntry], order |-> <<>>]

\* expired(): the boundary belongs to the expired side.
Stale(e, t) == t >= e.expires

Cached(c) == {d \in Domains : c.entry[d] # NoEntry}

Without(order, d) == Picked(order, {i \in DOMAIN order : order[i] # d})

Deleted(c, d) ==
    [entry |-> [c.entry EXCEPT ![d] = NoEntry], order |-> Without(c.order, d)]

\* Faulty variant: a use does not renew an entry's place in the order.
NotMovedToEnd(c, d) ==
    IF d \in {c.order[i] : i \in DOMAIN c.order}
    THEN c
    ELSE [c EXCEPT !.order = Append(c.order, d)]

\* move_to_end
MovedToEnd(c, d) == [c EXCEPT !.order = Append(Without(c.order, d), d)]

\* popitem(last=False) while the cache is too large: at most once, since one
\* entry was added.
Trimmed(c) ==
    IF Len(c.order) > Capacity THEN Deleted(c, Head(c.order)) ELSE c

IsHit(c, d, t) == c.entry[d] # NoEntry /\ ~Stale(c.entry[d], t)

\* Faulty variant: the time to live is added to what is left of the old one.
StoredLonger(c, d, r, t) ==
    LET from == IF IsHit(c, d, t) THEN c.entry[d].expires ELSE t
    IN  Trimmed(MovedToEnd([c EXCEPT !.entry[d] =
                               [response |-> r, expires |-> from + TTL]], d))

Stored(c, d, r, t) ==
    Trimmed(MovedToEnd([c EXCEPT !.entry[d] =
                           [response |-> r, expires |-> t + TTL]], d))

-----------------------------------------------------------------------------

LookupHits(d) ==
    /\ IsHit(cache, d, clock)
    /\ cache' = MovedToEnd(cache, d)
    /\ hits' = hits + 1
    /\ UNCHANGED <<misses, clock>>

\* A miss deletes the entry if there is an expired one.
LookupMisses(d) ==
    /\ ~IsHit(cache, d, clock)
    /\ cache' = IF cache.entry[d] = NoEntry THEN cache ELSE Deleted(cache, d)
    /\ misses' = misses + 1
    /\ UNCHANGED <<hits, clock>>

Store(d, r) ==
    /\ cache' = Stored(cache, d, r, clock)
    /\ UNCHANGED <<hits, misses, clock>>

ClearCache ==
    /\ cache' = EmptyCache
    /\ hits' = 0 /\ misses' = 0
    /\ UNCHANGED clock

RemoveExpired ==
    LET old == {d \in Cached(cache) : Stale(cache.entry[d], clock)} IN
    /\ cache' = [entry |-> [d \in Domains |-> IF d \in old THEN NoEntry
                                                           ELSE cache.entry[d]],
                 order |-> Picked(cache.order, {i \in DOMAIN cache.order :
                                                   cache.order[i] \notin old})]
    /\ UNCHANGED <<hits, misses, clock>>

CacheTick ==
    /\ clock < LastClock
    /\ clock' = clock + 1
    /\ UNCHANGED <<cache, hits, misses>>

CacheInit ==
    /\ cache = EmptyCache
    /\ hits = 0 /\ misses = 0
    /\ clock = 0

CacheNext ==
    \/ \E d \in Domains : LookupHits(d) \/ LookupMisses(d)
    \/ \E d \in Domains, r \in Responses : Store(d, r)
    \/ ClearCache
    \/ RemoveExpired
    \/ CacheTick

CacheSpec == CacheInit /\ [][CacheNext]_cacheVars

-----------------------------------------------------------------------------
(* Properties.                                                             *)

\* The cache is within its bound, and the order lists every cached domain once
\* and nothing else: eviction always finds an entry to evict, and no entry
\* escapes it.
CacheTypeOK ==
    /\ cache.entry \in [Domains -> Entry \cup {NoEntry}]
    /\ cache.order \in Seq(Domains) /\ Len(cache.order) <= Capacity
    /\ Cached(cache) = {cache.order[i] : i \in DOMAIN cache.order}
    /\ \A i, j \in DOMAIN cache.order :
          cache.order[i] = cache.order[j] => i = j
    /\ hits \in Nat /\ misses \in Nat /\ clock \in Nat

\* No entry outlives its time to live by being used or stored again around the
\* time it expires.
NeverBeyondTTL ==
    \A d \in Cached(cache) : cache.entry[d].expires <= clock + TTL
=============================================================================
