-------------------------- MODULE DNSResolverProofs --------------------------
(***************************************************************************)
(* Proofs about DNSResolver, for any domains, response codes, upstream     *)
(* configurations, size of the cache and time to live: the counters, the   *)
(* upstream that apply_upstream exchanges under a running query, and how   *)
(* long a blocked domain goes on being answered from the cache.            *)
(***************************************************************************)
EXTENDS MCDNSResolver, SequenceTheorems, TLAPS

-----------------------------------------------------------------------------
(* The invariants.                                                         *)

\* The cache holds responses of known codes.
CacheShape ==
    /\ cache = [entry |-> cache.entry, order |-> cache.order]
    /\ cache.entry \in [Domains -> Entry \cup {None}]
    /\ clock \in Nat /\ hits \in Nat /\ misses \in Nat

\* The query at hand, by how far it has come.
QueryShape ==
    /\ query \in [pc : ThreadAt, domain : Domains \cup {None},
                  upstream : Nat \cup {None}, response : Codes \cup {None}]
    /\ query.pc # "idle" => query.domain \in Domains
    /\ query.pc \in {"ask", "asking", "store"} =>
          query.upstream \in DOMAIN upstreams
    /\ query.pc = "store" => query.response \in Codes

Counters == [total : Nat, hits : Nat, misses : Nat, allowed : Nat,
             blocked : Nat, success : Nat, failures : Nat,
             codes : [Codes -> Nat]]

CountersShape == counters \in Counters

Applying == [pc : ApiAt, request : Configuration \cup {None},
             new : Nat \cup {None}, old : Nat \cup {None}]

\* The upstreams that were built, and the ones that apply_upstream works on.
TransportShape ==
    /\ upstreams \in Seq(Upstream) /\ config \in File
    /\ api \in Applying
    /\ IF Running THEN active \in DOMAIN upstreams ELSE active = None
    /\ api.pc \in {"save", "swap", "close"} => api.new \in DOMAIN upstreams
    /\ api.pc = "save" => api.request \in Configuration
    /\ api.pc \in {"save", "swap"} => api.new # active
    /\ api.pc = "close" => api.old \in DOMAIN upstreams \ {active}
    /\ ~Running => query.pc = "idle"

ShapeInv ==
    /\ CacheShape /\ QueryShape /\ CountersShape /\ TransportShape
    /\ blocked \subseteq Domains

\* Which upstreams are open: the active one, the one that is to become active,
\* and the one that is to be closed.
OpenInv ==
    /\ Running => upstreams[active].open
    /\ api.pc \in {"save", "swap"} => upstreams[api.new].open
    /\ Running => \A u \in DOMAIN upstreams \ {active} :
          ~Plain(upstreams[u].config) /\ upstreams[u].open =>
             \/ api.pc \in {"save", "swap"} /\ u = api.new
             \/ api.pc = "close" /\ u = api.old

\* The file names the active upstream, or the one about to become active; the
\* one that is about to be saved is the one that was asked for.
ConfigInv ==
    /\ Running /\ api.pc # "swap" =>
          SameUpstream(upstreams[active].config, config)
    /\ api.pc = "save" => upstreams[api.new].config = Built(api.request)
    /\ api.pc = "swap" => SameUpstream(upstreams[api.new].config, config)

\* A domain that is open was so at this moment; and no entry is good for longer
\* than one time to live from the moment at which its domain was last open.
TTLInv ==
    /\ lastOpen \in [Domains -> Nat]
    /\ \A d \in Domains :
          /\ lastOpen[d] <= clock
          /\ Open(d) => lastOpen[d] = clock
          /\ cache.entry[d] # None =>
                cache.entry[d].expires <= lastOpen[d] + TTL

-----------------------------------------------------------------------------
(* The cache.                                                              *)

\* What the operations on the cache leave in its dictionary.
LEMMA CacheOps ==
    ASSUME NEW c, c = [entry |-> c.entry, order |-> c.order],
           c.entry \in [Domains -> Entry \cup {None}], NEW d \in Domains
    PROVE  /\ LET n == Deleted(c, d)
              IN  /\ n = [entry |-> n.entry, order |-> n.order]
                  /\ n.entry \in [Domains -> Entry \cup {None}]
                  /\ \A x \in Domains : n.entry[x] \in {c.entry[x], None}
           /\ LET n == MovedToEnd(c, d)
              IN  /\ n = [entry |-> n.entry, order |-> n.order]
                  /\ n.entry = c.entry
           /\ \A r \in Codes, t \in Nat :
              LET n == Stored(c, d, r, t)
              IN  /\ n = [entry |-> n.entry, order |-> n.order]
                  /\ n.entry \in [Domains -> Entry \cup {None}]
                  /\ \A x \in Domains \ {d} : n.entry[x] \in {c.entry[x], None}
                  /\ n.entry[d] \in {[response |-> r, expires |-> t + TTL], None}
<1>1. ASSUME NEW b, b = [entry |-> b.entry, order |-> b.order],
             b.entry \in [Domains -> Entry \cup {None}], NEW y
      PROVE  /\ Deleted(b, y)
                   = [entry |-> Deleted(b, y).entry,
                      order |-> Deleted(b, y).order]
             /\ Deleted(b, y).entry \in [Domains -> Entry \cup {None}]
             /\ \A x \in Domains : Deleted(b, y).entry[x] \in {b.entry[x], None}
  BY <1>1 DEF Deleted
<1>2. ASSUME NEW b, b = [entry |-> b.entry, order |-> b.order]
      PROVE  /\ MovedToEnd(b, d)
                   = [entry |-> MovedToEnd(b, d).entry,
                      order |-> MovedToEnd(b, d).order]
             /\ MovedToEnd(b, d).entry = b.entry
  <2> DEFINE o == Append(Without(b.order, d), d)
  <2>1. MovedToEnd(b, d) = [b EXCEPT !.order = o]
    BY DEF MovedToEnd
  <2> HIDE DEF o
  <2> QED
    BY <1>2, <2>1
<1>3. ASSUME NEW r \in Codes, NEW t \in Nat
      PROVE  LET n == Stored(c, d, r, t)
             IN  /\ n = [entry |-> n.entry, order |-> n.order]
                 /\ n.entry \in [Domains -> Entry \cup {None}]
                 /\ \A x \in Domains \ {d} : n.entry[x] \in {c.entry[x], None}
                 /\ n.entry[d] \in {[response |-> r, expires |-> t + TTL], None}
  <2> DEFINE e == [response |-> r, expires |-> t + TTL]
             b == [c EXCEPT !.entry[d] = e]
             m == MovedToEnd(b, d)
  <2>1. e \in Entry
    BY ResolverAssumption DEF Entry
  <2> HIDE DEF e
  <2>2. /\ b = [entry |-> b.entry, order |-> b.order]
        /\ b.entry = [c.entry EXCEPT ![d] = e]
    OBVIOUS
  <2> HIDE DEF b
  <2>3. m = [entry |-> m.entry, order |-> m.order] /\ m.entry = b.entry
    BY <1>2, <2>2
  <2> HIDE DEF m
  <2>4. /\ m.entry \in [Domains -> Entry \cup {None}]
        /\ m.entry[d] = e /\ \A x \in Domains \ {d} : m.entry[x] = c.entry[x]
    BY <2>1, <2>2, <2>3
  <2>5. Stored(c, d, r, t) = Trimmed(m)
    BY DEF Stored, m, b, e
  <2>6. Trimmed(m) \in {m, Deleted(m, Head(m.order))}
    BY DEF Trimmed
  <2>7. /\ Deleted(m, Head(m.order))
              = [entry |-> Deleted(m, Head(m.order)).entry,
                 order |-> Deleted(m, Head(m.order)).order]
        /\ Deleted(m, Head(m.order)).entry \in [Domains -> Entry \cup {None}]
        /\ \A x \in Domains :
              Deleted(m, Head(m.order)).entry[x] \in {m.entry[x], None}
    BY <1>1, <2>3, <2>4
  <2> QED
    BY <2>3, <2>4, <2>5, <2>6, <2>7 DEF e
<1> QED
  BY <1>1, <1>2, <1>3

\* What each step does to the cache, and that it leaves the cache in shape.
LEMMA CacheStep ==
    ASSUME ShapeInv, [ResolverNext]_resolverVars
    PROVE  /\ CacheShape'
           /\ clock' >= clock
           /\ \A d \in Domains :
                 \/ cache'.entry[d] \in {cache.entry[d], None}
                 \/ /\ StoreAnswer /\ d = query.domain
                    /\ cache'.entry[d].expires = clock + TTL
           /\ hits' > hits => CacheHit
<1> USE DEF ShapeInv, CacheShape
<1>1. CASE UNCHANGED resolverCache
  BY <1>1 DEF resolverCache
<1>2. CASE CacheHit
  <2>1. query.domain \in Domains
    BY <1>2 DEF CacheHit, QueryShape
  <2>2. /\ cache' = MovedToEnd(cache, query.domain)
        /\ hits' = hits + 1 /\ misses' = misses /\ clock' = clock
    BY <1>2 DEF CacheHit, AnswerFound, LookupHits
  <2>3. /\ cache' = [entry |-> cache'.entry, order |-> cache'.order]
        /\ cache'.entry = cache.entry
    BY <2>1, <2>2, CacheOps
  <2> QED
    BY <1>2, <2>2, <2>3
<1>3. CASE CacheMiss
  <2>1. query.domain \in Domains
    BY <1>3 DEF CacheMiss, QueryShape
  <2>2. /\ cache' \in {cache, Deleted(cache, query.domain)}
        /\ misses' = misses + 1 /\ hits' = hits /\ clock' = clock
    BY <1>3 DEF CacheMiss, LookupMisses
  <2>3. LET n == Deleted(cache, query.domain)
        IN  /\ n = [entry |-> n.entry, order |-> n.order]
            /\ n.entry \in [Domains -> Entry \cup {None}]
            /\ \A x \in Domains : n.entry[x] \in {cache.entry[x], None}
    BY <2>1, CacheOps
  <2> QED
    BY <2>2, <2>3
<1>4. CASE StoreAnswer
  <2>1. query.domain \in Domains /\ query.response \in Codes
    BY <1>4 DEF StoreAnswer, QueryShape
  <2>2. /\ cache' = Stored(cache, query.domain, query.response, clock)
        /\ misses' = misses /\ hits' = hits /\ clock' = clock
    BY <1>4 DEF StoreAnswer, Store
  <2>3. LET n == Stored(cache, query.domain, query.response, clock)
        IN  /\ n = [entry |-> n.entry, order |-> n.order]
            /\ n.entry \in [Domains -> Entry \cup {None}]
            /\ \A x \in Domains \ {query.domain} :
                  n.entry[x] \in {cache.entry[x], None}
            /\ n.entry[query.domain]
                  \in {[response |-> query.response,
                        expires |-> clock + TTL], None}
    BY <2>1, CacheOps
  <2> QED
    BY <1>4, <2>1, <2>2, <2>3
<1>5. CASE Tick
  BY <1>5 DEF Tick, CacheTick
<1>6. CASE Crash
  BY <1>6 DEF Crash, EmptyCache
<1> QED
  BY <1>1, <1>2, <1>3, <1>4, <1>5, <1>6
  DEF ResolverNext, ThreadStep, ApplyStep, resolverVars, pipeline,
      Receive, ReceiveMalformed, FilterBlocks, FilterAllows, Capture, Ask,
      UpstreamFails, UpstreamAnswers, ApplyBuild, ApplySave, ApplySaveFails,
      ApplySwap, ApplyClose, Block, Unblock, Boot

-----------------------------------------------------------------------------
(* The shape of the state.                                                 *)

\* The steps of apply_upstream and of the process.
TransportChanges ==
    \/ \E c \in Configs : ApplyBuild(c)
    \/ ApplySave \/ ApplySaveFails \/ ApplySwap \/ ApplyClose
    \/ Crash
    \/ Boot

\* All other steps leave the transport alone, and the query too unless the
\* process runs.
LEMMA OtherSteps ==
    ASSUME [ResolverNext]_resolverVars
    PROVE  \/ TransportChanges
           \/ /\ UNCHANGED transport
              /\ UNCHANGED query \/ Running \/ query.pc # "idle"
<1>1. CASE \/ \E d \in Domains : Receive(d)
           \/ ReceiveMalformed
           \/ ThreadStep
           \/ \E c \in UpstreamCodes : UpstreamAnswers(c)
  BY <1>1
  DEF ThreadStep, pipelineOnly, Receive, ReceiveMalformed, CacheHit, CacheMiss,
      FilterBlocks, FilterAllows, Capture, Ask, UpstreamFails, StoreAnswer,
      UpstreamAnswers
<1>2. CASE \/ \E d \in Domains : Block(d) \/ Unblock(d)
           \/ Tick
           \/ UNCHANGED resolverVars
  BY <1>2 DEF Block, Unblock, Tick, resolverVars, pipeline
<1> QED
  BY <1>1, <1>2 DEF ResolverNext, ApplyStep, TransportChanges

\* What EXCEPT makes of an upstream and of the state of apply_upstream.
LEMMA RecordsChanged ==
    /\ \A r \in Upstream : /\ [config |-> r.config, open |-> FALSE] \in Upstream
                           /\ [r EXCEPT !.open = FALSE]
                                 = [config |-> r.config, open |-> FALSE]
    /\ \A a \in Applying : \A p, o :
          /\ [a EXCEPT !.pc = p] = [pc |-> p, request |-> a.request,
                                   new |-> a.new, old |-> a.old]
          /\ [a EXCEPT !.pc = p, !.old = o]
                = [pc |-> p, request |-> a.request, new |-> a.new, old |-> o]
<1>1. ASSUME NEW r \in Upstream
      PROVE  /\ [config |-> r.config, open |-> FALSE] \in Upstream
             /\ [r EXCEPT !.open = FALSE]
                   = [config |-> r.config, open |-> FALSE]
  <2>1. r = [config |-> r.config, open |-> r.open]
    BY DEF Upstream
  <2>2. \A x : [r EXCEPT !.open = x] = [config |-> r.config, open |-> x]
    BY <2>1
  <2> QED
    BY <2>2 DEF Upstream
<1>2. ASSUME NEW a \in Applying, NEW p, NEW o
      PROVE  /\ [a EXCEPT !.pc = p] = [pc |-> p, request |-> a.request,
                                      new |-> a.new, old |-> a.old]
             /\ [a EXCEPT !.pc = p, !.old = o]
                   = [pc |-> p, request |-> a.request, new |-> a.new, old |-> o]
  <2>1. a = [pc |-> a.pc, request |-> a.request, new |-> a.new, old |-> a.old]
    BY DEF Applying
  <2>2. [a EXCEPT !.pc = p]
           = [pc |-> p, request |-> a.request, new |-> a.new, old |-> a.old]
    BY <2>1
  <2>3. ASSUME NEW b, b = [pc |-> p, request |-> a.request, new |-> a.new,
                           old |-> a.old]
        PROVE  [b EXCEPT !.old = o]
                  = [pc |-> p, request |-> a.request, new |-> a.new, old |-> o]
    BY <2>3
  <2> QED
    BY <2>2, <2>3
<1> QED
  BY <1>1, <1>2

\* What is built of a configuration, what is saved of it, and what is made of a
\* file; and that the last two agree, and the first two.
LEMMA Settings ==
    /\ \A c \in Configuration : /\ Built(c) \in Setting /\ Saved(c) \in File
                               /\ SameUpstream(Built(c), Saved(c))
    /\ \A f \in File : /\ LoadedAtBoot(f) \in Setting
                      /\ SameUpstream(LoadedAtBoot(f), f)
<1>1. ASSUME NEW c \in Configuration
      PROVE  /\ Built(c) \in Setting /\ Saved(c) \in File
             /\ SameUpstream(Built(c), Saved(c))
  <2>1. /\ c.transport \in Transports /\ "udp" \in Transports
        /\ c.sizes \in [Transports -> Nat]
        /\ c.host \in Hosts /\ c.neat \in BOOLEAN
    BY DEF Configuration, Transports
  <2>2. c.sizes[c.transport] \in Nat /\ c.sizes["udp"] \in Nat
    BY <2>1
  <2>3. Built(c) \in Setting
    BY <2>1, <2>2, Zenon DEF Built, Setting
  <2>4. Saved(c) \in File
    BY <2>1, <2>2, Zenon DEF Saved, File
  <2> QED
    BY <2>3, <2>4 DEF Built, Saved, SameUpstream
<1>2. ASSUME NEW f \in File
      PROVE  LoadedAtBoot(f) \in Setting /\ SameUpstream(LoadedAtBoot(f), f)
  BY <1>2 DEF File, Setting, LoadedAtBoot, SameUpstream
<1> QED
  BY <1>1, <1>2

\* Closing an upstream closes that one, if it has a client at all.
LEMMA ClosedOne ==
    ASSUME upstreams \in Seq(Upstream), NEW u \in DOMAIN upstreams
    PROVE  /\ Closed(u) \in Seq(Upstream) /\ DOMAIN Closed(u) = DOMAIN upstreams
           /\ \A v \in DOMAIN upstreams :
                 /\ Closed(u)[v].config = upstreams[v].config
                 /\ v # u => Closed(u)[v] = upstreams[v]
           /\ ~Plain(upstreams[u].config) => ~Closed(u)[u].open
<1> DEFINE e == [config |-> upstreams[u].config, open |-> FALSE]
<1>1. upstreams[u] \in Upstream
  OBVIOUS
<1>2. e \in Upstream /\ [upstreams[u] EXCEPT !.open = FALSE] = e
  BY <1>1, RecordsChanged
<1>3. e.config = upstreams[u].config /\ ~e.open
  OBVIOUS
<1> HIDE DEF e
<1>4. Closed(u) = IF Plain(upstreams[u].config) THEN upstreams
                                                ELSE [upstreams EXCEPT ![u] = e]
  BY <1>2, Zenon DEF Closed
<1> QED
  BY <1>2, <1>3, <1>4, ExceptSeq

\* The upstreams: only ever added to and closed, until the process ends.
LEMMA TransportStep ==
    ASSUME ShapeInv, [ResolverNext]_resolverVars
    PROVE  /\ TransportShape'
           /\ \/ DOMAIN upstreams \subseteq DOMAIN upstreams'
              \/ query'.pc = "idle"
<1>1. TransportShape
  BY DEF ShapeInv
<1>2. upstreams \in Seq(Upstream)
  BY <1>1 DEF TransportShape
<1>3. CASE UNCHANGED transport /\ (UNCHANGED query \/ Running)
  BY <1>1, <1>3 DEF TransportShape, transport, Running
<1>4. ASSUME NEW c \in Configs, ApplyBuild(c)
      PROVE  TransportShape' /\ DOMAIN upstreams \subseteq DOMAIN upstreams'
  <2> DEFINE e == [config |-> Built(c), open |-> TRUE]
  <2>1. c \in Configuration /\ e \in Upstream
    BY Settings, ResolverAssumption DEF Upstream
  <2>2. upstreams' = Append(upstreams, e)
    BY <1>4 DEF ApplyBuild
  <2> HIDE DEF e
  <2>3. upstreams' \in Seq(Upstream) /\ Len(upstreams') = Len(upstreams) + 1
    BY <1>2, <2>1, <2>2
  <2>4. /\ api.pc = "idle" /\ Len(upstreams') \in DOMAIN upstreams'
        /\ DOMAIN upstreams \subseteq DOMAIN upstreams'
        /\ Len(upstreams') \in Nat
    BY <1>2, <1>4, <2>3 DEF ApplyBuild
  <2>5. /\ api' = [pc |-> "save", request |-> c, new |-> Len(upstreams'),
                   old |-> None]
        /\ UNCHANGED <<active, config, query>>
    BY <1>4 DEF ApplyBuild, pipeline
  <2> QED
    BY <1>1, <2>1, <2>3, <2>4, <2>5 DEF TransportShape, Applying, Running, ApiAt
<1>5. ASSUME NEW u \in DOMAIN upstreams
      PROVE  Closed(u) \in Seq(Upstream) /\ DOMAIN Closed(u) = DOMAIN upstreams
  BY <1>2, ClosedOne
<1>6. CASE ApplySave
  <2>1. Saved(api.request) \in File
    BY <1>1, <1>6, Settings DEF ApplySave, TransportShape
  <2>2. /\ api.pc = "save"
        /\ api' = [pc |-> "swap", request |-> api.request, new |-> api.new,
                   old |-> api.old]
        /\ config' = Saved(api.request)
        /\ UNCHANGED <<upstreams, active, query>>
    BY <1>1, <1>6, RecordsChanged
    DEF ApplySave, ApplyGoto, pipeline, TransportShape, Applying, ApiAt
  <2> QED
    BY <1>1, <2>1, <2>2 DEF TransportShape, Applying, Running, ApiAt
<1>7. ASSUME NEW u \in DOMAIN upstreams, Running,
             upstreams' = Closed(u), api' = NoApply,
             UNCHANGED <<active, config, query>>
      PROVE  TransportShape' /\ DOMAIN upstreams \subseteq DOMAIN upstreams'
  BY <1>1, <1>5, <1>7 DEF TransportShape, Applying, Running, ApiAt, NoApply
<1>8. CASE ApplySaveFails
  BY <1>1, <1>7, <1>8
  DEF ApplySaveFails, SaveFailedClosed, pipeline, TransportShape, Applying, Running
<1>9. CASE ApplySwap
  <2>1. /\ api.pc = "swap" /\ active' = api.new /\ active \in DOMAIN upstreams
        /\ active \in Nat /\ api \in Applying
        /\ UNCHANGED <<upstreams, config, query>>
    BY <1>1, <1>2, <1>9 DEF ApplySwap, pipeline, TransportShape, Running
  <2>2. api' = [api EXCEPT !.pc = "close", !.old = active]
    BY <1>9 DEF ApplySwap, Replaced
  <2>3. api' = [pc |-> "close", request |-> api.request, new |-> api.new,
                old |-> active]
    BY <2>1, <2>2, RecordsChanged, Zenon
  <2> QED
    BY <1>1, <2>1, <2>3 DEF TransportShape, Applying, Running, ApiAt
<1>10. CASE ApplyClose
  BY <1>1, <1>7, <1>10 DEF ApplyClose, pipeline, TransportShape, Applying, Running
<1>11. CASE Crash
  BY <1>1, <1>11 DEF Crash, TransportShape, Applying, Running, ApiAt, NoApply, NoQuery
<1>12. CASE Boot
  <2> DEFINE e == [config |-> LoadedAtBoot(config), open |-> TRUE]
  <2>1. e \in Upstream
    BY <1>1, Settings DEF TransportShape, Upstream
  <2>2. api.pc = "down" /\ UNCHANGED <<config, query>>
    BY <1>12 DEF Boot, pipeline
  <2>3. CASE Loadable(config)
    <3>1. /\ upstreams' = <<e>> /\ active' = 1
          /\ api' = [pc |-> "idle", request |-> None, new |-> None, old |-> None]
      BY <1>12, <2>3 DEF Boot, NoApply
    <3> HIDE DEF e
    <3>2. upstreams' \in Seq(Upstream) /\ 1 \in DOMAIN upstreams'
      BY <2>1, <3>1
    <3> QED
      BY <1>1, <2>2, <3>1, <3>2 DEF TransportShape, Applying, Running, ApiAt
  <2>4. CASE ~Loadable(config)
    <3>1. /\ UNCHANGED <<upstreams, active>>
          /\ api' = [pc |-> "failed", request |-> None, new |-> None,
                     old |-> None]
      BY <1>12, <2>4 DEF Boot, NoApply
    <3> QED
      BY <1>1, <2>2, <3>1 DEF TransportShape, Applying, Running, ApiAt
  <2> QED
    BY <1>1, <2>2, <2>3, <2>4 DEF TransportShape, Running
<1>13. query.pc # "idle" => Running
  BY <1>1 DEF TransportShape
<1> QED
  BY <1>3, <1>4, <1>6, <1>8, <1>9, <1>10, <1>11, <1>12, <1>13, OtherSteps
  DEF TransportChanges

-----------------------------------------------------------------------------
(* What is open, and what the file says.                                   *)

\* The steps of apply_upstream and of the process keep OpenInv and ConfigInv.
LEMMA OpenStep ==
    ASSUME ShapeInv, OpenInv, ConfigInv, [ResolverNext]_resolverVars
    PROVE  OpenInv' /\ ConfigInv'
<1>1. /\ upstreams \in Seq(Upstream)
      /\ api \in Applying
      /\ IF Running THEN active \in DOMAIN upstreams ELSE active = None
      /\ api.pc \in {"save", "swap", "close"} => api.new \in DOMAIN upstreams
      /\ api.pc = "save" => api.request \in Configuration
      /\ api.pc \in {"save", "swap"} => api.new # active
      /\ api.pc = "close" => api.old \in DOMAIN upstreams \ {active}
      /\ config \in File
  BY DEF ShapeInv, TransportShape
<1> USE DEF OpenInv, ConfigInv, Running
<1>2. CASE UNCHANGED transport
  BY <1>2 DEF transport
<1>3. ASSUME NEW c \in Configs, ApplyBuild(c)
      PROVE  OpenInv' /\ ConfigInv'
  <2> DEFINE e == [config |-> Built(c), open |-> TRUE]
  <2>1. e \in Upstream /\ e.open /\ e.config = Built(c)
    BY Settings, ResolverAssumption DEF Upstream
  <2>2. /\ upstreams' = Append(upstreams, e) /\ api.pc = "idle"
        /\ api' = [pc |-> "save", request |-> c, new |-> Len(upstreams'),
                   old |-> None]
        /\ UNCHANGED <<active, config>>
    BY <1>3 DEF ApplyBuild
  <2> HIDE DEF e
  <2>3. /\ Len(upstreams') = Len(upstreams) + 1
        /\ upstreams'[Len(upstreams')] = e
        /\ \A u \in DOMAIN upstreams : upstreams'[u] = upstreams[u]
        /\ DOMAIN upstreams' = DOMAIN upstreams \cup {Len(upstreams')}
    BY <1>1, <2>1, <2>2
  <2> QED
    BY <1>1, <2>1, <2>2, <2>3
<1>4. CASE ApplySave
  <2>1. /\ api.pc = "save"
        /\ api' = [pc |-> "swap", request |-> api.request, new |-> api.new,
                   old |-> api.old]
        /\ config' = Saved(api.request)
        /\ UNCHANGED <<upstreams, active>>
    BY <1>1, <1>4, RecordsChanged DEF ApplySave, ApplyGoto
  <2>2. SameUpstream(upstreams[api.new].config, Saved(api.request))
    BY <1>1, <2>1, Settings
  <2> QED
    BY <1>1, <2>1, <2>2
<1>5. ASSUME NEW u \in DOMAIN upstreams \ {active}, Running, api.pc # "swap",
             \A v \in DOMAIN upstreams \ {active, u} :
                Plain(upstreams[v].config) \/ ~upstreams[v].open,
             upstreams' = Closed(u), api' = NoApply,
             UNCHANGED <<active, config>>
      PROVE  OpenInv' /\ ConfigInv'
  <2>1. /\ DOMAIN Closed(u) = DOMAIN upstreams
        /\ \A v \in DOMAIN upstreams :
              /\ Closed(u)[v].config = upstreams[v].config
              /\ v # u => Closed(u)[v] = upstreams[v]
        /\ ~Plain(upstreams[u].config) => ~Closed(u)[u].open
    BY <1>1, ClosedOne
  <2> QED
    BY <1>1, <1>5, <2>1 DEF NoApply
<1>6. CASE ApplySaveFails
  BY <1>1, <1>5, <1>6 DEF ApplySaveFails, SaveFailedClosed
<1>7. CASE ApplySwap
  <2>1. /\ api.pc = "swap" /\ active' = api.new
        /\ UNCHANGED <<upstreams, config>>
        /\ api' = [api EXCEPT !.pc = "close", !.old = active]
    BY <1>7 DEF ApplySwap, Replaced
  <2>2. api' = [pc |-> "close", request |-> api.request, new |-> api.new,
                old |-> active]
    BY <1>1, <2>1, RecordsChanged, Zenon
  <2> QED
    BY <1>1, <2>1, <2>2
<1>8. CASE ApplyClose
  BY <1>1, <1>5, <1>8 DEF ApplyClose
<1>9. CASE Crash
  BY <1>9 DEF Crash, NoApply
<1>10. CASE Boot
  <2> DEFINE e == [config |-> LoadedAtBoot(config), open |-> TRUE]
  <2>1. e.open /\ SameUpstream(e.config, config)
    BY <1>1, Settings
  <2>2. CASE Loadable(config)
    <3>1. /\ upstreams' = <<e>> /\ active' = 1 /\ config' = config
          /\ api' = [pc |-> "idle", request |-> None, new |-> None, old |-> None]
      BY <1>10, <2>2 DEF Boot, NoApply
    <3> HIDE DEF e
    <3>2. upstreams'[1] = e /\ DOMAIN upstreams' = {1}
      BY <3>1
    <3> QED
      BY <2>1, <3>1, <3>2
  <2>3. CASE ~Loadable(config)
    BY <1>10, <2>3 DEF Boot, NoApply
  <2> QED
    BY <2>2, <2>3
<1> QED
  BY <1>2, <1>3, <1>4, <1>6, <1>7, <1>8, <1>9, <1>10, OtherSteps
  DEF TransportChanges

-----------------------------------------------------------------------------
(* The query and the counters.                                             *)

\* The query goes from one stage to the next with what the stage needs.
LEMMA QueryStep ==
    ASSUME ShapeInv, [ResolverNext]_resolverVars
    PROVE  QueryShape'
<1>1. QueryShape /\ query = [pc |-> query.pc, domain |-> query.domain,
                             upstream |-> query.upstream,
                             response |-> query.response]
  BY DEF ShapeInv, QueryShape
<1>2. /\ \/ DOMAIN upstreams \subseteq DOMAIN upstreams'
         \/ query'.pc = "idle"
      /\ query.pc = "idle" \/ active \in DOMAIN upstreams
      /\ DOMAIN upstreams \subseteq Nat
  BY TransportStep DEF ShapeInv, TransportShape
<1> USE DEF QueryShape, ThreadAt
<1>3. CASE UNCHANGED query
  BY <1>1, <1>2, <1>3
<1>4. CASE query' = NoQuery
  BY <1>4 DEF NoQuery
<1>5. ASSUME NEW d \in Domains, Receive(d)
      PROVE  QueryShape'
  BY <1>5 DEF Receive, NoQuery
<1>6. ASSUME NEW p, query' = [query EXCEPT !.pc = p]
      PROVE  query' = [pc |-> p, domain |-> query.domain,
                       upstream |-> query.upstream, response |-> query.response]
  BY <1>1, <1>6
<1>7. CASE CacheMiss \/ FilterAllows \/ Ask
  <2>1. \/ query.pc = "lookup" /\ query' = [query EXCEPT !.pc = "filter"]
        \/ query.pc = "filter" /\ query' = [query EXCEPT !.pc = "capture"]
        \/ query.pc = "ask" /\ query' = [query EXCEPT !.pc = "asking"]
    BY <1>7 DEF CacheMiss, FilterAllows, Ask, Goto
  <2> QED
    BY <1>1, <1>2, <1>6, <2>1
<1>8. CASE Capture
  <2>1. query.pc = "capture" /\ UNCHANGED upstreams
    BY <1>8 DEF Capture, pipelineOnly, transport
  <2>2. query' = [query EXCEPT !.pc = "ask", !.upstream = active]
    BY <1>8 DEF Capture
  <2>3. query' = [pc |-> "ask", domain |-> query.domain, upstream |-> active,
                  response |-> query.response]
    BY <1>1, <2>2
  <2> QED
    BY <1>1, <1>2, <2>1, <2>3
<1>9. ASSUME NEW c \in UpstreamCodes, UpstreamAnswers(c)
      PROVE  QueryShape'
  <2>1. query.pc = "asking" /\ UNCHANGED upstreams /\ c \in Codes
    BY <1>9, ResolverAssumption DEF UpstreamAnswers, pipelineOnly, transport
  <2>2. query' = [query EXCEPT !.pc = "store", !.response = c]
    BY <1>9 DEF UpstreamAnswers
  <2>3. query' = [pc |-> "store", domain |-> query.domain,
                  upstream |-> query.upstream, response |-> c]
    BY <1>1, <2>2
  <2> QED
    BY <1>1, <2>1, <2>3
<1> QED
  BY <1>3, <1>4, <1>5, <1>7, <1>8, <1>9
  DEF ResolverNext, ThreadStep, ApplyStep, resolverVars, pipeline, Answer,
      ReceiveMalformed, CacheHit, FilterBlocks, UpstreamFails, StoreAnswer,
      ApplyBuild, ApplySave, ApplySaveFails, ApplySwap, ApplyClose,
      Block, Unblock, Tick, Crash, Boot

\* The responses of all codes.
Answered(c) == c.codes["noerror"] + c.codes["formerr"] + c.codes["servfail"]
                  + c.codes["nxdomain"] + c.codes["other"]

\* The counters by their fields.
LEMMA CounterFields ==
    ASSUME NEW c \in Counters
    PROVE  c = [total |-> c.total, hits |-> c.hits, misses |-> c.misses,
                allowed |-> c.allowed, blocked |-> c.blocked,
                success |-> c.success, failures |-> c.failures,
                codes |-> c.codes]
  BY DEF Counters

One(kind, k) == IF kind = k THEN 1 ELSE 0

\* n is c with one more of one kind, and with w more responses.
More(kind, w, c, n) ==
    /\ n \in Counters /\ Answered(n) = Answered(c) + w
    /\ n.total = c.total + One(kind, "total")
    /\ n.hits = c.hits + One(kind, "hits")
    /\ n.misses = c.misses + One(kind, "misses")
    /\ n.allowed = c.allowed + One(kind, "allowed")
    /\ n.blocked = c.blocked + One(kind, "blocked")
    /\ n.success = c.success + One(kind, "success")
    /\ n.failures = c.failures + One(kind, "failures")

\* A counted response is one more of its code.
LEMMA CodedOne ==
    ASSUME NEW c \in Counters, NEW code \in Codes
    PROVE  More("code", 1, c, Coded(c, code))
<1> DEFINE f == [c.codes EXCEPT ![code] = @ + 1]
<1>1. Coded(c, code) = [c EXCEPT !.codes = f]
  BY DEF Coded
<1>2. /\ c.codes \in [Codes -> Nat] /\ f \in [Codes -> Nat]
      /\ f["noerror"] + f["formerr"] + f["servfail"] + f["nxdomain"]
            + f["other"] = Answered(c) + 1
  BY DEF Counters, Codes, Answered
<1> HIDE DEF f
<1>3. Coded(c, code) =
        [total |-> c.total, hits |-> c.hits, misses |-> c.misses,
         allowed |-> c.allowed, blocked |-> c.blocked,
         success |-> c.success, failures |-> c.failures,
         codes |-> f]
  BY <1>1, CounterFields
<1> QED
  BY <1>2, <1>3 DEF Counters, Answered, More, One

\* Counting one more of one kind.
LEMMA OneMore ==
    ASSUME NEW c \in Counters
    PROVE  /\ More("total", 0, c, [c EXCEPT !.total = @ + 1])
           /\ More("hits", 0, c, [c EXCEPT !.hits = @ + 1])
           /\ More("misses", 0, c, [c EXCEPT !.misses = @ + 1])
           /\ More("allowed", 0, c, [c EXCEPT !.allowed = @ + 1])
           /\ More("blocked", 0, c, [c EXCEPT !.blocked = @ + 1])
           /\ More("success", 0, c, [c EXCEPT !.success = @ + 1])
           /\ More("failures", 0, c, [c EXCEPT !.failures = @ + 1])
  BY CounterFields DEF More, One, Counters, Answered, Codes

\* CountersAddUp, of any counters at any stage of the query.
AddUp(c, pc, h, m) ==
    LET at(pcs) == IF pc \in pcs THEN 1 ELSE 0
    IN  /\ c.total = Answered(c) + 1 - at({"idle", "store"})
        /\ c.misses = c.allowed + c.blocked + at({"filter"})
        /\ c.allowed = c.success + c.failures + at({"capture", "ask", "asking"})
        /\ c.hits = h /\ c.misses = m

\* Every step counts what it does to the query.
LEMMA CountersStep ==
    ASSUME ShapeInv, CountersAddUp, [ResolverNext]_resolverVars
    PROVE  CountersShape' /\ CountersAddUp'
<1>1. /\ counters \in Counters /\ hits \in Nat /\ misses \in Nat
      /\ query.pc \in ThreadAt
      /\ query = [pc |-> query.pc, domain |-> query.domain,
                  upstream |-> query.upstream, response |-> query.response]
  BY DEF ShapeInv, CountersShape, CacheShape, QueryShape
<1>2. \A p : [query EXCEPT !.pc = p].pc = p
  BY <1>1
<1>3. Answered(counters) \in Nat
  BY <1>1 DEF Counters, Answered, Codes
<1>4. AddUp(counters, query.pc, hits, misses)
  <2>1. query.pc \in ThreadAt \ {"idle", "store"}
           <=> query.pc \notin {"idle", "store"}
    BY <1>1
  <2> QED
    BY <2>1 DEF CountersAddUp, AddUp, Answered
<1>5. query'.pc \in ThreadAt
  BY QueryStep DEF QueryShape
<1>6. ASSUME counters' \in Counters,
             AddUp(counters', query'.pc, hits', misses')
      PROVE  CountersShape' /\ CountersAddUp'
  <2>1. query'.pc \in ThreadAt \ {"idle", "store"}
           <=> query'.pc \notin {"idle", "store"}
    BY <1>5
  <2> QED
    BY <1>6, <2>1 DEF CountersShape, CountersAddUp, AddUp, Answered
<1>7. "noerror" \in Codes /\ "formerr" \in Codes /\ "servfail" \in Codes
      /\ "nxdomain" \in Codes
  BY DEF Codes
<1>8. CASE UNCHANGED <<query, counters, hits, misses>>
  BY <1>1, <1>4, <1>6, <1>8
<1>9. ASSUME NEW d \in Domains, Receive(d)
      PROVE  CountersShape' /\ CountersAddUp'
  <2>1. /\ query.pc = "idle" /\ query'.pc = "lookup"
        /\ hits' = hits /\ misses' = misses
    BY <1>9 DEF Receive, NoQuery, resolverCache
  <2>2. More("total", 0, counters, counters')
    BY <1>1, <1>9, OneMore, Zenon DEF Receive
  <2>3. AddUp(counters', query'.pc, hits', misses')
    BY <1>1, <1>3, <1>4, <2>1, <2>2 DEF AddUp, More, One, Counters
  <2> QED
    BY <1>6, <2>2, <2>3 DEF More
<1>10. CASE ReceiveMalformed
  <2> DEFINE c == [counters EXCEPT !.total = @ + 1]
  <2>1. /\ query.pc = "idle" /\ query' = query
        /\ hits' = hits /\ misses' = misses
    BY <1>10 DEF ReceiveMalformed, resolverCache
  <2>2. More("total", 0, counters, c)
    BY <1>1, OneMore, Zenon
  <2>3. counters' = Coded(c, "formerr")
    BY <1>10 DEF ReceiveMalformed
  <2> HIDE DEF c
  <2>4. More("code", 1, c, counters')
    BY <1>7, <2>2, <2>3, CodedOne DEF More
  <2>5. AddUp(counters', query'.pc, hits', misses')
    BY <1>1, <1>3, <1>4, <2>1, <2>2, <2>4 DEF AddUp, More, One, Counters
  <2> QED
    BY <1>6, <2>4, <2>5 DEF More
<1>11. CASE CacheHit
  <2> DEFINE c == [counters EXCEPT !.hits = @ + 1]
             code == cache.entry[query.domain].response
  <2>1. /\ query.pc = "lookup" /\ query'.pc = "idle"
        /\ hits' = hits + 1 /\ misses' = misses
    BY <1>11 DEF CacheHit, Answer, NoQuery, AnswerFound, LookupHits
  <2>2. More("hits", 0, counters, c)
    BY <1>1, OneMore, Zenon
  <2>3. counters' = Coded(c, code) /\ code \in Codes
    BY <1>11 DEF CacheHit, ShapeInv, QueryShape, CacheShape, IsHit, Entry
  <2> HIDE DEF c, code
  <2>4. More("code", 1, c, counters')
    BY <2>2, <2>3, CodedOne DEF More
  <2>5. AddUp(counters', query'.pc, hits', misses')
    BY <1>1, <1>3, <1>4, <2>1, <2>2, <2>4 DEF AddUp, More, One, Counters
  <2> QED
    BY <1>6, <2>4, <2>5 DEF More
<1>12. CASE CacheMiss
  <2>1. /\ query.pc = "lookup" /\ query'.pc = "filter"
        /\ hits' = hits /\ misses' = misses + 1
    BY <1>2, <1>12 DEF CacheMiss, Goto, LookupMisses
  <2>2. More("misses", 0, counters, counters')
    BY <1>1, <1>12, OneMore, Zenon DEF CacheMiss
  <2>3. AddUp(counters', query'.pc, hits', misses')
    BY <1>1, <1>3, <1>4, <2>1, <2>2 DEF AddUp, More, One, Counters
  <2> QED
    BY <1>6, <2>2, <2>3 DEF More
<1>13. CASE FilterBlocks
  <2> DEFINE c == [counters EXCEPT !.blocked = @ + 1]
  <2>1. /\ query.pc = "filter" /\ query'.pc = "idle"
        /\ hits' = hits /\ misses' = misses
    BY <1>13 DEF FilterBlocks, Answer, NoQuery, resolverCache
  <2>2. More("blocked", 0, counters, c)
    BY <1>1, OneMore, Zenon
  <2>3. counters' = Coded(c, "nxdomain")
    BY <1>13 DEF FilterBlocks
  <2> HIDE DEF c
  <2>4. More("code", 1, c, counters')
    BY <1>7, <2>2, <2>3, CodedOne DEF More
  <2>5. AddUp(counters', query'.pc, hits', misses')
    BY <1>1, <1>3, <1>4, <2>1, <2>2, <2>4 DEF AddUp, More, One, Counters
  <2> QED
    BY <1>6, <2>4, <2>5 DEF More
<1>14. CASE FilterAllows
  <2>1. /\ query.pc = "filter" /\ query'.pc = "capture"
        /\ hits' = hits /\ misses' = misses
    BY <1>2, <1>14 DEF FilterAllows, Goto, resolverCache
  <2>2. More("allowed", 0, counters, counters')
    BY <1>1, <1>14, OneMore, Zenon DEF FilterAllows
  <2>3. AddUp(counters', query'.pc, hits', misses')
    BY <1>1, <1>3, <1>4, <2>1, <2>2 DEF AddUp, More, One, Counters
  <2> QED
    BY <1>6, <2>2, <2>3 DEF More
<1>15. CASE Capture \/ Ask
  <2>1. /\ counters' = counters /\ hits' = hits /\ misses' = misses
        /\ query.pc \in {"capture", "ask"} /\ query'.pc \in {"ask", "asking"}
    BY <1>1, <1>2, <1>15 DEF Capture, Ask, Goto, resolverCache
  <2> QED
    BY <1>1, <1>4, <1>6, <2>1 DEF AddUp
<1>16. ASSUME NEW code \in UpstreamCodes, UpstreamAnswers(code)
       PROVE  CountersShape' /\ CountersAddUp'
  <2> DEFINE c == [counters EXCEPT !.success = @ + 1]
  <2>1. /\ query.pc = "asking" /\ query'.pc = "store"
        /\ hits' = hits /\ misses' = misses
    BY <1>1, <1>16 DEF UpstreamAnswers, resolverCache
  <2>2. More("success", 0, counters, c)
    BY <1>1, OneMore, Zenon
  <2>3. counters' = Coded(c, code) /\ code \in Codes
    BY <1>16, ResolverAssumption DEF UpstreamAnswers
  <2> HIDE DEF c
  <2>4. More("code", 1, c, counters')
    BY <2>2, <2>3, CodedOne DEF More
  <2>5. AddUp(counters', query'.pc, hits', misses')
    BY <1>1, <1>3, <1>4, <2>1, <2>2, <2>4 DEF AddUp, More, One, Counters
  <2> QED
    BY <1>6, <2>4, <2>5 DEF More
<1>17. CASE UpstreamFails
  <2> DEFINE c == [counters EXCEPT !.failures = @ + 1]
  <2>1. /\ query.pc = "asking" /\ query'.pc = "idle"
        /\ hits' = hits /\ misses' = misses
    BY <1>17 DEF UpstreamFails, Answer, NoQuery, resolverCache
  <2>2. More("failures", 0, counters, c)
    BY <1>1, OneMore, Zenon
  <2>3. counters' = Coded(c, "servfail")
    BY <1>17 DEF UpstreamFails, FailureCounted
  <2> HIDE DEF c
  <2>4. More("code", 1, c, counters')
    BY <1>7, <2>2, <2>3, CodedOne DEF More
  <2>5. AddUp(counters', query'.pc, hits', misses')
    BY <1>1, <1>3, <1>4, <2>1, <2>2, <2>4 DEF AddUp, More, One, Counters
  <2> QED
    BY <1>6, <2>4, <2>5 DEF More
<1>18. CASE StoreAnswer
  <2>1. /\ query.pc = "store" /\ query'.pc = "idle" /\ counters' = counters
        /\ hits' = hits /\ misses' = misses
    BY <1>18 DEF StoreAnswer, Answer, NoQuery, Store
  <2> QED
    BY <1>1, <1>4, <1>6, <2>1 DEF AddUp
<1>19. CASE Crash
  <2>1. /\ query'.pc = "idle" /\ counters' = NoCounts
        /\ hits' = 0 /\ misses' = 0
    BY <1>19 DEF Crash, NoQuery
  <2> QED
    BY <1>6, <2>1 DEF AddUp, NoCounts, Counters, Answered, Codes
<1> QED
  BY <1>8, <1>9, <1>10, <1>11, <1>12, <1>13, <1>14, <1>15, <1>16, <1>17, <1>18,
     <1>19
  DEF ResolverNext, ThreadStep, ApplyStep, resolverVars, pipeline, resolverCache,
      ApplyBuild, ApplySave, ApplySaveFails, ApplySwap, ApplyClose,
      Block, Unblock, Tick, CacheTick, Boot

-----------------------------------------------------------------------------
(* The theorems about the specification.                                   *)

\* All of the invariants of the resolver.
ResolverInv ==
    ShapeInv /\ OpenInv /\ ConfigInv /\ CountersAddUp /\ NeverBeyondTTL

\* The process that is not started yet.
LEMMA ResolverInvInit == ResolverInit => ResolverInv
<1> SUFFICES ASSUME ResolverInit PROVE ResolverInv
  OBVIOUS
<1> USE DEF ResolverInit, CacheInit, NoQuery, NoCounts, NoApply
<1>1. CacheShape /\ NeverBeyondTTL
  BY DEF CacheShape, EmptyCache, NeverBeyondTTL, Cached
<1>2. QueryShape
  BY DEF QueryShape, ThreadAt
<1>3. CountersShape /\ CountersAddUp
  BY DEF CountersShape, Counters, CountersAddUp, ThreadAt, Codes
<1>4. TransportShape
  <2>1. config \in File
    <3>1. PICK c \in Configs : config = Saved(c)
      OBVIOUS
    <3> QED
      BY <3>1, Settings, ResolverAssumption
  <2> QED
    BY <2>1 DEF TransportShape, Applying, ApiAt, Running
<1>5. OpenInv /\ ConfigInv
  BY DEF OpenInv, ConfigInv, Running
<1> QED
  BY <1>1, <1>2, <1>3, <1>4, <1>5 DEF ResolverInv, ShapeInv

\* Every step keeps the invariants.
LEMMA ResolverInvStep ==
    ResolverInv /\ [ResolverNext]_resolverVars => ResolverInv'
<1> SUFFICES ASSUME ResolverInv, [ResolverNext]_resolverVars
             PROVE  ResolverInv'
  OBVIOUS
<1>1. ShapeInv /\ OpenInv /\ ConfigInv /\ CountersAddUp /\ NeverBeyondTTL
  BY DEF ResolverInv
<1>2. blocked' \subseteq Domains
  BY <1>1
  DEF ShapeInv, ResolverNext, ThreadStep, ApplyStep, resolverVars, pipelineOnly,
      Receive, ReceiveMalformed, CacheHit, CacheMiss, FilterBlocks,
      FilterAllows, Capture, Ask, UpstreamFails, StoreAnswer, UpstreamAnswers,
      ApplyBuild, ApplySave, ApplySaveFails, ApplySwap, ApplyClose,
      Block, Unblock, Tick, Crash, Boot
<1>3. ShapeInv'
  BY <1>1, <1>2, CacheStep, QueryStep, TransportStep, CountersStep
  DEF ShapeInv
<1>4. NeverBeyondTTL'
  <2> SUFFICES ASSUME NEW d \in Domains, cache'.entry[d] # None
               PROVE  cache'.entry[d].expires <= clock' + TTL
    BY DEF NeverBeyondTTL, Cached
  <2>1. /\ clock \in Nat /\ clock' \in Nat /\ clock <= clock' /\ TTL \in Nat
        /\ cache'.entry[d] \in Entry /\ cache.entry[d] \in Entry \cup {None}
    BY <1>1, <1>3, CacheStep, ResolverAssumption DEF ShapeInv, CacheShape
  <2>2. CASE cache'.entry[d] = cache.entry[d]
    BY <1>1, <2>1, <2>2 DEF NeverBeyondTTL, Cached, Entry
  <2>3. CASE cache'.entry[d].expires = clock + TTL
    BY <2>1, <2>3
  <2> QED
    BY <1>1, <2>2, <2>3, CacheStep
<1> QED
  BY <1>1, <1>3, <1>4, OpenStep, CountersStep DEF ResolverInv

\* The invariants hold whatever the thread, apply_upstream and the process do.
THEOREM ResolverInvariant == ResolverSpec => []ResolverInv
<1> QED
  BY ResolverInvInit, ResolverInvStep, PTL DEF ResolverSpec

\* The state has its shape: whatever the DNS thread holds of an upstream is of
\* an upstream that was built, and what is being closed is not what is active.
THEOREM ResolverTypeCorrect == ResolverSpec => []ResolverTypeOK
<1>1. ResolverInv => ResolverTypeOK
  BY DEF ResolverInv, ShapeInv, CacheShape, QueryShape, TransportShape,
         Applying, ResolverTypeOK
<1> QED
  BY <1>1, ResolverInvariant, PTL

\* metrics.py: the counters of all the paths through resolve() fit together.
THEOREM ResolverCountersAddUp == ResolverSpec => []CountersAddUp
<1> QED
  BY ResolverInvariant, PTL DEF ResolverInv

\* replace_upstream and apply_upstream: the upstream of new queries is never
\* closed, and when apply_upstream has returned every other client is.
THEOREM ResolverOnlyActiveOpen == ResolverSpec => []OnlyActiveOpen
<1>1. ResolverInv => OnlyActiveOpen
  BY DEF ResolverInv, OpenInv, OnlyActiveOpen, Running
<1> QED
  BY <1>1, ResolverInvariant, PTL

\* apply_upstream: but for the moment between the file and the exchange, what
\* is active is the upstream that the file names, after restarts as well.
THEOREM ResolverActiveIsConfigured == ResolverSpec => []ActiveIsConfigured
<1>1. ResolverInv => ActiveIsConfigured
  BY DEF ResolverInv, ConfigInv, ActiveIsConfigured
<1> QED
  BY <1>1, ResolverInvariant, PTL

\* cache.py, as resolver.py uses it: no entry is good for longer than one time
\* to live from now.
THEOREM ResolverNeverBeyondTTL == ResolverSpec => []NeverBeyondTTL
<1> QED
  BY ResolverInvariant, PTL DEF ResolverInv

-----------------------------------------------------------------------------
(* A domain that is blocked while it is cached.                            *)

\* Nothing is open that was not open a step before, but at this moment.
LEMMA TTLStep ==
    ASSUME ResolverInv, ResolverInv', TTLInv, [MCNext]_<<resolverVars, lastOpen>>
    PROVE  TTLInv'
<1>1. [ResolverNext]_resolverVars /\ ShapeInv
  BY DEF MCNext, ResolverInv
<1>2. /\ clock \in Nat /\ clock' \in Nat /\ clock <= clock' /\ TTL \in Nat
      /\ cache.entry \in [Domains -> Entry \cup {None}]
      /\ cache'.entry \in [Domains -> Entry \cup {None}]
      /\ lastOpen \in [Domains -> Nat]
  BY <1>1, CacheStep, ResolverAssumption
  DEF ResolverInv, ShapeInv, CacheShape, TTLInv
<1>3. CASE UNCHANGED <<resolverVars, lastOpen>>
  BY <1>3 DEF TTLInv, Open, Passed, resolverVars, pipeline, resolverCache
<1>4. CASE MCNext
  <2>1. lastOpen' \in [Domains -> Nat]
    BY <1>2, <1>4 DEF MCNext
  <2> SUFFICES ASSUME NEW d \in Domains
               PROVE  /\ lastOpen'[d] <= clock'
                      /\ Open(d)' => lastOpen'[d] = clock'
                      /\ cache'.entry[d] # None =>
                            cache'.entry[d].expires <= lastOpen'[d] + TTL
    BY <2>1 DEF TTLInv
  <2>2. lastOpen'[d] = IF Open(d) \/ Open(d)' THEN clock' ELSE lastOpen[d]
    BY <1>4 DEF MCNext
  <2>3. lastOpen[d] <= clock /\ (Open(d) => lastOpen[d] = clock)
    BY DEF TTLInv
  <2>4. /\ lastOpen[d] \in Nat /\ lastOpen'[d] \in Nat
        /\ lastOpen[d] <= lastOpen'[d] /\ lastOpen'[d] <= clock'
    BY <1>2, <2>1, <2>2, <2>3
  <2>5. ASSUME cache'.entry[d] # None
        PROVE  cache'.entry[d].expires <= lastOpen'[d] + TTL
    <3>1. cache'.entry[d] \in Entry
      BY <1>2, <2>5
    <3>2. CASE cache'.entry[d] = cache.entry[d]
      BY <1>2, <2>4, <2>5, <3>1, <3>2 DEF TTLInv, Entry
    <3>3. CASE /\ StoreAnswer /\ d = query.domain
               /\ cache'.entry[d].expires = clock + TTL
      <4>1. Open(d) /\ clock' = clock
        BY <3>3 DEF StoreAnswer, Open, Passed, Store
      <4> QED
        BY <1>2, <2>2, <3>3, <4>1
    <3> QED
      BY <1>1, <2>5, <3>2, <3>3, CacheStep
  <2> QED
    BY <2>2, <2>4, <2>5
<1> QED
  BY <1>3, <1>4

\* resolver.py asks the cache before the filters: a blocked domain is answered
\* from the cache for one time to live at most after it was last open.
THEOREM ResolverBlockedWithinTTL == MCSpec => BlockedWithinTTL
<1>1. MCInit => ResolverInv /\ TTLInv
  <2> SUFFICES ASSUME MCInit PROVE TTLInv
    BY ResolverInvInit DEF MCInit
  <2> QED
    BY DEF MCInit, ResolverInit, CacheInit, EmptyCache, TTLInv
<1>2. ResolverInv /\ TTLInv /\ [MCNext]_<<resolverVars, lastOpen>>
         => ResolverInv' /\ TTLInv'
  <2> SUFFICES ASSUME ResolverInv, TTLInv, [MCNext]_<<resolverVars, lastOpen>>
               PROVE  ResolverInv' /\ TTLInv'
    OBVIOUS
  <2>1. [ResolverNext]_resolverVars
    BY DEF MCNext
  <2>2. ResolverInv'
    BY <2>1, ResolverInvStep
  <2> QED
    BY <2>2, TTLStep
<1>3. ResolverInv /\ TTLInv /\ [MCNext]_<<resolverVars, lastOpen>>
         => [hits' > hits => clock < lastOpen[query.domain] + TTL
               ]_<<resolverVars, lastOpen>>
  <2> SUFFICES ASSUME ResolverInv, TTLInv, MCNext, hits' > hits
               PROVE  clock < lastOpen[query.domain] + TTL
    OBVIOUS
  <2>1. CacheHit /\ ShapeInv
    BY CacheStep DEF MCNext, ResolverInv
  <2> DEFINE d == query.domain
  <2>2. /\ d \in Domains /\ cache.entry[d] # None
        /\ ~Stale(cache.entry[d], clock)
    BY <2>1 DEF CacheHit, IsHit, ShapeInv, QueryShape
  <2>3. /\ cache.entry[d] \in Entry /\ clock \in Nat /\ lastOpen[d] \in Nat
        /\ cache.entry[d].expires <= lastOpen[d] + TTL
    BY <2>1, <2>2 DEF ShapeInv, CacheShape, TTLInv
  <2> QED
    BY <2>2, <2>3, ResolverAssumption DEF Stale, Entry
<1> QED
  BY <1>1, <1>2, <1>3, PTL DEF MCSpec, BlockedWithinTTL
=============================================================================
