---------------------------- MODULE DNSResolver ----------------------------
(***************************************************************************)
(* A query through dns_engine/resolver.py: cache, filter, upstream, cache, *)
(* while the filters change and apply_upstream of backend/api/management.py*)
(* replaces the upstream.                                                  *)
(*                                                                         *)
(* Two threads.  The DNS thread works on one query at a time and is alone  *)
(* with the cache.  The event loop runs apply_upstream to its end, but the *)
(* DNS thread moves between its steps.  resolver._upstream_lock covers one *)
(* reading and one exchange of self.upstream; the lock of an upstream is   *)
(* held while it is asked and while it is closed.                          *)
(*                                                                         *)
(* Counters of metrics.py are read by snapshots only, so each is updated   *)
(* with the step beside it.                                                *)
(***************************************************************************)
EXTENDS Integers, Sequences, FiniteSets

CONSTANTS
    Domains,
    UpstreamCodes, \* response codes that upstreams give
    Hosts,         \* UDP servers, DoT servers and DoH providers
    Custom,        \* the DoH provider that the administrator describes
    Configs,       \* the UpstreamConfigurations that _build_upstream accepts
    SaveFails,     \* TRUE if writing config.yaml may fail
    None,
    TTL, Capacity, LastClock,
    MaxQueries,    \* bounds of the model: queries received,
    MaxUpstreams,  \* upstreams built by one process,
    MaxCrashes     \* and crashes

VARIABLES
    cache, hits, misses, clock,  \* resolver.cache, and the time
    blocked,    \* the domains that the filters block
    query,      \* the DNS thread: the query at hand
    counters,   \* resolver.metrics
    upstreams,  \* the upstreams that were built
    active,     \* self.upstream
    config,     \* the upstream part of config.yaml
    api,        \* the event loop: apply_upstream
    crashes     \* crashes so far

\* Of a response only its code is kept, and metrics.py has one counter for all
\* the codes that it does not tell apart.
Codes == {"noerror", "formerr", "servfail", "nxdomain", "other"}

Transports == {"udp", "dot", "doh"}

\* What the page of the upstreams sends.  Of the servers, only the first is
\* used.  It is neat if it has no blanks around it and no dot behind it.  There
\* is a largest response for each transport.
Configuration ==
    [transport : Transports, host : Hosts, neat : BOOLEAN,
     sizes : [Transports -> Nat]]

ASSUME ResolverAssumption ==
    /\ UpstreamCodes \subseteq Codes
    /\ Configs \subseteq Configuration
    /\ TTL \in Nat \ {0} /\ LastClock \in Nat
    /\ None \notin [response : Codes, expires : Nat]
    /\ MaxQueries \in Nat /\ MaxUpstreams \in Nat /\ MaxCrashes \in Nat

INSTANCE DNSCache WITH Responses <- Codes, NoEntry <- None

resolverCache == <<cache, hits, misses, clock>>
pipeline == <<resolverCache, query, counters>>
transport == <<upstreams, active, config, api, crashes>>
resolverVars == <<pipeline, blocked, transport>>

\* What an upstream works with.  (Timeouts and ports are saved as they are used,
\* and left out.)
Setting == [transport : Transports, host : Hosts, neat : BOOLEAN, size : Nat]

Upstream == [config : Setting, open : BOOLEAN]

\* The upstream part of config.yaml
File == [transport : Transports, host : Hosts, neat : BOOLEAN, udpSize : Nat]

NoQuery == [pc |-> "idle", domain |-> None, upstream |-> None,
            response |-> None]

NoApply == [pc |-> "idle", request |-> None, new |-> None, old |-> None]

Running == api.pc \notin {"down", "failed"}

-----------------------------------------------------------------------------
(* The DNS thread.                                                         *)

NoCounts ==
    [total |-> 0, hits |-> 0, misses |-> 0, allowed |-> 0, blocked |-> 0,
     success |-> 0, failures |-> 0, codes |-> [c \in Codes |-> 0]]

\* record_rcode
Coded(c, code) == [c EXCEPT !.codes[code] = @ + 1]

Goto(pc) == query' = [query EXCEPT !.pc = pc]

\* The response is sent and the thread waits for the next packet.
Answer == query' = NoQuery

pipelineOnly == <<blocked, transport>>

\* record_query and parse
Receive(d) ==
    /\ Running /\ query.pc = "idle" /\ counters.total < MaxQueries
    /\ query' = [NoQuery EXCEPT !.pc = "lookup", !.domain = d]
    /\ counters' = [counters EXCEPT !.total = @ + 1]
    /\ UNCHANGED <<resolverCache, pipelineOnly>>

\* A packet that does not parse is answered with FORMERR.
ReceiveMalformed ==
    /\ Running /\ query.pc = "idle" /\ counters.total < MaxQueries
    /\ counters' = Coded([counters EXCEPT !.total = @ + 1], "formerr")
    /\ UNCHANGED <<resolverCache, query, pipelineOnly>>

\* Faulty variant: an answer from the cache is stored again.
AnswerRenewed ==
    /\ cache' = Stored(cache, query.domain,
                       cache.entry[query.domain].response, clock)
    /\ hits' = hits + 1
    /\ UNCHANGED <<misses, clock>>

AnswerFound == LookupHits(query.domain)

CacheHit ==
    /\ query.pc = "lookup" /\ IsHit(cache, query.domain, clock)
    /\ AnswerFound
    /\ Answer
    /\ counters' = Coded([counters EXCEPT !.hits = @ + 1],
                         cache.entry[query.domain].response)
    /\ UNCHANGED pipelineOnly

CacheMiss ==
    /\ query.pc = "lookup"
    /\ LookupMisses(query.domain)
    /\ Goto("filter")
    /\ counters' = [counters EXCEPT !.misses = @ + 1]
    /\ UNCHANGED pipelineOnly

\* filter_manager.evaluate, which DNSFilters takes apart.
FilterBlocks ==
    /\ query.pc = "filter" /\ query.domain \in blocked
    /\ Answer
    /\ counters' = Coded([counters EXCEPT !.blocked = @ + 1], "nxdomain")
    /\ UNCHANGED <<resolverCache, pipelineOnly>>

FilterAllows ==
    /\ query.pc = "filter" /\ query.domain \notin blocked
    /\ Goto("capture")
    /\ counters' = [counters EXCEPT !.allowed = @ + 1]
    /\ UNCHANGED <<resolverCache, pipelineOnly>>

\* The upstream is read under the lock of the resolver...
Capture ==
    /\ query.pc = "capture"
    /\ query' = [query EXCEPT !.pc = "ask", !.upstream = active]
    /\ UNCHANGED <<resolverCache, counters, pipelineOnly>>

\* ...and asked under its own: from here on it cannot be closed.
Ask ==
    /\ query.pc = "ask"
    /\ Goto("asking")
    /\ UNCHANGED <<resolverCache, counters, pipelineOnly>>

UpstreamAnswers(code) ==
    /\ query.pc = "asking" /\ upstreams[query.upstream].open
    /\ query' = [query EXCEPT !.pc = "store", !.response = code]
    /\ counters' = Coded([counters EXCEPT !.success = @ + 1], code)
    /\ UNCHANGED <<resolverCache, pipelineOnly>>

\* Faulty variant: no timeout.
FailsIfClosed == ~upstreams[query.upstream].open

\* A timeout, a refused connection, a response that does not validate, or a
\* client that is closed.
MayFail == TRUE

\* Faulty variant: the response code of a failure is not counted.
FailureUncoded(c) == [c EXCEPT !.failures = @ + 1]

FailureCounted(c) == Coded([c EXCEPT !.failures = @ + 1], "servfail")

UpstreamFails ==
    /\ query.pc = "asking" /\ MayFail
    /\ Answer
    /\ counters' = FailureCounted(counters)
    /\ UNCHANGED <<resolverCache, pipelineOnly>>

\* Whatever the upstream answered is cached, its errors too.
StoreAnswer ==
    /\ query.pc = "store"
    /\ Store(query.domain, query.response)
    /\ Answer
    /\ UNCHANGED <<counters, pipelineOnly>>

\* What the DNS thread does on its own.
ThreadStep ==
    \/ CacheHit
    \/ CacheMiss
    \/ FilterBlocks
    \/ FilterAllows
    \/ Capture
    \/ Ask
    \/ UpstreamFails
    \/ StoreAnswer

-----------------------------------------------------------------------------
(* apply_upstream.                                                         *)

\* UDP and DoT connect anew for each query: their clients have no close().
Plain(setting) == setting.transport \in {"udp", "dot"}

Closed(u) ==
    IF Plain(upstreams[u].config) THEN upstreams
                                  ELSE [upstreams EXCEPT ![u].open = FALSE]

Locked(u) == query.pc = "asking" /\ query.upstream = u

ApplyGoto(pc) == api' = [api EXCEPT !.pc = pc]

\* The host is tidied, and the size is that of the transport.
Built(c) ==
    [transport |-> c.transport, host |-> c.host, neat |-> TRUE,
     size |-> c.sizes[c.transport]]

\* _build_upstream.  What it refuses changes nothing.
ApplyBuild(c) ==
    /\ api.pc = "idle" /\ Len(upstreams) < MaxUpstreams
    /\ upstreams' = Append(upstreams, [config |-> Built(c), open |-> TRUE])
    /\ api' = [pc |-> "save", request |-> c, new |-> Len(upstreams'),
               old |-> None]
    /\ UNCHANGED <<pipeline, blocked, active, config, crashes>>

\* The host is saved as it was sent, and of the sizes only that of UDP.
Saved(c) ==
    [transport |-> c.transport, host |-> c.host, neat |-> c.neat,
     udpSize |-> c.sizes["udp"]]

\* _save_upstream_configuration replaces the file or raises.
ApplySave ==
    /\ api.pc = "save"
    /\ config' = Saved(api.request)
    /\ ApplyGoto("swap")
    /\ UNCHANGED <<pipeline, blocked, upstreams, active, crashes>>

SaveFailedClosed == Closed(api.new)

ApplySaveFails ==
    /\ SaveFails /\ api.pc = "save"
    /\ upstreams' = SaveFailedClosed
    /\ api' = NoApply
    /\ UNCHANGED <<pipeline, blocked, active, config, crashes>>

\* Faulty variant: self.upstream is read again for the closing.
ReplacedReadLate == api.new

Replaced == active

\* replace_upstream: the exchange, under the lock of the resolver...
ApplySwap ==
    /\ api.pc = "swap"
    /\ active' = api.new
    /\ api' = [api EXCEPT !.pc = "close", !.old = Replaced]
    /\ UNCHANGED <<pipeline, blocked, upstreams, config, crashes>>

\* ...and the closing, under the lock of the old upstream.
ApplyClose ==
    /\ api.pc = "close" /\ ~Locked(api.old)
    /\ upstreams' = Closed(api.old)
    /\ api' = NoApply
    /\ UNCHANGED <<pipeline, blocked, active, config, crashes>>

ApplyStep == ApplySave \/ ApplySaveFails \/ ApplySwap \/ ApplyClose

-----------------------------------------------------------------------------
(* The filters, time and the process.                                      *)

Block(d) ==
    /\ Running /\ d \notin blocked
    /\ blocked' = blocked \cup {d}
    /\ UNCHANGED <<pipeline, transport>>

Unblock(d) ==
    /\ Running /\ d \in blocked
    /\ blocked' = blocked \ {d}
    /\ UNCHANGED <<pipeline, transport>>

Tick ==
    /\ CacheTick
    /\ UNCHANGED <<query, counters, blocked, transport>>

Crash ==
    /\ Running /\ crashes < MaxCrashes
    /\ crashes' = crashes + 1
    /\ cache' = EmptyCache /\ hits' = 0 /\ misses' = 0
    /\ query' = NoQuery /\ counters' = NoCounts
    /\ upstreams' = <<>> /\ active' = None
    /\ api' = [NoApply EXCEPT !.pc = "down"]
    /\ UNCHANGED <<clock, blocked, config>>

\* DNSUpstream(): from the file it takes the name of the provider as it is, not
\* the endpoint; no provider has blanks around its name, or is described by the
\* administrator.
Loadable(f) == f.transport = "doh" => f.neat /\ f.host # Custom

\* Faulty variant: the process starts with what it was delivered with.
BuiltAtBoot(f) == Built(CHOOSE c \in Configs : Loadable(Saved(c)))

\* The size of UDP serves all transports.
LoadedAtBoot(f) ==
    [transport |-> f.transport, host |-> f.host, neat |-> f.neat,
     size |-> f.udpSize]

Boot ==
    /\ api.pc = "down"
    /\ IF Loadable(config)
       THEN /\ upstreams' = <<[config |-> LoadedAtBoot(config), open |-> TRUE]>>
            /\ active' = 1
            /\ api' = NoApply
       ELSE /\ api' = [NoApply EXCEPT !.pc = "failed"]
            /\ UNCHANGED <<upstreams, active>>
    /\ UNCHANGED <<pipeline, blocked, config, crashes>>

ResolverInit ==
    /\ CacheInit
    /\ blocked = {}
    /\ query = NoQuery /\ counters = NoCounts
    /\ upstreams = <<>> /\ active = None
    /\ config \in {Saved(c) : c \in Configs} /\ Loadable(config)
    /\ api = [NoApply EXCEPT !.pc = "down"]
    /\ crashes = 0

ResolverNext ==
    \/ \E d \in Domains : Receive(d)
    \/ ReceiveMalformed
    \/ ThreadStep
    \/ \E c \in UpstreamCodes : UpstreamAnswers(c)
    \/ \E c \in Configs : ApplyBuild(c)
    \/ ApplyStep
    \/ \E d \in Domains : Block(d) \/ Unblock(d)
    \/ Tick
    \/ Crash
    \/ Boot

ResolverSpec == ResolverInit /\ [][ResolverNext]_resolverVars

-----------------------------------------------------------------------------
(* Properties.                                                             *)

ThreadAt == {"idle", "lookup", "filter", "capture", "ask", "asking", "store"}

ApiAt == {"idle", "save", "swap", "close", "down", "failed"}

\* The shape of the state: the upstreams in use are upstreams that were built.
ResolverTypeOK ==
    /\ query.pc \in ThreadAt /\ api.pc \in ApiAt
    /\ upstreams \in Seq(Upstream) /\ config \in File
    /\ query.pc \in {"ask", "asking", "store"} =>
          query.upstream \in DOMAIN upstreams
    /\ IF Running THEN active \in DOMAIN upstreams ELSE active = None
    /\ api.pc \in {"save", "swap", "close"} => api.new \in DOMAIN upstreams
    /\ api.pc = "close" => api.old \in DOMAIN upstreams \ {active}
    /\ blocked \subseteq Domains /\ cache.entry \in [Domains -> Entry \cup {None}]

\* metrics.py: the counters of all the paths through resolve() fit together,
\* with one query at most between them.
CountersAddUp ==
    LET at(pcs)  == IF query.pc \in pcs THEN 1 ELSE 0
        sum == counters.codes["noerror"] + counters.codes["formerr"]
                  + counters.codes["servfail"] + counters.codes["nxdomain"]
                  + counters.codes["other"]
    IN
    /\ counters.total = sum + at(ThreadAt \ {"idle", "store"})
    /\ counters.misses =
          counters.allowed + counters.blocked + at({"filter"})
    /\ counters.allowed = counters.success + counters.failures
                             + at({"capture", "ask", "asking"})
    /\ <<counters.hits, counters.misses>> = <<hits, misses>>

\* resolver.py, replace_upstream, and management.py, apply_upstream: whatever
\* is applied, refused or fails to be saved, the upstream that new queries use
\* is never closed; and when apply_upstream has returned, every other client
\* is: replaced and rejected clients keep no connections.
OnlyActiveOpen ==
    /\ Running => upstreams[active].open
    /\ api.pc = "idle" =>
          \A u \in DOMAIN upstreams \ {active} :
              Plain(upstreams[u].config) \/ ~upstreams[u].open

\* What the file keeps of an upstream: the transport, the host but for how it
\* is spelled, and the size if it is that of UDP.
SameUpstream(setting, f) ==
    /\ setting.transport = f.transport /\ setting.host = f.host
    /\ setting.transport = "udp" => setting.size = f.udpSize

\* management.py, "Persist configuration before activation": except between
\* the two, what is active is the upstream that the file names, after restarts
\* as well.
ActiveIsConfigured ==
    Running /\ api.pc # "swap" => SameUpstream(upstreams[active].config, config)

\* Every query is answered, or the process ends, whether upstreams answer or
\* not and whatever is replaced meanwhile; and apply_upstream, which waits for
\* a query to give up the old upstream, ends too, so that the web application
\* is not held up for ever.
NobodyWaitsForEver ==
    /\ query.pc # "idle" ~> query.pc = "idle"
    /\ api.pc \in {"save", "swap", "close"} ~> api.pc \in {"idle", "down"}

\* upstream.py, "the current application configuration is used": the process
\* can start with any configuration that was accepted.
StartsWithAccepted == api.pc # "failed"
=============================================================================
