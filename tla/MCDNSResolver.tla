--------------------------- MODULE MCDNSResolver ---------------------------
(* The resolver with the last moment recorded at which a domain was open:  *)
(* not blocked, or blocked behind a query that had passed the filter.      *)
EXTENDS DNSResolver

CONSTANTS server, provider, custom  \* hosts

Sent(by, host, neat, udp, other) ==
    [transport |-> by, host |-> host, neat |-> neat,
     sizes |-> [t \in Transports |-> IF t = "udp" THEN udp ELSE other]]

\* A server with blanks around it, and a provider without and with them.  The
\* sizes are those of UDP and of the other transports.
MCConfigs ==
    {Sent("udp", server, FALSE, 1, 1), Sent("doh", provider, TRUE, 1, 2),
     Sent("doh", provider, FALSE, 2, 2)}

\* A server, and an endpoint of the administrator.
CustomConfigs ==
    {Sent("udp", server, TRUE, 1, 1), Sent("doh", custom, TRUE, 1, 1)}

VARIABLE lastOpen

Passed(d) ==
    query.domain = d /\ query.pc \in {"capture", "ask", "asking", "store"}

Open(d) == d \notin blocked \/ Passed(d)

MCInit == ResolverInit /\ lastOpen = [d \in Domains |-> 0]

MCNext ==
    /\ ResolverNext
    /\ lastOpen' = [d \in Domains |->
                       IF Open(d) \/ Open(d)' THEN clock' ELSE lastOpen[d]]

\* The DNS thread and apply_upstream go on whenever they can, and the process
\* is started again.  The upstream need never answer: a client has a timeout for
\* each of its readings and a bound on what it reads, so that its waiting ends
\* with an answer or with UpstreamFails.
MCSpec ==
    /\ MCInit /\ [][MCNext]_<<resolverVars, lastOpen>>
    /\ WF_resolverVars(ThreadStep)
    /\ WF_resolverVars(ApplyStep)
    /\ WF_resolverVars(Boot)

\* resolver.py asks the cache before the filters, so a domain that is blocked
\* goes on being answered from the cache; but only for one time to live after
\* the last query that the filters let pass.
BlockedWithinTTL ==
    [][hits' > hits => clock < lastOpen[query.domain] + TTL
      ]_<<resolverVars, lastOpen>>
=============================================================================
