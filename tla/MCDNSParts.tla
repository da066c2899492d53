----------------------------- MODULE MCDNSParts -----------------------------
(* The parts of the DNS service that are used through their methods alone, *)
(* each by itself: the parser, the cache, the metrics and the query log.   *)
(* A behaviour is one of one of them; the others stay as they are.         *)
EXTENDS MCDNSParser, MCDNSCache, MCDNSMetrics, MCDNSQueryLog

VARIABLE part

PartsInit ==
    /\ part \in {"parser", "cache", "metrics", "log"}
    /\ ParserInit /\ UsedCacheInit /\ SeenMetricsInit /\ WrittenLogInit
    /\ part # "parser" => packet = Query

PartsNext ==
    /\ UNCHANGED part
    /\ \/ part = "parser" /\ ParserNext
          /\ UNCHANGED <<usedCacheVars, seenMetricsVars, writtenLogVars>>
       \/ part = "cache" /\ UsedCacheNext
          /\ UNCHANGED <<parserVars, seenMetricsVars, writtenLogVars>>
       \/ part = "metrics" /\ SeenMetricsNext
          /\ UNCHANGED <<parserVars, usedCacheVars, writtenLogVars>>
       \/ part = "log" /\ WrittenLogNext
          /\ UNCHANGED <<parserVars, usedCacheVars, seenMetricsVars>>

PartsSpec ==
    PartsInit
    /\ [][PartsNext]_<<part, parserVars, usedCacheVars, seenMetricsVars,
                       writtenLogVars>>
=============================================================================
