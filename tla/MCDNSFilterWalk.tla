-------------------------- MODULE MCDNSFilterWalk --------------------------
(* The filters, and what a walk over them must not miss.                   *)
EXTENDS DNSFilters

VARIABLE standing  \* filters that have blocked the walk's domain all along

watchedVars == <<filterVars, standing>>

SwitchedOn == {filters[i] : i \in {j \in DOMAIN filters :
                                     enabled[filters[j].name] = TRUE}}

Blocking == {x \in SwitchedOn : walk.domain \in loaded[x.file]}

\* A set that is taken anew when a walk begins and only shrinks after that.
Follows(s, now) ==
    IF walk'.pc = "next" /\ walk.pc \in {"idle", "allowed", "blocked"}
    THEN now
    ELSE IF walk'.pc = "idle" THEN {} ELSE s \cap now

WatchedInit == FilterInit /\ standing = {}

WatchedNext == FilterNext /\ standing' = Follows(standing, Blocking')

WatchedSpec == WatchedInit /\ [][WatchedNext]_watchedVars

\* manager.py, evaluate: a filter that is in the list, switched on and has the
\* domain in its list from the beginning of a walk to its end is never missed,
\* whatever other filters are added, replaced, renamed and removed while the
\* walk goes on.
NoFilterSkipped == walk.pc = "allowed" => standing = {}
=============================================================================
