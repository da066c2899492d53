---------------------------- MODULE MCDNSFilters ----------------------------
(* Two kinds of behaviours of the filters: with queries that are evaluated *)
(* while endpoints change the filters, and without queries, but with what  *)
(* the endpoints leave half done and with crashes.  No endpoint looks at a *)
(* walk, and a walk ends with the process, so that each leaves out nothing *)
(* that the properties of the other could depend on.                       *)
EXTENDS MCDNSFilterWalk, MCDNSFilterTables, TLC

VARIABLE part

MCBuiltinFile == [b \in Builtins |-> b]

Symmetry == Permutations(Customs) \cup Permutations(CustomFiles)

\* Where endpoints leave things half done is not followed beside the walks:
\* every name and list counts as left.
MCInit ==
    /\ WatchedInit
    /\ \/ part = "tables" /\ TablesInit
       \/ /\ part = "walk"
          /\ misread = Files /\ halfway = Names
          /\ unwritten = Customs /\ strayed = Customs

MCNext ==
    /\ UNCHANGED part
    /\ \/ part = "walk" /\ WatchedNext /\ crashes' = crashes
          /\ UNCHANGED <<misread, halfway, unwritten, strayed>>
       \/ part = "tables" /\ TablesNext
          /\ UNCHANGED standing

MCSpec == MCInit /\ [][MCNext]_<<part, watchedVars, tablesVars>>
=============================================================================
