-------------------------- MODULE MCDNSFilterTables --------------------------
(* The tables, loaders and files of the filters, with what the endpoints   *)
(* leave half done.  The DNS thread, which changes none of them, is left   *)
(* out: no step of another actor looks at its walk.                        *)
EXTENDS DNSFilters

VARIABLES
    misread,   \* lists whose loader was cleared by a reading that failed
    halfway,   \* names of calls that a failing reading has ended half-way
    unwritten, \* names whose definitions memory and the store need not share
    strayed    \* the same, ever

tablesVars == <<filterVars, misread, halfway, unwritten, strayed>>

\* The names in the hands of the endpoint under way.
Called == {api.name, api.to} \cap Customs

Ends == api'.pc = "idle"

\* The names of an addition or a replacement that stops at a failing reading.
LeftHalfway ==
    IF api.pc = "idle" /\ Ends
    THEN {n \in Customs : definitions'[n] # definitions[n]}
    ELSE IF api.then = "update-unswitch" /\ api.pc \in {"reload", "fill"} /\ Ends
    THEN Called
    ELSE {}

\* The names that a step leaves different in memory and in the store: of an
\* addition that is not taken back, of a change that could not be written, of
\* an addition that is taken back where a definition was left behind.
LeftUnwritten ==
    IF api.pc = "idle" THEN LeftHalfway
    ELSE IF api.pc = "persist" /\ Ends THEN Called
    ELSE IF api.pc = "add-persist" /\ Ends THEN Called \cap halfway
    ELSE {}

\* What a start leaves out of the store.
LeftUnread == {n \in Customs : store[n] # None /\ definitions'[n] = None}

Remember ==
    /\ misread' =
          IF api'.pc = "down" THEN {}
          ELSE IF api.pc = "fill"
          THEN IF Ends THEN misread \cup {api.file} ELSE misread \ {api.file}
          ELSE {f \in misread : files'[f] # None}
    /\ halfway' = IF api'.pc = "down" THEN {} ELSE halfway \cup LeftHalfway
    /\ unwritten' =
          IF api.pc = "down" THEN LeftUnread
          ELSE IF Ends /\ definitions' = store' THEN {}
          ELSE unwritten \cup LeftUnwritten
    /\ strayed' = strayed \cup unwritten'

TablesInit ==
    /\ FilterInit
    /\ misread = {} /\ halfway = {} /\ unwritten = {} /\ strayed = {}

TablesNext == EndpointStep /\ Remember

TablesSpec == TablesInit /\ [][TablesNext]_tablesVars

\* manager.py: between two calls of the endpoints the three tables of the
\* manager (filters, enabled, custom_definitions) say the same of every name,
\* also after renamings, failed writes and restarts.  A reading that fails in
\* an addition or in a replacement spoils the names of that call, and no other.
ManagerAgrees ==
    api.pc = "idle" =>
        \A n \in Names \ halfway :
            /\ enabled[n] # None <=> n \in NamesOf(filters)
            /\ n \in Customs =>
                  /\ definitions[n] # None <=> n \in NamesOf(filters)
                  /\ \A i \in DOMAIN filters :
                        filters[i].name = n =>
                            /\ definitions[n].file = filters[i].file
                            /\ definitions[n].on = enabled[n]

\* blocklist_registry.py: between two calls no loader has a domain that its
\* file has not, so that a deleted list blocks nothing, and only a reading that
\* failed has left a loader without some of them.
LoadersFollowFiles ==
    api.pc = "idle" =>
        \A f \in Files :
            loaded[f] # None =>
                /\ loaded[f] \subseteq Content(f)
                /\ f \notin misread => loaded[f] = Content(f)

\* custom_filters.json has the definitions of memory, name by name, except
\* after a change that was kept in memory although it could not be written, an
\* addition whose list could not be read, and a start that did not take over
\* all of the file.
StoreFollows ==
    api.pc = "idle" =>
        \A n \in Customs \ unwritten : definitions[n] = store[n]

\* management.py, delete_custom_blocklist: "Blocklist is used by a custom
\* filter.  Edit or remove that filter first."  A list that a filter in memory
\* or in the store names is not deleted, unless the definition of that very
\* filter has been in one of the two places only.
ListsOutliveFilters ==
    \A n \in Customs \ strayed :
        /\ definitions[n] # None => files[definitions[n].file] # None
        /\ store[n] # None => files[store[n].file] # None
=============================================================================
