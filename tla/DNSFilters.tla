------------------------------ MODULE DNSFilters ------------------------------
(***************************************************************************)
(* Which domains the DNS server blocks, and how that changes while it runs:*)
(* dns_engine/filters/manager.py, blocklist.py, blocklist_registry.py and  *)
(* the block list and filter endpoints of backend/api/management.py.       *)
(*                                                                         *)
(* The DNS thread walks the list of filters for every query, without a     *)
(* lock.  The endpoints run on the event loop, one at a time and each to   *)
(* its end, and change the list, the switches, the loaded block lists and  *)
(* two kinds of files: the block lists, and custom_filters.json.  Both     *)
(* kinds are replaced atomically, memory is not: an endpoint is cut into   *)
(* steps wherever the DNS thread can see the difference.  Writing the store*)
(* and reading either kind may fail, and the endpoint ends where it is.    *)
(***************************************************************************)
EXTENDS Integers, Sequences, FiniteSets, SequencesExt

CONSTANTS
    Domains,
    Builtins,     \* names of the built-in filters that read a block list
    BuiltinFile,  \* their block lists, ads.txt and test.txt
    Customs,      \* names of custom filters
    CustomFiles,  \* block lists that can be created and deleted
    None,         \* no file, no list, no definition, no name
    Live,         \* a walk over the list that the manager has now
    StoreFails,   \* TRUE if writing custom_filters.json may fail
    ReadFails,    \* TRUE if reading a list or custom_filters.json may fail
    MaxStored,    \* how many stored filters are read: 100
    MaxCrashes    \* bound of the model on crashes

Names == Builtins \cup Customs

Files == {BuiltinFile[b] : b \in Builtins} \cup CustomFiles

Filter == [name : Names, file : Files]

Definition == [file : CustomFiles, on : BOOLEAN]

ASSUME FilterAssumption ==
    /\ IsFiniteSet(Builtins) /\ IsFiniteSet(Customs)
    /\ Builtins \cap Customs = {}
    /\ {BuiltinFile[b] : b \in Builtins} \cap CustomFiles = {}
    /\ \A D \in SUBSET Domains : None # D
    /\ None \notin Names \cup Files \cup Definition \cup BOOLEAN
    /\ Live \notin Seq(Filter)
    /\ MaxStored \in Nat
    /\ MaxCrashes \in Nat

VARIABLES
    files,        \* the block lists on disk
    store,        \* custom_filters.json
    loaded,       \* BlocklistRegistry: the domains each loader has
    filters,      \* self.filters
    enabled,      \* self.enabled
    definitions,  \* self.custom_definitions
    api,          \* the event loop: the endpoint under way
    walk,         \* the DNS thread: evaluate()
    crashes       \* crashes so far

disk    == <<files, store>>
manager == <<filters, enabled, definitions>>
filterVars == <<disk, loaded, manager, api, walk, crashes>>

NoJob == [pc |-> "idle", todo |-> {}, file |-> None, then |-> "idle",
          name |-> None, to |-> None, on |-> FALSE]

NoWalk == [pc |-> "idle", domain |-> None, list |-> Live, next |-> 1,
           filter |-> None]

NamesOf(s) == {s[i].name : i \in DOMAIN s}

\* What a loader finds: a file that does not exist is an empty list.
Content(f) == IF files[f] = None THEN {} ELSE files[f]

\* BlocklistRegistry.get
Fetched(l, f) == IF l[f] = None THEN [l EXCEPT ![f] = Content(f)] ELSE l

Switch(name, to) == [enabled EXCEPT ![name] = to]

Unchanging == UNCHANGED <<walk, crashes>>

-----------------------------------------------------------------------------
(* The DNS thread.                                                         *)

\* A list that is replaced goes on being walked by whoever began on it.
Walked == IF walk.list = Live THEN filters ELSE walk.list

WalkGoto(pc) == walk' = [walk EXCEPT !.pc = pc]

Decide(verdict) ==
    walk' = [NoWalk EXCEPT !.pc = verdict, !.domain = walk.domain]

walkOnly == <<disk, loaded, manager, api, crashes>>

BeginWalk(d) ==
    /\ api.pc # "down" /\ walk.pc \in {"idle", "allowed", "blocked"}
    /\ walk' = [NoWalk EXCEPT !.pc = "next", !.domain = d]
    /\ UNCHANGED walkOnly

NextFilter ==
    /\ walk.pc = "next"
    /\ IF walk.next > Len(Walked)
       THEN Decide("allowed")
       ELSE walk' = [walk EXCEPT !.pc = "switch", !.filter = Walked[walk.next],
                                 !.next = walk.next + 1]
    /\ UNCHANGED walkOnly

\* enabled.get(name, False)
CheckSwitch ==
    /\ walk.pc = "switch"
    /\ WalkGoto(IF enabled[walk.filter.name] = TRUE THEN "list" ELSE "next")
    /\ UNCHANGED walkOnly

CheckList ==
    /\ walk.pc = "list"
    /\ IF walk.domain \in loaded[walk.filter.file] THEN Decide("blocked")
                                                   ELSE WalkGoto("next")
    /\ UNCHANGED walkOnly

WalkStep == NextFilter \/ CheckSwitch \/ CheckList

-----------------------------------------------------------------------------
(* Loading.  load() empties the set first and adds the domains one by one. *)

\* An endpoint reloads the lists in todo and goes on at then.
Reloading(todo, then) ==
    api' = [api EXCEPT !.pc = "reload", !.todo = todo, !.then = then]

ClearList ==
    /\ api.pc = "reload"
    /\ \/ /\ api.todo = {}
          /\ api' = IF api.then = "idle" THEN NoJob
                                         ELSE [api EXCEPT !.pc = api.then]
          /\ UNCHANGED loaded
       \/ \E f \in api.todo :
             /\ loaded' = [loaded EXCEPT ![f] = {}]
             /\ api' = [api EXCEPT !.pc = "fill", !.file = f, !.todo = @ \ {f}]
    /\ UNCHANGED <<disk, manager>> /\ Unchanging

FillList ==
    /\ api.pc = "fill"
    /\ \/ /\ loaded[api.file] = Content(api.file)
          /\ api' = [api EXCEPT !.pc = "reload", !.file = None]
          /\ UNCHANGED loaded
       \/ /\ \E d \in Content(api.file) \ loaded[api.file] :
                loaded' = [loaded EXCEPT ![api.file] = @ \cup {d}]
          /\ UNCHANGED api
    /\ UNCHANGED <<disk, manager>> /\ Unchanging

\* The file cannot be opened or decoded: the loader, if there is one, keeps
\* what it has got so far, and the endpoint ends without what was to follow.
\* A list that is read for the first time gets no loader.
LoadFails ==
    /\ ReadFails
    /\ \/ api.pc = "fill"
       \/ api.pc = "reload" /\ \E f \in api.todo : loaded[f] = None
    /\ api' = NoJob
    /\ UNCHANGED <<disk, loaded, manager>> /\ Unchanging

-----------------------------------------------------------------------------
(* The block list endpoints.                                               *)

ApiFree == api.pc = "idle"

\* create_custom_blocklist, update_custom_blocklist: _write_blocklist, reload.
WriteList(f, content) ==
    /\ ApiFree
    /\ files' = [files EXCEPT ![f] = content]
    /\ Reloading({f}, "idle")
    /\ UNCHANGED <<store, loaded, manager>> /\ Unchanging

\* Faulty variant: a filter that is switched off does not count.
UnusedByRunning(f) ==
    \A n \in Customs :
        definitions[n] # None /\ definitions[n].on => definitions[n].file # f

Unused(f) ==
    \A n \in Customs : definitions[n] # None => definitions[n].file # f

\* Faulty variant: the loader keeps what it has.
NotForgotten(f) == loaded

\* loader._domains.clear(), if there is a loader.
Forgotten(f) == [loaded EXCEPT ![f] = IF @ = None THEN None ELSE {}]

\* delete_custom_blocklist
DeleteList(f) ==
    /\ ApiFree /\ files[f] # None /\ Unused(f)
    /\ files' = [files EXCEPT ![f] = None]
    /\ loaded' = Forgotten(f)
    /\ UNCHANGED <<store, manager, api>> /\ Unchanging

\* reload_blocklist
ReloadList(f) ==
    /\ ApiFree /\ files[f] # None
    /\ Reloading({f}, "idle")
    /\ UNCHANGED <<disk, loaded, manager>> /\ Unchanging

\* The loaders once the lists of F that are on disk have been asked for.
WithLoaders(F) ==
    [f \in Files |-> IF f \in F /\ files[f] # None THEN Fetched(loaded, f)[f]
                                                  ELSE loaded[f]]

OnDiskLoaded == WithLoaders(Files)

\* reload_all_blocklists: what is on disk is loaded, what is loaded reloaded.
ReloadAll ==
    /\ ApiFree
    /\ loaded' = OnDiskLoaded
    /\ Reloading({f \in Files : loaded'[f] # None}, "idle")
    /\ UNCHANGED <<disk, manager>> /\ Unchanging

\* blocklists_page loads what it lists.
ViewLists ==
    /\ ApiFree
    /\ loaded' = OnDiskLoaded
    /\ UNCHANGED <<disk, manager, api>> /\ Unchanging

\* Either of them, when one of the lists cannot be read: those before it have
\* their loaders, and nothing is reloaded.
LoadSomeLists ==
    /\ ApiFree /\ ReadFails
    /\ \E F \in SUBSET Files :
          /\ \E f \in Files \ F : files[f] # None /\ loaded[f] = None
          /\ loaded' = WithLoaders(F)
    /\ UNCHANGED <<disk, manager, api>> /\ Unchanging

-----------------------------------------------------------------------------
(* The filter endpoints.                                                   *)

Persisted == store' = definitions

\* Where a filter is in the list: names are unique (FilterTypeOK).
PositionOf(name) == CHOOSE i \in DOMAIN filters : filters[i].name = name

NameFree(n) == n \notin NamesOf(filters)

\* create_custom_filter: add_custom_filter appends to the list it has.
AddFilter(n, f, on) ==
    /\ ApiFree /\ NameFree(n) /\ files[f] # None
    /\ definitions' = [definitions EXCEPT ![n] = [file |-> f, on |-> on]]
    /\ loaded' = Fetched(loaded, f)
    /\ filters' = Append(filters, [name |-> n, file |-> f])
    /\ api' = [NoJob EXCEPT !.pc = "add-switch", !.name = n, !.on = on]
    /\ UNCHANGED <<disk, enabled>> /\ Unchanging

\* The list cannot be read, and the definition has been entered before.
AddFilterFails(n, f, on) ==
    /\ ApiFree /\ NameFree(n) /\ files[f] # None
    /\ ReadFails /\ loaded[f] = None
    /\ definitions' = [definitions EXCEPT ![n] = [file |-> f, on |-> on]]
    /\ UNCHANGED <<disk, loaded, filters, enabled, api>> /\ Unchanging

AddSwitch ==
    /\ api.pc = "add-switch"
    /\ enabled' = Switch(api.name, api.on)
    /\ api' = [api EXCEPT !.pc = "add-persist"]
    /\ UNCHANGED <<disk, loaded, filters, definitions>> /\ Unchanging

\* Faulty variant: the definition stays behind.
KeptDefined(n) == definitions

Undefined(n) == [definitions EXCEPT ![n] = None]

\* The addition is written, or taken back.
AddPersist ==
    /\ api.pc = "add-persist"
    /\ \/ Persisted /\ UNCHANGED manager
       \/ /\ StoreFails
          /\ filters' = Front(filters)
          /\ enabled' = Switch(api.name, None)
          /\ definitions' = Undefined(api.name)
          /\ UNCHANGED store
    /\ api' = NoJob
    /\ UNCHANGED <<files, loaded>> /\ Unchanging

\* update_custom_filter: the filter is replaced in its place and its list is
\* reloaded; then the switches and the definition follow.  Without a filter
\* of that name, or with a new list that cannot be read, nothing happens.
UpdateFilter(n, to, f, on) ==
    /\ ApiFree /\ definitions[n] # None /\ files[f] # None
    /\ n \in NamesOf(filters)
    /\ to = n \/ NameFree(to)
    /\ filters' = [i \in DOMAIN filters |->
                      IF filters[i].name = n THEN [name |-> to, file |-> f]
                                             ELSE filters[i]]
    /\ loaded' = Fetched(loaded, f)
    /\ api' = [NoJob EXCEPT !.pc = "reload", !.todo = {f},
                            !.then = "update-unswitch",
                            !.name = n, !.to = to, !.on = on]
    /\ UNCHANGED <<disk, enabled, definitions>> /\ Unchanging

FileOf(name) == filters[PositionOf(name)].file

UpdateUnswitch ==
    /\ api.pc = "update-unswitch"
    /\ enabled' = Switch(api.name, None)
    /\ api' = [api EXCEPT !.pc = "update-switch"]
    /\ UNCHANGED <<disk, loaded, filters, definitions>> /\ Unchanging

\* Faulty variant: the old name keeps its definition.
RedefinedBeside(from, to, on) ==
    [definitions EXCEPT ![to] = [file |-> FileOf(to), on |-> on]]

Redefined(from, to, on) ==
    [definitions EXCEPT ![from] = None,
                        ![to] = [file |-> FileOf(to), on |-> on]]

UpdateSwitch ==
    /\ api.pc = "update-switch"
    /\ enabled' = Switch(api.to, api.on)
    /\ definitions' = Redefined(api.name, api.to, api.on)
    /\ api' = [api EXCEPT !.pc = "persist"]
    /\ UNCHANGED <<disk, loaded, filters>> /\ Unchanging

\* _persist without a way back: if the write fails, memory keeps the change.
Persist ==
    /\ api.pc = "persist"
    /\ \/ Persisted
       \/ StoreFails /\ UNCHANGED store
    /\ api' = NoJob
    /\ UNCHANGED <<files, loaded, manager>> /\ Unchanging

\* Faulty variant: the filter is taken out of the list that is being walked.
WalkSeesRemoval == walk

\* A walk under way keeps the list it began on.
WalkKeepsList ==
    IF walk.pc \in {"next", "switch", "list"} THEN [walk EXCEPT !.list = Walked]
                                              ELSE walk

Without(n) ==
    IF n \in NamesOf(filters) THEN RemoveAt(filters, PositionOf(n)) ELSE filters

\* remove_custom_filter makes a new list.
RemoveFilter(n) ==
    /\ ApiFree /\ definitions[n] # None
    /\ filters' = Without(n)
    /\ walk' = WalkKeepsList
    /\ api' = [NoJob EXCEPT !.pc = "remove-switch", !.name = n]
    /\ UNCHANGED <<disk, loaded, enabled, definitions, crashes>>

RemoveSwitch ==
    /\ api.pc = "remove-switch"
    /\ enabled' = Switch(api.name, None)
    /\ definitions' = Undefined(api.name)
    /\ api' = [api EXCEPT !.pc = "persist"]
    /\ UNCHANGED <<disk, loaded, filters>> /\ Unchanging

\* toggle_filter: is_enabled and set_enabled.  Switches of filters without a
\* definition, the built-in ones above all, are kept in memory only.
Toggle(n) ==
    LET on == enabled[n] # TRUE IN
    /\ ApiFree /\ n \in NamesOf(filters)
    /\ enabled' = Switch(n, on)
    /\ IF n \in Customs /\ definitions[n] # None
       THEN /\ definitions' = [definitions EXCEPT ![n].on = on]
            /\ api' = [NoJob EXCEPT !.pc = "persist", !.name = n]
       ELSE UNCHANGED <<definitions, api>>
    /\ UNCHANGED <<disk, loaded, filters>> /\ Unchanging

-----------------------------------------------------------------------------
(* The process.                                                            *)

NothingLoaded == [f \in Files |-> None]
AllUnset      == [n \in Names |-> None]
NoDefinitions == [n \in Customs |-> None]

Crash ==
    /\ api.pc # "down" /\ crashes < MaxCrashes
    /\ crashes' = crashes + 1
    /\ api' = [NoJob EXCEPT !.pc = "down"]
    /\ walk' = NoWalk
    /\ loaded' = NothingLoaded
    /\ filters' = <<>>
    /\ enabled' = AllUnset
    /\ definitions' = NoDefinitions
    /\ UNCHANGED disk

StoredNames == {n \in Customs : store[n] # None}

\* _load_store: the first MaxStored filters of the file, whose order is left
\* open here; none if the file cannot be read.
ReadNames ==
    {N \in SUBSET StoredNames :
        IF Cardinality(StoredNames) <= MaxStored THEN N = StoredNames
                                                 ELSE Cardinality(N) = MaxStored}
       \cup (IF ReadFails THEN {{}} ELSE {})

\* The definitions under the names N.
ReadOf(N) == [n \in Customs |-> IF n \in N THEN store[n] ELSE None]

\* A new FilterManager: the built-in filters, all on, then the stored ones.
\* Their lists need not exist, but if one cannot be read there is no process.
Boot ==
    /\ api.pc = "down"
    /\ api' = NoJob
    /\ \E N \in ReadNames :
          /\ definitions' = ReadOf(N)
          /\ \E b \in SetToSeqs(Builtins), c \in SetToSeqs(N) :
                filters' =
                   [i \in DOMAIN b |-> [name |-> b[i], file |-> BuiltinFile[b[i]]]]
                      \o [i \in DOMAIN c |->
                             [name |-> c[i], file |-> store[c[i]].file]]
    /\ enabled' =
          [n \in Names |->
              IF n \in Builtins THEN TRUE
              ELSE IF definitions'[n] = None THEN None ELSE definitions'[n].on]
    /\ loaded' =
          [f \in Files |->
              IF f \in {filters'[i].file : i \in DOMAIN filters'}
              THEN Content(f) ELSE None]
    /\ UNCHANGED <<disk, walk, crashes>>

FilterInit ==
    /\ files \in {fs \in [Files -> (SUBSET Domains) \cup {None}] :
                    \A f \in Files : fs[f] = None <=> f \in CustomFiles}
    /\ store = NoDefinitions
    /\ loaded = NothingLoaded
    /\ filters = <<>>
    /\ enabled = AllUnset
    /\ definitions = NoDefinitions
    /\ api = [NoJob EXCEPT !.pc = "down"]
    /\ walk = NoWalk
    /\ crashes = 0

ListCall ==
    \/ \E f \in CustomFiles, content \in SUBSET Domains : WriteList(f, content)
    \/ \E f \in CustomFiles : DeleteList(f)
    \/ \E f \in Files : ReloadList(f)
    \/ ReloadAll
    \/ ViewLists
    \/ LoadSomeLists

FilterCall ==
    \/ \E n \in Customs, f \in CustomFiles, on \in BOOLEAN :
          AddFilter(n, f, on) \/ AddFilterFails(n, f, on)
    \/ \E n, to \in Customs, f \in CustomFiles, on \in BOOLEAN :
          UpdateFilter(n, to, f, on)
    \/ \E n \in Customs : RemoveFilter(n)
    \/ \E n \in Names : Toggle(n)

ApiContinues ==
    \/ ClearList
    \/ FillList
    \/ LoadFails
    \/ AddSwitch
    \/ AddPersist
    \/ UpdateUnswitch
    \/ UpdateSwitch
    \/ RemoveSwitch
    \/ Persist

EndpointStep ==
    \/ ListCall
    \/ FilterCall
    \/ ApiContinues
    \/ Crash
    \/ Boot

FilterNext ==
    \/ \E d \in Domains : BeginWalk(d)
    \/ WalkStep
    \/ EndpointStep

FilterSpec == FilterInit /\ [][FilterNext]_filterVars

-----------------------------------------------------------------------------
(* Properties.                                                             *)

ApiAt == {"idle", "down", "reload", "fill", "add-switch", "add-persist",
          "update-unswitch", "update-switch", "remove-switch", "persist"}

\* The shape of the state.  Filters have different names, and their lists are
\* loaded.
FilterTypeOK ==
    /\ files \in [Files -> (SUBSET Domains) \cup {None}]
    /\ store \in [Customs -> Definition \cup {None}]
    /\ loaded \in [Files -> (SUBSET Domains) \cup {None}]
    /\ filters \in Seq(Filter)
    /\ \A i, j \in DOMAIN filters : filters[i].name = filters[j].name => i = j
    /\ \A i \in DOMAIN filters : loaded[filters[i].file] # None
    /\ enabled \in [Names -> BOOLEAN \cup {None}]
    /\ definitions \in [Customs -> Definition \cup {None}]
    /\ api.pc \in ApiAt
    /\ api.pc \in {"fill"} <=> api.file # None
    /\ walk.pc \in {"idle", "next", "switch", "list", "allowed", "blocked"}
    /\ walk.next \in 1..(Len(Walked) + 2)
    /\ crashes \in 0..MaxCrashes
=============================================================================
