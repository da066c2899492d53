-------------------------- MODULE DNSFiltersProofs --------------------------
(***************************************************************************)
(* Proofs about DNSFilters, for any domains, filters and block lists: the  *)
(* tables of the manager, the loaders, the file of the custom filters and  *)
(* the walk of the DNS thread, whatever the endpoints do and wherever the  *)
(* process ends.                                                           *)
(***************************************************************************)
EXTENDS MCDNSFilterWalk, MCDNSFilterTables,
        SequenceTheorems, FunctionTheorems, FiniteSetTheorems, TLAPS

-----------------------------------------------------------------------------
(* The invariants.                                                         *)

Job == [pc : ApiAt, todo : SUBSET Files, file : Files \cup {None},
        then : {"idle", "update-unswitch"},
        name : Customs \cup {None}, to : Customs \cup {None}, on : BOOLEAN]

\* A filter is being replaced: it is in the list under its new name, and the
\* switches and definitions are still those of the old one.
Updating(j) ==
    \/ j.pc \in {"update-unswitch", "update-switch"}
    \/ j.pc \in {"reload", "fill"} /\ j.then = "update-unswitch"

Adding(j) == j.pc \in {"add-switch", "add-persist"}

Removing(j) == j.pc = "remove-switch"

JobShape ==
    /\ api \in Job
    /\ api.pc = "fill" <=> api.file # None
    /\ Adding(api) \/ Updating(api) \/ Removing(api) => api.name \in Customs
    /\ Updating(api) => api.to \in Customs

TablesShape ==
    /\ files \in [Files -> (SUBSET Domains) \cup {None}]
    /\ store \in [Customs -> Definition \cup {None}]
    /\ loaded \in [Files -> (SUBSET Domains) \cup {None}]
    /\ filters \in Seq(Filter)
    /\ enabled \in [Names -> BOOLEAN \cup {None}]
    /\ definitions \in [Customs -> Definition \cup {None}]
    /\ crashes \in 0 .. MaxCrashes

\* Names are unique, and custom filters read custom lists.
ListOK(s) ==
    /\ s \in Seq(Filter)
    /\ \A i, j \in DOMAIN s : s[i].name = s[j].name => i = j
    /\ \A x \in Range(s) : x.name \in Customs => x.file \in CustomFiles

\* What is in the list is loaded, and a filter that is being added is the last.
ListShape ==
    /\ ListOK(filters)
    /\ \A x \in Range(filters) : loaded[x.file] # None
    /\ api.pc = "fill" => loaded[api.file] # None
    /\ Adding(api) => /\ filters # << >>
                      /\ filters[Len(filters)].name = api.name

\* How far the tables may be behind the list in the middle of an endpoint.
NotSwitchedYet(j) ==
    {n \in Customs : \/ j.pc = "add-switch" /\ n = j.name
                     \/ Updating(j) /\ n = j.to}

StillSwitched(j) ==
    {n \in Customs : /\ n = j.name
                     /\ \/ Removing(j)
                        \/ Updating(j) /\ j.pc # "update-switch"}

NotDefinedYet(j) == {n \in Customs : Updating(j) /\ n = j.to}

StillDefined(j) ==
    {n \in Customs : n = j.name /\ (Removing(j) \/ Updating(j))}

\* The tables say the same of the names in N.
SwitchesAgree(N) ==
    \A n \in N :
        enabled[n] # None <=>
            \/ n \in NamesOf(filters) /\ n \notin NotSwitchedYet(api)
            \/ n \in StillSwitched(api)

DefinitionsAgree(N) ==
    /\ \A n \in N \cap Customs :
          definitions[n] # None <=>
              \/ n \in NamesOf(filters) /\ n \notin NotDefinedYet(api)
              \/ n \in StillDefined(api)
    /\ \A x \in Range(filters) :
          x.name \in N \cap Customs /\ x.name \notin NotDefinedYet(api) =>
              /\ definitions[x.name].file = x.file
              /\ x.name \notin NotSwitchedYet(api) =>
                    definitions[x.name].on = enabled[x.name]

\* The names that an endpoint has at hand.
NamesAtHand ==
    /\ Updating(api) => api.to \in NamesOf(filters)
    /\ Removing(api) \/ (Updating(api) /\ api.name # api.to) =>
          api.name \notin NamesOf(filters)
    /\ api.pc = "add-switch" => definitions[api.name].on = api.on

ManagerShape == JobShape /\ TablesShape /\ ListShape /\ NamesAtHand

ManagerInv(N) == ManagerShape /\ SwitchesAgree(N) /\ DefinitionsAgree(N)

Walking == walk.pc \in {"next", "switch", "list"}

Walk == [pc : {"idle", "next", "switch", "list", "allowed", "blocked"},
         domain : Domains \cup {None}, list : Seq(Filter) \cup {Live},
         next : Nat \ {0}, filter : Filter \cup {None}]

\* A walk is nowhere beyond the end of its list, although the list may have
\* lost the last filter since.
WalkInv ==
    /\ walk \in Walk
    /\ walk.next <= Len(Walked) + 2
    /\ Adding(api) /\ walk.list = Live => walk.next <= Len(filters) + 1
    /\ ~Walking => walk.list = Live /\ walk.next = 1
    /\ walk.pc \in {"switch", "list"} => walk.filter \in Filter
    /\ api.pc = "down" => walk.pc = "idle"

\* The list that an endpoint has written or cleared, and has not filled yet.
Reloaded(j) == {f \in Files : \/ j.pc = "reload" /\ j.todo = {f}
                              \/ j.pc = "fill" /\ j.file = f}

\* A loader has what its file says, as far as it has been read.
LoaderAgrees(f) ==
    loaded[f] # None => /\ loaded[f] \subseteq Content(f)
                        /\ f \notin misread => loaded[f] = Content(f)

LoadersInv ==
    /\ \A f \in Files \ Reloaded(api) : LoaderAgrees(f)
    /\ api.pc = "fill" => loaded[api.file] \subseteq Content(api.file)

\* A filter that has stood in the way all the time is still ahead.
Ahead(x) ==
    \/ \E p \in DOMAIN Walked : walk.next <= p /\ Walked[p] = x
    \/ walk.pc \in {"switch", "list"} /\ walk.filter = x

StandingInv ==
    /\ standing \subseteq Blocking
    /\ Walking => \A x \in standing : Ahead(x)
    /\ walk.pc = "allowed" => standing = {}

\* Names whose definitions are changed, and not yet written.
InHand(j) == {n \in Customs : \/ Adding(j) /\ n = j.name
                              \/ j.pc = "persist" /\ n \in {j.name, j.to}}

StoreInv ==
    /\ unwritten \subseteq strayed
    /\ api.pc # "down" =>
          \A n \in Customs \ (unwritten \cup InHand(api)) :
              definitions[n] = store[n]
    /\ Adding(api) /\ api.name \notin unwritten \cup halfway =>
          store[api.name] = None

ListsInv ==
    /\ ListsOutliveFilters
    /\ Updating(api) =>
          \A x \in Range(filters) : x.name = api.to => files[x.file] # None

-----------------------------------------------------------------------------
(* What the endpoints make of their state.                                 *)

JobOf(pc, todo, file, then, name, to, on) ==
    [pc |-> pc, todo |-> todo, file |-> file, then |-> then,
     name |-> name, to |-> to, on |-> on]

\* The switch of no job, FALSE.
Off == NoJob.on

\* A job is its fields.
LEMMA JobFields ==
    \A a \in Job :
        a = JobOf(a.pc, a.todo, a.file, a.then, a.name, a.to, a.on)
BY DEF Job, JobOf

WithPc(j, x) == [j EXCEPT !.pc = x]
WithTodo(j, x) == [j EXCEPT !.todo = x]
WithFile(j, x) == [j EXCEPT !.file = x]
WithThen(j, x) == [j EXCEPT !.then = x]
WithName(j, x) == [j EXCEPT !.name = x]
WithTo(j, x) == [j EXCEPT !.to = x]
WithOn(j, x) == [j EXCEPT !.on = x]

\* What EXCEPT makes of one field.
LEMMA FieldChanges ==
    ASSUME NEW pc, NEW todo, NEW file, NEW then, NEW name, NEW to, NEW on,
           NEW x
    PROVE  LET j == JobOf(pc, todo, file, then, name, to, on) IN
           /\ WithPc(j, x) = JobOf(x, todo, file, then, name, to, on)
           /\ WithTodo(j, x) = JobOf(pc, x, file, then, name, to, on)
           /\ WithFile(j, x) = JobOf(pc, todo, x, then, name, to, on)
           /\ WithThen(j, x) = JobOf(pc, todo, file, x, name, to, on)
           /\ WithName(j, x) = JobOf(pc, todo, file, then, x, to, on)
           /\ WithTo(j, x) = JobOf(pc, todo, file, then, name, x, on)
           /\ WithOn(j, x) = JobOf(pc, todo, file, then, name, to, x)
<1> SUFFICES ASSUME NEW j, j = JobOf(pc, todo, file, then, name, to, on)
             PROVE
               /\ [j EXCEPT !.pc = x] = JobOf(x, todo, file, then, name, to, on)
               /\ [j EXCEPT !.todo = x] = JobOf(pc, x, file, then, name, to, on)
               /\ [j EXCEPT !.file = x] = JobOf(pc, todo, x, then, name, to, on)
               /\ [j EXCEPT !.then = x] = JobOf(pc, todo, file, x, name, to, on)
               /\ [j EXCEPT !.name = x] = JobOf(pc, todo, file, then, x, to, on)
               /\ [j EXCEPT !.to = x] = JobOf(pc, todo, file, then, name, x, on)
               /\ [j EXCEPT !.on = x] = JobOf(pc, todo, file, then, name, to, x)
  BY DEF WithPc, WithTodo, WithFile, WithThen, WithName, WithTo, WithOn
<1> QED
  BY DEF JobOf

\* The jobs that endpoints go on with.
LEMMA JobChanges ==
    ASSUME NEW j \in Job
    PROVE
      /\ \A p : [j EXCEPT !.pc = p]
            = JobOf(p, j.todo, j.file, j.then, j.name, j.to, j.on)
      /\ \A t, h : [j EXCEPT !.pc = "reload", !.todo = t, !.then = h]
            = JobOf("reload", t, j.file, h, j.name, j.to, j.on)
      /\ \A f : [j EXCEPT !.pc = "fill", !.file = f, !.todo = @ \ {f}]
            = JobOf("fill", j.todo \ {f}, f, j.then, j.name, j.to, j.on)
      /\ [j EXCEPT !.pc = "reload", !.file = None]
            = JobOf("reload", j.todo, None, j.then, j.name, j.to, j.on)
<1>1. j = JobOf(j.pc, j.todo, j.file, j.then, j.name, j.to, j.on)
  BY JobFields
<1>2. ASSUME NEW p
      PROVE  [j EXCEPT !.pc = p]
            = JobOf(p, j.todo, j.file, j.then, j.name, j.to, j.on)
  <2>1. WithPc(j, p)
           = JobOf(p, j.todo, j.file, j.then, j.name, j.to, j.on)
    BY <1>1, FieldChanges
  <2> QED
    BY <2>1 DEF WithPc
<1>3. ASSUME NEW t, NEW h
      PROVE  [j EXCEPT !.pc = "reload", !.todo = t, !.then = h]
            = JobOf("reload", t, j.file, h, j.name, j.to, j.on)
  <2>1. WithThen(WithTodo(WithPc(j, "reload"), t), h)
           = JobOf("reload", t, j.file, h, j.name, j.to, j.on)
    BY <1>1, FieldChanges
  <2> QED
    BY <2>1 DEF WithPc, WithTodo, WithThen
<1>4. ASSUME NEW f
      PROVE  [j EXCEPT !.pc = "fill", !.file = f, !.todo = @ \ {f}]
            = JobOf("fill", j.todo \ {f}, f, j.then, j.name, j.to, j.on)
  <2> DEFINE a == WithFile(WithPc(j, "fill"), f)
  <2>0. a = JobOf("fill", j.todo, f, j.then, j.name, j.to, j.on)
    BY <1>1, FieldChanges
  <2>1. WithTodo(a, a.todo \ {f}) = JobOf("fill", j.todo \ {f}, f, j.then, j.name, j.to, j.on)
    <3>1. a.todo = j.todo
      BY <2>0 DEF JobOf
    <3> QED
      BY <2>0, <3>1, FieldChanges
  <2> QED
    BY <2>1 DEF WithPc, WithFile, WithTodo
<1>5. [j EXCEPT !.pc = "reload", !.file = None]
            = JobOf("reload", j.todo, None, j.then, j.name, j.to, j.on)
  <2>1. WithFile(WithPc(j, "reload"), None)
           = JobOf("reload", j.todo, None, j.then, j.name, j.to, j.on)
    BY <1>1, FieldChanges
  <2> QED
    BY <2>1 DEF WithPc, WithFile
<1> QED
  BY <1>2, <1>3, <1>4, <1>5

\* The jobs that endpoints begin with.
LEMMA NewJobs ==
    ASSUME NEW n, NEW on
    PROVE
      /\ NoJob
            = JobOf("idle", {}, None, "idle", None, None, Off)
      /\ [NoJob EXCEPT !.pc = "down"]
            = JobOf("down", {}, None, "idle", None, None, Off)
      /\ [NoJob EXCEPT !.pc = "persist", !.name = n]
            = JobOf("persist", {}, None, "idle", n, None, Off)
      /\ [NoJob EXCEPT !.pc = "remove-switch", !.name = n]
            = JobOf("remove-switch", {}, None, "idle", n, None, Off)
      /\ [NoJob EXCEPT !.pc = "add-switch", !.name = n, !.on = on]
            = JobOf("add-switch", {}, None, "idle", n, None, on)
<1>1. NoJob = JobOf("idle", {}, None, "idle", None, None, Off)
  BY DEF NoJob, JobOf, Off
<1>2. [NoJob EXCEPT !.pc = "down"]
            = JobOf("down", {}, None, "idle", None, None, Off)
  <2>1. WithPc(NoJob, "down")
           = JobOf("down", {}, None, "idle", None, None, Off)
    BY <1>1, FieldChanges
  <2> QED
    BY <2>1 DEF WithPc
<1>3. [NoJob EXCEPT !.pc = "persist", !.name = n]
            = JobOf("persist", {}, None, "idle", n, None, Off)
  <2>1. WithName(WithPc(NoJob, "persist"), n)
           = JobOf("persist", {}, None, "idle", n, None, Off)
    BY <1>1, FieldChanges
  <2> QED
    BY <2>1 DEF WithPc, WithName
<1>4. [NoJob EXCEPT !.pc = "remove-switch", !.name = n]
            = JobOf("remove-switch", {}, None, "idle", n, None, Off)
  <2>1. WithName(WithPc(NoJob, "remove-switch"), n)
           = JobOf("remove-switch", {}, None, "idle", n, None, Off)
    BY <1>1, FieldChanges
  <2> QED
    BY <2>1 DEF WithPc, WithName
<1>5. [NoJob EXCEPT !.pc = "add-switch", !.name = n, !.on = on]
            = JobOf("add-switch", {}, None, "idle", n, None, on)
  <2>1. WithOn(WithName(WithPc(NoJob, "add-switch"), n), on)
           = JobOf("add-switch", {}, None, "idle", n, None, on)
    BY <1>1, FieldChanges
  <2> QED
    BY <2>1 DEF WithPc, WithName, WithOn
<1> QED
  BY <1>1, <1>2, <1>3, <1>4, <1>5

\* The job of an endpoint that replaces a filter.
LEMMA ReplacementJob ==
    ASSUME NEW n, NEW to, NEW on, NEW t
    PROVE  WithOn(WithTo(WithName(WithThen(WithTodo(WithPc(NoJob, "reload"), t),
                                           "update-unswitch"), n), to), on)
              = JobOf("reload", t, None, "update-unswitch", n, to, on)
<1>1. NoJob = JobOf("idle", {}, None, "idle", None, None, Off)
  BY DEF NoJob, JobOf, Off
<1> QED
  BY <1>1, FieldChanges

\* Where the endpoints of the block lists go.
LEMMA ListMoves ==
    ASSUME api \in Job
    PROVE
      /\ \A f \in CustomFiles, c \in SUBSET Domains : WriteList(f, c) =>
            api' = JobOf("reload", {f}, api.file, "idle",
                         api.name, api.to, api.on)
      /\ \A f \in Files : ReloadList(f) =>
            api' = JobOf("reload", {f}, api.file, "idle",
                         api.name, api.to, api.on)
      /\ ReloadAll =>
            api' = JobOf("reload", {f \in Files : loaded'[f] # None},
                         api.file, "idle", api.name, api.to, api.on)
<1>1. ASSUME NEW todo
      PROVE  Reloading(todo, "idle") =>
                api' = JobOf("reload", todo, api.file, "idle",
                             api.name, api.to, api.on)
  BY JobChanges, Zenon DEF Reloading
<1>2. /\ \A f \in CustomFiles, c \in SUBSET Domains : WriteList(f, c) =>
            Reloading({f}, "idle")
      /\ \A f \in Files : ReloadList(f) => Reloading({f}, "idle")
      /\ ReloadAll => Reloading({f \in Files : loaded'[f] # None}, "idle")
  BY Zenon DEF WriteList, ReloadList, ReloadAll
<1> QED
  BY <1>1, <1>2

\* Where the endpoints of the filters begin.
LEMMA FilterMoves ==
    ASSUME api \in Job
    PROVE
      /\ \A n \in Customs, f \in CustomFiles, on \in BOOLEAN :
            AddFilter(n, f, on) =>
               api' = JobOf("add-switch", {}, None, "idle", n, None, on)
      /\ \A n, to \in Customs, f \in CustomFiles, on \in BOOLEAN :
            UpdateFilter(n, to, f, on) =>
               api' = JobOf("reload", {f}, None, "update-unswitch", n, to, on)
      /\ \A n \in Customs : RemoveFilter(n) =>
            api' = JobOf("remove-switch", {}, None, "idle", n, None, Off)
      /\ \A n \in Names : Toggle(n) =>
            api' = IF n \in Customs /\ definitions[n] # None
                   THEN JobOf("persist", {}, None, "idle", n, None, Off)
                   ELSE api
<1>1. ASSUME NEW n \in Customs, NEW f \in CustomFiles, NEW on \in BOOLEAN,
             AddFilter(n, f, on)
      PROVE  api' = JobOf("add-switch", {}, None, "idle", n, None, on)
  BY <1>1, NewJobs, Zenon DEF AddFilter
<1>2. ASSUME NEW n \in Customs, NEW to \in Customs, NEW f \in CustomFiles,
             NEW on \in BOOLEAN, UpdateFilter(n, to, f, on)
      PROVE  api' = JobOf("reload", {f}, None, "update-unswitch", n, to, on)
  <2>1. api' = [NoJob EXCEPT !.pc = "reload", !.todo = {f},
                             !.then = "update-unswitch",
                             !.name = n, !.to = to, !.on = on]
    BY <1>2, Zenon DEF UpdateFilter
  <2>2. WithOn(WithTo(WithName(WithThen(WithTodo(WithPc(NoJob, "reload"), {f}),
                                       "update-unswitch"), n), to), on)
           = JobOf("reload", {f}, None, "update-unswitch", n, to, on)
    BY ReplacementJob, Zenon
  <2> QED
    BY <2>1, <2>2 DEF WithPc, WithTodo, WithThen, WithName, WithTo, WithOn
<1>3. ASSUME NEW n \in Customs, RemoveFilter(n)
      PROVE  api' = JobOf("remove-switch", {}, None, "idle", n, None, Off)
  BY <1>3, NewJobs, Zenon DEF RemoveFilter
<1>4. ASSUME NEW n \in Names, Toggle(n)
      PROVE  api' = IF n \in Customs /\ definitions[n] # None
                    THEN JobOf("persist", {}, None, "idle", n, None, Off)
                    ELSE api
  <2>1. IF n \in Customs /\ definitions[n] # None
        THEN api' = [NoJob EXCEPT !.pc = "persist", !.name = n]
        ELSE api' = api
    BY <1>4, Zenon DEF Toggle
  <2> QED
    BY <2>1, NewJobs, Zenon
<1> QED
  BY <1>1, <1>2, <1>3, <1>4

\* Where loading goes.
LEMMA LoadMoves ==
    ASSUME api \in Job
    PROVE
      /\ ClearList =>
            \/ /\ api.todo = {} /\ api.then = "idle" /\ loaded' = loaded
               /\ api' = JobOf("idle", {}, None, "idle", None, None, Off)
            \/ /\ api.todo = {} /\ api.then # "idle" /\ loaded' = loaded
               /\ api' = JobOf(api.then, api.todo, api.file, api.then,
                               api.name, api.to, api.on)
            \/ \E f \in api.todo :
                  /\ loaded' = [loaded EXCEPT ![f] = {}]
                  /\ api' = JobOf("fill", api.todo \ {f}, f, api.then,
                                  api.name, api.to, api.on)
      /\ FillList =>
            \/ /\ loaded[api.file] = Content(api.file) /\ loaded' = loaded
               /\ api' = JobOf("reload", api.todo, None, api.then,
                               api.name, api.to, api.on)
            \/ /\ api' = api
               /\ \E d \in Content(api.file) \ loaded[api.file] :
                     loaded' = [loaded EXCEPT ![api.file] = @ \cup {d}]
<1>1. ASSUME ClearList
      PROVE  \/ /\ api.todo = {} /\ api.then = "idle" /\ loaded' = loaded
                /\ api' = JobOf("idle", {}, None, "idle", None, None, Off)
             \/ /\ api.todo = {} /\ api.then # "idle" /\ loaded' = loaded
                /\ api' = JobOf(api.then, api.todo, api.file, api.then,
                                api.name, api.to, api.on)
             \/ \E f \in api.todo :
                   /\ loaded' = [loaded EXCEPT ![f] = {}]
                   /\ api' = JobOf("fill", api.todo \ {f}, f, api.then,
                                   api.name, api.to, api.on)
  <2>1. CASE /\ api.todo = {} /\ loaded' = loaded
             /\ api' = IF api.then = "idle" THEN NoJob
                                            ELSE [api EXCEPT !.pc = api.then]
    BY <2>1, JobChanges, NewJobs, Zenon
  <2>2. ASSUME NEW f \in api.todo, loaded' = [loaded EXCEPT ![f] = {}],
               api' = [api EXCEPT !.pc = "fill", !.file = f, !.todo = @ \ {f}]
        PROVE  api' = JobOf("fill", api.todo \ {f}, f, api.then,
                            api.name, api.to, api.on)
    BY <2>2, JobChanges, Zenon
  <2> QED
    BY <1>1, <2>1, <2>2, Zenon DEF ClearList
<1>2. ASSUME FillList
      PROVE  \/ /\ loaded[api.file] = Content(api.file) /\ loaded' = loaded
                /\ api' = JobOf("reload", api.todo, None, api.then,
                                api.name, api.to, api.on)
             \/ /\ api' = api
                /\ \E d \in Content(api.file) \ loaded[api.file] :
                      loaded' = [loaded EXCEPT ![api.file] = @ \cup {d}]
  BY <1>2, JobChanges, Zenon DEF FillList
<1> QED
  BY <1>1, <1>2

\* Where the other steps go.
LEMMA OtherMoves ==
    ASSUME api \in Job
    PROVE
      /\ AddSwitch =>
            api' = JobOf("add-persist", api.todo, api.file, api.then,
                         api.name, api.to, api.on)
      /\ UpdateUnswitch =>
            api' = JobOf("update-switch", api.todo, api.file, api.then,
                         api.name, api.to, api.on)
      /\ UpdateSwitch \/ RemoveSwitch =>
            api' = JobOf("persist", api.todo, api.file, api.then,
                         api.name, api.to, api.on)
      /\ AddPersist \/ Persist \/ Boot \/ LoadFails =>
            api' = JobOf("idle", {}, None, "idle", None, None, Off)
      /\ Crash =>
            api' = JobOf("down", {}, None, "idle", None, None, Off)
<1>1. /\ AddSwitch =>
            api' = JobOf("add-persist", api.todo, api.file, api.then,
                         api.name, api.to, api.on)
      /\ UpdateUnswitch =>
            api' = JobOf("update-switch", api.todo, api.file, api.then,
                         api.name, api.to, api.on)
      /\ UpdateSwitch \/ RemoveSwitch =>
            api' = JobOf("persist", api.todo, api.file, api.then,
                         api.name, api.to, api.on)
  BY JobChanges, Zenon DEF AddSwitch, UpdateUnswitch, UpdateSwitch, RemoveSwitch
<1>2. /\ AddPersist \/ Persist \/ Boot \/ LoadFails =>
            api' = JobOf("idle", {}, None, "idle", None, None, Off)
      /\ Crash =>
            api' = JobOf("down", {}, None, "idle", None, None, Off)
  BY NewJobs, Zenon DEF AddPersist, Persist, Boot, LoadFails, Crash
<1> QED
  BY <1>1, <1>2

-----------------------------------------------------------------------------
(* What the library's operators on sequences return.                       *)

\* A domain has one length.
LEMMA SameInterval ==
    ASSUME NEW a \in Nat, NEW b \in Nat, 1 .. a = 1 .. b
    PROVE  a = b
<1>1. ASSUME NEW x \in Nat, NEW y \in Nat, 1 .. x = 1 .. y
      PROVE  x <= y
  <2>1. CASE x = 0
    BY <2>1
  <2>2. CASE x # 0
    <3>1. x \in 1 .. x
      BY <2>2
    <3>2. x \in 1 .. y
      BY <1>1, <3>1
    <3> QED
      BY <3>2
  <2> QED
    BY <2>1, <2>2
<1>2. a <= b /\ b <= a
  BY <1>1
<1> QED
  BY <1>2

\* Taking one element out closes the gap.
LEMMA ElementRemoved ==
    ASSUME NEW S, NEW s \in Seq(S), NEW i \in 1 .. Len(s)
    PROVE  /\ RemoveAt(s, i) \in Seq(S)
           /\ Len(RemoveAt(s, i)) = Len(s) - 1
           /\ \A j \in 1 .. Len(s) - 1 :
                 RemoveAt(s, i)[j] = IF j < i THEN s[j] ELSE s[j + 1]
<1> DEFINE a == SubSeq(s, 1, i - 1)
           b == SubSeq(s, i + 1, Len(s))
<1>1. /\ Len(s) \in Nat /\ i \in Nat
      /\ \A j \in 1 .. Len(s) : s[j] \in S
  BY LenProperties, ElementOfSeq
<1>2. /\ a \in Seq(S) /\ Len(a) = i - 1
      /\ \A j \in 1 .. i - 1 : a[j] = s[j]
  <2>1. \A j \in 1 .. i - 1 : s[j] \in S
    BY <1>1
  <2>2. /\ a \in Seq(S)
        /\ Len(a) = IF 1 <= i - 1 THEN (i - 1) - 1 + 1 ELSE 0
        /\ \A j \in 1 .. (i - 1) - 1 + 1 : a[j] = s[1 + j - 1]
    BY <1>1, <2>1, SubSeqProperties
  <2> HIDE DEF a
  <2> QED
    BY <1>1, <2>2
<1>3. /\ b \in Seq(S) /\ Len(b) = Len(s) - i
      /\ \A j \in 1 .. Len(s) - i : b[j] = s[i + j]
  <2>1. \A j \in i + 1 .. Len(s) : s[j] \in S
    BY <1>1
  <2>2. /\ b \in Seq(S)
        /\ Len(b) = IF i + 1 <= Len(s) THEN Len(s) - (i + 1) + 1 ELSE 0
        /\ \A j \in 1 .. Len(s) - (i + 1) + 1 : b[j] = s[(i + 1) + j - 1]
    BY <1>1, <2>1, SubSeqProperties
  <2> HIDE DEF b
  <2> QED
    BY <1>1, <2>2
<1>4. /\ a \o b \in Seq(S) /\ Len(a \o b) = Len(a) + Len(b)
      /\ \A j \in 1 .. Len(a) + Len(b) :
            (a \o b)[j] = IF j <= Len(a) THEN a[j] ELSE b[j - Len(a)]
  <2> HIDE DEF a, b
  <2> QED
    BY <1>2, <1>3, ConcatProperties
<1>5. RemoveAt(s, i) = a \o b
  BY DEF RemoveAt
<1> HIDE DEF a, b
<1>6. ASSUME NEW j \in 1 .. Len(s) - 1
      PROVE  (a \o b)[j] = IF j < i THEN s[j] ELSE s[j + 1]
  <2>1. CASE j < i
    <3>1. j \in 1 .. i - 1 /\ j <= Len(a) /\ j \in 1 .. Len(a) + Len(b)
      BY <1>1, <1>2, <1>3, <2>1
    <3> QED
      BY <2>1, <3>1, <1>2, <1>4
  <2>2. CASE ~(j < i)
    <3>1. /\ ~(j <= Len(a)) /\ j \in 1 .. Len(a) + Len(b)
          /\ j - Len(a) \in 1 .. Len(s) - i
          /\ i + (j - Len(a)) = j + 1
      BY <1>1, <1>2, <1>3, <2>2
    <3> QED
      BY <2>2, <3>1, <1>3, <1>4
  <2> QED
    BY <2>1, <2>2
<1>7. Len(a \o b) = Len(s) - 1
  BY <1>1, <1>2, <1>3, <1>4
<1> QED
  BY <1>4, <1>5, <1>6, <1>7, Zenon

\* Front leaves the last element out.
LEMMA FrontOf ==
    ASSUME NEW S, NEW s \in Seq(S), s # << >>
    PROVE  /\ Front(s) \in Seq(S)
           /\ Len(Front(s)) = Len(s) - 1
           /\ \A j \in 1 .. Len(s) - 1 : Front(s)[j] = s[j]
<1> DEFINE a == SubSeq(s, 1, Len(s) - 1)
<1>1. /\ Len(s) \in Nat /\ Len(s) # 0
      /\ \A j \in 1 .. Len(s) : s[j] \in S
  BY LenProperties, ElementOfSeq, EmptySeq
<1>2. \A j \in 1 .. Len(s) - 1 : s[j] \in S
  BY <1>1
<1>3. /\ a \in Seq(S)
      /\ Len(a) = IF 1 <= Len(s) - 1 THEN (Len(s) - 1) - 1 + 1 ELSE 0
      /\ \A j \in 1 .. (Len(s) - 1) - 1 + 1 : a[j] = s[1 + j - 1]
  BY <1>1, <1>2, SubSeqProperties
<1>4. Front(s) = a
  BY DEF Front
<1> HIDE DEF a
<1> QED
  BY <1>1, <1>3, <1>4

\* An arrangement of a finite set has every member of it in one place.
LEMMA Arranged ==
    ASSUME NEW T, IsFiniteSet(T), NEW s \in SetToSeqs(T)
    PROVE  /\ s \in Seq(T)
           /\ \A i, j \in DOMAIN s : s[i] = s[j] => i = j
           /\ \A x \in T : \E i \in DOMAIN s : s[i] = x
<1> DEFINE D == 1 .. Cardinality(T)
<1>1. Cardinality(T) \in Nat
  BY FS_CardinalityType
<1>2. /\ s \in [D -> T]
      /\ \A i, j \in D : i # j => s[i] # s[j]
  BY Zenon DEF SetToSeqs
<1>3. s \in Injection(D, T)
  BY <1>2, Fun_IsInj
<1>4. IsFiniteSet(D) /\ Cardinality(D) = Cardinality(T)
  BY <1>1, FS_Interval
<1>5. s \in Surjection(D, T)
  BY <1>3, <1>4, FS_Injection
<1>6. \A x \in T : \E i \in D : s[i] = x
  BY <1>5 DEF Surjection
<1>7. s \in Seq(T) /\ DOMAIN s = D
  BY <1>1, <1>2
<1> QED
  BY <1>2, <1>6, <1>7

-----------------------------------------------------------------------------
(* Lists of filters.                                                       *)

\* The names of a list are those of its members.
LEMMA ListMembers ==
    ASSUME NEW s, ListOK(s)
    PROVE  /\ Len(s) \in Nat /\ DOMAIN s = 1 .. Len(s)
           /\ \A i \in DOMAIN s : s[i] \in Range(s)
           /\ \A x \in Range(s) : \E i \in DOMAIN s : x = s[i]
           /\ Range(s) \subseteq Filter
           /\ NamesOf(s) = {x.name : x \in Range(s)}
           /\ \A x, y \in Range(s) : x.name = y.name => x = y
<1>1. Len(s) \in Nat /\ DOMAIN s = 1 .. Len(s)
  BY LenProperties DEF ListOK
<1>2. /\ \A i \in DOMAIN s : s[i] \in Range(s)
      /\ \A x \in Range(s) : \E i \in DOMAIN s : x = s[i]
  BY DEF Range
<1>3. Range(s) \subseteq Filter
  BY <1>1, <1>2, ElementOfSeq DEF ListOK
<1>4. NamesOf(s) = {x.name : x \in Range(s)}
  BY <1>2 DEF NamesOf
<1>5. \A x, y \in Range(s) : x.name = y.name => x = y
  BY <1>2 DEF ListOK
<1> QED
  BY <1>1, <1>2, <1>3, <1>4, <1>5

\* The empty list.
LEMMA EmptyList == ListOK(<< >>) /\ Range(<< >>) = {} /\ NamesOf(<< >>) = {}
BY DEF ListOK, Range, NamesOf

\* A custom filter with a new name at the end.
LEMMA Appended ==
    ASSUME NEW s, ListOK(s), NEW n \in Customs, NEW f \in CustomFiles,
           n \notin NamesOf(s)
    PROVE  LET x == [name |-> n, file |-> f]
               t == Append(s, x)
           IN  /\ ListOK(t) /\ Range(t) = Range(s) \cup {x}
               /\ Len(t) = Len(s) + 1 /\ t[Len(t)] = x
               /\ \A i \in DOMAIN s : i \in DOMAIN t /\ t[i] = s[i]
<1> DEFINE x == [name |-> n, file |-> f]
           t == Append(s, x)
<1>1. x \in Filter /\ x.name = n /\ x.file = f
  BY DEF Filter, Names, Files
<1>2. s \in Seq(Filter) /\ Len(s) \in Nat /\ DOMAIN s = 1 .. Len(s)
  BY ListMembers DEF ListOK
<1>3. /\ t \in Seq(Filter) /\ Len(t) = Len(s) + 1
      /\ \A i \in 1 .. Len(s) : t[i] = s[i]
      /\ t[Len(s) + 1] = x
  <2> HIDE DEF x
  <2> QED
    BY <1>1, <1>2, AppendProperties
<1> HIDE DEF t, x
<1>4. DOMAIN t = 1 .. Len(s) + 1
  BY <1>2, <1>3, LenProperties
<1>5. Range(t) = Range(s) \cup {x}
  BY <1>2, <1>3, <1>4 DEF Range
<1>6. \A i \in DOMAIN s : s[i].name # n
  BY DEF NamesOf
<1>7. \A i, j \in DOMAIN t : t[i].name = t[j].name => i = j
  BY <1>1, <1>2, <1>3, <1>4, <1>6 DEF ListOK
<1>8. ListOK(t)
  BY <1>1, <1>3, <1>5, <1>7 DEF ListOK
<1> QED
  BY <1>2, <1>3, <1>4, <1>5, <1>8 DEF t, x

\* The last filter is taken back.
LEMMA LastTakenBack ==
    ASSUME NEW s, ListOK(s), s # << >>
    PROVE  /\ ListOK(Front(s))
           /\ Range(Front(s)) = {x \in Range(s) : x.name # s[Len(s)].name}
           /\ Len(Front(s)) = Len(s) - 1
           /\ \A i \in DOMAIN Front(s) : i \in DOMAIN s /\ Front(s)[i] = s[i]
<1> DEFINE t == Front(s)
<1>1. s \in Seq(Filter) /\ Len(s) \in Nat \ {0} /\ DOMAIN s = 1 .. Len(s)
  BY ListMembers, EmptySeq DEF ListOK
<1>2. /\ t \in Seq(Filter) /\ Len(t) = Len(s) - 1
      /\ \A i \in 1 .. Len(s) - 1 : t[i] = s[i]
  BY <1>1, FrontOf
<1> HIDE DEF t
<1>3. DOMAIN t = 1 .. Len(s) - 1
  BY <1>2, LenProperties
<1>4. \A i \in DOMAIN t : i \in DOMAIN s /\ t[i] = s[i] /\ i # Len(s)
  BY <1>1, <1>2, <1>3
<1>5. \A i, j \in DOMAIN t : t[i].name = t[j].name => i = j
  BY <1>4 DEF ListOK
<1>6. Range(t) = {x \in Range(s) : x.name # s[Len(s)].name}
  <2>1. \A i \in DOMAIN s : s[i].name # s[Len(s)].name <=> i # Len(s)
    BY <1>1 DEF ListOK
  <2>2. \A i \in DOMAIN s : i # Len(s) => i \in DOMAIN t
    BY <1>1, <1>3
  <2> QED
    BY <1>4, <2>1, <2>2 DEF Range
<1>7. ListOK(t)
  BY <1>2, <1>5, <1>6 DEF ListOK
<1> QED
  BY <1>2, <1>4, <1>6, <1>7 DEF t

\* A filter gets another list, and perhaps another name, in its place.
LEMMA ReplacedInPlace ==
    ASSUME NEW s, ListOK(s), NEW n \in NamesOf(s), NEW to \in Customs,
           NEW f \in CustomFiles, to = n \/ to \notin NamesOf(s)
    PROVE  LET x == [name |-> to, file |-> f]
               t == [i \in DOMAIN s |-> IF s[i].name = n THEN x ELSE s[i]]
           IN  /\ ListOK(t)
               /\ Range(t) = {y \in Range(s) : y.name # n} \cup {x}
               /\ Len(t) = Len(s) /\ DOMAIN t = DOMAIN s
<1> DEFINE x == [name |-> to, file |-> f]
           t == [i \in DOMAIN s |-> IF s[i].name = n THEN x ELSE s[i]]
<1>1. x \in Filter /\ x.name = to /\ x.file = f
  BY DEF Filter, Names, Files
<1>2. /\ s \in Seq(Filter) /\ Len(s) \in Nat /\ DOMAIN s = 1 .. Len(s)
      /\ \A i \in DOMAIN s : s[i] \in Filter
  BY ListMembers, ElementOfSeq DEF ListOK
<1> HIDE DEF x
<1>3. /\ DOMAIN t = DOMAIN s
      /\ \A i \in DOMAIN s : t[i] = IF s[i].name = n THEN x ELSE s[i]
  OBVIOUS
<1>4. t \in Seq(Filter) /\ Len(t) = Len(s)
  <2> DEFINE e(i) == IF s[i].name = n THEN x ELSE s[i]
  <2>1. \A i \in 1 .. Len(s) : e(i) \in Filter
    BY <1>1, <1>2
  <2>2. [i \in 1 .. Len(s) |-> e(i)] \in Seq(Filter)
    <3> HIDE DEF e
    <3> QED
      BY <1>2, <2>1, IsASeq
  <2>3. t = [i \in 1 .. Len(s) |-> e(i)]
    BY <1>2
  <2>4. t \in Seq(Filter)
    BY <2>2, <2>3
  <2>5. DOMAIN t = 1 .. Len(t) /\ Len(t) \in Nat
    <3> HIDE DEF t
    <3> QED
      BY <2>4, LenProperties
  <2> HIDE DEF t
  <2>6. Len(s) \in Nat /\ 1 .. Len(t) = 1 .. Len(s)
    BY <2>5, <1>2, <1>3
  <2>7. Len(t) = Len(s)
    BY <2>5, <2>6, SameInterval
  <2> QED
    BY <2>4, <2>7
<1> HIDE DEF t
<1>5. \A i, j \in DOMAIN t : t[i].name = t[j].name => i = j
  BY <1>1, <1>3 DEF ListOK, NamesOf
<1>6. Range(t) = {y \in Range(s) : y.name # n} \cup {x}
  <2>1. PICK k \in DOMAIN s : s[k].name = n
    BY DEF NamesOf
  <2> QED
    BY <1>3, <2>1 DEF Range
<1>7. ListOK(t)
  BY <1>1, <1>4, <1>5, <1>6 DEF ListOK
<1> QED
  BY <1>3, <1>4, <1>6, <1>7 DEF t, x

\* A filter is taken out of the list.
LEMMA TakenOut ==
    ASSUME NEW s, ListOK(s), NEW k \in DOMAIN s
    PROVE  /\ ListOK(RemoveAt(s, k))
           /\ Range(RemoveAt(s, k)) = {x \in Range(s) : x.name # s[k].name}
<1> DEFINE t == RemoveAt(s, k)
<1>1. s \in Seq(Filter) /\ Len(s) \in Nat /\ DOMAIN s = 1 .. Len(s)
  BY ListMembers DEF ListOK
<1>2. /\ t \in Seq(Filter) /\ Len(t) = Len(s) - 1
      /\ \A j \in 1 .. Len(s) - 1 : t[j] = IF j < k THEN s[j] ELSE s[j + 1]
  BY <1>1, ElementRemoved
<1> HIDE DEF t
<1>3. DOMAIN t = 1 .. Len(s) - 1
  BY <1>2, LenProperties
<1> DEFINE From(j) == IF j < k THEN j ELSE j + 1
<1>4. /\ \A j \in DOMAIN t : From(j) \in DOMAIN s \ {k} /\ t[j] = s[From(j)]
      /\ \A i, j \in DOMAIN t : From(i) = From(j) => i = j
      /\ \A i \in DOMAIN s \ {k} : \E j \in DOMAIN t : i = From(j)
  <2>1. \A j \in DOMAIN t : From(j) \in DOMAIN s \ {k} /\ t[j] = s[From(j)]
    BY <1>1, <1>2, <1>3
  <2>2. \A i, j \in DOMAIN t : From(i) = From(j) => i = j
    BY <1>1, <1>3
  <2>3. ASSUME NEW i \in DOMAIN s \ {k}
        PROVE  \E j \in DOMAIN t : i = From(j)
    <3> DEFINE j == IF i < k THEN i ELSE i - 1
    <3>1. j \in DOMAIN t /\ i = From(j)
      BY <1>1, <1>3
    <3> QED
      BY <3>1
  <2> QED
    BY <2>1, <2>2, <2>3
<1> HIDE DEF From
<1>5. \A i, j \in DOMAIN t : t[i].name = t[j].name => i = j
  BY <1>4 DEF ListOK
<1>6. Range(t) = {x \in Range(s) : x.name # s[k].name}
  <2>1. \A i \in DOMAIN s : s[i].name # s[k].name <=> i # k
    BY DEF ListOK
  <2> QED
    BY <1>4, <2>1 DEF Range
<1>7. ListOK(t)
  BY <1>2, <1>5, <1>6 DEF ListOK
<1> QED
  BY <1>6, <1>7 DEF t

\* One list behind another one that has none of its names.
LEMMA Joined ==
    ASSUME NEW s, NEW r, ListOK(s), ListOK(r),
           NamesOf(s) \cap NamesOf(r) = {}
    PROVE  ListOK(s \o r) /\ Range(s \o r) = Range(s) \cup Range(r)
<1> DEFINE t == s \o r
<1>1. /\ s \in Seq(Filter) /\ Len(s) \in Nat /\ DOMAIN s = 1 .. Len(s)
      /\ r \in Seq(Filter) /\ Len(r) \in Nat /\ DOMAIN r = 1 .. Len(r)
  BY ListMembers DEF ListOK
<1>2. /\ t \in Seq(Filter) /\ Len(t) = Len(s) + Len(r)
      /\ \A i \in 1 .. Len(s) + Len(r) :
            t[i] = IF i <= Len(s) THEN s[i] ELSE r[i - Len(s)]
  BY <1>1, ConcatProperties
<1> HIDE DEF t
<1>3. DOMAIN t = 1 .. Len(s) + Len(r)
  BY <1>2, LenProperties
<1>4. /\ \A i \in DOMAIN t : i <= Len(s) => i \in DOMAIN s /\ t[i] = s[i]
      /\ \A i \in DOMAIN t : ~(i <= Len(s)) =>
            i - Len(s) \in DOMAIN r /\ t[i] = r[i - Len(s)]
      /\ \A i \in DOMAIN s : i \in DOMAIN t /\ t[i] = s[i]
  BY <1>1, <1>2, <1>3
<1>5. \A i \in DOMAIN r : i + Len(s) \in DOMAIN t /\ t[i + Len(s)] = r[i]
  <2> SUFFICES ASSUME NEW i \in DOMAIN r, NEW k, k = i + Len(s)
               PROVE  k \in DOMAIN t /\ t[k] = r[i]
    OBVIOUS
  <2>1. k \in DOMAIN t /\ ~(k <= Len(s)) /\ k - Len(s) = i
    BY <1>1, <1>3
  <2>2. t[k] = r[k - Len(s)]
    BY <1>4, <2>1
  <2> QED
    BY <2>1, <2>2
<1>6. \A i \in DOMAIN s, j \in DOMAIN r : s[i].name # r[j].name
  BY DEF NamesOf
<1>7. ASSUME NEW i \in DOMAIN t, NEW j \in DOMAIN t, t[i].name = t[j].name
      PROVE  i = j
  <2>1. CASE i <= Len(s) /\ j <= Len(s)
    BY <1>4, <1>7, <2>1 DEF ListOK
  <2>2. CASE ~(i <= Len(s)) /\ ~(j <= Len(s))
    <3>1. i - Len(s) = j - Len(s)
      BY <1>4, <1>7, <2>2 DEF ListOK
    <3> QED
      BY <3>1, <1>1, <1>3
  <2>3. CASE i <= Len(s) /\ ~(j <= Len(s))
    BY <1>4, <1>6, <1>7, <2>3
  <2>4. CASE ~(i <= Len(s)) /\ j <= Len(s)
    BY <1>4, <1>6, <1>7, <2>4
  <2> QED
    BY <2>1, <2>2, <2>3, <2>4
<1>8. Range(t) = Range(s) \cup Range(r)
  BY <1>4, <1>5 DEF Range
<1>9. ListOK(t)
  BY <1>2, <1>7, <1>8 DEF ListOK
<1> QED
  BY <1>8, <1>9 DEF t

\* The filters of an arrangement of names.
LEMMA Named ==
    ASSUME NEW T \in SUBSET Names, IsFiniteSet(T), NEW fileOf,
           \A n \in T : fileOf[n] \in Files,
           \A n \in T \cap Customs : fileOf[n] \in CustomFiles,
           NEW b \in SetToSeqs(T)
    PROVE  LET t == [i \in DOMAIN b |-> [name |-> b[i], file |-> fileOf[b[i]]]]
           IN  /\ ListOK(t)
               /\ Range(t) = {[name |-> n, file |-> fileOf[n]] : n \in T}
               /\ NamesOf(t) = T
<1> DEFINE e(i) == [name |-> b[i], file |-> fileOf[b[i]]]
           t == [i \in DOMAIN b |-> e(i)]
<1>1. /\ b \in Seq(T) /\ Len(b) \in Nat /\ DOMAIN b = 1 .. Len(b)
      /\ \A i \in DOMAIN b : b[i] \in T
      /\ \A i, j \in DOMAIN b : b[i] = b[j] => i = j
      /\ \A x \in T : \E i \in DOMAIN b : b[i] = x
  BY Arranged, LenProperties, ElementOfSeq
<1>2. \A i \in 1 .. Len(b) : e(i) \in Filter
  BY <1>1 DEF Filter
<1>3. t \in Seq(Filter)
  <2>1. [i \in 1 .. Len(b) |-> e(i)] \in Seq(Filter)
    <3> HIDE DEF e
    <3> QED
      BY <1>1, <1>2, IsASeq
  <2> QED
    BY <2>1, <1>1
<1>4. /\ DOMAIN t = DOMAIN b
      /\ \A i \in DOMAIN t : t[i] = [name |-> b[i], file |-> fileOf[b[i]]]
  OBVIOUS
<1> HIDE DEF t, e
<1>5. Range(t) = {[name |-> n, file |-> fileOf[n]] : n \in T}
  BY <1>1, <1>4 DEF Range
<1>6. \A i, j \in DOMAIN t : t[i].name = t[j].name => i = j
  BY <1>1, <1>4
<1>7. NamesOf(t) = T
  BY <1>1, <1>4 DEF NamesOf
<1>8. ListOK(t)
  BY <1>3, <1>5, <1>6 DEF ListOK
<1> QED
  BY <1>5, <1>7, <1>8 DEF t, e

\* The filters a process begins with, from the definitions d that it reads.
Builtin(n) == [name |-> n, file |-> BuiltinFile[n]]

StoredIn(d) == {n \in Customs : d[n] # None}

Stored(d, n) == [name |-> n, file |-> d[n].file]

LEMMA FirstList ==
    ASSUME NEW d \in [Customs -> Definition \cup {None}],
           NEW b \in SetToSeqs(Builtins), NEW c \in SetToSeqs(StoredIn(d))
    PROVE  LET t == [i \in DOMAIN b |->
                        [name |-> b[i], file |-> BuiltinFile[b[i]]]]
                       \o [i \in DOMAIN c |->
                              [name |-> c[i], file |-> d[c[i]].file]]
           IN  /\ ListOK(t)
               /\ Range(t) = {Builtin(n) : n \in Builtins}
                                \cup {Stored(d, n) : n \in StoredIn(d)}
               /\ NamesOf(t) = Builtins \cup StoredIn(d)
<1> DEFINE fileOf == [n \in StoredIn(d) |-> d[n].file]
           x == [i \in DOMAIN b |->
                    [name |-> b[i], file |-> BuiltinFile[b[i]]]]
           y == [i \in DOMAIN c |-> [name |-> c[i], file |-> d[c[i]].file]]
           z == [i \in DOMAIN c |-> [name |-> c[i], file |-> fileOf[c[i]]]]
<1>1. /\ IsFiniteSet(StoredIn(d)) /\ StoredIn(d) \in SUBSET Names
      /\ StoredIn(d) \subseteq Customs
  BY FilterAssumption, FS_Subset DEF StoredIn, Names
<1>2. \A n \in StoredIn(d) : d[n].file \in CustomFiles
  BY DEF StoredIn, Definition
<1>3. /\ ListOK(x) /\ NamesOf(x) = Builtins
      /\ Range(x) = {Builtin(n) : n \in Builtins}
  <2>1. /\ Builtins \in SUBSET Names /\ IsFiniteSet(Builtins)
        /\ \A n \in Builtins : BuiltinFile[n] \in Files
        /\ \A n \in Builtins \cap Customs : BuiltinFile[n] \in CustomFiles
    BY FilterAssumption DEF Names, Files
  <2> QED
    BY <2>1, Named DEF Builtin
<1>4. /\ ListOK(z) /\ NamesOf(z) = StoredIn(d)
      /\ Range(z) = {Stored(d, n) : n \in StoredIn(d)}
  <2>1. /\ \A n \in StoredIn(d) : fileOf[n] \in Files
        /\ \A n \in StoredIn(d) \cap Customs : fileOf[n] \in CustomFiles
    BY <1>2 DEF Files
  <2>2. {[name |-> n, file |-> fileOf[n]] : n \in StoredIn(d)}
           = {Stored(d, n) : n \in StoredIn(d)}
    BY DEF Stored
  <2> HIDE DEF fileOf
  <2>3. /\ ListOK(z) /\ NamesOf(z) = StoredIn(d)
        /\ Range(z) = {[name |-> n, file |-> fileOf[n]] : n \in StoredIn(d)}
    BY <1>1, <2>1, Named
  <2> QED
    BY <2>2, <2>3
<1>5. y = z
  <2>1. \A i \in DOMAIN c : c[i] \in StoredIn(d)
    BY <1>1, Arranged, LenProperties, ElementOfSeq
  <2> QED
    BY <2>1
<1> HIDE DEF x, y, z, fileOf
<1>6. NamesOf(x) \cap NamesOf(y) = {}
  BY <1>1, <1>3, <1>4, <1>5, FilterAssumption
<1>7. ListOK(x \o y) /\ Range(x \o y) = Range(x) \cup Range(y)
  BY <1>3, <1>4, <1>5, <1>6, Joined
<1>8. NamesOf(x \o y) = Builtins \cup StoredIn(d)
  <2>1. /\ NamesOf(x \o y) = {v.name : v \in Range(x \o y)}
        /\ NamesOf(x) = {v.name : v \in Range(x)}
        /\ NamesOf(y) = {v.name : v \in Range(y)}
    BY <1>3, <1>4, <1>5, <1>7, ListMembers
  <2> QED
    BY <2>1, <1>3, <1>4, <1>5, <1>7
<1> QED
  BY <1>3, <1>4, <1>5, <1>7, <1>8 DEF x, y

-----------------------------------------------------------------------------
(* What the steps keep of the manager.                                     *)

\* Between two changes of the list nothing is behind.
Settled(j) ==
    \/ j.pc \in {"idle", "down", "persist", "add-persist"}
    \/ j.pc \in {"reload", "fill"} /\ j.then = "idle"

LEMMA SettledPhase ==
    ASSUME NEW j, Settled(j)
    PROVE  /\ ~Updating(j) /\ ~Removing(j) /\ j.pc # "add-switch"
           /\ NotSwitchedYet(j) = {} /\ StillSwitched(j) = {}
           /\ NotDefinedYet(j) = {} /\ StillDefined(j) = {}
BY DEF Settled, Updating, Removing, NotSwitchedYet, StillSwitched,
       NotDefinedYet, StillDefined

\* The fields of a job.
LEMMA JobIs ==
    \A pc, todo, file, then, name, to, on :
        LET j == JobOf(pc, todo, file, then, name, to, on) IN
        /\ j.pc = pc /\ j.todo = todo /\ j.file = file /\ j.then = then
        /\ j.name = name /\ j.to = to /\ j.on = on
BY DEF JobOf

\* No endpoint ends the process.
LEMMA NotDown ==
    ASSUME api \in Job, ListCall \/ FilterCall \/ ApiContinues
    PROVE  api'.pc # "down"
<1>1. ASSUME api' = api, ApiFree \/ api.pc = "fill"
      PROVE  api'.pc # "down"
  BY <1>1 DEF ApiFree
<1>3. CASE ListCall
  <2>1. ASSUME NEW f \in CustomFiles, DeleteList(f) PROVE api'.pc # "down"
    BY <1>1, <2>1, Zenon DEF DeleteList
  <2>2. CASE ViewLists \/ LoadSomeLists
    BY <1>1, <2>2, Zenon DEF ViewLists, LoadSomeLists
  <2>3. ASSUME NEW f \in CustomFiles, NEW c \in SUBSET Domains, WriteList(f, c)
        PROVE  api'.pc # "down"
    <3>1. api' = JobOf("reload", {f},
                       api.file, "idle", api.name, api.to, api.on)
      BY <2>3, ListMoves
    <3> QED
      BY <3>1, JobIs
  <2>4. ASSUME NEW f \in Files, ReloadList(f) PROVE api'.pc # "down"
    <3>1. api' = JobOf("reload", {f},
                       api.file, "idle", api.name, api.to, api.on)
      BY <2>4, ListMoves
    <3> QED
      BY <3>1, JobIs
  <2>5. ASSUME ReloadAll PROVE api'.pc # "down"
    <3>1. api' = JobOf("reload", {f \in Files : loaded'[f] # None},
                       api.file, "idle", api.name, api.to, api.on)
      BY <2>5, ListMoves
    <3> QED
      BY <3>1, JobIs
  <2> QED
    BY <1>3, <2>1, <2>2, <2>3, <2>4, <2>5 DEF ListCall
<1>4. CASE FilterCall
  <2>1. ASSUME NEW n \in Customs, NEW f \in CustomFiles, NEW on \in BOOLEAN,
               AddFilterFails(n, f, on)
        PROVE  api'.pc # "down"
    BY <1>1, <2>1, Zenon DEF AddFilterFails
  <2>2. ASSUME NEW n \in Names, Toggle(n) PROVE api'.pc # "down"
    <3>1. ApiFree
      BY <2>2 DEF Toggle
    <3>2. \/ api' = api
          \/ api' = JobOf("persist", {}, None, "idle", n, None, Off)
      BY <2>2, FilterMoves
    <3> QED
      BY <1>1, <3>1, <3>2, JobIs
  <2>3. ASSUME NEW n \in Customs, NEW f \in CustomFiles, NEW on \in BOOLEAN,
               AddFilter(n, f, on)
        PROVE  api'.pc # "down"
    BY <2>3, FilterMoves, JobIs
  <2>4. ASSUME NEW n \in Customs, NEW to \in Customs, NEW f \in CustomFiles,
               NEW on \in BOOLEAN, UpdateFilter(n, to, f, on)
        PROVE  api'.pc # "down"
    <3>1. api' = JobOf("reload", {f}, None, "update-unswitch", n, to, on)
      BY <2>4, FilterMoves
    <3> QED
      BY <3>1, JobIs
  <2>5. ASSUME NEW n \in Customs, RemoveFilter(n) PROVE api'.pc # "down"
    BY <2>5, FilterMoves, JobIs
  <2> QED
    BY <1>4, <2>1, <2>2, <2>3, <2>4, <2>5 DEF FilterCall
<1>5. CASE ApiContinues
  <2>1. api.then # "down"
    BY DEF Job
  <2>2. CASE ClearList \/ FillList
    <3>1. FillList => api.pc = "fill"
      BY DEF FillList
    <3>2. \/ api' = api /\ FillList
          \/ api'.pc \in {"idle", "fill", "reload", api.then}
      <4>1. /\ JobOf("idle", {}, None, "idle", None, None, Off).pc = "idle"
            /\ JobOf(api.then, api.todo, api.file, api.then,
                     api.name, api.to, api.on).pc = api.then
            /\ JobOf("reload", api.todo, None, api.then,
                     api.name, api.to, api.on).pc = "reload"
            /\ \A f : JobOf("fill", api.todo \ {f}, f, api.then,
                            api.name, api.to, api.on).pc = "fill"
        BY JobIs
      <4> QED
        BY <2>2, <4>1, LoadMoves
    <3> QED
      BY <1>1, <2>1, <3>1, <3>2
  <2>3. /\ AddSwitch => api'.pc = "add-persist"
        /\ UpdateUnswitch => api'.pc = "update-switch"
        /\ UpdateSwitch \/ RemoveSwitch => api'.pc = "persist"
        /\ AddPersist \/ Persist \/ LoadFails => api'.pc = "idle"
    <3>1. AddSwitch => api'.pc = "add-persist"
      BY OtherMoves, JobIs
    <3>2. UpdateUnswitch => api'.pc = "update-switch"
      BY OtherMoves, JobIs
    <3>3. UpdateSwitch \/ RemoveSwitch => api'.pc = "persist"
      BY OtherMoves, JobIs
    <3>4. AddPersist \/ Persist \/ LoadFails => api'.pc = "idle"
      BY OtherMoves, JobIs
    <3> QED
      BY <3>1, <3>2, <3>3, <3>4
  <2> QED
    BY <1>5, <2>2, <2>3 DEF ApiContinues
<1> QED
  BY <1>3, <1>4, <1>5

\* No filter endpoint, and none that has its list, is filling one afterwards.
LEMMA NotFilling ==
    ASSUME api \in Job,
           \/ FilterCall \/ AddSwitch \/ AddPersist \/ UpdateUnswitch
           \/ UpdateSwitch \/ RemoveSwitch \/ Persist
    PROVE  api'.pc # "fill"
<1>1. ASSUME NEW n \in Customs, NEW f \in CustomFiles, NEW on \in BOOLEAN,
             AddFilter(n, f, on)
      PROVE  api'.pc # "fill"
  BY <1>1, FilterMoves, JobIs
<1>2. ASSUME NEW n \in Customs, NEW f \in CustomFiles, NEW on \in BOOLEAN,
             AddFilterFails(n, f, on)
      PROVE  api'.pc # "fill"
  BY <1>2 DEF AddFilterFails, ApiFree
<1>3. ASSUME NEW n \in Customs, NEW to \in Customs, NEW f \in CustomFiles,
             NEW on \in BOOLEAN, UpdateFilter(n, to, f, on)
      PROVE  api'.pc # "fill"
  <2>1. api' = JobOf("reload", {f}, None, "update-unswitch", n, to, on)
    BY <1>3, FilterMoves
  <2> QED
    BY <2>1, JobIs
<1>4. ASSUME NEW n \in Customs, RemoveFilter(n) PROVE api'.pc # "fill"
  BY <1>4, FilterMoves, JobIs
<1>5. ASSUME NEW n \in Names, Toggle(n) PROVE api'.pc # "fill"
  <2>1. ApiFree
    BY <1>5 DEF Toggle
  <2>2. \/ api' = api
        \/ api' = JobOf("persist", {}, None, "idle", n, None, Off)
    BY <1>5, FilterMoves
  <2> QED
    BY <2>1, <2>2, JobIs DEF ApiFree
<1>6. CASE FilterCall
  BY <1>1, <1>2, <1>3, <1>4, <1>5, <1>6 DEF FilterCall
<1>7. /\ AddSwitch => api'.pc = "add-persist"
      /\ UpdateUnswitch => api'.pc = "update-switch"
      /\ UpdateSwitch \/ RemoveSwitch => api'.pc = "persist"
      /\ AddPersist \/ Persist => api'.pc = "idle"
  <2>1. AddSwitch => api'.pc = "add-persist"
    BY OtherMoves, JobIs
  <2>2. UpdateUnswitch => api'.pc = "update-switch"
    BY OtherMoves, JobIs
  <2>3. UpdateSwitch \/ RemoveSwitch => api'.pc = "persist"
    BY OtherMoves, JobIs
  <2>4. AddPersist \/ Persist => api'.pc = "idle"
    BY OtherMoves, JobIs
  <2> QED
    BY <2>1, <2>2, <2>3, <2>4
<1> QED
  BY <1>6, <1>7

LEMMA JobType ==
    ASSUME NEW pc \in ApiAt, NEW todo \in SUBSET Files,
           NEW file \in Files \cup {None},
           NEW then \in {"idle", "update-unswitch"},
           NEW name \in Customs \cup {None}, NEW to \in Customs \cup {None},
           NEW on \in BOOLEAN
    PROVE  JobOf(pc, todo, file, then, name, to, on) \in Job
BY DEF JobOf, Job

\* A step further in the same job.
LEMMA SameJob ==
    ASSUME api \in Job, NEW pc \in ApiAt
    PROVE  JobOf(pc, api.todo, api.file, api.then, api.name, api.to, api.on)
              \in Job
<1>1. /\ api.todo \in SUBSET Files /\ api.file \in Files \cup {None}
      /\ api.then \in {"idle", "update-unswitch"}
      /\ api.name \in Customs \cup {None}
      /\ api.to \in Customs \cup {None} /\ api.on \in BOOLEAN
  BY DEF Job
<1> QED
  BY <1>1, JobType

\* None is nothing else.
LEMMA NoneIsNone ==
    /\ None \notin Customs /\ None \notin Files /\ None \notin Definition
    /\ None \notin Names /\ None \notin BOOLEAN
    /\ \A D \in SUBSET Domains : None # D
    /\ Customs \subseteq Names /\ CustomFiles \subseteq Files
    /\ Builtins \subseteq Names
BY FilterAssumption, Zenon DEF Names, Files

\* Steps that leave the manager's tables alone.
LEMMA TablesLeftAlone ==
    ASSUME NEW N \in SUBSET Names, ManagerInv(N),
           UNCHANGED manager, JobShape', TablesShape',
           \A f \in Files : loaded[f] # None => loaded'[f] # None,
           api'.pc = "fill" => loaded'[api'.file] # None,
           \/ Settled(api) /\ Settled(api')
           \/ /\ Updating(api) /\ Updating(api')
              /\ api.pc # "update-switch" /\ api'.pc # "update-switch"
              /\ api'.name = api.name /\ api'.to = api.to,
           Adding(api') => Adding(api) /\ api'.name = api.name
    PROVE  ManagerInv(N)'
<1>1. filters' = filters /\ enabled' = enabled /\ definitions' = definitions
  BY DEF manager
<1>2. ListShape'
  <2>1. \A x \in Range(filters) : x.file \in Files
    BY ListMembers DEF ManagerInv, ManagerShape, ListShape, Filter
  <2> QED
    BY <1>1, <2>1 DEF ManagerInv, ManagerShape, ListShape
<1>3. /\ NotSwitchedYet(api') = NotSwitchedYet(api)
      /\ StillSwitched(api') = StillSwitched(api)
      /\ NotDefinedYet(api') = NotDefinedYet(api)
      /\ StillDefined(api') = StillDefined(api)
      /\ api'.pc # "add-switch"
  <2>1. CASE Settled(api) /\ Settled(api')
    BY <2>1, SettledPhase
  <2>2. CASE /\ Updating(api) /\ Updating(api')
             /\ api.pc # "update-switch" /\ api'.pc # "update-switch"
             /\ api'.name = api.name /\ api'.to = api.to
    BY <2>2 DEF Updating, Removing, NotSwitchedYet, StillSwitched,
                NotDefinedYet, StillDefined
  <2> QED
    BY <2>1, <2>2
<1>4. SwitchesAgree(N)'
  BY <1>1, <1>3 DEF ManagerInv, ManagerShape, SwitchesAgree, NamesOf
<1>5. DefinitionsAgree(N)'
  BY <1>1, <1>3 DEF ManagerInv, ManagerShape, DefinitionsAgree, NamesOf
<1>6. NamesAtHand'
  <2>1. CASE Settled(api')
    BY <2>1, SettledPhase DEF NamesAtHand
  <2>2. CASE Updating(api) /\ Updating(api') /\ api'.name = api.name
             /\ api'.to = api.to
    BY <1>1, <2>2 DEF ManagerInv, ManagerShape, NamesAtHand, Updating, Removing, NamesOf
  <2> QED
    BY <2>1, <2>2
<1> QED
  BY <1>2, <1>4, <1>5, <1>6 DEF ManagerInv, ManagerShape

\* Loading a list that is not loaded.
LEMMA FetchedLists ==
    ASSUME TablesShape, NEW f \in Files
    PROVE  /\ Fetched(loaded, f) \in [Files -> (SUBSET Domains) \cup {None}]
           /\ \A g \in Files : loaded[g] # None => Fetched(loaded, f)[g] = loaded[g]
           /\ Fetched(loaded, f)[f] # None
           /\ Fetched(loaded, f)[f] = loaded[f] \/ Fetched(loaded, f)[f] = Content(f)
           /\ \A g \in Files \ {f} : Fetched(loaded, f)[g] = loaded[g]
<1>1. Content(f) \in SUBSET Domains /\ Content(f) # None
  BY NoneIsNone DEF Content, TablesShape
<1> QED
  BY <1>1 DEF Fetched, TablesShape

\* Lists that are asked for are loaded.
LEMMA AskedLists ==
    ASSUME TablesShape, NEW F
    PROVE  /\ WithLoaders(F) \in [Files -> (SUBSET Domains) \cup {None}]
           /\ \A g \in Files :
                 /\ loaded[g] # None => WithLoaders(F)[g] = loaded[g]
                 /\ WithLoaders(F)[g] # loaded[g] => WithLoaders(F)[g] = Content(g)
<1>1. ASSUME NEW g \in Files
      PROVE  /\ WithLoaders(F)[g] \in (SUBSET Domains) \cup {None}
             /\ loaded[g] # None => WithLoaders(F)[g] = loaded[g]
             /\ WithLoaders(F)[g] # loaded[g] => WithLoaders(F)[g] = Content(g)
  <2>1. WithLoaders(F)[g] = IF g \in F /\ files[g] # None
                            THEN Fetched(loaded, g)[g] ELSE loaded[g]
    BY DEF WithLoaders
  <2>2. /\ Fetched(loaded, g)[g] \in (SUBSET Domains) \cup {None}
        /\ loaded[g] # None => Fetched(loaded, g)[g] = loaded[g]
        /\ Fetched(loaded, g)[g] # loaded[g] => Fetched(loaded, g)[g] = Content(g)
    BY FetchedLists
  <2>3. loaded[g] \in (SUBSET Domains) \cup {None}
    BY DEF TablesShape
  <2> QED
    BY <2>1, <2>2, <2>3
<1>2. WithLoaders(F) \in [Files -> (SUBSET Domains) \cup {None}]
  <2>1. WithLoaders(F) = [f \in Files |-> WithLoaders(F)[f]]
    BY DEF WithLoaders
  <2> QED
    BY <1>1, <2>1
<1> QED
  BY <1>1, <1>2

LEMMA DiskLists ==
    ASSUME TablesShape
    PROVE  /\ OnDiskLoaded \in [Files -> (SUBSET Domains) \cup {None}]
           /\ \A g \in Files :
                 /\ loaded[g] # None => OnDiskLoaded[g] = loaded[g]
                 /\ OnDiskLoaded[g] # loaded[g] => OnDiskLoaded[g] = Content(g)
BY AskedLists DEF OnDiskLoaded

\* A job that is idle has nothing at hand.
LEMMA IdleJob ==
    ASSUME JobShape, ApiFree
    PROVE  /\ api.file = None /\ api.pc # "fill" /\ Settled(api)
           /\ ~Adding(api) /\ ~Updating(api) /\ ~Removing(api)
BY DEF JobShape, ApiFree, Settled, Adding, Updating, Removing

\* An endpoint that begins to reload lists.
LEMMA ReloadBegins ==
    ASSUME JobShape, ApiFree, NEW t \in SUBSET Files,
           api' = JobOf("reload", t, api.file, "idle", api.name, api.to, api.on)
    PROVE  JobShape' /\ Settled(api') /\ ~Adding(api') /\ api'.pc # "fill"
<1>1. api.file = None
  BY IdleJob
<1>2. api' \in Job
  <2>1. /\ api.name \in Customs \cup {None} /\ api.to \in Customs \cup {None}
        /\ api.on \in BOOLEAN /\ None \in Files \cup {None}
    BY DEF JobShape, Job
  <2>2. "reload" \in ApiAt
    BY DEF ApiAt
  <2> QED
    BY <1>1, <2>1, <2>2, JobType
<1>3. /\ api'.pc = "reload" /\ api'.file = None /\ api'.then = "idle"
  BY <1>1, JobIs
<1> QED
  BY <1>2, <1>3 DEF JobShape, Settled, Adding, Updating, Removing

\* The endpoints of the block lists.
LEMMA ListCallInv ==
    ASSUME NEW N \in SUBSET Names, ManagerInv(N), ListCall
    PROVE  ManagerInv(N)'
<1>1. JobShape /\ TablesShape /\ api \in Job
  BY DEF ManagerInv, ManagerShape, JobShape
<1>2. ASSUME NEW f \in CustomFiles, NEW c \in SUBSET Domains, WriteList(f, c)
      PROVE  ManagerInv(N)'
  <2>1. ApiFree /\ UNCHANGED manager /\ loaded' = loaded
    BY <1>2 DEF WriteList
  <2>2. JobShape' /\ Settled(api') /\ ~Adding(api') /\ api'.pc # "fill"
    <3>1. {f} \in SUBSET Files
      BY NoneIsNone
    <3>2. api' = JobOf("reload", {f}, api.file, "idle",
                       api.name, api.to, api.on)
      BY <1>1, <1>2, ListMoves
    <3> QED
      BY <1>1, <2>1, <3>1, <3>2, ReloadBegins
  <2>3. TablesShape'
    BY <1>1, <1>2 DEF TablesShape, WriteList, manager, Unchanging
  <2> QED
    BY <1>1, <2>1, <2>2, <2>3, IdleJob, TablesLeftAlone
<1>3. ASSUME NEW f \in CustomFiles, DeleteList(f)
      PROVE  ManagerInv(N)'
  <2>1. ApiFree /\ UNCHANGED manager /\ api' = api
    BY <1>3 DEF DeleteList
  <2>2. \A g \in Files : loaded[g] # None => loaded'[g] # None
    BY <1>1, <1>3, NoneIsNone DEF TablesShape, DeleteList, Forgotten
  <2>3. TablesShape'
    BY <1>1, <1>3 DEF TablesShape, DeleteList, Forgotten, manager, Unchanging
  <2>4. JobShape'
    BY <1>1, <2>1 DEF JobShape
  <2> QED
    BY <1>1, <2>1, <2>2, <2>3, <2>4, IdleJob, TablesLeftAlone
<1>4. ASSUME NEW f \in Files, ReloadList(f)
      PROVE  ManagerInv(N)'
  <2>1. ApiFree /\ UNCHANGED manager /\ loaded' = loaded
    BY <1>4 DEF ReloadList
  <2>2. JobShape' /\ Settled(api') /\ ~Adding(api') /\ api'.pc # "fill"
    BY <1>1, <1>4, <2>1, ListMoves, ReloadBegins
  <2>3. TablesShape'
    BY <1>1, <1>4 DEF TablesShape, ReloadList, disk, manager, Unchanging
  <2> QED
    BY <1>1, <2>1, <2>2, <2>3, IdleJob, TablesLeftAlone
<1>5. CASE ReloadAll
  <2>1. ApiFree /\ UNCHANGED manager /\ loaded' = OnDiskLoaded
    BY <1>5 DEF ReloadAll
  <2>2. JobShape' /\ Settled(api') /\ ~Adding(api') /\ api'.pc # "fill"
    BY <1>1, <1>5, <2>1, ListMoves, ReloadBegins
  <2>3. TablesShape'
    BY <1>1, <1>5, <2>1, DiskLists
       DEF TablesShape, ReloadAll, disk, manager, Unchanging
  <2>4. \A g \in Files : loaded[g] # None => loaded'[g] # None
    BY <1>1, <2>1, DiskLists
  <2> QED
    BY <1>1, <2>1, <2>2, <2>3, <2>4, IdleJob, TablesLeftAlone
<1>6. CASE ViewLists
  <2>1. ApiFree /\ UNCHANGED manager /\ api' = api /\ loaded' = OnDiskLoaded
    BY <1>6 DEF ViewLists
  <2>3. TablesShape'
    BY <1>1, <1>6, <2>1, DiskLists
       DEF TablesShape, ViewLists, disk, manager, Unchanging
  <2>4. \A g \in Files : loaded[g] # None => loaded'[g] # None
    BY <1>1, <2>1, DiskLists
  <2>5. JobShape'
    BY <1>1, <2>1 DEF JobShape
  <2> QED
    BY <1>1, <2>1, <2>3, <2>4, <2>5, IdleJob, TablesLeftAlone
<1>7. CASE LoadSomeLists
  <2>1. PICK F \in SUBSET Files : loaded' = WithLoaders(F)
    BY <1>7 DEF LoadSomeLists
  <2>2. ApiFree /\ UNCHANGED manager /\ api' = api
    BY <1>7 DEF LoadSomeLists
  <2>3. TablesShape'
    BY <1>1, <1>7, <2>1, AskedLists
       DEF TablesShape, LoadSomeLists, disk, manager, Unchanging
  <2>4. \A g \in Files : loaded[g] # None => loaded'[g] # None
    BY <1>1, <2>1, AskedLists
  <2>5. JobShape'
    BY <1>1, <2>2 DEF JobShape
  <2> QED
    BY <1>1, <2>2, <2>3, <2>4, <2>5, IdleJob, TablesLeftAlone
<1> QED
  BY <1>2, <1>3, <1>4, <1>5, <1>6, <1>7 DEF ListCall

\* Loading goes on within the endpoint that began it.
LEMMA LoadingInv ==
    ASSUME NEW N \in SUBSET Names, ManagerInv(N), ClearList \/ FillList
    PROVE  ManagerInv(N)'
<1>1. /\ JobShape /\ TablesShape /\ api \in Job
      /\ api.pc \in ApiAt /\ api.todo \in SUBSET Files
      /\ api.file \in Files \cup {None}
      /\ api.then \in {"idle", "update-unswitch"}
      /\ api.name \in Customs \cup {None} /\ api.to \in Customs \cup {None}
      /\ api.on \in BOOLEAN
  BY DEF ManagerInv, ManagerShape, JobShape, Job
<1>2. /\ UNCHANGED manager /\ UNCHANGED disk /\ crashes' = crashes
      /\ api.pc \in {"reload", "fill"}
  BY DEF ClearList, FillList, Unchanging
<1>3. /\ Settled(api) \/ Updating(api)
      /\ Settled(api) <=> api.then = "idle"
      /\ Updating(api) => api.name \in Customs /\ api.to \in Customs
      /\ api.pc # "update-switch"
  BY <1>1, <1>2 DEF Settled, Updating, JobShape
<1>4. /\ JobShape'
      /\ \/ Settled(api) /\ Settled(api')
         \/ /\ Updating(api) /\ Updating(api') /\ api'.pc # "update-switch"
            /\ api'.name = api.name /\ api'.to = api.to
      /\ ~Adding(api')
  <2>1. ASSUME api' = JobOf("idle", {}, None, "idle", None, None, Off),
               api.then = "idle"
        PROVE  JobShape' /\ Settled(api) /\ Settled(api') /\ ~Adding(api')
    <3>1. api' \in Job
      BY <2>1, JobType DEF ApiAt, Off, NoJob
    <3>2. api'.pc = "idle" /\ api'.file = None
      BY <2>1, JobIs
    <3> QED
      BY <1>3, <2>1, <3>1, <3>2
         DEF JobShape, Settled, Adding, Updating, Removing
  <2>2. ASSUME NEW pc \in ApiAt, NEW todo \in SUBSET Files,
               NEW file \in Files \cup {None},
               api' = JobOf(pc, todo, file, api.then,
                            api.name, api.to, api.on),
               \/ pc \in {"reload", "fill"}
               \/ pc = api.then /\ api.then # "idle",
               pc = "fill" <=> file # None
        PROVE  <1>4
    <3>1. api' \in Job
      BY <1>1, <2>2, JobType
    <3>2. /\ api'.pc = pc /\ api'.file = file /\ api'.then = api.then
          /\ api'.name = api.name /\ api'.to = api.to
      BY <2>2, JobIs
    <3>3. /\ pc # "update-switch" /\ ~Adding(api') /\ ~Removing(api')
          /\ Settled(api) => Settled(api')
          /\ Updating(api) => Updating(api')
          /\ Updating(api') => Updating(api)
      BY <1>1, <1>2, <1>3, <2>2, <3>2 DEF Settled, Updating, Adding, Removing
    <3> QED
      BY <1>3, <2>2, <3>1, <3>2, <3>3 DEF JobShape
  <2>3. CASE ClearList
    <3>1. ASSUME api.todo = {}, api.then # "idle",
                 api' = JobOf(api.then, api.todo, api.file, api.then,
                              api.name, api.to, api.on)
          PROVE  <1>4
      <4>1. api.then \in ApiAt /\ api.then # "fill" /\ api.file = None
        BY <1>1, <2>3 DEF ApiAt, JobShape, ClearList
      <4> QED
        BY <1>1, <2>2, <3>1, <4>1
    <3>2. ASSUME NEW f \in api.todo,
                 api' = JobOf("fill", api.todo \ {f}, f, api.then,
                              api.name, api.to, api.on)
          PROVE  <1>4
      <4>1. /\ f \in Files /\ f # None /\ api.todo \ {f} \in SUBSET Files
            /\ "fill" \in ApiAt
        BY <1>1, NoneIsNone DEF ApiAt
      <4> QED
        BY <2>2, <3>2, <4>1
    <3> QED
      BY <1>1, <2>1, <2>3, <3>1, <3>2, LoadMoves
  <2>4. CASE FillList
    <3>1. ASSUME api' = JobOf("reload", api.todo, None, api.then,
                              api.name, api.to, api.on)
          PROVE  <1>4
      <4>1. None \in Files \cup {None} /\ "reload" \in ApiAt
        BY DEF ApiAt
      <4> QED
        BY <1>1, <2>2, <3>1, <4>1
    <3>2. ASSUME api' = api
          PROVE  <1>4
      BY <1>1, <1>2, <1>3, <3>2 DEF JobShape, Adding
    <3> QED
      BY <1>1, <2>4, <3>1, <3>2, LoadMoves
  <2> QED
    BY <2>3, <2>4
<1>5. /\ loaded' \in [Files -> (SUBSET Domains) \cup {None}]
      /\ \A f \in Files : loaded[f] # None => loaded'[f] # None
  <2>1. ASSUME NEW f \in Files, NEW D \in SUBSET Domains,
               loaded' = [loaded EXCEPT ![f] = D]
        PROVE  <1>5
    BY <1>1, <2>1, NoneIsNone DEF TablesShape
  <2>2. ASSUME loaded' = loaded
        PROVE  <1>5
    BY <1>1, <2>2 DEF TablesShape
  <2>3. CASE ClearList
    BY <1>1, <2>1, <2>2, <2>3 DEF ClearList
  <2>4. CASE FillList
    <3>1. ASSUME NEW d \in Content(api.file) \ loaded[api.file],
                 loaded' = [loaded EXCEPT ![api.file] = @ \cup {d}]
          PROVE  <1>5
      <4>1. /\ api.file \in Files /\ files[api.file] \in (SUBSET Domains) \cup {None}
            /\ loaded[api.file] \in (SUBSET Domains) \cup {None}
        BY <1>1, <2>4 DEF JobShape, TablesShape, FillList
      <4>2. Content(api.file) \in SUBSET Domains
        BY <4>1 DEF Content
      <4>3. loaded[api.file] # None
        BY <2>4 DEF ManagerInv, ManagerShape, ListShape, FillList
      <4>4. loaded[api.file] \cup {d} \in SUBSET Domains
        BY <4>1, <4>2, <4>3
      <4> QED
        BY <2>1, <3>1, <4>1, <4>4
    <3> QED
      BY <2>2, <2>4, <3>1 DEF FillList
  <2> QED
    BY <2>3, <2>4
<1>6. TablesShape'
  BY <1>1, <1>2, <1>5 DEF TablesShape, disk, manager
<1>7. api'.pc = "fill" => loaded'[api'.file] # None
  <2>1. CASE ClearList
    <3>1. ASSUME NEW f \in api.todo, loaded' = [loaded EXCEPT ![f] = {}],
                 api' = JobOf("fill", api.todo \ {f}, f, api.then,
                              api.name, api.to, api.on)
          PROVE  loaded'[api'.file] # None
      BY <1>1, <3>1, JobIs, NoneIsNone DEF TablesShape
    <3>2. ASSUME api' = JobOf("idle", {}, None, "idle", None, None, Off)
          PROVE  api'.pc # "fill"
      BY <3>2, JobIs
    <3>3. ASSUME api' = JobOf(api.then, api.todo, api.file, api.then,
                              api.name, api.to, api.on)
          PROVE  api'.pc # "fill"
      BY <1>1, <3>3, JobIs
    <3> QED
      BY <1>1, <2>1, <3>1, <3>2, <3>3, LoadMoves
  <2>2. CASE FillList
    <3>1. ASSUME api' = JobOf("reload", api.todo, None, api.then,
                              api.name, api.to, api.on)
          PROVE  api'.pc # "fill"
      BY <3>1, JobIs
    <3>2. ASSUME api' = api
          PROVE  loaded'[api'.file] # None
      <4>1. api.file \in Files /\ loaded[api.file] # None
        BY <1>1, <2>2 DEF ManagerInv, ManagerShape, ListShape, JobShape, FillList
      <4> QED
        BY <1>5, <3>2, <4>1
    <3> QED
      BY <1>1, <2>2, <3>1, <3>2, LoadMoves
  <2> QED
    BY <2>1, <2>2
<1> QED
  BY <1>2, <1>3, <1>4, <1>5, <1>6, <1>7, TablesLeftAlone

\* How far the tables are behind in each phase.
LEMMA Phases ==
    ASSUME NEW j
    PROVE
      /\ j.pc = "add-switch" /\ j.name \in Customs =>
            /\ NotSwitchedYet(j) = {j.name} /\ StillSwitched(j) = {}
            /\ NotDefinedYet(j) = {} /\ StillDefined(j) = {}
            /\ ~Updating(j) /\ ~Removing(j)
      /\ Updating(j) /\ j.name \in Customs /\ j.to \in Customs =>
            /\ NotSwitchedYet(j) = {j.to}
            /\ StillSwitched(j) = IF j.pc = "update-switch" THEN {} ELSE {j.name}
            /\ NotDefinedYet(j) = {j.to} /\ StillDefined(j) = {j.name}
            /\ ~Removing(j) /\ ~Adding(j) /\ j.pc # "add-switch"
      /\ Removing(j) /\ j.name \in Customs =>
            /\ NotSwitchedYet(j) = {} /\ StillSwitched(j) = {j.name}
            /\ NotDefinedYet(j) = {} /\ StillDefined(j) = {j.name}
            /\ ~Updating(j) /\ ~Adding(j) /\ j.pc # "add-switch"
BY DEF Updating, Removing, Adding, NotSwitchedYet, StillSwitched,
       NotDefinedYet, StillDefined

\* create_custom_filter, up to the switch.
LEMMA AddFilterInv ==
    ASSUME NEW N \in SUBSET Names, ManagerInv(N),
           NEW n \in Customs, NEW f \in CustomFiles,
           NEW on \in BOOLEAN, AddFilter(n, f, on)
    PROVE  ManagerInv(N)'
<1> DEFINE x == [name |-> n, file |-> f]
           v == [file |-> f, on |-> on]
<1>1. /\ JobShape /\ TablesShape /\ ListShape /\ SwitchesAgree(N)
      /\ DefinitionsAgree(N) /\ api \in Job /\ ListOK(filters)
  BY DEF ManagerInv, ManagerShape, JobShape, ListShape
<1>2. /\ ApiFree /\ n \notin NamesOf(filters)
      /\ definitions' = [definitions EXCEPT ![n] = v]
      /\ loaded' = Fetched(loaded, f)
      /\ filters' = Append(filters, x)
      /\ files' = files /\ store' = store /\ enabled' = enabled
      /\ crashes' = crashes
  BY DEF AddFilter, NameFree, disk, Unchanging
<1>3. api' = JobOf("add-switch", {}, None, "idle", n, None, on)
  BY <1>1, FilterMoves
<1>4. /\ api'.pc = "add-switch" /\ api'.file = None /\ api'.name = n
      /\ api'.on = on
  BY <1>3, JobIs
<1>5. /\ NotSwitchedYet(api') = {n} /\ StillSwitched(api') = {}
      /\ NotDefinedYet(api') = {} /\ StillDefined(api') = {}
      /\ ~Updating(api') /\ ~Removing(api') /\ Adding(api')
  BY <1>4, Phases DEF Adding
<1>6. /\ NotSwitchedYet(api) = {} /\ StillSwitched(api) = {}
      /\ NotDefinedYet(api) = {} /\ StillDefined(api) = {}
  BY <1>1, <1>2, IdleJob, SettledPhase
<1>7. JobShape'
  <2>1. api' \in Job
    BY <1>3, JobType DEF ApiAt
  <2> QED
    BY <1>4, <1>5, <2>1 DEF JobShape
<1>8. /\ ListOK(filters') /\ Range(filters') = Range(filters) \cup {x}
      /\ filters' # << >> /\ filters'[Len(filters')] = x
  <2>1. /\ ListOK(filters') /\ Range(filters') = Range(filters) \cup {x}
        /\ Len(filters') = Len(filters) + 1 /\ filters'[Len(filters')] = x
    BY <1>1, <1>2, Appended
  <2>2. Len(filters) \in Nat
    BY <1>1, ListMembers
  <2> QED
    BY <2>1, <2>2, EmptySeq
<1>9. x.name = n /\ x.file = f /\ v.file = f /\ v.on = on /\ v \in Definition
  BY DEF Definition
<1> HIDE DEF x, v
<1>10. /\ NamesOf(filters') = NamesOf(filters) \cup {n}
       /\ \A y \in Range(filters) : y.name \in NamesOf(filters)
  <2>1. /\ NamesOf(filters') = {y.name : y \in Range(filters')}
        /\ NamesOf(filters) = {y.name : y \in Range(filters)}
    BY <1>1, <1>8, ListMembers
  <2> QED
    BY <1>8, <1>9, <2>1
<1>11. TablesShape'
  <2>1. loaded' \in [Files -> (SUBSET Domains) \cup {None}]
    BY <1>1, <1>2, FetchedLists, NoneIsNone
  <2>2. filters' \in Seq(Filter)
    BY <1>8 DEF ListOK
  <2> QED
    BY <1>1, <1>2, <1>9, <2>1, <2>2 DEF TablesShape
<1>12. ListShape'
  <2>1. \A y \in Range(filters) : y.file \in Files
    BY <1>1, ListMembers DEF Filter
  <2>2. /\ \A g \in Files : loaded[g] # None => loaded'[g] # None
        /\ loaded'[f] # None
    BY <1>1, <1>2, FetchedLists, NoneIsNone
  <2> QED
    BY <1>1, <1>4, <1>8, <1>9, <2>1, <2>2 DEF ListShape
<1>13. SwitchesAgree(N)'
  BY <1>1, <1>2, <1>5, <1>6, <1>10 DEF SwitchesAgree
<1>14. DefinitionsAgree(N)'
  <2>1. \A m \in Customs : definitions'[m] = IF m = n THEN v ELSE definitions[m]
    BY <1>1, <1>2 DEF TablesShape
  <2>2. v # None
    BY <1>9, NoneIsNone
  <2>3. ASSUME NEW m \in N \cap Customs
        PROVE  definitions'[m] # None <=> m \in NamesOf(filters')
    BY <1>1, <1>6, <1>10, <2>1, <2>2 DEF DefinitionsAgree
  <2>4. ASSUME NEW y \in Range(filters'), y.name \in N \cap Customs
        PROVE  /\ definitions'[y.name].file = y.file
               /\ y.name # n => definitions'[y.name].on = enabled'[y.name]
    <3>1. CASE y = x
      BY <3>1, <1>9, <2>1
    <3>2. CASE y \in Range(filters)
      <4>1. y.name # n
        BY <1>2, <1>10, <3>2
      <4> QED
        BY <1>1, <1>2, <1>6, <2>1, <2>4, <3>2, <4>1 DEF DefinitionsAgree
    <3> QED
      BY <1>8, <2>4, <3>1, <3>2
  <2> QED
    BY <1>5, <2>3, <2>4 DEF DefinitionsAgree
<1>15. NamesAtHand'
  <2>1. definitions'[n] = v
    BY <1>1, <1>2 DEF TablesShape
  <2> QED
    BY <1>4, <1>5, <1>9, <2>1 DEF NamesAtHand
<1> QED
  BY <1>7, <1>11, <1>12, <1>13, <1>14, <1>15 DEF ManagerInv, ManagerShape

\* create_custom_filter: the switch.
LEMMA AddSwitchInv ==
    ASSUME NEW N \in SUBSET Names, ManagerInv(N), AddSwitch
    PROVE  ManagerInv(N)'
<1>1. /\ JobShape /\ TablesShape /\ ListShape /\ SwitchesAgree(N)
      /\ DefinitionsAgree(N) /\ NamesAtHand /\ api \in Job /\ ListOK(filters)
      /\ api.pc = "add-switch" /\ Adding(api) /\ api.name \in Customs
      /\ api.file = None
  BY DEF ManagerInv, ManagerShape, JobShape, ListShape, AddSwitch, Adding
<1>2. /\ enabled' = [enabled EXCEPT ![api.name] = api.on]
      /\ UNCHANGED <<files, store, loaded, filters, definitions, crashes>>
  BY DEF AddSwitch, Switch, disk, Unchanging
<1>3. api' = JobOf("add-persist", api.todo, api.file, api.then,
                   api.name, api.to, api.on)
  BY <1>1, OtherMoves
<1>4. /\ api'.pc = "add-persist" /\ api'.file = None /\ api'.name = api.name
  BY <1>1, <1>3, JobIs
<1>5. /\ Settled(api') /\ Adding(api')
      /\ NotSwitchedYet(api') = {} /\ StillSwitched(api') = {}
      /\ NotDefinedYet(api') = {} /\ StillDefined(api') = {}
      /\ ~Updating(api') /\ ~Removing(api')
  BY <1>4, SettledPhase DEF Adding, Settled
<1>6. /\ NotSwitchedYet(api) = {api.name} /\ StillSwitched(api) = {}
      /\ NotDefinedYet(api) = {} /\ StillDefined(api) = {}
  BY <1>1, Phases
<1>7. JobShape'
  <2>1. api' \in Job
    <3>1. "add-persist" \in ApiAt
      BY DEF ApiAt
    <3> QED
      BY <1>1, <1>3, <3>1, SameJob
  <2> QED
    BY <1>1, <1>4, <1>5, <2>1 DEF JobShape
<1>8. api.on \in BOOLEAN /\ api.on # None /\ api.name \in Names
  BY <1>1, NoneIsNone DEF Job
<1>9. \A m \in Names :
         enabled'[m] = IF m = api.name THEN api.on ELSE enabled[m]
  BY <1>1, <1>2, <1>8 DEF TablesShape
<1>10. TablesShape'
  BY <1>1, <1>2, <1>8 DEF TablesShape
<1>11. ListShape'
  BY <1>1, <1>2, <1>4 DEF ListShape
<1>12. /\ api.name \in NamesOf(filters)
       /\ NamesOf(filters') = NamesOf(filters)
       /\ \A y \in Range(filters) : y.name \in Names
  <2>1. Len(filters) \in DOMAIN filters /\ filters[Len(filters)].name = api.name
    BY <1>1, ListMembers, EmptySeq DEF ListShape, ListOK
  <2> QED
    BY <1>1, <1>2, <2>1, ListMembers DEF NamesOf, Filter
<1>13. SwitchesAgree(N)'
  BY <1>1, <1>5, <1>6, <1>8, <1>9, <1>12 DEF SwitchesAgree
<1>14. DefinitionsAgree(N)'
  <2>1. ASSUME NEW y \in Range(filters'), y.name \in N \cap Customs
        PROVE  /\ definitions'[y.name].file = y.file
               /\ definitions'[y.name].on = enabled'[y.name]
    <3>1. CASE y.name = api.name
      BY <1>1, <1>2, <1>6, <1>8, <1>9, <2>1, <3>1
         DEF DefinitionsAgree, NamesAtHand
    <3>2. CASE y.name # api.name
      BY <1>1, <1>2, <1>6, <1>9, <1>12, <2>1, <3>2 DEF DefinitionsAgree
    <3> QED
      BY <3>1, <3>2
  <2>2. \A m \in N \cap Customs : definitions'[m] # None <=> m \in NamesOf(filters')
    BY <1>1, <1>2, <1>6, <1>12 DEF DefinitionsAgree
  <2> QED
    BY <1>4, <1>5, <2>1, <2>2 DEF DefinitionsAgree
<1>15. NamesAtHand'
  BY <1>4, <1>5 DEF NamesAtHand
<1> QED
  BY <1>7, <1>10, <1>11, <1>13, <1>14, <1>15 DEF ManagerInv, ManagerShape

\* An endpoint that ends.
LEMMA EndsInShape ==
    ASSUME api' = JobOf("idle", {}, None, "idle", None, None, Off)
    PROVE  /\ JobShape' /\ Settled(api') /\ ~Adding(api') /\ api'.pc = "idle"
           /\ NotSwitchedYet(api') = {} /\ StillSwitched(api') = {}
           /\ NotDefinedYet(api') = {} /\ StillDefined(api') = {}
           /\ ~Updating(api') /\ ~Removing(api')
<1>1. api' \in Job
  BY JobType DEF ApiAt, Off, NoJob
<1>2. api'.pc = "idle" /\ api'.file = None
  BY JobIs
<1>3. Settled(api') /\ ~Adding(api')
  BY <1>2 DEF Settled, Adding
<1> QED
  BY <1>1, <1>2, <1>3, SettledPhase DEF JobShape

\* create_custom_filter: the addition is written or taken back.
LEMMA AddPersistInv ==
    ASSUME NEW N \in SUBSET Names, ManagerInv(N), AddPersist
    PROVE  ManagerInv(N)'
<1>1. /\ JobShape /\ TablesShape /\ ListShape /\ SwitchesAgree(N)
      /\ DefinitionsAgree(N) /\ api \in Job /\ ListOK(filters)
      /\ api.pc = "add-persist" /\ Adding(api) /\ api.name \in Customs
  BY DEF ManagerInv, ManagerShape, JobShape, ListShape, AddPersist, Adding
<1>2. api' = JobOf("idle", {}, None, "idle", None, None, Off)
  BY <1>1, OtherMoves
<1>3. UNCHANGED <<files, loaded, crashes>>
  BY DEF AddPersist, Unchanging
<1>4. /\ Settled(api)
      /\ NotSwitchedYet(api) = {} /\ StillSwitched(api) = {}
      /\ NotDefinedYet(api) = {} /\ StillDefined(api) = {}
  BY <1>1, SettledPhase DEF Settled
<1>5. CASE Persisted /\ UNCHANGED manager
  <2>1. TablesShape'
    BY <1>1, <1>3, <1>5 DEF TablesShape, Persisted, manager
  <2> QED
    BY <1>2, <1>3, <1>4, <1>5, <2>1, EndsInShape, TablesLeftAlone
<1>6. CASE /\ filters' = Front(filters)
           /\ enabled' = Switch(api.name, None)
           /\ definitions' = Undefined(api.name)
           /\ UNCHANGED store
  <2>1. /\ enabled' = [enabled EXCEPT ![api.name] = None]
        /\ definitions' = [definitions EXCEPT ![api.name] = None]
        /\ api.name \in Names
    BY <1>1, <1>6, NoneIsNone DEF Switch, Undefined
  <2>2. /\ \A m \in Names :
              enabled'[m] = IF m = api.name THEN None ELSE enabled[m]
        /\ \A m \in Customs :
              definitions'[m] = IF m = api.name THEN None ELSE definitions[m]
    BY <1>1, <2>1 DEF TablesShape
  <2>3. /\ ListOK(filters')
        /\ Range(filters') = {y \in Range(filters) : y.name # api.name}
    BY <1>1, <1>6, LastTakenBack DEF ListShape
  <2>4. /\ NamesOf(filters') = NamesOf(filters) \ {api.name}
        /\ \A y \in Range(filters) : y.name \in Names
    <3>1. /\ NamesOf(filters') = {y.name : y \in Range(filters')}
          /\ NamesOf(filters) = {y.name : y \in Range(filters)}
          /\ Range(filters) \subseteq Filter
      BY <1>1, <2>3, ListMembers
    <3> QED
      BY <2>3, <3>1 DEF Filter
  <2>5. TablesShape'
    <3>1. filters' \in Seq(Filter)
      BY <2>3 DEF ListOK
    <3> QED
      BY <1>1, <1>3, <1>6, <2>1, <3>1 DEF TablesShape
  <2>6. ListShape'
    BY <1>1, <1>2, <1>3, <2>3, EndsInShape DEF ListShape
  <2>7. SwitchesAgree(N)'
    BY <1>1, <1>2, <1>4, <2>2, <2>4, EndsInShape DEF SwitchesAgree
  <2>8. DefinitionsAgree(N)'
    <3>1. \A m \in N \cap Customs : definitions'[m] # None <=> m \in NamesOf(filters')
      BY <1>1, <1>4, <2>2, <2>4 DEF DefinitionsAgree
    <3>2. ASSUME NEW y \in Range(filters'), y.name \in N \cap Customs
          PROVE  /\ definitions'[y.name].file = y.file
                 /\ definitions'[y.name].on = enabled'[y.name]
      <4>1. y \in Range(filters) /\ y.name # api.name /\ y.name \in Names
        BY <2>3, <2>4
      <4> QED
        BY <1>1, <1>4, <2>2, <3>2, <4>1 DEF DefinitionsAgree
    <3> QED
      BY <1>2, <3>1, <3>2, EndsInShape DEF DefinitionsAgree
  <2> QED
    BY <1>2, <2>5, <2>6, <2>7, <2>8, EndsInShape DEF ManagerInv, ManagerShape, NamesAtHand
<1> QED
  BY <1>5, <1>6 DEF AddPersist

\* update_custom_filter, up to the new list.
LEMMA UpdateFilterInv ==
    ASSUME NEW N \in SUBSET Names, ManagerInv(N),
           NEW n \in Customs, NEW to \in Customs,
           NEW f \in CustomFiles, NEW on \in BOOLEAN,
           UpdateFilter(n, to, f, on)
    PROVE  ManagerInv(N)'
<1> DEFINE x == [name |-> to, file |-> f]
<1>1. /\ JobShape /\ TablesShape /\ ListShape /\ SwitchesAgree(N)
      /\ DefinitionsAgree(N) /\ api \in Job /\ ListOK(filters)
  BY DEF ManagerInv, ManagerShape, JobShape, ListShape
<1>2. /\ ApiFree /\ definitions[n] # None /\ n \in NamesOf(filters)
      /\ to = n \/ to \notin NamesOf(filters)
      /\ filters' = [i \in DOMAIN filters |->
                        IF filters[i].name = n THEN x ELSE filters[i]]
      /\ loaded' = Fetched(loaded, f)
      /\ UNCHANGED <<files, store, enabled, definitions, crashes>>
  BY DEF UpdateFilter, NameFree, disk, Unchanging
<1>3. api' = JobOf("reload", {f}, None, "update-unswitch", n, to, on)
  BY <1>1, FilterMoves
<1>4. /\ api'.pc = "reload" /\ api'.file = None /\ api'.name = n
      /\ api'.to = to /\ api'.then = "update-unswitch"
  BY <1>3, JobIs
<1>5. /\ NotSwitchedYet(api') = {to} /\ StillSwitched(api') = {n}
      /\ NotDefinedYet(api') = {to} /\ StillDefined(api') = {n}
      /\ Updating(api') /\ ~Removing(api') /\ ~Adding(api')
      /\ api'.pc # "add-switch"
  <2>1. Updating(api')
    BY <1>4 DEF Updating
  <2> QED
    BY <1>4, <2>1, Phases
<1>6. /\ NotSwitchedYet(api) = {} /\ StillSwitched(api) = {}
      /\ NotDefinedYet(api) = {} /\ StillDefined(api) = {}
  BY <1>1, <1>2, IdleJob, SettledPhase
<1>7. JobShape'
  <2>1. api' \in Job
    BY <1>3, NoneIsNone, JobType DEF ApiAt
  <2> QED
    BY <1>4, <1>5, <2>1 DEF JobShape
<1>9. /\ ListOK(filters')
      /\ Range(filters') = {y \in Range(filters) : y.name # n} \cup {x}
  BY <1>1, <1>2, ReplacedInPlace
<1>10. x.name = to /\ x.file = f
  OBVIOUS
<1> HIDE DEF x
<1>11. /\ NamesOf(filters') = (NamesOf(filters) \ {n}) \cup {to}
       /\ \A y \in Range(filters) : y.name \in NamesOf(filters)
  <2>1. /\ NamesOf(filters') = {y.name : y \in Range(filters')}
        /\ NamesOf(filters) = {y.name : y \in Range(filters)}
    BY <1>1, <1>9, ListMembers
  <2> QED
    BY <1>9, <1>10, <2>1
<1>12. TablesShape'
  <2>1. loaded' \in [Files -> (SUBSET Domains) \cup {None}]
    BY <1>1, <1>2, FetchedLists, NoneIsNone
  <2>2. filters' \in Seq(Filter)
    BY <1>9 DEF ListOK
  <2> QED
    BY <1>1, <1>2, <2>1, <2>2 DEF TablesShape
<1>13. ListShape'
  <2>1. \A y \in Range(filters) : y.file \in Files
    BY <1>1, ListMembers DEF Filter
  <2>2. /\ \A g \in Files : loaded[g] # None => loaded'[g] # None
        /\ loaded'[f] # None
    BY <1>1, <1>2, FetchedLists, NoneIsNone
  <2> QED
    BY <1>1, <1>4, <1>5, <1>9, <1>10, <2>1, <2>2 DEF ListShape
<1>14. SwitchesAgree(N)'
  <2>1. n \in Names
    BY NoneIsNone
  <2> QED
    BY <1>1, <1>2, <1>5, <1>6, <1>11, <2>1 DEF SwitchesAgree
<1>15. DefinitionsAgree(N)'
  <2>1. \A m \in N \cap Customs :
           definitions'[m] # None <=>
              \/ m \in NamesOf(filters') /\ m \notin {to}
              \/ m \in {n}
    BY <1>1, <1>2, <1>6, <1>11 DEF DefinitionsAgree
  <2>2. ASSUME NEW y \in Range(filters'), y.name \in N \cap Customs, y.name # to
        PROVE  /\ definitions'[y.name].file = y.file
               /\ definitions'[y.name].on = enabled'[y.name]
    <3>1. y \in Range(filters)
      BY <1>9, <1>10, <2>2
    <3> QED
      BY <1>1, <1>2, <1>6, <2>2, <3>1 DEF DefinitionsAgree
  <2> QED
    BY <1>5, <2>1, <2>2 DEF DefinitionsAgree
<1>16. NamesAtHand'
  BY <1>2, <1>4, <1>5, <1>11 DEF NamesAtHand
<1> QED
  BY <1>7, <1>12, <1>13, <1>14, <1>15, <1>16 DEF ManagerInv, ManagerShape

\* update_custom_filter: the old switch goes.
LEMMA UpdateUnswitchInv ==
    ASSUME NEW N \in SUBSET Names, ManagerInv(N), UpdateUnswitch
    PROVE  ManagerInv(N)'
<1>1. /\ JobShape /\ TablesShape /\ ListShape /\ SwitchesAgree(N)
      /\ DefinitionsAgree(N) /\ NamesAtHand /\ api \in Job /\ ListOK(filters)
      /\ api.pc = "update-unswitch" /\ Updating(api)
      /\ api.name \in Customs /\ api.to \in Customs /\ api.file = None
  BY DEF ManagerInv, ManagerShape, JobShape, ListShape, UpdateUnswitch, Updating
<1>2. /\ enabled' = [enabled EXCEPT ![api.name] = None]
      /\ UNCHANGED <<files, store, loaded, filters, definitions, crashes>>
  BY DEF UpdateUnswitch, Switch, disk, Unchanging
<1>3. api' = JobOf("update-switch", api.todo, api.file, api.then,
                   api.name, api.to, api.on)
  BY <1>1, OtherMoves
<1>4. /\ api'.pc = "update-switch" /\ api'.file = None
      /\ api'.name = api.name /\ api'.to = api.to
  BY <1>1, <1>3, JobIs
<1>5. /\ NotSwitchedYet(api') = {api.to} /\ StillSwitched(api') = {}
      /\ NotDefinedYet(api') = {api.to} /\ StillDefined(api') = {api.name}
      /\ Updating(api') /\ ~Removing(api') /\ ~Adding(api')
  <2>1. Updating(api')
    BY <1>4 DEF Updating
  <2> QED
    BY <1>1, <1>4, <2>1, Phases
<1>6. /\ NotSwitchedYet(api) = {api.to} /\ StillSwitched(api) = {api.name}
      /\ NotDefinedYet(api) = {api.to} /\ StillDefined(api) = {api.name}
  BY <1>1, Phases
<1>7. JobShape'
  <2>1. api' \in Job
    <3>1. "update-switch" \in ApiAt
      BY DEF ApiAt
    <3> QED
      BY <1>1, <1>3, <3>1, SameJob
  <2> QED
    BY <1>1, <1>4, <1>5, <2>1 DEF JobShape
<1>8. /\ api.name \in Names
      /\ \A m \in Names : enabled'[m] = IF m = api.name THEN None ELSE enabled[m]
  BY <1>1, <1>2, NoneIsNone DEF TablesShape
<1>9. TablesShape'
  BY <1>1, <1>2 DEF TablesShape
<1>10. ListShape'
  BY <1>1, <1>2, <1>4, <1>5 DEF ListShape
<1>11. /\ NamesOf(filters') = NamesOf(filters)
       /\ api.name # api.to => api.name \notin NamesOf(filters)
       /\ \A y \in Range(filters) : y.name \in NamesOf(filters) /\ y.name \in Names
  BY <1>1, <1>2, ListMembers DEF NamesAtHand, Filter
<1>12. SwitchesAgree(N)'
  BY <1>1, <1>5, <1>6, <1>8, <1>11 DEF SwitchesAgree
<1>13. DefinitionsAgree(N)'
  <2>1. ASSUME NEW y \in Range(filters), y.name # api.to
        PROVE  enabled'[y.name] = enabled[y.name]
    BY <1>8, <1>11, <2>1
  <2> QED
    BY <1>1, <1>2, <1>4, <1>5, <1>6, <1>11, <2>1 DEF DefinitionsAgree
<1>14. NamesAtHand'
  BY <1>1, <1>4, <1>5, <1>11 DEF NamesAtHand
<1> QED
  BY <1>7, <1>9, <1>10, <1>12, <1>13, <1>14 DEF ManagerInv, ManagerShape

\* The file of a custom filter in the list.
LEMMA FileOfListed ==
    ASSUME ListOK(filters), NEW n \in NamesOf(filters)
    PROVE  /\ PositionOf(n) \in DOMAIN filters
           /\ filters[PositionOf(n)].name = n
           /\ \A x \in Range(filters) : x.name = n => FileOf(n) = x.file
           /\ n \in Customs => FileOf(n) \in CustomFiles
           /\ \E x \in Range(filters) : x.name = n /\ x.file = FileOf(n)
<1>1. /\ PositionOf(n) \in DOMAIN filters
      /\ filters[PositionOf(n)].name = n
  BY DEF PositionOf, NamesOf
<1>2. /\ filters[PositionOf(n)] \in Range(filters)
      /\ FileOf(n) = filters[PositionOf(n)].file
  BY <1>1, ListMembers DEF FileOf
<1> QED
  BY <1>1, <1>2, ListMembers DEF ListOK

\* update_custom_filter: the new switch and the definition.
LEMMA UpdateSwitchInv ==
    ASSUME NEW N \in SUBSET Names, ManagerInv(N), UpdateSwitch
    PROVE  ManagerInv(N)'
<1> DEFINE v == [file |-> FileOf(api.to), on |-> api.on]
<1>1. /\ JobShape /\ TablesShape /\ ListShape /\ SwitchesAgree(N)
      /\ DefinitionsAgree(N) /\ NamesAtHand /\ api \in Job /\ ListOK(filters)
      /\ api.pc = "update-switch" /\ Updating(api)
      /\ api.name \in Customs /\ api.to \in Customs /\ api.file = None
  BY DEF ManagerInv, ManagerShape, JobShape, ListShape, UpdateSwitch, Updating
<1>2. /\ enabled' = [enabled EXCEPT ![api.to] = api.on]
      /\ definitions' = [definitions EXCEPT ![api.name] = None, ![api.to] = v]
      /\ UNCHANGED <<files, store, loaded, filters, crashes>>
  BY DEF UpdateSwitch, Switch, Redefined, disk, Unchanging
<1>3. api' = JobOf("persist", api.todo, api.file, api.then,
                   api.name, api.to, api.on)
  BY <1>1, OtherMoves
<1>4. /\ api'.pc = "persist" /\ api'.file = None
  BY <1>1, <1>3, JobIs
<1>5. /\ NotSwitchedYet(api') = {} /\ StillSwitched(api') = {}
      /\ NotDefinedYet(api') = {} /\ StillDefined(api') = {}
      /\ ~Updating(api') /\ ~Removing(api') /\ ~Adding(api')
      /\ api'.pc # "add-switch"
  BY <1>4, SettledPhase DEF Settled, Adding
<1>6. /\ NotSwitchedYet(api) = {api.to} /\ StillSwitched(api) = {}
      /\ NotDefinedYet(api) = {api.to} /\ StillDefined(api) = {api.name}
  BY <1>1, Phases
<1>7. JobShape'
  <2>1. api' \in Job
    <3>1. "persist" \in ApiAt
      BY DEF ApiAt
    <3> QED
      BY <1>1, <1>3, <3>1, SameJob
  <2> QED
    BY <1>4, <1>5, <2>1 DEF JobShape
<1>8. /\ api.to \in Names /\ api.on \in BOOLEAN /\ api.on # None
      /\ \A m \in Names : enabled'[m] = IF m = api.to THEN api.on ELSE enabled[m]
  <2>1. api.to \in Names /\ api.on \in BOOLEAN /\ api.on # None
    BY <1>1, NoneIsNone DEF Job
  <2> QED
    BY <1>1, <1>2, <2>1 DEF TablesShape
<1>9. /\ NamesOf(filters') = NamesOf(filters) /\ api.to \in NamesOf(filters)
      /\ api.name # api.to => api.name \notin NamesOf(filters)
      /\ \A y \in Range(filters) : y.name \in NamesOf(filters) /\ y.name \in Names
  BY <1>1, <1>2, ListMembers DEF NamesAtHand, Filter
<1>10. /\ v \in Definition /\ v # None /\ v.file = FileOf(api.to)
       /\ v.on = api.on
  BY <1>1, <1>8, <1>9, FileOfListed, NoneIsNone DEF Definition
<1> HIDE DEF v
<1>11. \A m \in Customs :
          definitions'[m] = IF m = api.to THEN v
                            ELSE IF m = api.name THEN None ELSE definitions[m]
  BY <1>1, <1>2 DEF TablesShape
<1>12. TablesShape'
  BY <1>1, <1>2, <1>8, <1>10 DEF TablesShape
<1>13. ListShape'
  BY <1>1, <1>2, <1>4, <1>5 DEF ListShape
<1>14. SwitchesAgree(N)'
  BY <1>1, <1>5, <1>6, <1>8, <1>9 DEF SwitchesAgree
<1>15. DefinitionsAgree(N)'
  <2>1. \A m \in N \cap Customs : definitions'[m] # None <=> m \in NamesOf(filters')
    BY <1>1, <1>6, <1>9, <1>10, <1>11 DEF DefinitionsAgree
  <2>2. ASSUME NEW y \in Range(filters), y.name \in N \cap Customs
        PROVE  /\ definitions'[y.name].file = y.file
               /\ definitions'[y.name].on = enabled'[y.name]
    <3>1. CASE y.name = api.to
      BY <1>1, <1>8, <1>9, <1>10, <1>11, <3>1, FileOfListed
    <3>2. CASE y.name # api.to
      <4>1. y.name # api.name
        BY <1>9, <3>2
      <4> QED
        BY <1>1, <1>6, <1>8, <1>9, <1>11, <2>2, <3>2, <4>1 DEF DefinitionsAgree
    <3> QED
      BY <3>1, <3>2
  <2> QED
    BY <1>2, <1>5, <2>1, <2>2 DEF DefinitionsAgree
<1>16. NamesAtHand'
  BY <1>5 DEF NamesAtHand
<1> QED
  BY <1>7, <1>12, <1>13, <1>14, <1>15, <1>16 DEF ManagerInv, ManagerShape

\* The list without the filter of that name, if there is one.
LEMMA ListWithout ==
    ASSUME ListOK(filters), NEW n
    PROVE  /\ ListOK(Without(n))
           /\ Range(Without(n)) = {y \in Range(filters) : y.name # n}
<1>1. CASE n \in NamesOf(filters)
  <2>1. /\ PositionOf(n) \in DOMAIN filters
        /\ filters[PositionOf(n)].name = n
        /\ Without(n) = RemoveAt(filters, PositionOf(n))
    BY <1>1, FileOfListed DEF Without
  <2> QED
    BY <2>1, TakenOut
<1>2. CASE n \notin NamesOf(filters)
  BY <1>2, ListMembers DEF Without
<1> QED
  BY <1>1, <1>2

\* remove_custom_filter, up to the new list.
LEMMA RemoveFilterInv ==
    ASSUME NEW N \in SUBSET Names, ManagerInv(N), NEW n \in Customs, RemoveFilter(n)
    PROVE  ManagerInv(N)'
<1>1. /\ JobShape /\ TablesShape /\ ListShape /\ SwitchesAgree(N)
      /\ DefinitionsAgree(N) /\ api \in Job /\ ListOK(filters)
  BY DEF ManagerInv, ManagerShape, JobShape, ListShape
<1>2. /\ ApiFree /\ definitions[n] # None
      /\ filters' = Without(n)
      /\ UNCHANGED <<files, store, loaded, enabled, definitions, crashes>>
  BY DEF RemoveFilter, disk
<1>3. api' = JobOf("remove-switch", {}, None, "idle", n, None, Off)
  BY <1>1, FilterMoves
<1>4. /\ api'.pc = "remove-switch" /\ api'.file = None /\ api'.name = n
  BY <1>3, JobIs
<1>5. /\ NotSwitchedYet(api') = {} /\ StillSwitched(api') = {n}
      /\ NotDefinedYet(api') = {} /\ StillDefined(api') = {n}
      /\ ~Updating(api') /\ Removing(api') /\ ~Adding(api')
      /\ api'.pc # "add-switch"
  <2>1. Removing(api')
    BY <1>4 DEF Removing
  <2> QED
    BY <1>4, <2>1, Phases
<1>6. /\ NotSwitchedYet(api) = {} /\ StillSwitched(api) = {}
      /\ NotDefinedYet(api) = {} /\ StillDefined(api) = {}
  BY <1>1, <1>2, IdleJob, SettledPhase
<1>7. JobShape'
  <2>1. api' \in Job
    BY <1>3, JobType DEF ApiAt, Off, NoJob
  <2> QED
    BY <1>4, <1>5, <2>1 DEF JobShape
<1>8. n \in Names /\ (n \in N => n \in NamesOf(filters))
  BY <1>1, <1>2, <1>6, NoneIsNone DEF DefinitionsAgree
<1>9. /\ ListOK(filters')
      /\ Range(filters') = {y \in Range(filters) : y.name # n}
  BY <1>1, <1>2, ListWithout
<1>10. NamesOf(filters') = NamesOf(filters) \ {n}
  <2>1. /\ NamesOf(filters') = {y.name : y \in Range(filters')}
        /\ NamesOf(filters) = {y.name : y \in Range(filters)}
    BY <1>1, <1>9, ListMembers
  <2> QED
    BY <1>9, <2>1
<1>11. TablesShape'
  <2>1. filters' \in Seq(Filter)
    BY <1>9 DEF ListOK
  <2> QED
    BY <1>1, <1>2, <2>1 DEF TablesShape
<1>12. ListShape'
  BY <1>1, <1>2, <1>4, <1>5, <1>9 DEF ListShape
<1>13. SwitchesAgree(N)'
  BY <1>1, <1>2, <1>5, <1>6, <1>8, <1>10 DEF SwitchesAgree
<1>14. DefinitionsAgree(N)'
  <2>1. \A m \in N \cap Customs : definitions'[m] # None <=>
           m \in NamesOf(filters') \/ m \in {n}
    BY <1>1, <1>2, <1>6, <1>8, <1>10 DEF DefinitionsAgree
  <2> QED
    BY <1>1, <1>2, <1>5, <1>6, <1>9, <2>1 DEF DefinitionsAgree
<1>15. NamesAtHand'
  BY <1>4, <1>5, <1>10 DEF NamesAtHand
<1> QED
  BY <1>7, <1>11, <1>12, <1>13, <1>14, <1>15 DEF ManagerInv, ManagerShape

\* remove_custom_filter: the switch and the definition go.
LEMMA RemoveSwitchInv ==
    ASSUME NEW N \in SUBSET Names, ManagerInv(N), RemoveSwitch
    PROVE  ManagerInv(N)'
<1>1. /\ JobShape /\ TablesShape /\ ListShape /\ SwitchesAgree(N)
      /\ DefinitionsAgree(N) /\ NamesAtHand /\ api \in Job /\ ListOK(filters)
      /\ api.pc = "remove-switch" /\ Removing(api)
      /\ api.name \in Customs /\ api.file = None
  BY DEF ManagerInv, ManagerShape, JobShape, ListShape, RemoveSwitch, Removing
<1>2. /\ enabled' = [enabled EXCEPT ![api.name] = None]
      /\ definitions' = [definitions EXCEPT ![api.name] = None]
      /\ UNCHANGED <<files, store, loaded, filters, crashes>>
  BY DEF RemoveSwitch, Switch, Undefined, disk, Unchanging
<1>3. api' = JobOf("persist", api.todo, api.file, api.then,
                   api.name, api.to, api.on)
  BY <1>1, OtherMoves
<1>4. /\ api'.pc = "persist" /\ api'.file = None
  BY <1>1, <1>3, JobIs
<1>5. /\ NotSwitchedYet(api') = {} /\ StillSwitched(api') = {}
      /\ NotDefinedYet(api') = {} /\ StillDefined(api') = {}
      /\ ~Updating(api') /\ ~Removing(api') /\ ~Adding(api')
      /\ api'.pc # "add-switch"
  BY <1>4, SettledPhase DEF Settled, Adding
<1>6. /\ NotSwitchedYet(api) = {} /\ StillSwitched(api) = {api.name}
      /\ NotDefinedYet(api) = {} /\ StillDefined(api) = {api.name}
  BY <1>1, Phases
<1>7. JobShape'
  <2>1. api' \in Job
    <3>1. "persist" \in ApiAt
      BY DEF ApiAt
    <3> QED
      BY <1>1, <1>3, <3>1, SameJob
  <2> QED
    BY <1>4, <1>5, <2>1 DEF JobShape
<1>8. /\ api.name \in Names
      /\ \A m \in Names : enabled'[m] = IF m = api.name THEN None ELSE enabled[m]
      /\ \A m \in Customs :
            definitions'[m] = IF m = api.name THEN None ELSE definitions[m]
  BY <1>1, <1>2, NoneIsNone DEF TablesShape
<1>9. /\ NamesOf(filters') = NamesOf(filters)
      /\ api.name \notin NamesOf(filters)
      /\ \A y \in Range(filters) : y.name \in NamesOf(filters) /\ y.name \in Names
  BY <1>1, <1>2, ListMembers DEF NamesAtHand, Filter
<1>10. TablesShape'
  BY <1>1, <1>2 DEF TablesShape
<1>11. ListShape'
  BY <1>1, <1>2, <1>4, <1>5 DEF ListShape
<1>12. SwitchesAgree(N)'
  BY <1>1, <1>5, <1>6, <1>8, <1>9 DEF SwitchesAgree
<1>13. DefinitionsAgree(N)'
  <2>1. \A m \in N \cap Customs : definitions'[m] # None <=> m \in NamesOf(filters')
    BY <1>1, <1>6, <1>8, <1>9 DEF DefinitionsAgree
  <2>2. ASSUME NEW y \in Range(filters), y.name \in N \cap Customs
        PROVE  /\ definitions'[y.name].file = y.file
               /\ definitions'[y.name].on = enabled'[y.name]
    <3>1. y.name # api.name
      BY <1>9
    <3> QED
      BY <1>1, <1>6, <1>8, <1>9, <2>2, <3>1 DEF DefinitionsAgree
  <2> QED
    BY <1>2, <1>5, <2>1, <2>2 DEF DefinitionsAgree
<1>14. NamesAtHand'
  BY <1>5 DEF NamesAtHand
<1> QED
  BY <1>7, <1>10, <1>11, <1>12, <1>13, <1>14 DEF ManagerInv, ManagerShape

\* A filter that toggle_filter writes to the file.
Defined(n) == n \in Customs /\ definitions[n] # None

\* A switch, and if there is one the definition, to on.
ToggledTo(n, on) ==
    /\ enabled' = [enabled EXCEPT ![n] = on]
    /\ Defined(n) => definitions' = [definitions EXCEPT ![n].on = on]
    /\ ~Defined(n) => definitions' = definitions

\* toggle_filter.
LEMMA ToggleInv ==
    ASSUME NEW N \in SUBSET Names, ManagerInv(N), NEW n \in Names, Toggle(n)
    PROVE  ManagerInv(N)'
<1>1. /\ JobShape /\ TablesShape /\ ListShape /\ SwitchesAgree(N)
      /\ DefinitionsAgree(N) /\ api \in Job /\ ListOK(filters)
  BY DEF ManagerInv, ManagerShape, JobShape, ListShape
<1>2. /\ ApiFree /\ n \in NamesOf(filters)
      /\ UNCHANGED <<files, store, loaded, filters, crashes>>
  BY DEF Toggle, disk, Unchanging
<1>3. PICK on \in BOOLEAN : ToggledTo(n, on)
  <2>1. ToggledTo(n, enabled[n] # TRUE)
    BY Zenon DEF Toggle, Switch, ToggledTo, Defined
  <2>2. (enabled[n] # TRUE) \in BOOLEAN
    BY Zenon
  <2> QED
    BY <2>1, <2>2, Zenon
<1>4. /\ JobShape' /\ Settled(api') /\ ~Adding(api') /\ api'.pc # "fill"
  <2>1. CASE Defined(n)
    <3>1. api' = JobOf("persist", {}, None, "idle", n, None, Off)
      BY <1>1, <2>1, FilterMoves DEF Defined
    <3>2. api' \in Job
      BY <2>1, <3>1, JobType DEF ApiAt, Off, NoJob, Defined
    <3>3. api'.pc = "persist" /\ api'.file = None
      BY <3>1, JobIs
    <3> QED
      BY <3>2, <3>3 DEF JobShape, Settled, Adding, Updating, Removing
  <2>2. CASE ~Defined(n)
    <3>1. api' = api
      BY <1>1, <2>2, FilterMoves DEF Defined
    <3> QED
      BY <1>1, <1>2, <3>1, IdleJob DEF JobShape
  <2> QED
    BY <2>1, <2>2
<1>5. /\ NotSwitchedYet(api') = {} /\ StillSwitched(api') = {}
      /\ NotDefinedYet(api') = {} /\ StillDefined(api') = {}
      /\ ~Updating(api') /\ ~Removing(api') /\ api'.pc # "add-switch"
  BY <1>4, SettledPhase
<1>6. /\ NotSwitchedYet(api) = {} /\ StillSwitched(api) = {}
      /\ NotDefinedYet(api) = {} /\ StillDefined(api) = {}
  BY <1>1, <1>2, IdleJob, SettledPhase
<1>7. /\ on # None
      /\ \A m \in Names : enabled'[m] = IF m = n THEN on ELSE enabled[m]
      /\ enabled' \in [Names -> BOOLEAN \cup {None}]
  BY <1>1, <1>3, NoneIsNone DEF TablesShape, ToggledTo
<1>8. /\ definitions' \in [Customs -> Definition \cup {None}]
      /\ \A m \in Customs : definitions'[m] # None <=> definitions[m] # None
      /\ \A m \in Customs \ {n} : definitions'[m] = definitions[m]
      /\ n \in N \cap Customs =>
            /\ definitions'[n].file = definitions[n].file
            /\ definitions'[n].on = on
  <2>1. CASE Defined(n)
    <3>1. n \in Customs /\ definitions[n] # None
      BY <2>1 DEF Defined
    <3>2. definitions[n] \in Definition
      BY <1>1, <3>1 DEF TablesShape
    <3>3. PICK f \in CustomFiles, o \in BOOLEAN :
             definitions[n] = [file |-> f, on |-> o]
      BY <3>2 DEF Definition
    <3> DEFINE w == [file |-> f, on |-> on]
    <3>4. /\ w \in Definition /\ w.file = definitions[n].file /\ w.on = on
          /\ w # None
      BY <3>3, NoneIsNone DEF Definition
    <3>5. [definitions[n] EXCEPT !.on = on] = w
      BY <3>3
    <3>6. definitions' = [definitions EXCEPT ![n] = w]
      BY <1>3, <2>1, <3>5, Zenon DEF ToggledTo
    <3> HIDE DEF w
    <3> QED
      BY <1>1, <3>1, <3>4, <3>6 DEF TablesShape
  <2>2. CASE ~Defined(n)
    <3>1. n \notin N \cap Customs
      BY <1>1, <1>2, <1>6, <2>2 DEF DefinitionsAgree, Defined
    <3> QED
      BY <1>1, <1>3, <2>2, <3>1 DEF ToggledTo, TablesShape
  <2> QED
    BY <2>1, <2>2
<1>9. /\ NamesOf(filters') = NamesOf(filters)
      /\ \A y \in Range(filters) : y.name \in Names
  BY <1>1, <1>2, ListMembers DEF Filter
<1>10. TablesShape'
  BY <1>1, <1>2, <1>7, <1>8 DEF TablesShape
<1>11. ListShape'
  BY <1>1, <1>2, <1>4 DEF ListShape
<1>12. SwitchesAgree(N)'
  BY <1>1, <1>2, <1>5, <1>6, <1>7, <1>9 DEF SwitchesAgree
<1>13. DefinitionsAgree(N)'
  <2>1. ASSUME NEW y \in Range(filters), y.name \in N \cap Customs
        PROVE  /\ definitions'[y.name].file = y.file
               /\ definitions'[y.name].on = enabled'[y.name]
    <3>1. CASE y.name = n
      BY <1>1, <1>6, <1>7, <1>8, <2>1, <3>1 DEF DefinitionsAgree
    <3>2. CASE y.name # n
      BY <1>1, <1>6, <1>7, <1>8, <1>9, <2>1, <3>2 DEF DefinitionsAgree
    <3> QED
      BY <3>1, <3>2
  <2>2. \A m \in N \cap Customs : definitions'[m] # None <=> m \in NamesOf(filters')
    BY <1>1, <1>6, <1>8, <1>9 DEF DefinitionsAgree
  <2> QED
    BY <1>2, <1>5, <2>1, <2>2 DEF DefinitionsAgree
<1>14. NamesAtHand'
  BY <1>5 DEF NamesAtHand
<1> QED
  BY <1>4, <1>10, <1>11, <1>12, <1>13, <1>14 DEF ManagerInv, ManagerShape

\* _persist, and the end of the endpoint.
LEMMA PersistInv ==
    ASSUME NEW N \in SUBSET Names, ManagerInv(N), Persist
    PROVE  ManagerInv(N)'
<1>1. JobShape /\ TablesShape /\ api \in Job /\ Settled(api)
  BY DEF ManagerInv, ManagerShape, JobShape, Persist, Settled
<1>2. UNCHANGED <<files, loaded, manager, crashes>>
  BY DEF Persist, Unchanging
<1>3. api' = JobOf("idle", {}, None, "idle", None, None, Off)
  BY <1>1, OtherMoves
<1>4. store' \in [Customs -> Definition \cup {None}]
  BY <1>1 DEF Persist, Persisted, TablesShape
<1>5. TablesShape'
  BY <1>1, <1>2, <1>4 DEF TablesShape, manager
<1> QED
  BY <1>1, <1>2, <1>3, <1>5, EndsInShape, TablesLeftAlone

\* Nothing is loaded, switched or defined.
LEMMA NothingThere ==
    /\ NothingLoaded \in [Files -> (SUBSET Domains) \cup {None}]
    /\ AllUnset \in [Names -> BOOLEAN \cup {None}]
    /\ NoDefinitions \in [Customs -> Definition \cup {None}]
    /\ \A n \in Names : AllUnset[n] = None
    /\ \A n \in Customs : NoDefinitions[n] = None
    /\ << >> \in Seq(Filter)
BY DEF NothingLoaded, AllUnset, NoDefinitions

\* The end of the process.
LEMMA CrashInv ==
    ASSUME NEW N \in SUBSET Names, ManagerShape, Crash
    PROVE  ManagerInv(N)'
<1>1. JobShape /\ TablesShape /\ api \in Job
  BY DEF ManagerShape, JobShape
<1>2. /\ loaded' = NothingLoaded /\ filters' = << >> /\ enabled' = AllUnset
      /\ definitions' = NoDefinitions /\ files' = files /\ store' = store
      /\ crashes < MaxCrashes /\ crashes' = crashes + 1
  BY DEF Crash, disk
<1>3. api' = JobOf("down", {}, None, "idle", None, None, Off)
  BY <1>1, OtherMoves
<1>4. /\ api'.pc = "down" /\ api'.file = None
  BY <1>3, JobIs
<1>5. /\ NotSwitchedYet(api') = {} /\ StillSwitched(api') = {}
      /\ NotDefinedYet(api') = {} /\ StillDefined(api') = {}
      /\ ~Updating(api') /\ ~Removing(api') /\ ~Adding(api')
      /\ api'.pc # "add-switch"
  BY <1>4, SettledPhase DEF Settled, Adding
<1>6. JobShape'
  <2>1. api' \in Job
    BY <1>3, JobType DEF ApiAt, Off, NoJob
  <2> QED
    BY <1>4, <1>5, <2>1 DEF JobShape
<1>7. TablesShape'
  BY <1>1, <1>2, NothingThere, FilterAssumption DEF TablesShape
<1>8. /\ ListOK(filters') /\ Range(filters') = {} /\ NamesOf(filters') = {}
  BY <1>2, EmptyList
<1>9. ListShape'
  BY <1>4, <1>5, <1>8 DEF ListShape
<1>10. SwitchesAgree(N)' /\ DefinitionsAgree(N)' /\ NamesAtHand'
  BY <1>2, <1>4, <1>5, <1>8, NothingThere
     DEF SwitchesAgree, DefinitionsAgree, NamesAtHand
<1> QED
  BY <1>6, <1>7, <1>9, <1>10 DEF ManagerInv, ManagerShape

\* What a new process takes over from the file.
LEMMA StoreRead ==
    ASSUME TablesShape, Boot
    PROVE
      /\ definitions' \in [Customs -> Definition \cup {None}]
      /\ ListOK(filters')
      /\ Range(filters') = {Builtin(n) : n \in Builtins}
               \cup {Stored(definitions', n) : n \in StoredIn(definitions')}
      /\ NamesOf(filters') = Builtins \cup StoredIn(definitions')
      /\ \A n \in Customs : definitions'[n] # None => definitions'[n] = store[n]
<1>1. PICK R \in ReadNames :
         /\ definitions' = ReadOf(R)
         /\ \E b \in SetToSeqs(Builtins), c \in SetToSeqs(R) :
               filters' =
                  [i \in DOMAIN b |-> [name |-> b[i], file |-> BuiltinFile[b[i]]]]
                     \o [i \in DOMAIN c |->
                            [name |-> c[i], file |-> store[c[i]].file]]
  BY Zenon DEF Boot
<1>2. store \in [Customs -> Definition \cup {None}]
  BY DEF TablesShape
<1>3. R \subseteq StoredNames
  BY DEF ReadNames
<1>4. /\ R \subseteq Customs /\ \A n \in R : store[n] # None
  BY <1>3 DEF StoredNames
<1> DEFINE d == ReadOf(R)
<1>5. /\ d \in [Customs -> Definition \cup {None}]
      /\ \A n \in Customs : d[n] = IF n \in R THEN store[n] ELSE None
  BY <1>2, <1>4 DEF ReadOf
<1> HIDE DEF d
<1>6. StoredIn(d) = R
  BY <1>4, <1>5 DEF StoredIn
<1>7. PICK b \in SetToSeqs(Builtins), c \in SetToSeqs(R) :
         filters' =
            [i \in DOMAIN b |-> [name |-> b[i], file |-> BuiltinFile[b[i]]]]
               \o [i \in DOMAIN c |->
                      [name |-> c[i], file |-> store[c[i]].file]]
  BY <1>1
<1>8. [i \in DOMAIN c |-> [name |-> c[i], file |-> store[c[i]].file]]
         = [i \in DOMAIN c |-> [name |-> c[i], file |-> d[c[i]].file]]
  <2>1. IsFiniteSet(R)
    BY <1>4, FilterAssumption, FS_Subset
  <2>2. \A i \in DOMAIN c : c[i] \in R
    BY <2>1, Arranged, LenProperties, ElementOfSeq
  <2> QED
    BY <1>4, <1>5, <2>2
<1>9. /\ ListOK(filters')
      /\ Range(filters') = {Builtin(n) : n \in Builtins}
                              \cup {Stored(d, n) : n \in StoredIn(d)}
      /\ NamesOf(filters') = Builtins \cup StoredIn(d)
  <2>1. filters' =
           [i \in DOMAIN b |-> [name |-> b[i], file |-> BuiltinFile[b[i]]]]
              \o [i \in DOMAIN c |-> [name |-> c[i], file |-> d[c[i]].file]]
    BY <1>7, <1>8, Zenon
  <2>2. c \in SetToSeqs(StoredIn(d))
    BY <1>6
  <2> QED
    BY <1>5, <2>1, <2>2, FirstList, Zenon
<1>10. definitions' = d
  BY <1>1 DEF d
<1> QED
  BY <1>5, <1>9, <1>10

\* A new process: the built-in filters and those of the file.
LEMMA BootInv ==
    ASSUME NEW N \in SUBSET Names, ManagerShape, Boot
    PROVE  ManagerInv(N)'
<1>1. JobShape /\ TablesShape /\ api \in Job
  BY DEF ManagerShape, JobShape
<1>2. /\ files' = files /\ store' = store
      /\ crashes' = crashes
      /\ enabled' = [n \in Names |->
                        IF n \in Builtins THEN TRUE
                        ELSE IF definitions'[n] = None THEN None
                        ELSE definitions'[n].on]
      /\ loaded' = [f \in Files |->
                       IF f \in {filters'[i].file : i \in DOMAIN filters'}
                       THEN Content(f) ELSE None]
  BY DEF Boot, disk
<1>3. api' = JobOf("idle", {}, None, "idle", None, None, Off)
  BY <1>1, OtherMoves
<1>4. /\ JobShape' /\ Settled(api') /\ ~Adding(api') /\ api'.pc = "idle"
      /\ NotSwitchedYet(api') = {} /\ StillSwitched(api') = {}
      /\ NotDefinedYet(api') = {} /\ StillDefined(api') = {}
      /\ ~Updating(api') /\ ~Removing(api')
  BY <1>3, EndsInShape
<1>5. /\ definitions' \in [Customs -> Definition \cup {None}]
      /\ ListOK(filters')
      /\ Range(filters') = {Builtin(n) : n \in Builtins}
               \cup {Stored(definitions', n) : n \in StoredIn(definitions')}
      /\ NamesOf(filters') = Builtins \cup StoredIn(definitions')
  BY <1>1, StoreRead
<1>6. TablesShape /\ store \in [Customs -> Definition \cup {None}]
  BY <1>1 DEF TablesShape
<1>7. /\ \A n \in Customs \ StoredIn(definitions') : definitions'[n] = None
      /\ \A n \in StoredIn(definitions') : n \in Customs /\ definitions'[n] \in Definition
      /\ \A n \in Customs : n \notin Builtins
      /\ \A n \in Names : n \in Builtins \/ n \in Customs
  BY <1>5, FilterAssumption DEF StoredIn, Names
<1>8. /\ \A n \in Builtins : enabled'[n] \in BOOLEAN /\ enabled'[n] # None
      /\ \A n \in Customs :
            enabled'[n] = IF definitions'[n] = None THEN None ELSE definitions'[n].on
      /\ \A n \in StoredIn(definitions') : enabled'[n] \in BOOLEAN
      /\ enabled' = [n \in Names |-> enabled'[n]]
  <2>1. \A n \in Builtins : enabled'[n] = TRUE
    BY <1>2, Zenon DEF Names
  <2>2. TRUE \in BOOLEAN /\ TRUE # None
    BY NoneIsNone
  <2>3. \A n \in Customs :
           enabled'[n] = IF definitions'[n] = None THEN None ELSE definitions'[n].on
    BY <1>2, <1>7 DEF Names
  <2>4. \A n \in StoredIn(definitions') : enabled'[n] \in BOOLEAN
    BY <1>7, <2>3, NoneIsNone DEF Definition, StoredIn
  <2>5. enabled' = [n \in Names |-> enabled'[n]]
    BY <1>2
  <2> QED
    BY <2>1, <2>2, <2>3, <2>4, <2>5
<1>9. \A n \in Customs : enabled'[n] # None <=> n \in StoredIn(definitions')
  BY <1>7, <1>8, NoneIsNone DEF StoredIn
<1>10. enabled' \in [Names -> BOOLEAN \cup {None}]
  BY <1>7, <1>8, <1>9
<1>11. /\ \A f \in Files : Content(f) \in SUBSET Domains /\ Content(f) # None
       /\ loaded' \in [Files -> (SUBSET Domains) \cup {None}]
       /\ \A x \in Range(filters') : loaded'[x.file] # None
  <2>1. \A f \in Files : Content(f) \in SUBSET Domains /\ Content(f) # None
    BY <1>1, NoneIsNone DEF Content, TablesShape
  <2>2. \A x \in Range(filters') :
           /\ x.file \in Files
           /\ x.file \in {filters'[i].file : i \in DOMAIN filters'}
    <3> TAKE x \in Range(filters')
    <3>1. PICK i \in DOMAIN filters' : x = filters'[i]
      BY <1>5, ListMembers
    <3>2. x \in Filter
      BY <1>5, ListMembers
    <3> QED
      BY <3>1, <3>2 DEF Filter
  <2> DEFINE U == {filters'[i].file : i \in DOMAIN filters'}
  <2>3. loaded' = [f \in Files |-> IF f \in U THEN Content(f) ELSE None]
    BY <1>2
  <2>4. \A x \in Range(filters') : x.file \in Files /\ x.file \in U
    BY <2>2
  <2> HIDE DEF U
  <2> QED
    BY <2>1, <2>3, <2>4
<1>12. TablesShape'
  BY <1>1, <1>2, <1>5, <1>10, <1>11 DEF TablesShape, ListOK
<1>13. ListShape'
  BY <1>4, <1>5, <1>11 DEF ListShape
<1>14. SwitchesAgree(N)'
  <2>1. StoredIn(definitions') \subseteq Customs
    BY <1>7
  <2> QED
    BY <1>4, <1>5, <1>7, <1>8, <1>9, <2>1 DEF SwitchesAgree
<1>15. DefinitionsAgree(N)'
  <2>1. \A m \in N \cap Customs : definitions'[m] # None <=> m \in NamesOf(filters')
    BY <1>2, <1>5, <1>7 DEF StoredIn
  <2>2. ASSUME NEW y \in Range(filters'), y.name \in N \cap Customs
        PROVE  /\ definitions'[y.name].file = y.file
               /\ definitions'[y.name].on = enabled'[y.name]
    <3>1. y \notin {Builtin(n) : n \in Builtins}
      BY <1>7, <2>2 DEF Builtin
    <3>2. PICK n \in StoredIn(definitions') : y = Stored(definitions', n)
      BY <1>5, <3>1
    <3>3. y.name = n /\ y.file = definitions'[n].file
      BY <3>2 DEF Stored
    <3> QED
      BY <1>2, <1>7, <1>8, <3>3 DEF StoredIn
  <2> QED
    BY <1>4, <2>1, <2>2 DEF DefinitionsAgree
<1>16. NamesAtHand'
  BY <1>4 DEF NamesAtHand
<1> QED
  BY <1>4, <1>12, <1>13, <1>14, <1>15, <1>16 DEF ManagerInv, ManagerShape

\* The tables are empty before the first process.
LEMMA ManagerInit ==
    ASSUME FilterInit, NEW N \in SUBSET Names
    PROVE  ManagerInv(N)
<1>1. /\ loaded = NothingLoaded /\ filters = << >> /\ enabled = AllUnset
      /\ definitions = NoDefinitions /\ store = NoDefinitions /\ crashes = 0
      /\ files \in [Files -> (SUBSET Domains) \cup {None}]
  BY DEF FilterInit
<1>2. api = JobOf("down", {}, None, "idle", None, None, Off)
  BY NewJobs, Zenon DEF FilterInit
<1>3. /\ api.pc = "down" /\ api.file = None
  BY <1>2, JobIs
<1>4. /\ NotSwitchedYet(api) = {} /\ StillSwitched(api) = {}
      /\ NotDefinedYet(api) = {} /\ StillDefined(api) = {}
      /\ ~Updating(api) /\ ~Removing(api) /\ ~Adding(api)
      /\ api.pc # "add-switch"
  BY <1>3, SettledPhase DEF Settled, Adding
<1>5. JobShape
  <2>1. api \in Job
    BY <1>2, JobType DEF ApiAt, Off, NoJob
  <2> QED
    BY <1>3, <1>4, <2>1 DEF JobShape
<1>6. TablesShape
  BY <1>1, NothingThere, FilterAssumption DEF TablesShape
<1>7. /\ ListOK(filters) /\ Range(filters) = {} /\ NamesOf(filters) = {}
  BY <1>1, EmptyList
<1>8. ListShape
  BY <1>3, <1>4, <1>7 DEF ListShape
<1>9. SwitchesAgree(N) /\ DefinitionsAgree(N) /\ NamesAtHand
  BY <1>1, <1>3, <1>4, <1>7, NothingThere
     DEF SwitchesAgree, DefinitionsAgree, NamesAtHand
<1> QED
  BY <1>5, <1>6, <1>8, <1>9 DEF ManagerInv, ManagerShape

\* Steps that leave everything of the manager alone.
LEMMA ManagerLeftAlone ==
    ASSUME NEW N \in SUBSET Names, ManagerInv(N), UNCHANGED walkOnly
    PROVE  ManagerInv(N)'
<1>1. UNCHANGED <<files, store, loaded, filters, enabled, definitions, api, crashes>>
  BY DEF walkOnly, disk, manager
<1> QED
  BY <1>1 DEF ManagerInv, ManagerShape, JobShape, TablesShape, ListShape, SwitchesAgree,
              DefinitionsAgree, NamesAtHand, NamesOf

\* A reading that fails: the tables may be left different for the names of a
\* replacement.
LEMMA LoadFailsInv ==
    ASSUME NEW N \in SUBSET Names, ManagerInv(N), LoadFails,
           Updating(api) => api.name \notin N /\ api.to \notin N
    PROVE  ManagerInv(N)'
<1>1. /\ JobShape /\ TablesShape /\ ListShape /\ SwitchesAgree(N)
      /\ DefinitionsAgree(N) /\ api \in Job /\ ListOK(filters)
      /\ api.pc \in {"reload", "fill"}
      /\ api.then \in {"idle", "update-unswitch"}
  BY DEF ManagerInv, ManagerShape, JobShape, ListShape, LoadFails, Job
<1>2. UNCHANGED <<files, store, loaded, filters, enabled, definitions, crashes>>
  BY DEF LoadFails, disk, manager, Unchanging
<1>3. api' = JobOf("idle", {}, None, "idle", None, None, Off)
  BY <1>1, OtherMoves
<1>4. /\ JobShape' /\ ~Adding(api') /\ api'.pc = "idle"
      /\ NotSwitchedYet(api') = {} /\ StillSwitched(api') = {}
      /\ NotDefinedYet(api') = {} /\ StillDefined(api') = {}
      /\ ~Updating(api') /\ ~Removing(api')
  BY <1>3, EndsInShape
<1>5. /\ NotSwitchedYet(api) \cap N = {} /\ StillSwitched(api) \cap N = {}
      /\ NotDefinedYet(api) \cap N = {} /\ StillDefined(api) \cap N = {}
  <2>1. CASE Updating(api)
    BY <2>1, <1>1 DEF Removing, NotSwitchedYet, StillSwitched, NotDefinedYet,
                      StillDefined
  <2>2. CASE ~Updating(api)
    BY <1>1, <2>2, SettledPhase DEF Updating, Settled
  <2> QED
    BY <2>1, <2>2
<1>6. NamesOf(filters') = NamesOf(filters)
  BY <1>2
<1>7. SwitchesAgree(N)'
  BY <1>1, <1>2, <1>4, <1>5, <1>6 DEF SwitchesAgree
<1>8. DefinitionsAgree(N)'
  <2>1. \A m \in N \cap Customs :
           definitions'[m] # None <=> m \in NamesOf(filters')
    BY <1>1, <1>2, <1>5, <1>6 DEF DefinitionsAgree
  <2>2. ASSUME NEW y \in Range(filters), y.name \in N \cap Customs
        PROVE  /\ definitions[y.name].file = y.file
               /\ definitions[y.name].on = enabled[y.name]
    BY <1>1, <1>5, <2>2 DEF DefinitionsAgree
  <2> QED
    BY <1>2, <1>4, <2>1, <2>2 DEF DefinitionsAgree
<1>9. TablesShape' /\ ListShape' /\ NamesAtHand'
  BY <1>1, <1>2, <1>4 DEF TablesShape, ListShape, NamesAtHand
<1> QED
  BY <1>4, <1>7, <1>8, <1>9 DEF ManagerInv, ManagerShape

\* create_custom_filter with a list that cannot be read.
LEMMA AddFilterFailsInv ==
    ASSUME NEW N \in SUBSET Names, ManagerInv(N),
           NEW n \in Customs, NEW f \in CustomFiles, NEW on \in BOOLEAN,
           AddFilterFails(n, f, on), n \notin N
    PROVE  ManagerInv(N)'
<1>1. /\ JobShape /\ TablesShape /\ ListShape /\ NamesAtHand
      /\ SwitchesAgree(N) /\ DefinitionsAgree(N) /\ ApiFree /\ api \in Job
  BY DEF ManagerInv, ManagerShape, AddFilterFails, JobShape
<1>2. /\ UNCHANGED <<files, store, loaded, filters, enabled, api, crashes>>
      /\ definitions' = [definitions EXCEPT ![n] = [file |-> f, on |-> on]]
  BY DEF AddFilterFails, disk, Unchanging
<1>3. /\ definitions' \in [Customs -> Definition \cup {None}]
      /\ \A m \in Customs \ {n} : definitions'[m] = definitions[m]
  BY <1>1, <1>2 DEF TablesShape, Definition
<1>4. /\ NotSwitchedYet(api') = NotSwitchedYet(api)
      /\ StillSwitched(api') = StillSwitched(api)
      /\ NotDefinedYet(api') = NotDefinedYet(api)
      /\ StillDefined(api') = StillDefined(api)
      /\ NamesOf(filters') = NamesOf(filters)
  BY <1>2
<1>5. TablesShape' /\ JobShape' /\ ListShape'
  BY <1>1, <1>2, <1>3 DEF TablesShape, JobShape, ListShape
<1>6. NamesAtHand'
  BY <1>1, <1>2, IdleJob DEF NamesAtHand, ApiFree
<1>7. SwitchesAgree(N)'
  BY <1>1, <1>2, <1>4 DEF SwitchesAgree
<1>8. DefinitionsAgree(N)'
  BY <1>1, <1>2, <1>3, <1>4 DEF DefinitionsAgree
<1> QED
  BY <1>5, <1>6, <1>7, <1>8 DEF ManagerInv, ManagerShape

\* A call that a reading ends half-way has none of the names in N.
Spares(N) ==
    /\ LoadFails /\ Updating(api) => api.name \notin N /\ api.to \notin N
    /\ \A n \in Customs, f \in CustomFiles, on \in BOOLEAN :
          AddFilterFails(n, f, on) => n \notin N

\* Every other step keeps the manager's tables together.
LEMMA ManagerStep ==
    ASSUME NEW N \in SUBSET Names, ManagerInv(N), Spares(N),
           [FilterNext]_filterVars
    PROVE  ManagerInv(N)'
<1>1. ASSUME NEW d \in Domains, BeginWalk(d) PROVE ManagerInv(N)'
  BY <1>1, ManagerLeftAlone DEF BeginWalk
<1>2. CASE WalkStep
  BY <1>2, ManagerLeftAlone DEF WalkStep, NextFilter, CheckSwitch, CheckList
<1>3. CASE ListCall
  BY <1>3, ListCallInv
<1>4. CASE FilterCall
  BY <1>4, AddFilterInv, AddFilterFailsInv, UpdateFilterInv, RemoveFilterInv,
     ToggleInv DEF FilterCall, Spares
<1>5. CASE ApiContinues
  BY <1>5, LoadingInv, LoadFailsInv, AddSwitchInv, AddPersistInv,
     UpdateUnswitchInv, UpdateSwitchInv, RemoveSwitchInv, PersistInv
     DEF ApiContinues, Spares
<1>6. CASE Crash
  BY <1>6, CrashInv DEF ManagerInv
<1>7. CASE Boot
  BY <1>7, BootInv DEF ManagerInv
<1>8. CASE UNCHANGED filterVars
  BY <1>8, ManagerLeftAlone DEF filterVars, walkOnly
<1> QED
  BY <1>1, <1>2, <1>3, <1>4, <1>5, <1>6, <1>7, <1>8 DEF FilterNext, EndpointStep

\* Every step keeps their shape.
LEMMA ShapeStep ==
    ASSUME ManagerShape, [FilterNext]_filterVars
    PROVE  ManagerShape'
<1>1. ManagerInv({}) /\ Spares({})
  BY DEF ManagerInv, SwitchesAgree, DefinitionsAgree, Spares
<1>2. ManagerInv({})'
  BY <1>1, ManagerStep
<1> QED
  BY <1>2 DEF ManagerInv

\* The tables, except for what calls have left half-way.
AgreeInv == ManagerInv(Names \ halfway)

\* Every step of the tables keeps them together.
LEMMA AgreeStep ==
    ASSUME AgreeInv, [TablesNext]_tablesVars
    PROVE  AgreeInv'
<1>0. ManagerShape
  BY DEF AgreeInv, ManagerInv
<1> SUFFICES ASSUME NEW N \in SUBSET Names, N = Names \ halfway'
             PROVE  ManagerInv(N)'
  BY DEF AgreeInv
<1>1. CASE UNCHANGED tablesVars
  <2>1. ManagerInv(N)
    BY <1>1 DEF AgreeInv, tablesVars
  <2> QED
    BY <1>1, <2>1, ManagerLeftAlone DEF tablesVars, filterVars, walkOnly
<1>2. CASE Crash
  BY <1>0, <1>2, CrashInv
<1>3. CASE Boot
  BY <1>0, <1>3, BootInv
<1>4. CASE TablesNext /\ ~Crash /\ ~Boot
  <2>1. api'.pc # "down"
    <3>1. JobShape /\ api \in Job
      BY <1>0 DEF ManagerShape, JobShape
    <3>2. ListCall \/ FilterCall \/ ApiContinues
      BY <1>4 DEF TablesNext, EndpointStep
    <3> QED
      BY <3>1, <3>2, NotDown
  <2>2. halfway' = halfway \cup LeftHalfway
    BY <1>4, <2>1 DEF TablesNext, Remember
  <2>3. ManagerInv(N)
    BY <2>2 DEF AgreeInv, ManagerInv, SwitchesAgree, DefinitionsAgree
  <2>4. Spares(N)
    <3>1. ASSUME LoadFails, Updating(api)
          PROVE  api.name \notin N /\ api.to \notin N
      <4>1. /\ api.pc \in {"reload", "fill"} /\ api.then = "update-unswitch"
            /\ api'.pc = "idle"
        BY <3>1 DEF LoadFails, Updating, NoJob
      <4>2. LeftHalfway = {api.name, api.to} \cap Customs
        BY <4>1 DEF LeftHalfway, Ends, Called
      <4>3. api.name \in Customs /\ api.to \in Customs
        BY <1>0, <3>1 DEF ManagerShape, JobShape
      <4> QED
        BY <2>2, <4>2, <4>3
    <3>2. ASSUME NEW n \in Customs, NEW f \in CustomFiles, NEW on \in BOOLEAN,
                 AddFilterFails(n, f, on)
          PROVE  n \notin N
      <4>1. /\ api.pc = "idle" /\ api'.pc = "idle"
            /\ n \in Customs
        BY <3>2 DEF AddFilterFails, ApiFree
      <4>2. n \notin halfway => definitions'[n] # definitions[n]
        <5>1. n \in Names /\ n \notin NamesOf(filters) /\ n \notin StillDefined(api)
          BY <1>0, <3>2, IdleJob, SettledPhase, NoneIsNone
             DEF AddFilterFails, NameFree, ManagerShape
        <5>2. n \notin halfway => definitions[n] = None
          BY <5>1 DEF AgreeInv, ManagerInv, DefinitionsAgree
        <5>3. definitions'[n] = [file |-> f, on |-> on]
          BY <1>0, <3>2 DEF AddFilterFails, ManagerShape, TablesShape
        <5>4. [file |-> f, on |-> on] # None
          BY NoneIsNone DEF Definition
        <5> QED
          BY <5>2, <5>3, <5>4
      <4> QED
        BY <2>2, <4>1, <4>2 DEF LeftHalfway, Ends
    <3> QED
      BY <3>1, <3>2 DEF Spares
  <2> QED
    BY <1>4, <2>3, <2>4, ManagerStep DEF TablesNext, FilterNext
<1> QED
  BY <1>1, <1>2, <1>3, <1>4

\* manager.py: between two calls of the endpoints the list of filters, the
\* switches and the definitions say the same of every name, for any filters,
\* block lists, failing readings and writes and restarts, except for the names
\* of an addition or a replacement that a reading has ended half-way.
THEOREM FilterTablesAgree == TablesSpec => []ManagerAgrees
<1>1. TablesInit => AgreeInv
  BY ManagerInit DEF TablesInit, AgreeInv
<1>2. AgreeInv /\ [TablesNext]_tablesVars => AgreeInv'
  BY AgreeStep
<1>3. AgreeInv => ManagerAgrees
  <2> SUFFICES ASSUME AgreeInv, api.pc = "idle", NEW n \in Names \ halfway
               PROVE
                 /\ enabled[n] # None <=> n \in NamesOf(filters)
                 /\ n \in Customs =>
                       /\ definitions[n] # None <=> n \in NamesOf(filters)
                       /\ \A i \in DOMAIN filters :
                             filters[i].name = n =>
                                /\ definitions[n].file = filters[i].file
                                /\ definitions[n].on = enabled[n]
    BY DEF ManagerAgrees
  <2>1. /\ NotSwitchedYet(api) = {} /\ StillSwitched(api) = {}
        /\ NotDefinedYet(api) = {} /\ StillDefined(api) = {}
    BY SettledPhase DEF Settled
  <2>2. /\ ListOK(filters) /\ SwitchesAgree(Names \ halfway)
        /\ DefinitionsAgree(Names \ halfway)
    BY DEF AgreeInv, ManagerInv, ManagerShape, ListShape
  <2>3. \A i \in DOMAIN filters : filters[i] \in Range(filters)
    BY <2>2, ListMembers
  <2> QED
    BY <2>1, <2>2, <2>3 DEF SwitchesAgree, DefinitionsAgree
<1> QED
  BY <1>1, <1>2, <1>3, PTL DEF TablesSpec

-----------------------------------------------------------------------------
(* The loaders.                                                            *)

LEMMA ReloadedBy ==
    ASSUME NEW j
    PROVE  /\ j.pc \notin {"reload", "fill"} => Reloaded(j) = {}
           /\ j.pc = "reload" => Reloaded(j) = {f \in Files : j.todo = {f}}
           /\ j.pc = "fill" => Reloaded(j) = {f \in Files : j.file = f}
BY DEF Reloaded

\* A loader that has just read its file, or is not there.
LEMMA LoaderRead ==
    ASSUME NEW f \in Files, loaded'[f] = Content(f)' \/ loaded'[f] = None
    PROVE  LoaderAgrees(f)'
BY DEF LoaderAgrees

\* A loader and a file that a step leaves alone.
LEMMA LoaderKept ==
    ASSUME NEW f \in Files, LoaderAgrees(f), Remember,
           api.pc # "fill", api'.pc # "down",
           files'[f] = files[f], loaded'[f] = loaded[f]
    PROVE  LoaderAgrees(f)'
<1>1. misread' = {g \in misread : files'[g] # None}
  BY DEF Remember
<1>2. Content(f)' = Content(f)
  BY DEF Content
<1>3. CASE f \in misread => f \in misread'
  BY <1>1, <1>2, <1>3 DEF LoaderAgrees
<1>4. CASE files'[f] = None
  <2>1. Content(f) = {}
    BY <1>4 DEF Content
  <2> QED
    BY <1>2, <2>1 DEF LoaderAgrees
<1> QED
  BY <1>1, <1>3, <1>4

\* Steps that leave the files alone, and read some of them anew.
LEMMA LoadersFetched ==
    ASSUME LoadersInv, Remember, api.pc \notin {"reload", "fill"},
           api'.pc \notin {"fill", "down"}, files' = files,
           \A f \in Files : loaded'[f] = loaded[f] \/ loaded'[f] = Content(f)
    PROVE  LoadersInv'
<1>1. \A f \in Files : LoaderAgrees(f)
  BY ReloadedBy DEF LoadersInv
<1>2. ASSUME NEW f \in Files
      PROVE  LoaderAgrees(f)'
  <2>1. Content(f)' = Content(f)
    BY DEF Content
  <2>2. CASE loaded'[f] = loaded[f]
    BY <1>1, <2>2, LoaderKept
  <2>3. CASE loaded'[f] = Content(f)
    BY <2>1, <2>3, LoaderRead
  <2> QED
    BY <2>2, <2>3
<1> QED
  BY <1>2 DEF LoadersInv

\* The endpoints of the block lists.
LEMMA ListCallLoaders ==
    ASSUME ManagerShape, LoadersInv, Remember, ListCall
    PROVE  LoadersInv'
<1>1. /\ TablesShape /\ api \in Job /\ ApiFree
      /\ files \in [Files -> (SUBSET Domains) \cup {None}]
      /\ loaded \in [Files -> (SUBSET Domains) \cup {None}]
      /\ api'.pc # "down"
  <2>1. ApiFree
    BY Zenon DEF ListCall, WriteList, DeleteList, ReloadList, ReloadAll,
                 ViewLists, LoadSomeLists
  <2>2. TablesShape /\ api \in Job
    BY DEF ManagerShape, JobShape
  <2> QED
    BY <2>1, <2>2, NotDown DEF TablesShape
<1>2. \A f \in Files : LoaderAgrees(f)
  BY <1>1, ReloadedBy DEF LoadersInv, ApiFree
<1>3. ASSUME NEW f \in CustomFiles, NEW c \in SUBSET Domains, WriteList(f, c)
      PROVE  LoadersInv'
  <2>1. api' = JobOf("reload", {f}, api.file, "idle", api.name, api.to, api.on)
    BY <1>1, <1>3, ListMoves
  <2>2. api'.pc = "reload" /\ api'.todo = {f} /\ f \in Files
    BY <2>1, JobIs, NoneIsNone
  <2>3. f \in Reloaded(api')
    BY <2>2, ReloadedBy
  <2>4. /\ \A g \in Files \ {f} : files'[g] = files[g]
        /\ loaded' = loaded
    BY <1>1, <1>3 DEF WriteList
  <2>5. \A g \in Files \ {f} : LoaderAgrees(g)'
    BY <1>1, <1>2, <2>4, LoaderKept DEF ApiFree
  <2> QED
    BY <2>2, <2>3, <2>5 DEF LoadersInv
<1>4. ASSUME NEW f \in CustomFiles, DeleteList(f)
      PROVE  LoadersInv'
  <2>1. /\ files' = [files EXCEPT ![f] = None] /\ api' = api /\ f \in Files
        /\ loaded' = [loaded EXCEPT ![f] = IF @ = None THEN None ELSE {}]
    BY <1>4, NoneIsNone DEF DeleteList, Forgotten
  <2>2. /\ \A g \in Files \ {f} : files'[g] = files[g] /\ loaded'[g] = loaded[g]
        /\ files'[f] = None /\ (loaded'[f] # None => loaded'[f] = {})
    BY <1>1, <2>1, NoneIsNone
  <2>3. LoaderAgrees(f)'
    BY <2>1, <2>2, LoaderRead DEF Content
  <2>4. \A g \in Files \ {f} : LoaderAgrees(g)'
    BY <1>1, <1>2, <2>2, LoaderKept DEF ApiFree
  <2> QED
    BY <1>1, <2>1, <2>3, <2>4 DEF LoadersInv, ApiFree
<1>5. ASSUME NEW f \in Files, ReloadList(f)
      PROVE  LoadersInv'
  <2>1. api' = JobOf("reload", {f}, api.file, "idle", api.name, api.to, api.on)
    BY <1>1, <1>5, ListMoves
  <2>2. api'.pc = "reload"
    BY <2>1, JobIs
  <2>3. files' = files /\ loaded' = loaded
    BY <1>5 DEF ReloadList, disk
  <2> QED
    BY <1>1, <2>2, <2>3, LoadersFetched DEF ApiFree
<1>6. CASE ReloadAll
  <2>1. api' = JobOf("reload", {f \in Files : loaded'[f] # None},
                     api.file, "idle", api.name, api.to, api.on)
    BY <1>1, <1>6, ListMoves
  <2>2. api'.pc = "reload"
    BY <2>1, JobIs
  <2>3. files' = files /\ loaded' = OnDiskLoaded
    BY <1>6 DEF ReloadAll, disk
  <2> QED
    BY <1>1, <2>2, <2>3, DiskLists, LoadersFetched DEF ApiFree
<1>7. CASE ViewLists
  <2>1. files' = files /\ loaded' = OnDiskLoaded /\ api' = api
    BY <1>7 DEF ViewLists, disk
  <2> QED
    BY <1>1, <2>1, DiskLists, LoadersFetched DEF ApiFree
<1>8. CASE LoadSomeLists
  <2>1. PICK F \in SUBSET Files : loaded' = WithLoaders(F)
    BY <1>8 DEF LoadSomeLists
  <2>2. files' = files /\ api' = api
    BY <1>8 DEF LoadSomeLists, disk
  <2> QED
    BY <1>1, <2>1, <2>2, AskedLists, LoadersFetched DEF ApiFree
<1> QED
  BY <1>3, <1>4, <1>5, <1>6, <1>7, <1>8 DEF ListCall

\* Loading: the list that is being filled is done when it is like its file.
LEMMA LoadingLoaders ==
    ASSUME ManagerShape, LoadersInv, Remember, ClearList \/ FillList
    PROVE  LoadersInv'
<1>1. /\ JobShape /\ TablesShape /\ api \in Job
      /\ files \in [Files -> (SUBSET Domains) \cup {None}]
      /\ loaded \in [Files -> (SUBSET Domains) \cup {None}]
      /\ files' = files /\ api'.pc # "down"
      /\ \A f : Content(f)' = Content(f)
  <2>1. JobShape /\ TablesShape /\ api \in Job
    BY DEF ManagerShape, JobShape
  <2>2. files' = files
    BY DEF ClearList, FillList, disk
  <2>3. api'.pc # "down"
    BY <2>1, NotDown DEF ApiContinues
  <2> QED
    BY <2>1, <2>2, <2>3 DEF TablesShape, Content
<1>2. CASE ClearList
  <2>1. api.pc = "reload" /\ Reloaded(api) = {f \in Files : api.todo = {f}}
    BY <1>2, ReloadedBy DEF ClearList
  <2>2. ASSUME api.todo = {}, loaded' = loaded, api'.pc # "fill"
        PROVE  LoadersInv'
    <3>1. \A f \in Files : LoaderAgrees(f)
      BY <2>1, <2>2 DEF LoadersInv
    <3>2. \A f \in Files : LoaderAgrees(f)'
      BY <1>1, <2>1, <2>2, <3>1, LoaderKept
    <3> QED
      BY <2>2, <3>2 DEF LoadersInv
  <2>3. ASSUME NEW f \in api.todo, loaded' = [loaded EXCEPT ![f] = {}],
               api' = JobOf("fill", api.todo \ {f}, f, api.then,
                            api.name, api.to, api.on)
        PROVE  LoadersInv'
    <3>1. api'.pc = "fill" /\ api'.file = f /\ f \in Files
      BY <1>1, <2>3, JobIs DEF Job
    <3>2. Reloaded(api') = {f}
      BY <3>1, ReloadedBy
    <3>3. /\ \A g \in Files \ {f} : loaded'[g] = loaded[g]
          /\ loaded'[f] = {}
      BY <1>1, <2>3, <3>1
    <3>4. ASSUME NEW g \in Files \ {f} PROVE LoaderAgrees(g)'
      <4>1. LoaderAgrees(g)
        BY <2>1 DEF LoadersInv
      <4> QED
        BY <1>1, <2>1, <3>3, <4>1, LoaderKept
    <3> QED
      BY <3>1, <3>2, <3>3, <3>4 DEF LoadersInv
  <2>4. /\ JobOf("idle", {}, None, "idle", None, None, Off).pc = "idle"
        /\ JobOf(api.then, api.todo, api.file, api.then,
                 api.name, api.to, api.on).pc = api.then
        /\ api.then # "fill"
    BY <1>1, JobIs DEF Job
  <2> QED
    BY <1>1, <1>2, <2>2, <2>3, <2>4, LoadMoves
<1>3. CASE FillList
  <2>1. api.pc = "fill" /\ api.file \in Files /\ Reloaded(api) = {api.file}
    <3>1. api.pc = "fill" /\ api.file \in Files
      BY <1>1, <1>3 DEF JobShape, FillList, Job
    <3> QED
      BY <3>1, ReloadedBy
  <2>2. ASSUME api'.pc # "idle", NEW f \in Files \ {api.file},
               loaded'[f] = loaded[f]
        PROVE  LoaderAgrees(f)'
    <3>1. misread' = misread \ {api.file}
      BY <1>1, <2>1, <2>2 DEF Remember, Ends
    <3>2. LoaderAgrees(f)
      BY <2>1 DEF LoadersInv
    <3> QED
      BY <1>1, <2>2, <3>1, <3>2 DEF LoaderAgrees
  <2>3. ASSUME loaded[api.file] = Content(api.file), loaded' = loaded,
               api' = JobOf("reload", api.todo, None, api.then,
                            api.name, api.to, api.on)
        PROVE  LoadersInv'
    <3>1. api'.pc = "reload"
      BY <2>3, JobIs
    <3>2. \A f \in Files : f = api.file => LoaderAgrees(f)'
      BY <1>1, <2>3, LoaderRead
    <3> QED
      BY <2>2, <2>3, <3>1, <3>2 DEF LoadersInv
  <2>4. ASSUME api' = api, NEW d \in Content(api.file) \ loaded[api.file],
               loaded' = [loaded EXCEPT ![api.file] = @ \cup {d}]
        PROVE  LoadersInv'
    <3>1. /\ \A g \in Files \ {api.file} : loaded'[g] = loaded[g]
          /\ loaded'[api.file] = loaded[api.file] \cup {d}
      BY <1>1, <2>1, <2>4
    <3>2. Reloaded(api') = {api.file}
      BY <2>1, <2>4
    <3>3. loaded[api.file] \subseteq Content(api.file)
      BY <2>1 DEF LoadersInv
    <3> QED
      BY <1>1, <2>1, <2>2, <2>4, <3>1, <3>2, <3>3 DEF LoadersInv
  <2> QED
    BY <1>1, <1>3, <2>3, <2>4, LoadMoves
<1> QED
  BY <1>2, <1>3

\* A reading that fails.
LEMMA LoadFailsLoaders ==
    ASSUME ManagerShape, LoadersInv, Remember, LoadFails
    PROVE  LoadersInv'
<1>1. /\ api \in Job /\ api.pc \in {"reload", "fill"} /\ api'.pc = "idle"
      /\ files' = files /\ loaded' = loaded
      /\ \A f : Content(f)' = Content(f)
  BY DEF ManagerShape, JobShape, LoadFails, NoJob, disk, Content
<1>2. ASSUME NEW f \in Files
      PROVE  LoaderAgrees(f)'
  <2>1. CASE api.pc = "reload"
    <3>1. Reloaded(api) = {g \in Files : api.todo = {g}}
      BY <2>1, ReloadedBy
    <3>2. CASE api.todo = {f}
      BY <1>1, <2>1, <3>2, LoaderRead DEF LoadFails
    <3>3. CASE api.todo # {f}
      <4>1. LoaderAgrees(f)
        BY <3>1, <3>3 DEF LoadersInv
      <4> QED
        BY <1>1, <2>1, <4>1, LoaderKept
    <3> QED
      BY <3>2, <3>3
  <2>2. CASE api.pc = "fill"
    <3>1. misread' = misread \cup {api.file}
      BY <1>1, <2>2 DEF Remember, Ends
    <3>2. CASE f = api.file
      BY <1>1, <2>2, <3>1, <3>2 DEF LoadersInv, LoaderAgrees
    <3>3. CASE f # api.file
      <4>1. LoaderAgrees(f)
        BY <2>2, <3>3, ReloadedBy DEF LoadersInv
      <4> QED
        BY <1>1, <3>1, <4>1 DEF LoaderAgrees
    <3> QED
      BY <3>2, <3>3
  <2> QED
    BY <1>1, <2>1, <2>2
<1> QED
  BY <1>1, <1>2 DEF LoadersInv

\* Every step keeps the loaders like the files.
LEMMA LoadersStep ==
    ASSUME ManagerShape, LoadersInv, [TablesNext]_tablesVars
    PROVE  LoadersInv'
<1>1. TablesShape /\ JobShape /\ api \in Job
  BY DEF ManagerShape, JobShape
<1>2. CASE UNCHANGED tablesVars
  BY <1>2 DEF tablesVars, filterVars, disk, LoadersInv, LoaderAgrees, Content
<1>3. CASE Crash
  <2>1. /\ api' = JobOf("down", {}, None, "idle", None, None, Off)
        /\ loaded' = NothingLoaded
    BY <1>1, <1>3, OtherMoves DEF Crash
  <2>2. api'.pc = "down"
    BY <2>1, JobIs
  <2>3. \A f \in Files : loaded'[f] = None
    BY <2>1 DEF NothingLoaded
  <2> QED
    BY <2>2, <2>3, LoaderRead DEF LoadersInv
<1>4. CASE Boot
  <2> DEFINE U == {filters'[i].file : i \in DOMAIN filters'}
  <2>1. /\ files' = files /\ api' = NoJob
        /\ loaded' = [f \in Files |-> IF f \in U THEN Content(f) ELSE None]
    BY <1>4 DEF Boot, disk
  <2>2. api'.pc = "idle"
    BY <2>1 DEF NoJob
  <2> HIDE DEF U
  <2>3. \A f \in Files : loaded'[f] = Content(f)' \/ loaded'[f] = None
    BY <2>1 DEF Content
  <2> QED
    BY <2>2, <2>3, LoaderRead DEF LoadersInv
<1>5. CASE TablesNext /\ (ListCall \/ FilterCall \/ ApiContinues)
  <2>1. Remember /\ api'.pc # "down"
    BY <1>1, <1>5, NotDown DEF TablesNext
  <2>2. CASE ListCall
    BY <2>1, <2>2, ListCallLoaders
  <2>3. CASE FilterCall
    <3>1. ASSUME NEW f \in Files, loaded' = Fetched(loaded, f) \/ loaded' = loaded
          PROVE  \A g \in Files : loaded'[g] = loaded[g] \/ loaded'[g] = Content(g)
      BY <1>1, <3>1, FetchedLists
    <3>2. /\ ApiFree /\ files' = files
          /\ \A g \in Files : loaded'[g] = loaded[g] \/ loaded'[g] = Content(g)
      BY <2>3, <3>1, NoneIsNone
         DEF FilterCall, AddFilter, AddFilterFails, UpdateFilter, RemoveFilter,
             Toggle, disk
    <3>3. api'.pc # "fill"
      BY <1>1, <2>3, NotFilling
    <3> QED
      BY <2>1, <3>2, <3>3, LoadersFetched DEF ApiFree
  <2>4. CASE ClearList \/ FillList
    BY <2>1, <2>4, LoadingLoaders
  <2>5. CASE LoadFails
    BY <2>1, <2>5, LoadFailsLoaders
  <2>6. CASE \/ AddSwitch \/ AddPersist \/ UpdateUnswitch \/ UpdateSwitch
             \/ RemoveSwitch \/ Persist
    <3>1. files' = files /\ loaded' = loaded /\ api.pc \notin {"reload", "fill"}
      BY <2>6 DEF AddSwitch, AddPersist, UpdateUnswitch, UpdateSwitch,
                  RemoveSwitch, Persist, disk
    <3>2. api'.pc # "fill"
      BY <1>1, <2>6, NotFilling
    <3> QED
      BY <2>1, <3>1, <3>2, LoadersFetched
  <2> QED
    BY <1>5, <2>2, <2>3, <2>4, <2>5, <2>6 DEF ApiContinues
<1> QED
  BY <1>2, <1>3, <1>4, <1>5 DEF TablesNext, EndpointStep

\* blocklist_registry.py: between two calls no loader has more than its file,
\* and only a reading that failed has left it with less, for any lists and any
\* order of edits, deletions, reloads and restarts.
THEOREM LoadersHaveTheFiles == TablesSpec => []LoadersFollowFiles
<1>1. TablesInit => ManagerShape /\ LoadersInv
  <2> SUFFICES ASSUME TablesInit PROVE ManagerShape /\ LoadersInv
    OBVIOUS
  <2>1. FilterInit /\ loaded = NothingLoaded /\ api.pc = "down"
    BY DEF TablesInit, FilterInit, NoJob
  <2>2. ManagerInv({})
    BY <2>1, ManagerInit
  <2>3. LoadersInv
    BY <2>1 DEF LoadersInv, LoaderAgrees, NothingLoaded
  <2> QED
    BY <2>2, <2>3 DEF ManagerInv
<1>2. ManagerShape /\ LoadersInv /\ [TablesNext]_tablesVars
         => (ManagerShape /\ LoadersInv)'
  <2>1. [TablesNext]_tablesVars => [FilterNext]_filterVars
    BY DEF TablesNext, FilterNext, tablesVars
  <2> QED
    BY <2>1, ShapeStep, LoadersStep
<1>3. LoadersInv => LoadersFollowFiles
  BY ReloadedBy DEF LoadersInv, LoadersFollowFiles, LoaderAgrees
<1> QED
  BY <1>1, <1>2, <1>3, PTL DEF TablesSpec

-----------------------------------------------------------------------------
(* The walk of the DNS thread.                                             *)

WalkOf(pc, domain, list, next, filter) ==
    [pc |-> pc, domain |-> domain, list |-> list, next |-> next,
     filter |-> filter]

\* A walk is its fields.
LEMMA WalkFields ==
    /\ \A w \in Walk : w = WalkOf(w.pc, w.domain, w.list, w.next, w.filter)
    /\ \A pc, domain, list, next, filter :
          LET w == WalkOf(pc, domain, list, next, filter) IN
          /\ w.pc = pc /\ w.domain = domain /\ w.list = list
          /\ w.next = next /\ w.filter = filter
BY DEF Walk, WalkOf

WalkPc(w, x) == [w EXCEPT !.pc = x]
WalkDomain(w, x) == [w EXCEPT !.domain = x]
WalkList(w, x) == [w EXCEPT !.list = x]
WalkNext(w, x) == [w EXCEPT !.next = x]
WalkFilter(w, x) == [w EXCEPT !.filter = x]

\* What EXCEPT makes of one field.
LEMMA WalkFieldChanges ==
    ASSUME NEW pc, NEW domain, NEW list, NEW next, NEW filter, NEW x
    PROVE  LET w == WalkOf(pc, domain, list, next, filter) IN
           /\ WalkPc(w, x) = WalkOf(x, domain, list, next, filter)
           /\ WalkDomain(w, x) = WalkOf(pc, x, list, next, filter)
           /\ WalkList(w, x) = WalkOf(pc, domain, x, next, filter)
           /\ WalkNext(w, x) = WalkOf(pc, domain, list, x, filter)
           /\ WalkFilter(w, x) = WalkOf(pc, domain, list, next, x)
<1> SUFFICES ASSUME NEW w, w = WalkOf(pc, domain, list, next, filter)
             PROVE
               /\ [w EXCEPT !.pc = x] = WalkOf(x, domain, list, next, filter)
               /\ [w EXCEPT !.domain = x] = WalkOf(pc, x, list, next, filter)
               /\ [w EXCEPT !.list = x] = WalkOf(pc, domain, x, next, filter)
               /\ [w EXCEPT !.next = x] = WalkOf(pc, domain, list, x, filter)
               /\ [w EXCEPT !.filter = x] = WalkOf(pc, domain, list, next, x)
  BY DEF WalkPc, WalkDomain, WalkList, WalkNext, WalkFilter
<1> QED
  BY DEF WalkOf

\* The walks that steps make of a walk.
LEMMA WalkChanges ==
    ASSUME NEW w \in Walk
    PROVE
      /\ \A pc : [w EXCEPT !.pc = pc]
            = WalkOf(pc, w.domain, w.list, w.next, w.filter)
      /\ \A list : [w EXCEPT !.list = list]
            = WalkOf(w.pc, w.domain, list, w.next, w.filter)
      /\ \A filter, next :
            [w EXCEPT !.pc = "switch", !.filter = filter, !.next = next]
               = WalkOf("switch", w.domain, w.list, next, filter)
<1>1. w = WalkOf(w.pc, w.domain, w.list, w.next, w.filter)
  BY WalkFields
<1>2. ASSUME NEW pc
      PROVE  [w EXCEPT !.pc = pc]
                = WalkOf(pc, w.domain, w.list, w.next, w.filter)
  <2>1. WalkPc(w, pc) = WalkOf(pc, w.domain, w.list, w.next, w.filter)
    BY <1>1, WalkFieldChanges
  <2> QED
    BY <2>1 DEF WalkPc
<1>3. ASSUME NEW list
      PROVE  [w EXCEPT !.list = list]
                = WalkOf(w.pc, w.domain, list, w.next, w.filter)
  <2>1. WalkList(w, list) = WalkOf(w.pc, w.domain, list, w.next, w.filter)
    BY <1>1, WalkFieldChanges
  <2> QED
    BY <2>1 DEF WalkList
<1>4. ASSUME NEW filter, NEW next
      PROVE  [w EXCEPT !.pc = "switch", !.filter = filter, !.next = next]
                = WalkOf("switch", w.domain, w.list, next, filter)
  <2>1. WalkNext(WalkFilter(WalkPc(w, "switch"), filter), next)
           = WalkOf("switch", w.domain, w.list, next, filter)
    BY <1>1, WalkFieldChanges
  <2> QED
    BY <2>1 DEF WalkPc, WalkFilter, WalkNext
<1> QED
  BY <1>2, <1>3, <1>4

\* The first place in a list.
First == NoWalk.next

LEMMA FirstPlace == First = 1
BY DEF First, NoWalk

\* The walks that begin or are over.
LEMMA NewWalks ==
    /\ NoWalk = WalkOf("idle", None, Live, First, None)
    /\ \A pc, d : [NoWalk EXCEPT !.pc = pc, !.domain = d]
                     = WalkOf(pc, d, Live, First, None)
<1>1. NoWalk = WalkOf("idle", None, Live, First, None)
  BY DEF First, NoWalk, WalkOf
<1>2. ASSUME NEW pc, NEW d
      PROVE  [NoWalk EXCEPT !.pc = pc, !.domain = d]
                = WalkOf(pc, d, Live, First, None)
  <2>1. WalkDomain(WalkPc(NoWalk, pc), d) = WalkOf(pc, d, Live, First, None)
    BY <1>1, WalkFieldChanges
  <2> QED
    BY <2>1 DEF WalkPc, WalkDomain
<1> QED
  BY <1>1, <1>2

\* Where the walk goes.
LEMMA WalkMoves ==
    ASSUME walk \in Walk
    PROVE
      /\ \A d \in Domains : BeginWalk(d) =>
            walk' = WalkOf("next", d, Live, First, None)
      /\ NextFilter =>
            \/ /\ walk.next > Len(Walked)
               /\ walk' = WalkOf("allowed", walk.domain, Live, First, None)
            \/ /\ ~(walk.next > Len(Walked))
               /\ walk' = WalkOf("switch", walk.domain, walk.list,
                                 walk.next + 1, Walked[walk.next])
      /\ CheckSwitch =>
            \/ /\ enabled[walk.filter.name] = TRUE
               /\ walk' = WalkOf("list", walk.domain, walk.list, walk.next,
                                 walk.filter)
            \/ /\ enabled[walk.filter.name] # TRUE
               /\ walk' = WalkOf("next", walk.domain, walk.list, walk.next,
                                 walk.filter)
      /\ CheckList =>
            \/ /\ walk.domain \in loaded[walk.filter.file]
               /\ walk' = WalkOf("blocked", walk.domain, Live, First, None)
            \/ /\ walk.domain \notin loaded[walk.filter.file]
               /\ walk' = WalkOf("next", walk.domain, walk.list, walk.next,
                                 walk.filter)
      /\ Crash => walk' = WalkOf("idle", None, Live, First, None)
      /\ \A n \in Customs : RemoveFilter(n) =>
            walk' = IF Walking
                    THEN WalkOf(walk.pc, walk.domain, Walked, walk.next,
                                walk.filter)
                    ELSE walk
<1>1. \A d \in Domains : BeginWalk(d) =>
         walk' = WalkOf("next", d, Live, First, None)
  BY NewWalks, Zenon DEF BeginWalk
<1>2. NextFilter =>
         \/ /\ walk.next > Len(Walked)
            /\ walk' = WalkOf("allowed", walk.domain, Live, First, None)
         \/ /\ ~(walk.next > Len(Walked))
            /\ walk' = WalkOf("switch", walk.domain, walk.list,
                              walk.next + 1, Walked[walk.next])
  <2>1. CASE walk.next > Len(Walked)
    BY <2>1, NewWalks, Zenon DEF NextFilter, Decide
  <2>2. CASE ~(walk.next > Len(Walked))
    <3>1. NextFilter =>
             walk' = [walk EXCEPT !.pc = "switch", !.filter = Walked[walk.next],
                                  !.next = walk.next + 1]
      BY <2>2, Zenon DEF NextFilter
    <3> DEFINE filter == Walked[walk.next]
               next == walk.next + 1
    <3>2. [walk EXCEPT !.pc = "switch", !.filter = filter, !.next = next]
             = WalkOf("switch", walk.domain, walk.list, next, filter)
      <4> HIDE DEF filter, next
      <4> QED
        BY WalkChanges, Zenon
    <3> QED
      BY <2>2, <3>1, <3>2, Zenon
  <2> QED
    BY <2>1, <2>2, Zenon
<1>3. CheckSwitch =>
         \/ /\ enabled[walk.filter.name] = TRUE
            /\ walk' = WalkOf("list", walk.domain, walk.list, walk.next,
                              walk.filter)
         \/ /\ enabled[walk.filter.name] # TRUE
            /\ walk' = WalkOf("next", walk.domain, walk.list, walk.next,
                              walk.filter)
  <2>1. CASE enabled[walk.filter.name] = TRUE
    BY <2>1, WalkChanges, Zenon DEF CheckSwitch, WalkGoto
  <2>2. CASE enabled[walk.filter.name] # TRUE
    BY <2>2, WalkChanges, Zenon DEF CheckSwitch, WalkGoto
  <2> QED
    BY <2>1, <2>2, Zenon
<1>4. CheckList =>
         \/ /\ walk.domain \in loaded[walk.filter.file]
            /\ walk' = WalkOf("blocked", walk.domain, Live, First, None)
         \/ /\ walk.domain \notin loaded[walk.filter.file]
            /\ walk' = WalkOf("next", walk.domain, walk.list, walk.next,
                              walk.filter)
  BY NewWalks, WalkChanges, Zenon DEF CheckList, Decide, WalkGoto
<1>5. Crash => walk' = WalkOf("idle", None, Live, First, None)
  BY NewWalks, Zenon DEF Crash
<1>6. \A n \in Customs : RemoveFilter(n) =>
         walk' = IF Walking
                 THEN WalkOf(walk.pc, walk.domain, Walked, walk.next,
                             walk.filter)
                 ELSE walk
  BY WalkChanges, Zenon DEF RemoveFilter, WalkKeepsList, Walking
<1> QED
  BY <1>1, <1>2, <1>3, <1>4, <1>5, <1>6, Zenon

\* What a walk may be beyond the end of the list that there is now.
Slack(j) == IF Adding(j) THEN 1 ELSE 2

LEMMA WalkBounds ==
    ASSUME ManagerShape, walk \in Walk
    PROVE  /\ Len(filters) \in Nat /\ DOMAIN filters = 1 .. Len(filters)
           /\ filters \in Seq(Filter) /\ Walked \in Seq(Filter)
           /\ Len(Walked) \in Nat /\ DOMAIN Walked = 1 .. Len(Walked)
           /\ Walked # Live
           /\ walk.next \in Nat \ {0}
           /\ Slack(api) \in {1, 2} /\ (Slack(api) = 1 <=> Adding(api))
<1>1. /\ Len(filters) \in Nat /\ DOMAIN filters = 1 .. Len(filters)
      /\ filters \in Seq(Filter)
  BY ListMembers DEF ManagerShape, ListShape, ListOK
<1>2. Walked \in Seq(Filter)
  BY <1>1 DEF Walked, Walk
<1>3. Len(Walked) \in Nat /\ DOMAIN Walked = 1 .. Len(Walked)
  BY <1>2, LenProperties
<1>4. Walked # Live
  BY <1>2, FilterAssumption
<1>5. walk.next \in Nat \ {0}
  BY DEF Walk
<1>6. Slack(api) \in {1, 2} /\ (Slack(api) = 1 <=> Adding(api))
  BY DEF Slack
<1> QED
  BY <1>1, <1>2, <1>3, <1>4, <1>5, <1>6

\* A walk that a step leaves alone, in a list that has not become shorter
\* than the walk allows.
LEMMA WalkLeftAlone ==
    ASSUME ManagerShape, WalkInv, walk' = walk, ManagerShape',
           Len(filters) + Slack(api) <= Len(filters') + Slack(api'),
           api'.pc = "down" => api.pc = "down"
    PROVE  WalkInv'
<1>1. /\ walk \in Walk /\ Walking' = Walking /\ walk.list = walk'.list
  BY DEF WalkInv, Walking
<1>2. /\ Len(filters) \in Nat /\ Slack(api) \in {1, 2}
      /\ (Slack(api) = 1 <=> Adding(api)) /\ walk.next \in Nat
  BY <1>1, WalkBounds
<1>3. /\ Len(filters') \in Nat /\ Slack(api') \in {1, 2}
      /\ (Slack(api') = 1 <=> Adding(api'))
  <2>1. Len(filters') \in Nat
    BY ListMembers DEF ManagerShape, ListShape
  <2> QED
    BY <2>1 DEF Slack
<1>4. CASE walk.list = Live
  <2>1. Walked = filters /\ Walked' = filters'
    BY <1>1, <1>4 DEF Walked
  <2>2. walk.next <= Len(filters) + Slack(api)
    BY <1>2, <1>4, <2>1 DEF WalkInv
  <2>3. walk.next <= Len(filters') + Slack(api')
    BY <1>2, <1>3, <2>2
  <2>4. /\ walk.next <= Len(filters') + 2
        /\ Adding(api') => walk.next <= Len(filters') + 1
    BY <1>2, <1>3, <2>3
  <2> QED
    BY <1>1, <2>1, <2>4 DEF WalkInv
<1>5. CASE walk.list # Live
  <2>1. Walked' = Walked
    BY <1>1, <1>5 DEF Walked
  <2> QED
    BY <1>1, <1>5, <2>1 DEF WalkInv
<1> QED
  BY <1>4, <1>5

\* The steps of the walk.
LEMMA WalkGoesOn ==
    ASSUME ManagerShape, WalkInv,
           (\E d \in Domains : BeginWalk(d)) \/ WalkStep
    PROVE  WalkInv'
<1>1. /\ walk \in Walk /\ filters' = filters /\ api' = api
      /\ api.pc # "down"
      /\ walk.pc \in {"idle", "next", "switch", "list", "allowed", "blocked"}
      /\ walk.domain \in Domains \cup {None}
      /\ walk.list \in Seq(Filter) \cup {Live}
      /\ walk.filter \in Filter \cup {None}
  BY DEF WalkInv, BeginWalk, WalkStep, NextFilter, CheckSwitch, CheckList,
         walkOnly, manager, Walk
<1>2. /\ Len(filters) \in Nat /\ Len(Walked) \in Nat /\ Walked \in Seq(Filter)
      /\ walk.next \in Nat \ {0} /\ DOMAIN Walked = 1 .. Len(Walked)
  BY <1>1, WalkBounds
<1>3. ASSUME NEW pc \in {"next", "allowed", "blocked"},
             NEW d \in Domains \cup {None},
             walk' = WalkOf(pc, d, Live, First, None)
      PROVE  WalkInv'
  <2>1. /\ walk'.pc = pc /\ walk'.domain = d /\ walk'.list = Live
        /\ walk'.next = 1 /\ walk'.filter = None
    BY <1>3, WalkFields, FirstPlace
  <2>2. walk' \in Walk
    BY <1>3, FirstPlace DEF WalkOf, Walk
  <2>3. Walked' = filters
    BY <1>1, <2>1 DEF Walked
  <2> QED
    BY <1>1, <1>2, <1>3, <2>1, <2>2, <2>3 DEF WalkInv, Walking
<1>4. ASSUME NEW pc \in {"next", "switch", "list"}, NEW next \in Nat \ {0},
             NEW filter \in Filter \cup {None},
             walk' = WalkOf(pc, walk.domain, walk.list, next, filter),
             next <= walk.next \/ next <= Len(Walked) + 1,
             pc # "next" => filter \in Filter
      PROVE  WalkInv'
  <2>1. /\ walk'.pc = pc /\ walk'.domain = walk.domain
        /\ walk'.list = walk.list /\ walk'.next = next
        /\ walk'.filter = filter
    BY <1>4, WalkFields
  <2>2. walk' \in Walk
    BY <1>1, <1>4 DEF WalkOf, Walk
  <2>3. Walked' = Walked
    BY <1>1, <2>1 DEF Walked
  <2>4. next <= Len(Walked) + 2
    BY <1>2, <1>4 DEF WalkInv
  <2>5. Adding(api) /\ walk.list = Live => next <= Len(filters) + 1
    <3>1. walk.list = Live => Walked = filters
      BY DEF Walked
    <3> QED
      BY <1>2, <1>4, <3>1 DEF WalkInv
  <2>6. Walking'
    BY <1>4, <2>1 DEF Walking
  <2> QED
    BY <1>1, <1>4, <2>1, <2>2, <2>3, <2>4, <2>5, <2>6 DEF WalkInv
<1>5. ASSUME NEW d \in Domains, BeginWalk(d)
      PROVE  WalkInv'
  BY <1>1, <1>3, <1>5, WalkMoves
<1>6. CASE NextFilter
  <2>1. ASSUME ~(walk.next > Len(Walked))
        PROVE  /\ Walked[walk.next] \in Filter /\ walk.next + 1 \in Nat \ {0}
               /\ walk.next + 1 <= Len(Walked) + 1
    <3>1. walk.next \in 1 .. Len(Walked)
      BY <1>2, <2>1
    <3> QED
      BY <1>2, <3>1, ElementOfSeq
  <2> QED
    BY <1>1, <1>3, <1>4, <1>6, <2>1, WalkMoves
<1>7. CASE CheckSwitch
  <2>1. walk.filter \in Filter /\ walk.next <= walk.next
    BY <1>2, <1>7 DEF CheckSwitch, WalkInv
  <2> QED
    BY <1>1, <1>2, <1>4, <1>7, <2>1, WalkMoves
<1>8. CASE CheckList
  <2>1. walk.filter \in Filter /\ walk.next <= walk.next
    BY <1>2, <1>8 DEF CheckList, WalkInv
  <2> QED
    BY <1>1, <1>2, <1>3, <1>4, <1>8, <2>1, WalkMoves
<1> QED
  BY <1>5, <1>6, <1>7, <1>8 DEF WalkStep

\* Removal: whoever walks keeps the old list.
LEMMA WalkAfterRemoval ==
    ASSUME ManagerShape, WalkInv, ManagerShape', NEW n \in Customs, RemoveFilter(n)
    PROVE  WalkInv' /\ (Walking => Walking' /\ Walked' = Walked)
<1>1. /\ walk \in Walk /\ api'.pc = "remove-switch"
  BY FilterMoves, JobIs DEF WalkInv, ManagerShape, JobShape
<1>2. ~Adding(api') /\ api'.pc # "down"
  BY <1>1 DEF Adding
<1>3. /\ Len(Walked) \in Nat /\ Walked \in Seq(Filter) /\ Walked # Live
      /\ walk.next \in Nat \ {0}
  BY <1>1, WalkBounds
<1>4. Len(filters') \in Nat
  BY ListMembers DEF ManagerShape, ListShape
<1>5. CASE Walking
  <2>1. walk' = WalkOf(walk.pc, walk.domain, Walked, walk.next, walk.filter)
    BY <1>1, <1>5, WalkMoves
  <2>2. /\ walk'.pc = walk.pc /\ walk'.list = Walked
        /\ walk'.next = walk.next /\ walk'.filter = walk.filter
    BY <2>1, WalkFields
  <2>3. walk' \in Walk
    BY <1>1, <1>3, <2>1 DEF WalkOf, Walk
  <2>4. Walked' = Walked /\ Walking'
    BY <1>3, <1>5, <2>2 DEF Walked, Walking
  <2> QED
    BY <1>2, <1>3, <2>2, <2>3, <2>4 DEF WalkInv
<1>6. CASE ~Walking
  <2>1. walk' = walk
    BY <1>1, <1>6, WalkMoves
  <2>2. walk.list = Live /\ walk.next = 1 /\ ~Walking'
    BY <1>6, <2>1 DEF WalkInv, Walking
  <2>3. Walked' = filters'
    BY <2>1, <2>2 DEF Walked
  <2> QED
    BY <1>1, <1>2, <1>4, <1>6, <2>1, <2>2, <2>3 DEF WalkInv, Walking
<1> QED
  BY <1>5, <1>6

\* Where each endpoint goes, in short.
LEMMA PcMoves ==
    ASSUME JobShape
    PROVE
      /\ ListCall => api.pc = "idle" /\ api'.pc \in {"idle", "reload"}
                        /\ ~Updating(api')
      /\ \A n \in Customs, f \in CustomFiles, on \in BOOLEAN :
            AddFilter(n, f, on) =>
               api.pc = "idle" /\ api'.pc = "add-switch" /\ api'.name = n
      /\ \A n \in Customs, f \in CustomFiles, on \in BOOLEAN :
            AddFilterFails(n, f, on) => api.pc = "idle" /\ api' = api
      /\ \A n, to \in Customs, f \in CustomFiles, on \in BOOLEAN :
            UpdateFilter(n, to, f, on) =>
               /\ api.pc = "idle" /\ api'.pc = "reload" /\ api'.to = to
               /\ api'.name = n
      /\ \A n \in Customs : RemoveFilter(n) =>
            api.pc = "idle" /\ api'.pc = "remove-switch" /\ api'.name = n
      /\ \A n \in Names : Toggle(n) =>
            /\ api.pc = "idle"
            /\ \/ api' = api
               \/ api'.pc = "persist" /\ n \in Customs
      /\ ClearList \/ FillList =>
            /\ api.pc \in {"reload", "fill"}
            /\ api'.pc \in {"idle", "update-unswitch", "reload", "fill"}
            /\ Updating(api') => Updating(api) /\ api'.to = api.to
      /\ AddSwitch => api.pc = "add-switch" /\ api'.pc = "add-persist"
                         /\ api'.name = api.name
      /\ AddPersist => api.pc = "add-persist" /\ api'.pc = "idle"
      /\ UpdateUnswitch => api.pc = "update-unswitch"
                              /\ api'.pc = "update-switch" /\ api'.to = api.to
      /\ UpdateSwitch => api.pc = "update-switch" /\ api'.pc = "persist"
      /\ RemoveSwitch => api.pc = "remove-switch" /\ api'.pc = "persist"
      /\ Persist => api.pc = "persist" /\ api'.pc = "idle"
      /\ LoadFails => api.pc \in {"reload", "fill"} /\ api'.pc = "idle"
      /\ Crash => api.pc # "down" /\ api'.pc = "down"
      /\ Boot => api.pc = "down" /\ api'.pc = "idle"
<1>1. api \in Job /\ api.then \in {"idle", "update-unswitch"}
  BY DEF JobShape, Job
<1>2. ListCall => api.pc = "idle" /\ api'.pc \in {"idle", "reload"}
                     /\ ~Updating(api')
  <2>1. ASSUME ApiFree, NEW t,
               api' = JobOf("reload", t, api.file, "idle",
                            api.name, api.to, api.on)
        PROVE  api.pc = "idle" /\ api'.pc = "reload" /\ ~Updating(api')
    <3>1. api'.pc = "reload" /\ api'.then = "idle"
      BY <2>1, JobIs
    <3> QED
      BY <2>1, <3>1 DEF ApiFree, Updating
  <2>2. ASSUME ApiFree, api' = api
        PROVE  api.pc = "idle" /\ api'.pc = "idle" /\ ~Updating(api')
    BY <2>2 DEF ApiFree, Updating
  <2>3. ASSUME NEW f \in CustomFiles, NEW c \in SUBSET Domains, WriteList(f, c)
        PROVE  api.pc = "idle" /\ api'.pc = "reload" /\ ~Updating(api')
    <3>1. ApiFree
      BY <2>3 DEF WriteList
    <3> QED
      BY <1>1, <2>1, <2>3, <3>1, ListMoves
  <2>4. ASSUME NEW f \in Files, ReloadList(f)
        PROVE  api.pc = "idle" /\ api'.pc = "reload" /\ ~Updating(api')
    <3>1. ApiFree
      BY <2>4 DEF ReloadList
    <3> QED
      BY <1>1, <2>1, <2>4, <3>1, ListMoves
  <2>5. ASSUME ReloadAll
        PROVE  api.pc = "idle" /\ api'.pc = "reload" /\ ~Updating(api')
    <3>1. ApiFree
      BY <2>5 DEF ReloadAll
    <3> QED
      BY <1>1, <2>1, <2>5, <3>1, ListMoves
  <2>6. ASSUME NEW f \in CustomFiles, DeleteList(f)
        PROVE  api.pc = "idle" /\ api'.pc = "idle" /\ ~Updating(api')
    BY <2>2, <2>6 DEF DeleteList
  <2>7. ASSUME ViewLists \/ LoadSomeLists
        PROVE  api.pc = "idle" /\ api'.pc = "idle" /\ ~Updating(api')
    BY <2>2, <2>7 DEF ViewLists, LoadSomeLists
  <2> QED
    BY <2>3, <2>4, <2>5, <2>6, <2>7 DEF ListCall
<1>3. ASSUME NEW n \in Customs, NEW f \in CustomFiles, NEW on \in BOOLEAN,
             AddFilter(n, f, on)
      PROVE  api.pc = "idle" /\ api'.pc = "add-switch" /\ api'.name = n
  <2>1. api.pc = "idle"
    BY <1>3 DEF AddFilter, ApiFree
  <2>2. api' = JobOf("add-switch", {}, None, "idle", n, None, on)
    BY <1>1, <1>3, FilterMoves
  <2> QED
    BY <2>1, <2>2, JobIs
<1>4. ASSUME NEW n \in Customs, NEW to \in Customs, NEW f \in CustomFiles,
             NEW on \in BOOLEAN, UpdateFilter(n, to, f, on)
      PROVE  /\ api.pc = "idle" /\ api'.pc = "reload" /\ api'.to = to
             /\ api'.name = n
  <2>1. api.pc = "idle"
    BY <1>4 DEF UpdateFilter, ApiFree
  <2>2. api' = JobOf("reload", {f}, None, "update-unswitch", n, to, on)
    BY <1>1, <1>4, FilterMoves
  <2> QED
    BY <2>1, <2>2, JobIs
<1>5. ASSUME NEW n \in Customs, RemoveFilter(n)
      PROVE  api.pc = "idle" /\ api'.pc = "remove-switch" /\ api'.name = n
  <2>1. api.pc = "idle"
    BY <1>5 DEF RemoveFilter, ApiFree
  <2>2. api' = JobOf("remove-switch", {}, None, "idle", n, None, Off)
    BY <1>1, <1>5, FilterMoves
  <2> QED
    BY <2>1, <2>2, JobIs
<1>6. ASSUME NEW n \in Names, Toggle(n)
      PROVE  /\ api.pc = "idle"
             /\ \/ api' = api
                \/ api'.pc = "persist" /\ n \in Customs
  <2>1. api.pc = "idle"
    BY <1>6 DEF Toggle, ApiFree
  <2> QED
    BY <1>1, <1>6, <2>1, FilterMoves, JobIs
<1>7. ASSUME ClearList \/ FillList
      PROVE  /\ api.pc \in {"reload", "fill"}
             /\ api'.pc \in {"idle", "update-unswitch", "reload", "fill"}
             /\ Updating(api') => Updating(api) /\ api'.to = api.to
  <2>1. api.pc \in {"reload", "fill"}
    BY <1>7 DEF ClearList, FillList
  <2>2. ASSUME NEW pc \in {"reload", "fill", "update-unswitch"}, NEW t, NEW f,
               pc = "update-unswitch" => api.then = pc,
               api' = JobOf(pc, t, f, api.then, api.name, api.to, api.on)
        PROVE  /\ api'.pc \in {"idle", "update-unswitch", "reload", "fill"}
               /\ Updating(api') => Updating(api) /\ api'.to = api.to
    <3>1. api'.pc = pc /\ api'.then = api.then /\ api'.to = api.to
      BY <2>2, JobIs
    <3> QED
      BY <1>1, <2>1, <2>2, <3>1 DEF Updating
  <2>3. ASSUME api' = JobOf("idle", {}, None, "idle", None, None, Off)
        PROVE  /\ api'.pc \in {"idle", "update-unswitch", "reload", "fill"}
               /\ Updating(api') => Updating(api) /\ api'.to = api.to
    <3>1. api'.pc = "idle"
      BY <2>3, JobIs
    <3> QED
      BY <3>1 DEF Updating
  <2>4. CASE ClearList
    <3>1. ASSUME api.then # "idle",
                 api' = JobOf(api.then, api.todo, api.file, api.then,
                              api.name, api.to, api.on)
          PROVE  /\ api'.pc \in {"idle", "update-unswitch", "reload", "fill"}
                 /\ Updating(api') => Updating(api) /\ api'.to = api.to
      BY <1>1, <2>2, <3>1
    <3>2. ASSUME NEW f \in api.todo,
                 api' = JobOf("fill", api.todo \ {f}, f, api.then,
                              api.name, api.to, api.on)
          PROVE  /\ api'.pc \in {"idle", "update-unswitch", "reload", "fill"}
                 /\ Updating(api') => Updating(api) /\ api'.to = api.to
      BY <2>2, <3>2
    <3> QED
      BY <1>1, <2>1, <2>3, <2>4, <3>1, <3>2, LoadMoves
  <2>5. CASE FillList
    <3>1. ASSUME api' = JobOf("reload", api.todo, None, api.then,
                              api.name, api.to, api.on)
          PROVE  /\ api'.pc \in {"idle", "update-unswitch", "reload", "fill"}
                 /\ Updating(api') => Updating(api) /\ api'.to = api.to
      BY <2>2, <3>1
    <3> QED
      BY <1>1, <2>1, <2>5, <3>1, LoadMoves
  <2> QED
    BY <1>7, <2>1, <2>4, <2>5
<1>8. /\ AddSwitch => api.pc = "add-switch" /\ api'.pc = "add-persist"
                         /\ api'.name = api.name
      /\ AddPersist => api.pc = "add-persist" /\ api'.pc = "idle"
      /\ UpdateUnswitch => api.pc = "update-unswitch"
                              /\ api'.pc = "update-switch" /\ api'.to = api.to
      /\ UpdateSwitch => api.pc = "update-switch" /\ api'.pc = "persist"
      /\ RemoveSwitch => api.pc = "remove-switch" /\ api'.pc = "persist"
      /\ Persist => api.pc = "persist" /\ api'.pc = "idle"
      /\ LoadFails => api.pc \in {"reload", "fill"} /\ api'.pc = "idle"
      /\ Crash => api.pc # "down" /\ api'.pc = "down"
      /\ Boot => api.pc = "down" /\ api'.pc = "idle"
  <2>1. /\ AddSwitch => api.pc = "add-switch"
        /\ AddPersist => api.pc = "add-persist"
        /\ UpdateUnswitch => api.pc = "update-unswitch"
        /\ UpdateSwitch => api.pc = "update-switch"
        /\ RemoveSwitch => api.pc = "remove-switch"
        /\ Persist => api.pc = "persist"
        /\ LoadFails => api.pc \in {"reload", "fill"}
        /\ Crash => api.pc # "down"
        /\ Boot => api.pc = "down"
    BY Zenon DEF AddSwitch, AddPersist, UpdateUnswitch, UpdateSwitch,
                 RemoveSwitch, Persist, LoadFails, Crash, Boot
  <2>2. /\ AddSwitch => api'.pc = "add-persist" /\ api'.name = api.name
        /\ UpdateUnswitch => api'.pc = "update-switch" /\ api'.to = api.to
        /\ UpdateSwitch \/ RemoveSwitch => api'.pc = "persist"
        /\ AddPersist \/ Persist \/ LoadFails \/ Boot => api'.pc = "idle"
        /\ Crash => api'.pc = "down"
    <3>1. AddSwitch => api'.pc = "add-persist" /\ api'.name = api.name
      BY <1>1, OtherMoves, JobIs
    <3>2. UpdateUnswitch => api'.pc = "update-switch" /\ api'.to = api.to
      BY <1>1, OtherMoves, JobIs
    <3>3. UpdateSwitch \/ RemoveSwitch => api'.pc = "persist"
      BY <1>1, OtherMoves, JobIs
    <3>4. AddPersist \/ Persist \/ LoadFails \/ Boot => api'.pc = "idle"
      BY <1>1, OtherMoves, JobIs
    <3>5. Crash => api'.pc = "down"
      BY <1>1, OtherMoves, JobIs
    <3> QED
      BY <3>1, <3>2, <3>3, <3>4, <3>5
  <2> QED
    BY <2>1, <2>2
<1>9. \A n \in Customs, f \in CustomFiles, on \in BOOLEAN :
         AddFilterFails(n, f, on) => api.pc = "idle" /\ api' = api
  BY Zenon DEF AddFilterFails, ApiFree
<1> QED
  BY <1>2, <1>3, <1>4, <1>5, <1>6, <1>7, <1>8, <1>9, Zenon

\* Every step keeps the walk within its list.
LEMMA WalkStepInv ==
    ManagerShape /\ WalkInv /\ [FilterNext]_filterVars => WalkInv'
<1> SUFFICES ASSUME ManagerShape, WalkInv, [FilterNext]_filterVars
             PROVE  WalkInv'
  OBVIOUS
<1>0. /\ ManagerShape' /\ JobShape /\ ListOK(filters)
      /\ Len(filters) \in Nat /\ Len(filters') \in Nat
  BY ShapeStep, ListMembers DEF ManagerShape, ListShape
<1>1. ASSUME walk' = walk, filters' = filters,
             ~Adding(api'), api'.pc = "down" => api.pc = "down"
      PROVE  WalkInv'
  <2>1. Len(filters) + Slack(api) <= Len(filters') + Slack(api')
    BY <1>0, <1>1 DEF Slack
  <2> QED
    BY <1>0, <1>1, <2>1, WalkLeftAlone
<1>2. CASE (\E d \in Domains : BeginWalk(d)) \/ WalkStep
  BY <1>2, WalkGoesOn
<1>3. CASE ListCall
  <2>1. walk' = walk /\ filters' = filters
    BY <1>3 DEF ListCall, WriteList, DeleteList, ReloadList, ReloadAll,
                ViewLists, LoadSomeLists, Unchanging, manager
  <2> QED
    BY <1>0, <1>1, <1>3, <2>1, PcMoves DEF Adding
<1>4. ASSUME NEW n \in Customs, NEW f \in CustomFiles, NEW on \in BOOLEAN,
             AddFilter(n, f, on)
      PROVE  WalkInv'
  <2>1. /\ walk' = walk /\ n \notin NamesOf(filters)
        /\ filters' = Append(filters, [name |-> n, file |-> f])
    BY <1>4 DEF AddFilter, NameFree, Unchanging
  <2>2. Len(filters') = Len(filters) + 1
    BY <1>0, <2>1, Appended
  <2>3. api'.pc = "add-switch"
    BY <1>0, <1>4, PcMoves
  <2>4. Len(filters) + Slack(api) <= Len(filters') + Slack(api')
    BY <1>0, <2>2 DEF Slack
  <2> QED
    BY <1>0, <2>1, <2>3, <2>4, WalkLeftAlone
<1>5. ASSUME NEW n \in Customs, NEW to \in Customs, NEW f \in CustomFiles,
             NEW on \in BOOLEAN, UpdateFilter(n, to, f, on)
      PROVE  WalkInv'
  <2>1. /\ walk' = walk /\ DOMAIN filters' = DOMAIN filters
    BY <1>5 DEF UpdateFilter, Unchanging
  <2>2. Len(filters') = Len(filters)
    <3>1. /\ DOMAIN filters = 1 .. Len(filters)
          /\ DOMAIN filters' = 1 .. Len(filters')
      BY <1>0, ListMembers DEF ManagerShape, ListShape
    <3> QED
      BY <1>0, <2>1, <3>1, SameInterval
  <2>3. api'.pc = "reload"
    BY <1>0, <1>5, PcMoves
  <2>4. Len(filters) + Slack(api) <= Len(filters') + Slack(api')
    BY <1>0, <2>2, <2>3 DEF Slack, Adding
  <2> QED
    BY <1>0, <2>1, <2>3, <2>4, WalkLeftAlone
<1>6. ASSUME NEW n \in Customs, RemoveFilter(n)
      PROVE  WalkInv'
  BY <1>0, <1>6, WalkAfterRemoval
<1>7. ASSUME NEW n \in Names, Toggle(n)
      PROVE  WalkInv'
  <2>1. walk' = walk /\ filters' = filters
    BY <1>7 DEF Toggle, Unchanging
  <2>2. ~Adding(api') /\ api'.pc # "down"
    BY <1>0, <1>7, PcMoves DEF Adding
  <2> QED
    BY <1>1, <2>1, <2>2
<1>16. ASSUME NEW n \in Customs, NEW f \in CustomFiles, NEW on \in BOOLEAN,
              AddFilterFails(n, f, on)
       PROVE  WalkInv'
  <2>1. walk' = walk /\ filters' = filters
    BY <1>16 DEF AddFilterFails, Unchanging
  <2>2. ~Adding(api') /\ api'.pc # "down"
    BY <1>0, <1>16, PcMoves DEF Adding
  <2> QED
    BY <1>1, <2>1, <2>2
<1>8. CASE FilterCall
  BY <1>4, <1>5, <1>6, <1>7, <1>8, <1>16 DEF FilterCall
<1>9. CASE ClearList \/ FillList \/ LoadFails
  <2>1. walk' = walk /\ filters' = filters
    BY <1>9 DEF ClearList, FillList, LoadFails, Unchanging, manager
  <2> QED
    BY <1>0, <1>1, <1>9, <2>1, PcMoves DEF Adding
<1>10. CASE UpdateUnswitch \/ UpdateSwitch \/ RemoveSwitch \/ Persist
  <2>1. walk' = walk /\ filters' = filters
    BY <1>10 DEF UpdateUnswitch, UpdateSwitch, RemoveSwitch, Persist,
                 Unchanging, manager
  <2>2. ~Adding(api') /\ api'.pc # "down"
    BY <1>0, <1>10, PcMoves DEF Adding
  <2> QED
    BY <1>1, <2>1, <2>2
<1>11. CASE AddSwitch
  <2>1. walk' = walk /\ filters' = filters
    BY <1>11 DEF AddSwitch, Unchanging
  <2>2. api.pc = "add-switch" /\ api'.pc = "add-persist"
    BY <1>0, <1>11, PcMoves
  <2>3. Len(filters) + Slack(api) <= Len(filters') + Slack(api')
    BY <1>0, <2>1, <2>2 DEF Slack, Adding
  <2> QED
    BY <1>0, <2>1, <2>2, <2>3, WalkLeftAlone
<1>12. CASE AddPersist
  <2>1. walk' = walk
    BY <1>12 DEF AddPersist, Unchanging
  <2>2. api.pc = "add-persist" /\ api'.pc = "idle"
    BY <1>0, <1>12, PcMoves
  <2>3. Len(filters') = Len(filters) \/ Len(filters') = Len(filters) - 1
    <3>1. CASE filters' = filters
      BY <3>1
    <3>2. CASE filters' = Front(filters)
      <4>1. filters # << >>
        BY <2>2 DEF ManagerShape, ListShape, Adding
      <4> QED
        BY <1>0, <3>2, <4>1, LastTakenBack
    <3> QED
      BY <1>12, <3>1, <3>2 DEF AddPersist, manager
  <2>4. Len(filters) + Slack(api) <= Len(filters') + Slack(api')
    BY <1>0, <2>2, <2>3 DEF Slack, Adding
  <2> QED
    BY <1>0, <2>1, <2>2, <2>4, WalkLeftAlone
<1>13. CASE Crash
  <2>1. walk' = WalkOf("idle", None, Live, First, None)
    BY <1>13, WalkMoves DEF WalkInv
  <2>2. /\ walk'.pc = "idle" /\ walk'.list = Live /\ walk'.next = 1
    BY <2>1, WalkFields, FirstPlace
  <2>3. walk' \in Walk
    BY <2>1, FirstPlace DEF WalkOf, Walk
  <2>4. Walked' = filters' /\ ~Adding(api')
    BY <1>0, <1>13, <2>2, PcMoves DEF Walked, Adding
  <2> QED
    BY <1>0, <2>2, <2>3, <2>4 DEF WalkInv, Walking
<1>14. CASE Boot
  <2>1. walk' = walk /\ api.pc = "down" /\ api'.pc = "idle"
    BY <1>0, <1>14, PcMoves DEF Boot
  <2>2. walk.pc = "idle" /\ walk.list = Live /\ walk.next = 1
    BY <2>1 DEF WalkInv, Walking
  <2>3. Walked' = filters' /\ ~Adding(api')
    BY <2>1, <2>2 DEF Walked, Adding
  <2> QED
    BY <1>0, <2>1, <2>2, <2>3 DEF WalkInv, Walking
<1>15. CASE UNCHANGED filterVars
  <2>1. walk' = walk /\ filters' = filters /\ api' = api
    BY <1>15 DEF filterVars, manager
  <2>2. Walked' = Walked
    BY <2>1 DEF Walked
  <2> QED
    BY <2>1, <2>2 DEF WalkInv, Walking
<1> QED
  BY <1>2, <1>3, <1>8, <1>9, <1>10, <1>11, <1>12, <1>13, <1>14, <1>15
     DEF FilterNext, EndpointStep, ApiContinues

\* No walk before the first process.
LEMMA WalkInit == FilterInit => WalkInv
<1> SUFFICES ASSUME FilterInit PROVE WalkInv
  OBVIOUS
<1>1. /\ ManagerShape /\ walk = NoWalk /\ api.pc = "down"
      /\ Len(filters) = 0
  <2>1. api = JobOf("down", {}, None, "idle", None, None, Off)
    BY NewJobs, Zenon DEF FilterInit
  <2>2. api.pc = "down"
    BY <2>1, JobIs
  <2> QED
    BY <2>2, ManagerInit DEF FilterInit, ManagerInv
<1>2. walk = WalkOf("idle", None, Live, First, None)
  BY <1>1, NewWalks
<1>3. /\ walk.pc = "idle" /\ walk.list = Live /\ walk.next = 1
  BY <1>2, WalkFields, FirstPlace
<1>4. walk \in Walk
  BY <1>2, FirstPlace DEF WalkOf, Walk
<1>5. Walked = filters /\ ~Adding(api)
  BY <1>1, <1>3 DEF Walked, Adding
<1> QED
  BY <1>1, <1>3, <1>4, <1>5 DEF WalkInv, Walking

\* The shape of the state, for any constants: names are unique, the lists of
\* the filters are loaded, and the walk stays in reach of its list.
THEOREM FiltersTypeCorrect == FilterSpec => []FilterTypeOK
<1>1. FilterInit => ManagerShape /\ WalkInv
  BY ManagerInit, WalkInit DEF ManagerInv
<1>2. ManagerShape /\ WalkInv /\ [FilterNext]_filterVars
         => (ManagerShape /\ WalkInv)'
  BY ShapeStep, WalkStepInv
<1>3. ManagerShape /\ WalkInv => FilterTypeOK
  <2> SUFFICES ASSUME ManagerShape, WalkInv PROVE FilterTypeOK
    OBVIOUS
  <2>1. /\ TablesShape /\ api \in Job /\ (api.pc = "fill" <=> api.file # None)
        /\ ListOK(filters)
        /\ \A x \in Range(filters) : loaded[x.file] # None
    BY DEF ManagerShape, JobShape, ListShape
  <2>2. \A i \in DOMAIN filters : loaded[filters[i].file] # None
    BY <2>1, ListMembers
  <2>3. walk.next \in 1 .. (Len(Walked) + 2)
    <3>1. walk.next \in Nat \ {0} /\ Len(Walked) \in Nat
      BY WalkBounds DEF WalkInv
    <3> QED
      BY <3>1 DEF WalkInv
  <2>4. /\ walk.pc \in {"idle", "next", "switch", "list", "allowed", "blocked"}
        /\ api.pc \in ApiAt
    BY <2>1 DEF WalkInv, Walk, Job
  <2>5. api.pc \in {"fill"} <=> api.file # None
    BY <2>1
  <2> QED
    BY <2>1, <2>2, <2>3, <2>4, <2>5 DEF FilterTypeOK, TablesShape, ListOK
<1> QED
  BY <1>1, <1>2, <1>3, PTL DEF FilterSpec

(* No filter is skipped.                                                   *)

\* What stands in the way is in the list, switched on, and has the domain.
LEMMA BlockingIs ==
    ASSUME NEW x
    PROVE  x \in Blocking <=>
              /\ x \in Range(filters) /\ enabled[x.name] = TRUE
              /\ walk.domain \in loaded[x.file]
BY DEF Blocking, SwitchedOn, Range

\* The filters stay where they are, those that stay at all.
PlacesKept ==
    \A p \in DOMAIN filters :
        filters[p] \in Range(filters') =>
            p \in DOMAIN filters' /\ filters'[p] = filters[p]

\* What is remembered of the filters that stand in the way.
Watches == standing' = Follows(standing, Blocking')

\* What a walk may still meet is what stood in the way before.
LEMMA StandingMoves ==
    ASSUME Watches
    PROVE  /\ standing' \subseteq Blocking'
           /\ ~(walk'.pc = "next" /\ walk.pc \in {"idle", "allowed", "blocked"})
                 => standing' \subseteq standing
           /\ walk'.pc = "idle" => standing' = {}
BY DEF Watches, Follows

\* A step of an endpoint, as far as the walk is concerned.
LEMMA StandingLeftAlone ==
    ASSUME ManagerShape, WalkInv, StandingInv, Watches, walk' = walk,
           ManagerShape', PlacesKept
    PROVE  StandingInv'
<1>1. /\ standing' \subseteq Blocking'
      /\ standing' \subseteq standing
  <2>1. ~(walk'.pc = "next" /\ walk.pc \in {"idle", "allowed", "blocked"})
    OBVIOUS
  <2> QED
    BY <2>1, StandingMoves
<1>2. ASSUME Walking', NEW x \in standing'
      PROVE  Ahead(x)'
  <2>1. Ahead(x)
    BY <1>1, <1>2 DEF StandingInv, Walking
  <2>2. CASE walk.pc \in {"switch", "list"} /\ walk.filter = x
    BY <2>2 DEF Ahead
  <2>3. ASSUME NEW p \in DOMAIN Walked, walk.next <= p, Walked[p] = x
        PROVE  Ahead(x)'
    <3>1. CASE walk.list = Live
      <4>1. Walked = filters /\ Walked' = filters'
        BY <3>1 DEF Walked
      <4>2. x \in Range(filters')
        <5>1. x \in Blocking'
          BY <1>1, <1>2
        <5> QED
          BY <5>1 DEF Blocking, SwitchedOn, Range
      <4>3. p \in DOMAIN filters' /\ filters'[p] = x
        BY <2>3, <4>1, <4>2 DEF PlacesKept
      <4> QED
        BY <2>3, <4>1, <4>3 DEF Ahead
    <3>2. CASE walk.list # Live
      <4>1. Walked' = Walked
        BY <3>2 DEF Walked
      <4> QED
        BY <2>3, <4>1 DEF Ahead
    <3> QED
      BY <3>1, <3>2
  <2> QED
    BY <2>1, <2>2, <2>3 DEF Ahead
<1> QED
  BY <1>1, <1>2 DEF StandingInv

\* Steps that leave the list alone.
LEMMA SamePlaces == ListOK(filters) /\ filters' = filters => PlacesKept
BY DEF PlacesKept

\* A filter that is replaced leaves the others where they are.
LEMMA PlacesAfterUpdate ==
    ASSUME ManagerShape, ManagerShape',
           NEW n \in Customs, NEW to \in Customs, NEW f \in CustomFiles,
           NEW on \in BOOLEAN, UpdateFilter(n, to, f, on)
    PROVE  PlacesKept
<1> DEFINE x == [name |-> to, file |-> f]
<1>1. /\ filters' = [i \in DOMAIN filters |->
                        IF filters[i].name = n THEN x ELSE filters[i]]
      /\ ListOK(filters) /\ ListOK(filters')
  BY DEF UpdateFilter, ManagerShape, ListShape
<1>2. /\ DOMAIN filters' = DOMAIN filters
      /\ \A i \in DOMAIN filters :
            filters'[i] = IF filters[i].name = n THEN x ELSE filters[i]
  BY <1>1
<1>3. \A i, j \in DOMAIN filters : filters[i].name = filters[j].name => i = j
  BY <1>1 DEF ListOK
<1> HIDE DEF x
<1>4. ASSUME NEW p \in DOMAIN filters, NEW j \in DOMAIN filters',
             filters[p] = filters'[j]
      PROVE  filters'[p] = filters[p]
  <2>1. CASE filters[p].name # n
    BY <1>2, <2>1
  <2>2. CASE filters[p].name = n
    <3>1. filters'[j].name = n
      BY <1>4, <2>2
    <3>2. filters[j].name = n
      BY <1>2, <1>4, <3>1
    <3>3. j = p
      BY <1>2, <1>3, <1>4, <2>2, <3>2
    <3> QED
      BY <1>4, <3>3
  <2> QED
    BY <2>1, <2>2
<1>5. \A y \in Range(filters') : \E j \in DOMAIN filters' : y = filters'[j]
  BY <1>1, ListMembers
<1> QED
  BY <1>2, <1>4, <1>5 DEF PlacesKept

\* An addition leaves the others where they are, and so does taking it back.
LEMMA PlacesAfterAddition ==
    ASSUME ManagerShape, ManagerShape',
           \/ \E n \in Customs, f \in CustomFiles, on \in BOOLEAN :
                 AddFilter(n, f, on)
           \/ AddPersist
    PROVE  PlacesKept
<1>1. ListOK(filters) /\ ListOK(filters')
  BY DEF ManagerShape, ListShape
<1>2. ASSUME NEW n \in Customs, NEW f \in CustomFiles, NEW on \in BOOLEAN,
             AddFilter(n, f, on)
      PROVE  PlacesKept
  <2>1. /\ n \notin NamesOf(filters)
        /\ filters' = Append(filters, [name |-> n, file |-> f])
    BY <1>2 DEF AddFilter, NameFree
  <2> QED
    BY <1>1, <2>1, Appended DEF PlacesKept
<1>3. ASSUME AddPersist, filters' # filters
      PROVE  PlacesKept
  <2>1. filters' = Front(filters) /\ filters # << >>
    BY <1>3 DEF AddPersist, manager, ManagerShape, ListShape, Adding
  <2>2. /\ Len(filters) \in Nat /\ DOMAIN filters = 1 .. Len(filters)
        /\ \A i \in DOMAIN filters : filters[i] \in Range(filters)
    BY <1>1, ListMembers
  <2>3. /\ Range(filters') =
              {x \in Range(filters) : x.name # filters[Len(filters)].name}
        /\ Len(filters') = Len(filters) - 1
        /\ \A i \in DOMAIN filters' : filters'[i] = filters[i]
    BY <1>1, <2>1, LastTakenBack
  <2>4. DOMAIN filters' = 1 .. Len(filters')
    BY <1>1, ListMembers
  <2>5. ASSUME NEW p \in DOMAIN filters, filters[p] \in Range(filters')
        PROVE  p \in DOMAIN filters'
    <3>1. p # Len(filters)
      BY <2>3, <2>5
    <3> QED
      BY <2>2, <2>3, <2>4, <3>1
  <2> QED
    BY <2>3, <2>5 DEF PlacesKept
<1> QED
  BY <1>1, <1>2, <1>3, SamePlaces

\* The walk itself: what is ahead is met before the walk is over.
LEMMA StandingWalked ==
    ASSUME ManagerShape, WalkInv, StandingInv, Watches,
           (\E d \in Domains : BeginWalk(d)) \/ WalkStep
    PROVE  StandingInv'
<1>1. /\ walk \in Walk /\ filters' = filters /\ enabled' = enabled
      /\ loaded' = loaded
      /\ standing' \subseteq Blocking'
  BY StandingMoves
     DEF WalkInv, BeginWalk, WalkStep, NextFilter, CheckSwitch, CheckList,
         walkOnly, manager
<1>2. /\ Len(Walked) \in Nat /\ DOMAIN Walked = 1 .. Len(Walked)
      /\ walk.next \in Nat \ {0} /\ DOMAIN filters = 1 .. Len(filters)
  BY <1>1, WalkBounds
<1>3. ASSUME NEW d \in Domains, BeginWalk(d)
      PROVE  StandingInv'
  <2>1. walk' = WalkOf("next", d, Live, First, None)
    BY <1>1, <1>3, WalkMoves
  <2>2. /\ walk'.pc = "next" /\ walk'.list = Live /\ walk'.next = 1
    BY <2>1, WalkFields, FirstPlace
  <2>3. Walked' = filters
    BY <1>1, <2>2 DEF Walked
  <2>4. ASSUME NEW x \in standing'
        PROVE  Ahead(x)'
    <3>1. x \in Blocking'
      BY <1>1, <2>4
    <3>2. x \in Range(filters)
      BY <1>1, <3>1 DEF Blocking, SwitchedOn, Range
    <3>3. PICK p \in DOMAIN filters : filters[p] = x
      BY <3>2 DEF Range
    <3>4. 1 <= p
      BY <1>2
    <3> QED
      BY <2>2, <2>3, <3>3, <3>4 DEF Ahead
  <2> QED
    BY <1>1, <2>2, <2>4 DEF StandingInv
<1>4. ASSUME WalkStep
      PROVE  /\ standing' \subseteq standing /\ Walking
             /\ \A x \in standing : Ahead(x)
  <2>1. walk.pc \in {"next", "switch", "list"}
    BY <1>4 DEF WalkStep, NextFilter, CheckSwitch, CheckList
  <2> QED
    BY <2>1, StandingMoves DEF StandingInv, Walking
\* The walk goes on in the same list.
<1>5. ASSUME NEW pc \in {"next", "switch", "list"}, NEW next, NEW filter,
             walk' = WalkOf(pc, walk.domain, walk.list, next, filter),
             WalkStep,
             \A x \in standing' :
                Ahead(x) =>
                   \/ \E p \in DOMAIN Walked : next <= p /\ Walked[p] = x
                   \/ pc \in {"switch", "list"} /\ filter = x
      PROVE  StandingInv'
  <2>1. /\ walk'.pc = pc /\ walk'.list = walk.list /\ walk'.next = next
        /\ walk'.filter = filter
    BY <1>5, WalkFields
  <2>2. Walked' = Walked
    BY <1>1, <2>1 DEF Walked
  <2>3. ASSUME NEW x \in standing'
        PROVE  Ahead(x)'
    <3>1. Ahead(x)
      BY <1>4, <1>5, <2>3
    <3> QED
      BY <1>5, <2>1, <2>2, <3>1 DEF Ahead
  <2> QED
    BY <1>1, <1>5, <2>1, <2>3 DEF StandingInv
<1>6. CASE NextFilter
  <2>0. WalkStep /\ walk.pc = "next"
    BY <1>6 DEF WalkStep, NextFilter
  <2>1. CASE walk.next > Len(Walked)
    <3>1. walk'.pc = "allowed"
      BY <1>1, <1>6, <2>1, WalkMoves, WalkFields
    <3>2. standing = {}
      BY <1>2, <1>4, <2>0, <2>1 DEF Ahead
    <3> QED
      BY <1>1, <1>4, <2>0, <3>1, <3>2 DEF StandingInv, Walking
  <2>2. CASE ~(walk.next > Len(Walked))
    <3>1. walk' = WalkOf("switch", walk.domain, walk.list,
                         walk.next + 1, Walked[walk.next])
      BY <1>1, <1>6, <2>2, WalkMoves
    <3>2. ASSUME NEW x, Ahead(x)
          PROVE  \/ \E p \in DOMAIN Walked :
                       walk.next + 1 <= p /\ Walked[p] = x
                 \/ Walked[walk.next] = x
      <4>1. PICK p \in DOMAIN Walked : walk.next <= p /\ Walked[p] = x
        BY <2>0, <3>2 DEF Ahead
      <4>2. p = walk.next \/ walk.next + 1 <= p
        BY <1>2, <4>1
      <4> QED
        BY <4>1, <4>2
    <3> QED
      BY <1>5, <2>0, <3>1, <3>2
  <2> QED
    BY <2>1, <2>2
<1>7. CASE CheckSwitch
  <2>0. WalkStep /\ walk.pc = "switch"
    BY <1>7 DEF WalkStep, CheckSwitch
  <2>1. CASE enabled[walk.filter.name] = TRUE
    <3>1. walk' = WalkOf("list", walk.domain, walk.list, walk.next, walk.filter)
      BY <1>1, <1>7, <2>1, WalkMoves
    <3> QED
      BY <1>5, <2>0, <3>1 DEF Ahead
  <2>2. CASE enabled[walk.filter.name] # TRUE
    <3>1. walk' = WalkOf("next", walk.domain, walk.list, walk.next, walk.filter)
      BY <1>1, <1>7, <2>2, WalkMoves
    <3>2. \A x \in standing' : enabled[x.name] = TRUE
      BY <1>1, BlockingIs DEF Blocking, SwitchedOn
    <3> QED
      BY <1>5, <2>0, <2>2, <3>1, <3>2 DEF Ahead
  <2> QED
    BY <2>1, <2>2
<1>8. CASE CheckList
  <2>0. WalkStep /\ walk.pc = "list"
    BY <1>8 DEF WalkStep, CheckList
  <2>1. CASE walk.domain \in loaded[walk.filter.file]
    <3>1. walk'.pc = "blocked"
      BY <1>1, <1>8, <2>1, WalkMoves, WalkFields
    <3> QED
      BY <1>1, <3>1 DEF StandingInv, Walking
  <2>2. CASE walk.domain \notin loaded[walk.filter.file]
    <3>1. walk' = WalkOf("next", walk.domain, walk.list, walk.next, walk.filter)
      BY <1>1, <1>8, <2>2, WalkMoves
    <3>2. walk'.domain = walk.domain
      BY <3>1, WalkFields
    <3>3. \A x \in standing' : walk.domain \in loaded[x.file]
      BY <1>1, <3>2 DEF Blocking
    <3> QED
      BY <1>5, <2>0, <2>2, <3>1, <3>3 DEF Ahead
  <2> QED
    BY <2>1, <2>2
<1> QED
  BY <1>3, <1>6, <1>7, <1>8 DEF WalkStep

\* Removal: the walk goes on in the old list.
LEMMA StandingAfterRemoval ==
    ASSUME ManagerShape, WalkInv, StandingInv, Watches, ManagerShape',
           NEW n \in Customs, RemoveFilter(n)
    PROVE  StandingInv'
<1>1. /\ walk \in Walk /\ (Walking => Walking' /\ Walked' = Walked)
  BY WalkAfterRemoval DEF WalkInv
<1>2. /\ walk'.pc = walk.pc /\ walk'.next = walk.next
      /\ walk'.filter = walk.filter
  BY <1>1, WalkMoves, WalkFields
<1>3. /\ standing' \subseteq Blocking' /\ standing' \subseteq standing
  <2>1. ~(walk'.pc = "next" /\ walk.pc \in {"idle", "allowed", "blocked"})
    BY <1>2
  <2> QED
    BY <2>1, StandingMoves
<1>4. ASSUME Walking', NEW x \in standing'
      PROVE  Ahead(x)'
  <2>1. Walking /\ Walked' = Walked
    BY <1>1, <1>2, <1>4 DEF Walking
  <2>2. Ahead(x)
    BY <1>3, <1>4, <2>1 DEF StandingInv
  <2> QED
    BY <1>2, <2>1, <2>2 DEF Ahead
<1> QED
  BY <1>2, <1>3, <1>4 DEF StandingInv

\* Steps of the checks are steps of the filters.
LEMMA CheckedSteps ==
    [WatchedNext]_watchedVars => [FilterNext]_filterVars
BY DEF WatchedNext, watchedVars

\* Every step keeps what stands in the way ahead of the walk.
LEMMA StandingStep ==
    ManagerShape /\ WalkInv /\ StandingInv /\ [WatchedNext]_watchedVars => StandingInv'
<1> SUFFICES ASSUME ManagerShape, WalkInv, StandingInv, [WatchedNext]_watchedVars
             PROVE  StandingInv'
  OBVIOUS
<1>1. CASE UNCHANGED watchedVars
  BY <1>1 DEF watchedVars, filterVars, disk, manager, StandingInv, Blocking,
              SwitchedOn, Walking, Ahead, Walked
<1>2. ASSUME FilterNext, Watches
      PROVE  StandingInv'
  <2>0. ManagerShape' /\ ListOK(filters)
    BY <1>2, ShapeStep DEF ManagerShape, ListShape
  <2>1. ASSUME walk' = walk, filters' = filters PROVE StandingInv'
    BY <1>2, <2>0, <2>1, SamePlaces, StandingLeftAlone
  <2>2. CASE (\E d \in Domains : BeginWalk(d)) \/ WalkStep
    BY <1>2, <2>2, StandingWalked
  <2>3. CASE ListCall
    BY <2>1, <2>3
       DEF ListCall, WriteList, DeleteList, ReloadList, ReloadAll, ViewLists,
           LoadSomeLists, Unchanging, manager
  <2>4. CASE \E n \in Customs, f \in CustomFiles, on \in BOOLEAN :
                AddFilter(n, f, on)
    <3>1. walk' = walk
      BY <2>4 DEF AddFilter, Unchanging
    <3> QED
      BY <1>2, <2>0, <2>4, <3>1, PlacesAfterAddition, StandingLeftAlone
  <2>5. ASSUME NEW n \in Customs, NEW to \in Customs, NEW f \in CustomFiles,
               NEW on \in BOOLEAN, UpdateFilter(n, to, f, on)
        PROVE  StandingInv'
    <3>1. walk' = walk
      BY <2>5 DEF UpdateFilter, Unchanging
    <3> QED
      BY <1>2, <2>0, <2>5, <3>1, PlacesAfterUpdate, StandingLeftAlone
  <2>6. ASSUME NEW n \in Customs, RemoveFilter(n) PROVE StandingInv'
    BY <1>2, <2>0, <2>6, StandingAfterRemoval
  <2>7. ASSUME NEW n \in Names, Toggle(n) PROVE StandingInv'
    BY <2>1, <2>7 DEF Toggle, Unchanging
  <2>14. ASSUME NEW n \in Customs, NEW f \in CustomFiles, NEW on \in BOOLEAN,
                AddFilterFails(n, f, on)
         PROVE  StandingInv'
    BY <2>1, <2>14 DEF AddFilterFails, Unchanging
  <2>8. CASE FilterCall
    BY <2>4, <2>5, <2>6, <2>7, <2>8, <2>14 DEF FilterCall
  <2>9. CASE AddPersist
    <3>1. walk' = walk
      BY <2>9 DEF AddPersist, Unchanging
    <3> QED
      BY <1>2, <2>0, <2>9, <3>1, PlacesAfterAddition, StandingLeftAlone
  <2>10. CASE ApiContinues
    BY <2>1, <2>9, <2>10
       DEF ApiContinues, ClearList, FillList, LoadFails, AddSwitch, UpdateUnswitch,
           UpdateSwitch, RemoveSwitch, Persist, Unchanging, manager
  <2>11. ASSUME walk'.pc = "idle" PROVE StandingInv'
    BY <1>2, <2>11, StandingMoves DEF StandingInv, Walking
  <2>12. CASE Crash
    <3>1. walk \in Walk
      BY DEF WalkInv
    <3> QED
      BY <2>11, <2>12, <3>1, WalkMoves, WalkFields
  <2>13. CASE Boot
    BY <2>11, <2>13 DEF Boot, WalkInv
  <2> QED
    BY <1>2, <2>2, <2>3, <2>8, <2>10, <2>12, <2>13
       DEF FilterNext, EndpointStep
<1> QED
  BY <1>1, <1>2 DEF WatchedNext, Watches

\* manager.py, evaluate: a filter that is in the list, switched on and has
\* the domain from the beginning of a walk to its end is never missed, for any
\* filters and any additions, replacements, renamings and removals meanwhile.
THEOREM FiltersNeverSkipped == WatchedSpec => []NoFilterSkipped
<1>1. WatchedInit => ManagerShape /\ WalkInv /\ StandingInv
  <2> SUFFICES ASSUME WatchedInit PROVE ManagerShape /\ WalkInv /\ StandingInv
    OBVIOUS
  <2>1. FilterInit /\ standing = {}
    BY DEF WatchedInit
  <2> QED
    BY <2>1, ManagerInit, WalkInit DEF StandingInv, ManagerInv
<1>2. ManagerShape /\ WalkInv /\ StandingInv /\ [WatchedNext]_watchedVars
         => (ManagerShape /\ WalkInv /\ StandingInv)'
  BY CheckedSteps, ShapeStep, WalkStepInv, StandingStep
<1>3. StandingInv => NoFilterSkipped
  BY DEF StandingInv, NoFilterSkipped
<1> QED
  BY <1>1, <1>2, <1>3, PTL DEF WatchedSpec

-----------------------------------------------------------------------------
(* custom_filters.json.                                                    *)

\* What Remember makes of the names that memory and the file need not share.
LEMMA UnwrittenMoves ==
    ASSUME Remember
    PROVE  /\ strayed \subseteq strayed' /\ unwritten' \subseteq strayed'
           /\ \/ api.pc = "down"
              \/ Ends /\ definitions' = store'
              \/ unwritten' = unwritten \cup LeftUnwritten
           /\ api.pc # "down" /\ ~Ends => unwritten \subseteq unwritten'
           /\ api'.pc # "down" => halfway \subseteq halfway'
BY DEF Remember, Ends

\* The definitions that a step writes, or leaves as they were.
LEMMA StoreKept ==
    ASSUME StoreInv, Remember, ~Adding(api'), api.pc # "down",
           \/ Ends /\ definitions' = store'
           \/ \A n \in Customs \ (unwritten \cup LeftUnwritten \cup InHand(api')) :
                 definitions'[n] = store'[n]
    PROVE  StoreInv'
BY UnwrittenMoves DEF StoreInv

\* Steps that leave the definitions and the file alone.
LEMMA StoreLeftAlone ==
    ASSUME StoreInv, Remember, ~Adding(api'),
           ~Adding(api), api.pc \notin {"persist", "down"},
           definitions' = definitions, store' = store
    PROVE  StoreInv'
<1>1. InHand(api) = {}
  BY DEF InHand, Adding
<1> QED
  BY <1>1, StoreKept DEF StoreInv

\* Steps that change the definitions of names that they keep in hand.
LEMMA StoreInHand ==
    ASSUME StoreInv, Remember, ~Adding(api'),
           ~Adding(api), api.pc \notin {"persist", "down"}, store' = store,
           \A n \in Customs \ (LeftUnwritten \cup InHand(api')) :
              definitions'[n] = definitions[n]
    PROVE  StoreInv'
<1>1. InHand(api) = {}
  BY DEF InHand, Adding
<1> QED
  BY <1>1, StoreKept DEF StoreInv

\* Additions.
LEMMA AdditionStore ==
    ASSUME AgreeInv, StoreInv, Remember,
           NEW n \in Customs, NEW f \in CustomFiles, NEW on \in BOOLEAN,
           AddFilter(n, f, on)
    PROVE  StoreInv'
<1> DEFINE v == [file |-> f, on |-> on]
<1>1. /\ JobShape /\ TablesShape /\ DefinitionsAgree(Names \ halfway)
  BY DEF AgreeInv, ManagerInv, ManagerShape
<1>2. /\ definitions' = [definitions EXCEPT ![n] = v] /\ store' = store
      /\ n \notin NamesOf(filters)
  BY DEF AddFilter, NameFree, disk
<1>3. /\ api.pc = "idle" /\ api'.pc = "add-switch" /\ api'.name = n
  BY <1>1, PcMoves
<1> HIDE DEF v
<1>4. \A m \in Customs \ {n} : definitions'[m] = definitions[m]
  BY <1>1, <1>2 DEF TablesShape
<1>5. /\ \A m \in Customs \ unwritten : definitions[m] = store[m]
      /\ Adding(api') /\ n \in InHand(api')
  BY <1>3 DEF StoreInv, InHand, Adding
<1>6. n \notin halfway => definitions[n] = None
  <2>1. NotDefinedYet(api) = {} /\ StillDefined(api) = {} /\ n \in Names
    BY <1>3, SettledPhase, NoneIsNone DEF Settled
  <2> QED
    BY <1>1, <1>2, <2>1 DEF DefinitionsAgree
<1>7. unwritten \subseteq unwritten' /\ halfway \subseteq halfway'
  BY <1>3, UnwrittenMoves DEF Ends
<1> QED
  BY <1>2, <1>3, <1>4, <1>5, <1>6, <1>7, UnwrittenMoves DEF StoreInv

LEMMA AddSwitchStore ==
    ASSUME JobShape, StoreInv, Remember, AddSwitch
    PROVE  StoreInv'
<1>1. definitions' = definitions /\ store' = store
  BY DEF AddSwitch, disk
<1>2. /\ api.pc = "add-switch" /\ api'.pc = "add-persist"
      /\ api'.name = api.name
  BY PcMoves
<1>3. InHand(api') = InHand(api)
  BY <1>2 DEF InHand, Adding
<1>4. unwritten \subseteq unwritten' /\ halfway \subseteq halfway'
  BY <1>2, UnwrittenMoves DEF Ends
<1> QED
  BY <1>1, <1>2, <1>3, <1>4, UnwrittenMoves DEF StoreInv, Adding

\* An addition that is taken back leaves the file as it was, unless there had
\* been a definition.
LEMMA AddPersistStore ==
    ASSUME JobShape, TablesShape, StoreInv, Remember, AddPersist
    PROVE  StoreInv'
<1>1. api.pc = "add-persist" /\ api'.pc = "idle" /\ api.name \in Customs
  BY PcMoves DEF JobShape, Adding
<1>2. ~Adding(api') /\ Ends /\ Adding(api) /\ InHand(api) = {api.name}
  BY <1>1 DEF Adding, Ends, InHand
<1>3. CASE store' = definitions /\ definitions' = definitions
  BY <1>1, <1>2, <1>3, StoreKept
<1>4. CASE store' = store /\ definitions' = Undefined(api.name)
  <2>1. LeftUnwritten = Called \cap halfway
    BY <1>1, <1>2 DEF LeftUnwritten
  <2>2. api.name \in Called
    BY <1>1 DEF Called
  <2>3. ASSUME NEW n \in Customs \ (unwritten \cup LeftUnwritten)
        PROVE  definitions'[n] = store'[n]
    <3>1. CASE n = api.name
      <4>1. store[n] = None
        BY <1>2, <2>1, <2>2, <2>3, <3>1 DEF StoreInv
      <4> QED
        BY <1>4, <3>1, <4>1 DEF Undefined, TablesShape
    <3>2. CASE n # api.name
      <4>1. definitions[n] = store[n]
        BY <1>1, <1>2, <2>3, <3>2 DEF StoreInv
      <4> QED
        BY <1>4, <3>2, <4>1 DEF Undefined, TablesShape
    <3> QED
      BY <3>1, <3>2
  <2> QED
    BY <1>1, <1>2, <2>3, StoreKept
<1> QED
  BY <1>3, <1>4 DEF AddPersist, Persisted, manager

\* The other steps that change definitions.
LEMMA ChangesStore ==
    ASSUME ManagerShape, StoreInv, Remember,
           \/ \E n \in Customs, f \in CustomFiles, on \in BOOLEAN :
                 AddFilterFails(n, f, on)
           \/ \E n \in Names : Toggle(n)
           \/ UpdateSwitch \/ RemoveSwitch
    PROVE  StoreInv'
<1>1. /\ JobShape /\ TablesShape /\ api \in Job
      /\ definitions \in [Customs -> Definition \cup {None}]
  BY DEF ManagerShape, JobShape, TablesShape
<1>2. ASSUME NEW n \in Customs, NEW f \in CustomFiles, NEW on \in BOOLEAN,
             AddFilterFails(n, f, on)
      PROVE  StoreInv'
  <2>1. api.pc = "idle" /\ api' = api /\ store' = store
    BY <1>2 DEF AddFilterFails, ApiFree, disk
  <2>2. /\ LeftUnwritten = {m \in Customs : definitions'[m] # definitions[m]}
        /\ ~Adding(api)
    BY <2>1 DEF LeftUnwritten, LeftHalfway, Ends, Adding
  <2> QED
    BY <2>1, <2>2, StoreInHand
<1>3. ASSUME NEW n \in Names, Toggle(n)
      PROVE  StoreInv'
  <2>0. api.pc = "idle" /\ store' = store /\ ~Adding(api)
    BY <1>3 DEF Toggle, ApiFree, disk, Adding
  <2>1. CASE n \in Customs /\ definitions[n] # None
    <3>1. /\ api' = JobOf("persist", {}, None, "idle", n, None, Off)
          /\ \A m \in Customs \ {n} : definitions'[m] = definitions[m]
      BY <1>1, <1>3, <2>1, FilterMoves DEF Toggle
    <3>2. api'.pc = "persist" /\ api'.name = n
      BY <3>1, JobIs
    <3>3. n \in InHand(api') /\ ~Adding(api')
      BY <2>1, <3>2 DEF InHand, Adding
    <3> QED
      BY <2>0, <3>1, <3>3, StoreInHand
  <2>2. CASE ~(n \in Customs /\ definitions[n] # None)
    <3>1. api' = api /\ definitions' = definitions
      BY <1>3, <2>2 DEF Toggle
    <3> QED
      BY <2>0, <3>1, StoreLeftAlone
  <2> QED
    BY <2>1, <2>2
<1>4. ASSUME UpdateSwitch \/ RemoveSwitch
      PROVE  StoreInv'
  <2>1. api' = JobOf("persist", api.todo, api.file, api.then,
                     api.name, api.to, api.on)
    BY <1>1, <1>4, OtherMoves
  <2>2. /\ api'.pc = "persist" /\ api'.name = api.name /\ api'.to = api.to
        /\ api.pc \in {"update-switch", "remove-switch"} /\ store' = store
    BY <1>4, <2>1, JobIs DEF UpdateSwitch, RemoveSwitch, disk
  <2>3. /\ InHand(api') = {api.name, api.to} \cap Customs
        /\ ~Adding(api) /\ ~Adding(api')
    BY <2>2 DEF InHand, Adding
  <2>4. \A m \in Customs \ {api.name, api.to} :
           definitions'[m] = definitions[m]
    BY <1>1, <1>4 DEF UpdateSwitch, RemoveSwitch, Redefined, Undefined
  <2> QED
    BY <2>2, <2>3, <2>4, StoreInHand
<1> QED
  BY <1>2, <1>3, <1>4

LEMMA PersistStore ==
    ASSUME JobShape, StoreInv, Remember, Persist
    PROVE  StoreInv'
<1>1. api.pc = "persist" /\ api'.pc = "idle"
  BY PcMoves
<1>2. /\ ~Adding(api') /\ Ends
      /\ InHand(api) = Called /\ LeftUnwritten = Called
  BY <1>1 DEF Adding, Ends, InHand, Called, LeftUnwritten
<1>3. /\ definitions' = definitions
      /\ store' = definitions \/ store' = store
  BY DEF Persist, Persisted, manager
<1> QED
  BY <1>1, <1>2, <1>3, StoreKept DEF StoreInv

\* A process that starts remembers what it left out of the file.
LEMMA BootStore ==
    ASSUME JobShape, TablesShape, Remember, Boot
    PROVE  StoreInv'
<1>1. /\ api.pc = "down" /\ api'.pc = "idle" /\ store' = store
  BY PcMoves DEF Boot, disk
<1>2. unwritten' = {n \in Customs : store[n] # None /\ definitions'[n] = None}
  BY <1>1 DEF Remember, LeftUnread
<1>3. \A n \in Customs : definitions'[n] # None => definitions'[n] = store[n]
  BY StoreRead
<1> QED
  BY <1>1, <1>2, <1>3, UnwrittenMoves DEF StoreInv, Adding

\* Every step keeps the file like memory, or is remembered.
LEMMA StoreStep ==
    AgreeInv /\ StoreInv /\ [TablesNext]_tablesVars => StoreInv'
<1> SUFFICES ASSUME AgreeInv, StoreInv, [TablesNext]_tablesVars
             PROVE  StoreInv'
  OBVIOUS
<1>1. CASE UNCHANGED tablesVars
  BY <1>1 DEF tablesVars, filterVars, disk, manager, StoreInv
<1>2. ASSUME EndpointStep, Remember
      PROVE  StoreInv'
  <2>0. ManagerShape /\ JobShape /\ TablesShape
    BY DEF AgreeInv, ManagerInv, ManagerShape
  <2>1. CASE ListCall
    <3>1. definitions' = definitions /\ store' = store
      BY <2>1 DEF ListCall, WriteList, DeleteList, ReloadList, ReloadAll,
                  ViewLists, LoadSomeLists, manager, disk
    <3> QED
      BY <1>2, <2>0, <2>1, <3>1, PcMoves, StoreLeftAlone DEF Adding
  <2>2. ASSUME NEW n \in Customs, NEW to \in Customs, NEW f \in CustomFiles,
               NEW on \in BOOLEAN, UpdateFilter(n, to, f, on)
        PROVE  StoreInv'
    <3>1. definitions' = definitions /\ store' = store
      BY <2>2 DEF UpdateFilter, disk
    <3> QED
      BY <1>2, <2>0, <2>2, <3>1, PcMoves, StoreLeftAlone DEF Adding
  <2>3. ASSUME NEW n \in Customs, RemoveFilter(n) PROVE StoreInv'
    <3>1. definitions' = definitions /\ store' = store
      BY <2>3 DEF RemoveFilter, disk
    <3> QED
      BY <1>2, <2>0, <2>3, <3>1, PcMoves, StoreLeftAlone DEF Adding
  <2>4. CASE FilterCall
    BY <1>2, <2>0, <2>2, <2>3, <2>4, AdditionStore, ChangesStore DEF FilterCall
  <2>5. CASE ClearList \/ FillList \/ LoadFails \/ UpdateUnswitch
    <3>1. definitions' = definitions /\ store' = store
      BY <2>5 DEF ClearList, FillList, LoadFails, UpdateUnswitch, manager, disk
    <3>2. /\ api.pc \in {"reload", "fill", "update-unswitch"}
          /\ ~Adding(api')
      BY <2>0, <2>5, PcMoves DEF Adding
    <3> QED
      BY <1>2, <3>1, <3>2, StoreLeftAlone DEF Adding
  <2>6. CASE ApiContinues
    BY <1>2, <2>0, <2>5, <2>6, AddSwitchStore, AddPersistStore, ChangesStore,
       PersistStore DEF ApiContinues
  <2>7. CASE Crash
    BY <1>2, <2>0, <2>7, PcMoves, UnwrittenMoves DEF StoreInv, Adding
  <2>8. CASE Boot
    BY <1>2, <2>0, <2>8, BootStore
  <2> QED
    BY <1>2, <2>1, <2>4, <2>6, <2>7, <2>8 DEF EndpointStep
<1> QED
  BY <1>1, <1>2 DEF TablesNext

\* The checks begin with nothing remembered.
LEMMA NothingRemembered == TablesInit => AgreeInv /\ StoreInv
<1> SUFFICES ASSUME TablesInit PROVE AgreeInv /\ StoreInv
  OBVIOUS
<1>1. /\ AgreeInv /\ unwritten = {} /\ strayed = {}
      /\ api = JobOf("down", {}, None, "idle", None, None, Off)
  BY ManagerInit, NewJobs, Zenon DEF TablesInit, FilterInit, AgreeInv
<1>2. api.pc = "down"
  BY <1>1, JobIs
<1> QED
  BY <1>1, <1>2 DEF StoreInv, Adding

\* manager.py, _persist and _load_store: between two calls custom_filters.json
\* and memory have the same definition of every name, for any filters, failing
\* readings and writes, and any number of stored filters that a start takes
\* over, except for the names of a change that could not be written, of an
\* addition that stopped half-way, or of what a start left out.
THEOREM FilterFileFollows == TablesSpec => []StoreFollows
<1>1. TablesInit => AgreeInv /\ StoreInv
  BY NothingRemembered
<1>2. AgreeInv /\ StoreInv /\ [TablesNext]_tablesVars => (AgreeInv /\ StoreInv)'
  BY AgreeStep, StoreStep
<1>3. StoreInv => StoreFollows
  <2> SUFFICES ASSUME StoreInv, api.pc = "idle" PROVE StoreFollows
    BY DEF StoreFollows
  <2>1. InHand(api) = {}
    BY DEF InHand, Adding
  <2> QED
    BY <2>1 DEF StoreInv, StoreFollows
<1> QED
  BY <1>1, <1>2, <1>3, PTL DEF TablesSpec

-----------------------------------------------------------------------------
(* The lists that filters read.                                            *)

\* A definition, if there is one, names a list that is there.
Reads(v, fs) == v # None => fs[v.file] # None

LEMMA OutliveByTables ==
    ListsOutliveFilters <=>
        \A n \in Customs \ strayed :
            Reads(definitions[n], files) /\ Reads(store[n], files)
BY Zenon DEF ListsOutliveFilters, Reads

\* Steps that leave every name of memory and of the store its list.
LEMMA FilesKept ==
    ASSUME ListsInv, Remember,
           \A n \in Customs \ strayed :
              Reads(definitions[n], files) /\ Reads(store[n], files) =>
                 Reads(definitions'[n], files') /\ Reads(store'[n], files')
    PROVE  ListsOutliveFilters'
<1>1. strayed \subseteq strayed'
  BY UnwrittenMoves
<1>2. \A n \in Customs \ strayed' :
         Reads(definitions'[n], files') /\ Reads(store'[n], files')
  BY <1>1, OutliveByTables DEF ListsInv
<1> QED
  BY <1>2 DEF ListsOutliveFilters, Reads

\* Steps that leave the files alone.
LEMMA FilesLeftAlone ==
    ASSUME ListsInv, Remember, files' = files,
           \A n \in Customs \ strayed :
              Reads(definitions[n], files) /\ Reads(store[n], files) =>
                 Reads(definitions'[n], files) /\ Reads(store'[n], files),
           \/ ~Updating(api')
           \/ filters' = filters /\ Updating(api) /\ api'.to = api.to
    PROVE  ListsInv'
<1>1. ListsOutliveFilters'
  BY FilesKept
<1> QED
  BY <1>1 DEF ListsInv

\* What becomes of the definitions that are taken back.
LEMMA TakenBack ==
    ASSUME TablesShape, NEW n \in Customs, NEW m \in Customs
    PROVE  Reads(definitions[m], files) => Reads(Undefined(n)[m], files)
BY DEF Reads, Undefined, TablesShape

LEMMA ListCallFiles ==
    ASSUME ManagerShape, StoreInv, ListsInv, Remember, ListCall
    PROVE  ListsInv'
<1>1. /\ JobShape /\ TablesShape
      /\ files \in [Files -> (SUBSET Domains) \cup {None}]
      /\ definitions' = definitions /\ store' = store
  BY DEF ManagerShape, TablesShape, ListCall, WriteList, DeleteList, ReloadList,
         ReloadAll, ViewLists, LoadSomeLists, disk, manager
<1>2. ~Updating(api') /\ api.pc = "idle"
  BY <1>1, PcMoves
<1>3. \A n \in Customs \ strayed : definitions[n] = store[n]
  BY <1>2 DEF StoreInv, InHand, Adding
<1>4. \A n \in Customs : definitions[n] # None => definitions[n].file \in Files
  BY <1>1, NoneIsNone DEF TablesShape, Definition
<1>5. ASSUME files' = files PROVE ListsInv'
  BY <1>1, <1>2, <1>5, FilesLeftAlone
<1>6. ASSUME \A n \in Customs \ strayed :
                Reads(definitions[n], files) => Reads(definitions[n], files')
      PROVE  ListsInv'
  <2>1. ListsOutliveFilters'
    BY <1>1, <1>3, <1>6, FilesKept
  <2> QED
    BY <1>2, <2>1 DEF ListsInv
<1>7. ASSUME NEW f \in CustomFiles, NEW c \in SUBSET Domains, WriteList(f, c)
      PROVE  ListsInv'
  <2>1. \A g \in Files : files'[g] = None => files[g] = None
    BY <1>1, <1>7, NoneIsNone DEF WriteList
  <2> QED
    BY <1>4, <1>6, <2>1 DEF Reads
<1>8. ASSUME NEW f \in CustomFiles, DeleteList(f)
      PROVE  ListsInv'
  <2>1. \A g \in Files \ {f} : files'[g] = files[g]
    BY <1>1, <1>8 DEF DeleteList
  <2>2. \A n \in Customs : definitions[n] # None => definitions[n].file # f
    BY <1>8 DEF DeleteList, Unused
  <2> QED
    BY <1>4, <1>6, <2>1, <2>2 DEF Reads
<1>9. ASSUME \/ \E f \in Files : ReloadList(f)
             \/ ReloadAll \/ ViewLists \/ LoadSomeLists
      PROVE  ListsInv'
  BY <1>5, <1>9 DEF ReloadList, ReloadAll, ViewLists, LoadSomeLists, disk
<1> QED
  BY <1>7, <1>8, <1>9 DEF ListCall

LEMMA FilterCallFiles ==
    ASSUME ManagerShape, ListsInv, Remember, FilterCall
    PROVE  ListsInv'
<1>1. /\ JobShape /\ TablesShape /\ ListOK(filters) /\ api \in Job
      /\ definitions \in [Customs -> Definition \cup {None}]
  BY DEF ManagerShape, JobShape, TablesShape, ListShape
<1>2. ASSUME NEW n \in Customs, NEW f \in CustomFiles, NEW on \in BOOLEAN,
             AddFilter(n, f, on) \/ AddFilterFails(n, f, on)
      PROVE  ListsInv'
  <2> DEFINE v == [file |-> f, on |-> on]
  <2>1. /\ definitions' = [definitions EXCEPT ![n] = v] /\ store' = store
        /\ files' = files /\ files[f] # None
    BY <1>2 DEF AddFilter, AddFilterFails, disk
  <2>2. ~Updating(api')
    BY <1>1, <1>2, PcMoves DEF Updating
  <2>3. v.file = f
    OBVIOUS
  <2> HIDE DEF v
  <2>4. \A m \in Customs :
           Reads(definitions[m], files) => Reads(definitions'[m], files)
    BY <1>1, <2>1, <2>3 DEF Reads
  <2> QED
    BY <2>1, <2>2, <2>4, FilesLeftAlone
<1>3. ASSUME NEW n \in Customs, NEW to \in Customs, NEW f \in CustomFiles,
             NEW on \in BOOLEAN, UpdateFilter(n, to, f, on)
      PROVE  ListsInv'
  <2> DEFINE x == [name |-> to, file |-> f]
  <2>1. /\ definitions' = definitions /\ store' = store
        /\ files' = files /\ files[f] # None
        /\ to = n \/ to \notin NamesOf(filters)
        /\ n \in NamesOf(filters)
        /\ filters' = [i \in DOMAIN filters |->
                          IF filters[i].name = n THEN x ELSE filters[i]]
    BY <1>3 DEF UpdateFilter, NameFree, disk
  <2>2. api'.to = to
    BY <1>1, <1>3, PcMoves
  <2>3. Range(filters') = {y \in Range(filters) : y.name # n} \cup {x}
    BY <1>1, <2>1, ReplacedInPlace
  <2>4. \A y \in Range(filters') : y.name = to => files[y.file] # None
    <3>1. \A y \in Range(filters) : y.name \in NamesOf(filters)
      BY <1>1, ListMembers
    <3>2. x.file = f
      OBVIOUS
    <3> HIDE DEF x
    <3> QED
      BY <2>1, <2>3, <3>1, <3>2
  <2>5. ListsOutliveFilters'
    BY <2>1, FilesKept
  <2> QED
    BY <2>1, <2>2, <2>4, <2>5 DEF ListsInv
<1>4. ASSUME NEW n \in Customs, RemoveFilter(n) PROVE ListsInv'
  <2>1. UNCHANGED <<files, store, definitions>>
    BY <1>4 DEF RemoveFilter, disk
  <2>2. ~Updating(api')
    BY <1>1, <1>4, PcMoves DEF Updating
  <2> QED
    BY <2>1, <2>2, FilesLeftAlone
<1>5. ASSUME NEW n \in Names, Toggle(n) PROVE ListsInv'
  <2>1. UNCHANGED <<files, store>> /\ api.pc = "idle"
    BY <1>5 DEF Toggle, ApiFree, disk
  <2>2. ~Updating(api')
    BY <1>1, <1>5, <2>1, PcMoves DEF Updating
  <2>3. CASE n \in Customs /\ definitions[n] # None
    <3>1. PICK on \in BOOLEAN :
             definitions' = [definitions EXCEPT ![n].on = on]
      <4>1. (enabled[n] # TRUE) \in BOOLEAN
        BY Zenon
      <4> QED
        BY <1>5, <2>3, <4>1, Zenon DEF Toggle
    <3>2. PICK f \in CustomFiles, o \in BOOLEAN :
             definitions[n] = [file |-> f, on |-> o]
      BY <1>1, <2>3 DEF Definition
    <3> DEFINE w == [definitions[n] EXCEPT !.on = on]
    <3>3. w.file = definitions[n].file
      BY <3>2
    <3>4. definitions' = [definitions EXCEPT ![n] = w]
      BY <3>1, Zenon
    <3> HIDE DEF w
    <3>5. \A m \in Customs :
             Reads(definitions[m], files) => Reads(definitions'[m], files)
      BY <1>1, <2>3, <3>3, <3>4 DEF Reads
    <3> QED
      BY <2>1, <2>2, <3>5, FilesLeftAlone
  <2>4. CASE ~(n \in Customs /\ definitions[n] # None)
    <3>1. definitions' = definitions
      BY <1>5, <2>4 DEF Toggle
    <3> QED
      BY <2>1, <2>2, <3>1, FilesLeftAlone
  <2> QED
    BY <2>3, <2>4
<1> QED
  BY <1>2, <1>3, <1>4, <1>5 DEF FilterCall

LEMMA ApiContinuesFiles ==
    ASSUME ManagerShape, ListsInv, Remember, ApiContinues
    PROVE  ListsInv'
<1>1. /\ JobShape /\ TablesShape /\ ListOK(filters)
      /\ definitions \in [Customs -> Definition \cup {None}]
  BY DEF ManagerShape, TablesShape, ListShape
<1>2. files' = files
  BY DEF ApiContinues, ClearList, FillList, LoadFails, AddSwitch, AddPersist,
         UpdateUnswitch, UpdateSwitch, RemoveSwitch, Persist, disk
<1>3. CASE ClearList \/ FillList \/ LoadFails
  <2>1. UNCHANGED <<store, definitions, filters>>
    BY <1>3 DEF ClearList, FillList, LoadFails, disk, manager
  <2>2. LoadFails => ~Updating(api')
    BY <1>1, PcMoves DEF Updating
  <2>3. Updating(api') => Updating(api) /\ api'.to = api.to
    BY <1>1, <1>3, <2>2, PcMoves
  <2> QED
    BY <1>2, <2>1, <2>3, FilesLeftAlone
<1>4. CASE AddSwitch
  <2>1. UNCHANGED <<store, definitions>>
    BY <1>4 DEF AddSwitch, disk
  <2>2. ~Updating(api')
    BY <1>1, <1>4, PcMoves DEF Updating
  <2> QED
    BY <1>2, <2>1, <2>2, FilesLeftAlone
<1>5. CASE AddPersist
  <2>1. ~Updating(api') /\ api.name \in Customs
    BY <1>1, <1>5, PcMoves DEF Updating, JobShape, Adding
  <2>2. \/ store' = definitions /\ definitions' = definitions
        \/ store' = store /\ definitions' = Undefined(api.name)
    BY <1>5 DEF AddPersist, Persisted, manager
  <2> QED
    BY <1>1, <1>2, <2>1, <2>2, TakenBack, FilesLeftAlone
<1>6. CASE UpdateUnswitch
  <2>1. UNCHANGED <<store, definitions, filters>>
    BY <1>6 DEF UpdateUnswitch, disk
  <2>2. Updating(api) /\ api'.to = api.to
    BY <1>1, <1>6, PcMoves DEF Updating
  <2> QED
    BY <1>2, <2>1, <2>2, FilesLeftAlone
<1>7. CASE UpdateSwitch
  <2> DEFINE v == [file |-> FileOf(api.to), on |-> api.on]
  <2>1. /\ definitions' = [definitions EXCEPT ![api.name] = None, ![api.to] = v]
        /\ store' = store
    BY <1>7 DEF UpdateSwitch, Redefined, disk
  <2>2. /\ ~Updating(api') /\ Updating(api)
        /\ api.name \in Customs /\ api.to \in Customs
    BY <1>1, <1>7, PcMoves DEF Updating, JobShape
  <2>3. files[FileOf(api.to)] # None
    <3>1. api.to \in NamesOf(filters)
      BY <2>2 DEF ManagerShape, NamesAtHand
    <3>2. PICK x \in Range(filters) : x.name = api.to /\ x.file = FileOf(api.to)
      BY <1>1, <3>1, FileOfListed
    <3> QED
      BY <2>2, <3>2 DEF ListsInv
  <2>4. v.file = FileOf(api.to)
    OBVIOUS
  <2> HIDE DEF v
  <2>5. \A m \in Customs :
           definitions'[m] = IF m = api.to THEN v
                             ELSE IF m = api.name THEN None ELSE definitions[m]
    BY <1>1, <2>1, <2>2
  <2>6. \A m \in Customs :
           Reads(definitions[m], files) => Reads(definitions'[m], files)
    BY <2>2, <2>3, <2>4, <2>5 DEF Reads
  <2> QED
    BY <1>2, <2>1, <2>2, <2>6, FilesLeftAlone
<1>8. CASE RemoveSwitch
  <2>1. ~Updating(api') /\ api.name \in Customs
    BY <1>1, <1>8, PcMoves DEF Updating, JobShape, Removing
  <2>2. store' = store /\ definitions' = Undefined(api.name)
    BY <1>8 DEF RemoveSwitch, disk
  <2> QED
    BY <1>1, <1>2, <2>1, <2>2, TakenBack, FilesLeftAlone
<1>9. CASE Persist
  <2>1. ~Updating(api')
    BY <1>1, <1>9, PcMoves DEF Updating
  <2>2. definitions' = definitions /\ store' \in {store, definitions}
    BY <1>9 DEF Persist, Persisted, manager
  <2> QED
    BY <1>2, <2>1, <2>2, FilesLeftAlone
<1> QED
  BY <1>3, <1>4, <1>5, <1>6, <1>7, <1>8, <1>9 DEF ApiContinues

\* Every step leaves the filters their lists.
LEMMA ListsStep ==
    AgreeInv /\ StoreInv /\ ListsInv /\ [TablesNext]_tablesVars => ListsInv'
<1> SUFFICES ASSUME AgreeInv, StoreInv, ListsInv, [TablesNext]_tablesVars
             PROVE  ListsInv'
  OBVIOUS
<1>1. CASE UNCHANGED tablesVars
  BY <1>1 DEF tablesVars, filterVars, disk, manager, ListsInv,
              ListsOutliveFilters
<1>2. ASSUME EndpointStep, Remember
      PROVE  ListsInv'
  <2>0. ManagerShape /\ JobShape /\ TablesShape
    BY DEF AgreeInv, ManagerInv, ManagerShape
  <2>1. CASE Crash
    <3>1. /\ files' = files /\ store' = store /\ definitions' = NoDefinitions
          /\ api'.pc = "down"
      BY <2>0, <2>1, PcMoves DEF Crash, disk
    <3>2. /\ \A n \in Customs : Reads(definitions'[n], files)
          /\ ~Updating(api')
      BY <3>1, NothingThere DEF Reads, Updating
    <3> QED
      BY <1>2, <3>1, <3>2, FilesLeftAlone
  <2>2. CASE Boot
    <3>1. /\ files' = files /\ store' = store /\ api'.pc = "idle"
          /\ \A n \in Customs :
                definitions'[n] # None => definitions'[n] = store[n]
      BY <2>0, <2>2, PcMoves, StoreRead DEF Boot, disk
    <3>2. \A n \in Customs :
             Reads(store[n], files) => Reads(definitions'[n], files)
      BY <3>1 DEF Reads
    <3> QED
      BY <1>2, <3>1, <3>2, FilesLeftAlone DEF Updating
  <2> QED
    BY <1>2, <2>0, <2>1, <2>2, ListCallFiles, FilterCallFiles,
       ApiContinuesFiles DEF EndpointStep
<1> QED
  BY <1>1, <1>2 DEF TablesNext

\* management.py, delete_custom_blocklist: no filter whose definition memory
\* and custom_filters.json have always shared between calls reads a list that
\* was deleted, for any filters, lists, failing readings and writes, stored
\* filters and restarts.
THEOREM DeletedListsUnused == TablesSpec => []ListsOutliveFilters
<1>1. TablesInit => AgreeInv /\ StoreInv /\ ListsInv
  <2> SUFFICES ASSUME TablesInit PROVE AgreeInv /\ StoreInv /\ ListsInv
    OBVIOUS
  <2>1. /\ filters = << >> /\ store = NoDefinitions
        /\ definitions = NoDefinitions
    BY DEF TablesInit, FilterInit
  <2>2. Range(filters) = {}
    BY <2>1, EmptyList
  <2> QED
    BY <2>1, <2>2, NothingRemembered, NothingThere
       DEF ListsInv, ListsOutliveFilters
<1>2. AgreeInv /\ StoreInv /\ ListsInv /\ [TablesNext]_tablesVars
         => (AgreeInv /\ StoreInv /\ ListsInv)'
  BY AgreeStep, StoreStep, ListsStep
<1>3. ListsInv => ListsOutliveFilters
  BY DEF ListsInv
<1> QED
  BY <1>1, <1>2, <1>3, PTL DEF TablesSpec
=============================================================================
