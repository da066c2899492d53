# SentinelDNS: a TLA+ development

SentinelDNS is one Python process that runs a filtering DNS server, a DHCP
server and a web application for administration. This directory holds TLA+
modules that model its state machines, TLC configurations that check them on
small instances, and TLAPS proofs of what matters most for instances of any
size. File names below are relative to the repository.

## 1. The system

| Part | State | Operations | Interacts with |
|---|---|---|---|
| DHCP pool (`dhcp/pool.py`) | `_allocated`, `_reserved` | `allocate`, `allocate_specific`, `release`, `reserve`, `unreserve` | called by the lease manager and, behind its back, by the control API |
| DHCP lease manager (`dhcp/lease_manager.py`) | `_leases_by_client`, `_leases_by_ip` | `get_by_client`, `get_by_ip`, `create`, `create_specific`, `renew`, `release`, `expire_leases`, `clear` | pool; called by the DHCP thread |
| Static reservations (`dhcp/reservation.py`) | `_by_client`, `_by_ip` | `add`, `update`, `remove_*`, `clear` | DHCP thread reads, control API writes |
| Lease storage, control tables (`dhcp/storage.py`, `database/models/dhcp_*.py`) | three tables with unique columns | `save`, `delete`, commits | DHCP thread, control API |
| DHCP server (`dhcp/server.py`, `dhcp/persistent_controls.py`) | the packet at hand | one handler per packet type, start-up | everything above; clients over UDP |
| DHCP control API (`backend/api/clients.py`) | none of its own | reserve, exclude, both removals | tables, reservations, pool |
| DNS cache (`dns_engine/cache.py`) | an `OrderedDict`, two counters | `lookup`, `store`, `clear`, `remove_expired` | DNS thread only |
| DNS filters and block lists (`dns_engine/filters`, `blocklist*.py`, endpoints of `backend/api/management.py`) | filter list, switches, definitions, loaded lists, files on disk | evaluate; add, update, remove, toggle; create, update, delete, reload | DNS thread evaluates while the event loop changes |
| DNS resolver and upstream (`dns_engine/resolver.py`, `upstream.py`, transports, `apply_upstream`) | active upstream, configuration file | resolve; build, save, replace, close | DNS thread against event loop |
| Metrics (`dns_engine/metrics.py`) | counters, latency, one-second buckets | record, snapshot | DNS thread writes, worker threads of the web application read |
| Query log (`dns_engine/query_log.py`) | a bounded deque, a file of one line per query | record, clean up, load | DNS thread writes, web application reads, the next process loads |
| Authentication (`backend/security`, `backend/api/auth.py`, `services/authentication_service.py`) | the row of the administrator (TOTP secret, whether it is enabled), two cookies per browser, the session of the process | login, enrol, confirm, logout; the check in front of every page | one worker thread per request; the browser and the authenticator outside |
| Process (`main.py`, `start` and `stop` of both servers) | per server a flag, a socket, a thread | start, serve, stop, join | the owner of the thread against the thread |
| Wire formats (`dns_engine/parser.py`, `dhcp/packet.py`, `dhcp/options.py`) | none between packets | parse, build | the packet threads |
| Read-only pages, scheduler stub, schemas, front end, migrations | none that matters here | | |

**What is hard here.** Two threads (DHCP or DNS on one side, the event loop on
the other) share objects with fine-grained locks or none; each handler of the
web application runs to its end without giving way to another handler, but the
packet thread moves between any two of its steps. (The endpoints of
`auth.py` are plain functions and do run side by side, in worker threads.)
Clients lose, repeat and abandon packets, and packets overtake each other;
browsers receive answers late or never. Leases end between a lookup and its
use. Writes to the database fail after memory was changed, and an `UPDATE`
writes what was read before another request committed. `stop()` meets a server
at any statement of `start()` and of its loop. The process can end between any
two steps, and only part of its state is restored.

**What makes each part correct.** The pool, the dictionaries and the
reservations agree with each other; an address has one user; what was
acknowledged was saved; controls in memory are the controls in the tables;
every packet is finished; the cache evicts what is unused for longest and
never extends a time to live; the filters block what they list, whatever the
administrator edits meanwhile; a failed reconfiguration leaves the old upstream
active; counters add up; a packet is read as it was written; access goes back
to a recent password and ends with a logout; a thread serves until it is
stopped, and the shutdown ends.

## 2. Modules

`DHCPPool` holds the arithmetic of the pool as operators on its two sets.
`DHCPLeaseManager` extends it with the manager's state and one action per
outcome of every public method. `DHCPReservations` is the same for the
reservations. `DHCPServer` composes both (the first by extension, the second by
`INSTANCE`) with the tables, the DHCP thread, the control API, the clients and
crashes. `LeaseLedger` is the abstract specification: the leases the clients
hold, and nothing else. `DNSFilters` models which domains are blocked while
filters and lists are edited. `DNSResolver` composes the path of a query: it
takes `DNSCache` in by `INSTANCE`, reduces `DNSFilters` to the set of domains
that are blocked at the moment, and adds the upstream and its replacement.
`DNSMetrics` and `DNSQueryLog` model what the same thread records.
`DHCPWire` and `DNSParser` are the wire formats, `ServerLife` the life of both
servers, `Sessions` authentication. `Subsequences` is what `DNSCache`,
`DNSQueryLog` and `DHCPWire` share: taking some elements out of a sequence
(`Picked`), which stands for a list comprehension or for deleting from an
`OrderedDict`, and the place of an element among those taken (`Rank`), without
recursion, so that they can be proved about. `DataLemmas` holds what several
proofs need to know of naturals and sequences. An `MC` module adds what only the
checks need: history variables, references to compare with, and symmetry.

`MCServerParts` and `MCDNSParts` explore four parts each that have no state in
common and are driven by their callers only (lease manager, reservations,
packets and threads; parser, cache, metrics and query log). The variable `part`
is chosen at the start and never changes: the other parts stay at their first
state, so that the state graph is the sum of the four and not their product,
and every part is explored as fully as by itself.

### DHCPPool, DHCPLeaseManager

| Model | Code |
|---|---|
| `lm.byClient`, `lm.byIp` | `_leases_by_client`, `_leases_by_ip` |
| `lm.allocated` | `pool._allocated` |
| `excluded` | `pool._reserved` (the API calls these exclusions) |
| `now` | `time.time()` |
| `Swept` | the expiry clean-up at the head of the lookups |
| `Create…`, `CreateSpecific…`, `Renew`, `RenewNotFound`, … | the outcomes of `create`, `create_specific`, `renew`, … |

Every method holds the manager's lock from its first access to its last, so it
is one action. A lease is a record; renewal mutates the object in place, which
`Renewed` models by changing every dictionary entry that is that object. Times
are integers in an arbitrary unit. One method reads the clock more than once;
the only place where that shows, a lease that ends between the two readings of
`create_specific`, is an action of its own (`CreateSpecificLapses`).
`CreateReuses`, `CreateSpecificRenews` and `CreateSpecificLapses` cannot happen
when the DHCP server is the caller, because it looks for a running lease first;
they are part of the manager's own specification.

### DHCPReservations

`CanonicalId` is `normalize_client_id` as an arbitrary function from spellings
to keys.

### DHCPServer

One step of the DHCP thread is one call that takes a lock or commits a
transaction: `thread.pc` names the next one and `thread.packet` is the packet
at hand. The lease at hand is always the client's entry in the manager
(`myLease`), since the code keeps the object. The control API is `api`, in the
same style; its handlers contain no `await`, so at most one is under way. The
tables are functions: `leaseRows` (unique in the client by its type, in the
address by `RowFits`), `reservationRows`, `exclusionRows`. `Database` says
whether a write may fail.

The network: `inbox` holds the packets on their way and in the socket's buffer;
a packet may be lost, and where `Reordered` is true a packet may overtake an
older one. `replies` are ACKs and NAKs under way; a reply that is lost is one the
client never receives. A client that sends a packet starts a new transaction
and ignores older replies (`stale`). A client uses an address (`bound`) from
the ACK to the end of its lease, to its next DISCOVER, RELEASE or DECLINE, or
to a NAK. It counts the lease to the server's own end, the latest it can be
entitled to; a real client stops no later, so the conflicts found or excluded
include those of real clients.

A crash forgets the memory of the process and the socket's buffer; `Boot`
restores exclusions and reservations from the tables, and no leases, as the
code does. Option 61 may spell the bytes of another client's MAC address, so
`CanonicalId` need not tell clients apart; of rows that clash
in it or in their address, `Boot` loads the one that the query returns first and
skips the others (`Loadable`, `Loaded`). That the API never lets such rows into the table is a
result (`RowsUnique` in the proofs), not a premise. `ControlsFollowTables` is
judged in both directions: every row is in memory, and what is in memory has a
row.

The model has `load_persistent_controls` and the control API work on
the DHCP server, which is what both are written for. At this commit `main.py:344`
hands them the DNS server, which has neither a pool nor reservations, so that
every record is skipped with a warning and every call of the API fails: a defect
of the wiring that shows at the first call.

### DHCPWire

One packet from its arrival to the client's reading of the reply: the octets of
its options (one step per turn of the loop of `parse_options`), what
`handle_packet` takes it for, the options and timers of the reply, and where
`_send_response` sends it. Which address the client gets is the business of
`DHCPServer`; here the handlers answer with a lease or refuse it. Of the fixed
header the parts remain that decide something: its size, the cookie and the
broadcast flag. The client reads the reply by the same loop. A lease time whose four octets do
not suffice raises before anything is sent (`Packable`, `Silent`); TLC's integers
are too narrow to get there, the proof is not. `MCDHCPWire` says which options a
field is made of without a loop: an option begins where the one before it ends
(`Begins`), the whole ones among them are `Written`, and `OptionAt` is what such
an option says.

### ServerLife

| Model | Code |
|---|---|
| `running[s]` | `_running` of the DNS server, the inverse of `_stop_event` of the DHCP server |
| `held[s]`, `socket[s]` | whether `self.socket` is set; the socket itself |
| `thread[s]` | the statement of `start` or `serve_forever` |
| `stopping[s]`, `taken` | the statement of `stop()`, for the owner and for the thread (`finally: self.stop()`); its local variable |
| `owner[s]` | `lifespan` of `main.py`: up, stopping, in `join(timeout=2.0)`, done |

One action is one access to something the two threads share. The DHCP server
has a lock, which its loop does not take. The program starts no DHCP server;
its `start` and `stop` are modelled with an owner like that of the DNS server.

### LeaseLedger

A client is granted an address nobody else holds, gives it up, or its lease
runs out. `KeepsLedger` states that the service implements it under `leased <-
bound`, `clock <- now`; `LedgerExclusive` proves that the ledger never gives one
address to two clients.

### DNSParser, MCDNSParser

`parse` and `_read_domain` octet by octet: labels, compression pointers with the
limit of jumps and the set of places already followed to, the limit of the
length, the type and class behind the name. `MCDNSParser` says what the name of a
packet is independently, against which every outcome is judged: the names that
begin at the offsets of a packet and have at most so many labels and pointers
are a function of those with one less (`Names`, `OneStepMore`), and a name with
more than the two limits together (`NameAt`) is beyond one of them. It knows no
loops of pointers, no set of places and no position to return to. The packets are
all those with a question of up to `MaxQuestion` octets, and limits that are
small enough to be reached in them.

### DNSCache, MCDNSCache

The `OrderedDict` is a function and a sequence. `MCDNSCache` records beside it
a stamp per use, independent of the order, against which eviction is judged.

### DNSFilters, MCDNSFilterWalk, MCDNSFilterTables, MCDNSFilters

| Model | Code |
|---|---|
| `filters`, `enabled`, `definitions` | the three tables of `FilterManager` |
| `loaded` | `BlocklistRegistry` with the set of each loader |
| `files`, `store` | the block lists on disk, `custom_filters.json` |
| `walk` | `evaluate`, one step per filter, switch and list |
| `api` | the endpoint under way, and where it is |

An endpoint is one action up to its first change that the DNS thread can see,
and one more for every further change. `load()` empties its set and adds the
domains one at a time (`ClearList`, `FillList`). `remove_custom_filter` makes a
new list, so a walk under way keeps the old one (`walk.list`); additions and
replacements change the list in place. `_persist` either writes or leaves the
store as it was; only an addition is taken back in memory (`AddPersist`).

A list that cannot be opened or decoded ends the endpoint where it reads it
(`LoadFails`): a loader that is reloaded keeps what it has got so far, a list
that is read for the first time gets no loader. An addition has entered its
definition by then (`AddFilterFails`, `manager.py:177`), a replacement has
replaced the filter (`manager.py:201`), and neither is taken back.

`Boot` builds the manager from the store, of which the first `MaxStored` filters
are read (`raw[:100]`, `manager.py:87`), or none if the file cannot be read
(`ReadNames`); nothing limits how many are written. A list that cannot be read
keeps the process from starting. The position of a filter in the list is the
place of its name (`PositionOf`): names are unique there, which is an invariant
and not assumed. The order of the stored filters, and which built-in filter comes
first, are left open. The built-in filters that block nothing are left out.

`MCDNSFilterWalk` remembers which filters have stood in the way of the walk's
domain since the walk began (`standing`). `MCDNSFilterTables` leaves the walk out
and remembers what endpoints leave half done: lists whose loader was cleared by a
reading that failed (`misread`), names of calls that a failing reading has ended
half-way (`halfway`), names whose definitions memory and the store need not share
(`unwritten`), and those that ever were such (`strayed`). `MCDNSFilters` explores
both kinds of behaviours in one run.

### DNSResolver, MCDNSResolver

| Model | Code |
|---|---|
| `query` | `resolve`: the packet at hand and the step it is at |
| `counters` | `DNSMetrics`; `counters.codes` are the response codes |
| `upstreams`, `active` | the `DNSUpstream` objects of this process, `resolver.upstream` |
| `Configs`, `api.request` | the `UpstreamConfiguration` that the page sends |
| `config` | the upstream part of `config.yaml` |
| `api` | `apply_upstream` |

`Capture` and `Ask` are two steps because `_upstream_lock` is released between
them. `Ask` takes the lock of the upstream, and `ApplyClose` waits for it. A
closed client can only fail; UDP and DoT clients have nothing to close
(`Plain`). An open one answers with a response code, or fails: timeouts,
refused connections and responses that do not validate are one case. All the
codes that `record_rcode` does not tell apart are `"other"`.

The way from the page to an upstream and the way through the file differ.
`Built`: `_build_upstream` strips the host of blanks (and of a dot at its end)
and takes the largest response of the transport in question. `Saved`:
`_save_upstream_configuration` writes the host as it was sent, and of the sizes
that of UDP. `LoadedAtBoot`: `DNSUpstream()` takes both from the file as they
are, the size for whatever transport. `Loadable`: a provider with blanks around
its name, or one that the administrator described, is not found. Timeouts and
ports are saved and loaded as they are used, and left out. Only the
DNS thread touches the cache, so a lookup and the counting of its outcome are
one step; the counters are read by snapshots and by nothing else.
`None` stands for no entry, no upstream, no domain; `ResolverAssumption` has it
distinct from what it stands beside. Of a response its code is kept:
transaction IDs and record types are left out (see section 4). `MCDNSResolver`
remembers when each domain was last open to queries.

### Sessions, MCSessions

| Model | Code |
|---|---|
| `account` | `totp_secret`, `totp_enabled` of the administrator's row |
| `session` | `server_session_id`, new with every process |
| `jar[b]` | the two cookies of a browser, with their ends |
| `task[q]` | a request in its worker thread, or its answer on the way |
| `phone` | the secrets the user's authenticator knows |
| `out`, `overlapped` | history: browsers without a login since their logout or a restart; whether a row was written that had changed since it was read |

A request reads the row when it begins (`get_db` and the dependency that finds
the user), and writes it when it commits, with the columns that differ from what
it read (`Flushed`). Login and logout write nothing, so they are an answer at
once. An answer changes the browser when it arrives, in any order, or is lost.
The clock does not move between reading the row and the commit: its unit is a
quarter of an hour (`SessionTick`).

### DNSMetrics, MCDNSMetrics

`bucket` is the bucket of the running second, `history` both deques of the
buckets before it (they are always changed together), `totals` the sums. Every
method reads the clock before it waits for the lock, so each is two actions,
`Begin…` and the rest, with the reading between them; the second one puts away
old buckets (`Rotated`, `PutAway`) before it counts. `MCDNSMetrics` records under
which readings the counts were made, and whether a reading was ever used after
a later one. A sum of counts is the size of a set with one element for each unit
(`Units`, `Total`).

### DNSQueryLog, MCDNSQueryLog

`file.lines` are the complete lines, `file.tail` is what follows the last
newline: nothing, a torn record, or a record that lacks only its newline. What
is appended behind a tail becomes one unreadable line with it (`Appended`).
`record()` is three actions, for the process may end between them; in memory it
is one critical section. `Load` is the start of the next process.
`MCDNSQueryLog` remembers which records became lines of their own, the last
clean-up that succeeded, and whether the process could read the file.

## 3. Runs

| Run | What it asks | Bounds |
|---|---|---|
| `server_parts` | Lease manager: do the dictionaries, the pool and the exclusions stay together, and do running leases stay where they are? Reservations: are the dictionaries inverse? Packets: is an options field read as it is written, and can a reply be read back? Threads: what ends a thread, and does every shutdown end? | 3 pool addresses, 1 outside, 4 clients, lease time 2, clock to 6; 4 clients of which one is spelled two ways; fields of up to 5 octets (`MaxField`) or 3 options; lease times of 1, 2, 3 and 600 seconds; both servers, unbounded |
| `dhcp_restart` | Is any address ever used by two clients, whatever the database refuses; and what is left of that when the process forgets its leases? | 2 clients, 2 addresses, lease time 2, clock to 3, 1 packet at the server, 1 crash, a failing database |
| `dhcp_grants` | Does the service implement the ledger? | the same with 2 packets, no crash and a working database |
| `dhcp_controls` | Do exclusions and reservations stay consistent with the tables and with the leases? | 1 address, 2 clients, control API, 1 crash, failing database |
| `dhcp_answers` | Is every packet finished, and every request answered that its client waits for? | 1 client, 1 address, 2 packets in any order, control API, 1 crash, working database |
| `dhcp_reserved` | A claim that does not hold (finding) | 2 clients, 2 addresses, no crash |
| `dns_filters` | Is a filter ever skipped while the list is edited? Do tables, loaded lists and store agree, whatever cannot be read or written? Can a list be deleted under a filter? | 1 domain, 1 built-in and 2 custom filters, 1 custom list, failing reads and writes; 1 stored filter is read at a start; beside a walk no crash, without it 2 |
| `dns_resolver` | Do the counters add up, how long is a blocked domain still answered, is the right upstream open and no other, do queries and replacements end? | 1 domain, 3 queries, 2 codes, time to live 2, clock to 3; 3 configurations (UDP with a blank at its server, DoH without and with one), sizes 1 and 2, 3 upstreams per process, failing saves, 1 crash |
| `dns_custom_restart` | A claim that does not hold (finding) | 2 configurations, 1 crash |
| `dns_parts` | Parser: which packets are accepted, and as what? Cache: eviction, order and time to live. Metrics: are the buckets shown right in whatever order threads get the lock? Query log: what survives failing writes and the end of the process? | questions of up to 4 of 10 octets, at most 5 octets of name and 3 jumps; 3 domains, capacity 2, time to live 2, 5 uses; 1 reader beside the DNS thread, 3 queries, history of 2, clock to 4; 2 entries in memory, 5 records, retention 2, clock to 5, 2 ends of the process |
| `sessions` | Does access go back to a recent password, does it end, and can an administrator be locked out? | 1 browser, 3 requests at a time, lifetime 2, clock to 4, 2 secrets, 1 restart |
| `enrollment` | A claim that does not hold (finding) | 2 requests at a time |

Two clients and two addresses are enough for the conflicts: they concern two
clients and one address, and the second address gives the refused client
somewhere to go. One address in `dhcp_controls` makes every control and every
lease meet. Two packets let a client's older packet be processed after a newer
one was sent. The clock outlives one lease, so that leases are renewed, end and
are granted again. Two custom filters beside a built-in one are enough for a
walk to be overtaken on either side; the custom list can be deleted, created
again and attached by either filter, and the built-in one is always there. With
one stored filter that is read and two that can be written, a start leaves one
out; the second crash meets what was written behind that start. A walk ends with
its process and no endpoint looks at it, so that crashes are explored without
walks.
Three queries in `dns_resolver` are one to fill the cache, one to be answered
from it and one after its end; with one domain every query meets the entry of
every other. Three upstreams let one be replaced, one be rejected and one be
active. The limits of names and jumps in `dns_parts` are small enough to be
exceeded by the packets there are. Three requests in `sessions` let a
confirmation overtake a login and a logout overtake both; other browsers
share only the row, which a second request of the same browser reaches too.

`MaxPackets`, `MaxCrashes`, `MaxTime`, `LastClock`, `MaxUses`, `MaxQueries`,
`MaxUpstreams`, `LastSecond`, `MaxTotal`, `LastTime`, `MaxRecords`, `MaxEnds`,
`MaxSecrets`, `MaxRestarts`, `Requests`, `MaxField` and `MaxQuestion` are bounds
of the models, not of the code; `MAX_DOMAIN_LENGTH`, `MAX_POINTER_JUMPS` and
`MaxStored` are the code's constants with smaller values. Symmetry (clients, filters, requests)
is used in runs of invariants and of the refinement only. Deadlock is not
checked where the bounds stop the model. The type invariants of the modules are
what the proofs begin with and are not repeated by the runs.

**Fairness.** `dhcp_answers` assumes weak fairness of the DHCP thread (a loop
that never waits for anything but its socket), of an API handler that has begun
(it runs to its end on the event loop) and of the restart of the process. Nothing
is assumed of the clients, of the clock or of the database, except that in this
run the database works: a failed save ends the handler in silence by design.
`dns_resolver` assumes the same of the DNS thread, of `apply_upstream` and of
the restart. An upstream need not answer: the transports have a timeout for each
of their readings, and a response has a bounded number of octets, so that a
question ends even if its answer comes slowly (in many readings, at worst).
`ServerLife` assumes weak
fairness of each thread and of each owner that has begun to stop its server:
the sockets of both servers have a timeout, and `join` has one. That the owner
stops the server at all is not assumed.

## 4. What holds and what does not

While one process runs, no two clients ever use one address, although replies
are lost, leases end during handlers and the database refuses writes. Across a
restart this is kept only by the order save-then-acknowledge together with the
unique address column, and only for clients that have an answer to everything
they sent: a client whose request is unanswered may lose its address to
another one. Exclusion is checked twice, in the table and in the pool, and both
are needed: the table covers leases forgotten by a restart, the pool those
granted since the table was read.

A filter that stands in the way of a domain is never skipped, whatever is added,
renamed or removed during the walk; the reason is that removal makes a new list.
Between two calls the manager's tables agree and the loaders have what the files
say. A list that cannot be read spoils the names of the call that meets it, and no
others: an addition leaves its definition behind without a filter, a replacement
leaves a filter that has the new name and the definition and switch of the old
one. After a failed reading a loader lacks domains of its file, but never has
others. The store is like memory name by name, but for a change that could not be
written, an addition that could not be read, and filters that a start did not
take over: it reads one hundred, and none if the file is unreadable. Of those
names alone a list can be deleted under the stored filter.

A replacement never closes the upstream that is in use, leaves no client open,
and leaves memory and file in agreement on the transport, on the host but for how
it is spelled, and on the size of UDP responses; it ends even if a query holds the
old upstream. The sizes of DoT and DoH are not saved, and a restart uses that of
UDP for them. A domain that is blocked can still be answered from the cache, for one
time to live after the last query that the filters let pass. The counters of all
paths fit together, whatever response codes the upstreams give.

The metrics show nothing twice and nothing beyond its time, even when threads
overtake each other between reading the clock and taking the lock; that each
entry is exactly one second holds only as long as none is overtaken. The query
log keeps every record that became a line of its own, however often writes fail
or the process ends, and shows the newest ones.

Access goes back to a password entered less than two lifetimes of a token ago
(a confirmation begins a second lifetime, and a full token cannot be confirmed
again), and a logout or a restart ends it even when an older confirmation is
answered afterwards, because a confirmation does not set the cookie of the
session. An account asks only for codes of a secret that its user has seen,
unless two requests overlap between reading the row and writing it.

A thread that has its socket serves until `stop()`, whatever fails. A `stop()`
that finds a socket ends the thread and frees the port at whatever statement it
meets it. A `stop()` that overtakes `start()` before the socket is assigned
stops nothing: `start()` sets the flag afterwards, and the shutdown only ends
because `join` has a timeout.

Three claims of the repository are refuted by runs (`findings` in
`PROJECT.json`): a custom DoH endpoint that was accepted keeps the process from
starting again (and so does a provider that was sent with blanks around its
name); an address reserved for one client is leased to another; and an
enrolment that began before another one was confirmed replaces the secret of
the account that is enabled by then.

Seen while modelling, but without a run: the pool counts ended leases as in use
and rows of ended leases block the leases of other clients (nothing on the
server's path calls `expire_leases`); a RELEASE that arrives late ends a lease
its client has renewed meanwhile, which is why `QuietLeaseRecorded` is checked
without reordering; a listed domain is let through while its list is reloaded;
after a failed write of the store the list that the stored filter uses can be
deleted; a query under way meets a client that was closed under it, and fails; a
cache hit is answered with the transaction ID of an older query, and with its
record type; the query rate and `recent_blocked` include a bucket from before a
long silence; memory keeps queries older than 24 hours; a record written behind
a torn one is lost; a lost answer to an enrolment leaves a secret nobody knows
(harmless, since it is not enabled); "DNS listening" is printed before the port
is bound, so that the application goes on without DNS when the port is taken,
and "DNS Server stopped" also when `join` timed out.

## 5. Proofs

A run shows a property for the instance of its cfg, a theorem for every value of
the constants that the named assumptions admit: any pool, any number of clients,
filters, browsers or readers, any lease time, capacity or bound. The property of
a run is seldom inductive as it stands, because it says nothing of the half-done
work from which the next state comes. Each proof therefore has an invariant of
its own, in named parts at the head of its module or section, which TLC checked
on the instance of the run (quantifiers over all naturals cut off at a bound).
Each has one lemma or step per action, and lemmas about the operators where
several actions use them. No theorem assumes more than the named assumptions on
constants and, where that is said, a restriction of its run.

### DHCPLeaseManagerProofs

`LMInv` joins the type (`LMTypeCorrect`), `Consistent` and "excluded addresses
are unleased". None of the three is inductive alone: that an excluded address
stays unleased needs the pool's set to match the address index, which needs the
two dictionaries to agree. The lemmas follow the operators: removing a set of
leases, sweeping, entering, renewing and preparing each keep a consistent state
consistent. `LMNoTakeover` adds that a sweep leaves running leases alone.
`LMOnlyOwnLeaseEnds` says whose running lease a call may end or change: that of
the client it is made for (`LeaseStands` for all others), whatever address it asks
for, and nobody's where a call is made for no client (a lookup by address, an
exclusion, the sweep). It needs both indexes: a lease is removed by address as
well as by client. Assumed: `PoolAssumption`, `LeaseAssumption`.

### DHCPServerProofs

Three invariants build on each other.

- `BaseInv`: the type, `LMInv` carried through every step of both threads, and
  what the DHCP thread knows where it is (`HandlerInv`: the kind of packet, and
  that a client for which it looks for an address has no lease).
- `ControlInv`: the control API. `ChecksHold` is what a handler has read in one
  step and relies on in a later one; `ExclusionsFollow` and `ReservationsFollow`
  say by how much memory may be ahead of the tables at each statement;
  `RowsUnique` is why a boot can load every row.
- `LeaseInv`: what clients use. `StaleInv` and `PendingInv` say that only the
  last packet of a client can be one whose answer it waits for, and that a
  client with a packet on its way has no answer on its way. `BackedInv`: until
  the first crash the manager knows of every lease in use or on its way to its
  client. `RecordedInv`: the table has, for one client only, every lease of a
  client that has an answer to all it sent. `WithheldInv`: no such lease is on an
  excluded address, and when the API is about to ask the pool, the manager still
  knows of it.

From them follow `ServerTypeCorrect`, `ServerFollowsTables`,
`ServerReservedNotExcluded` (these hold in any order of packets),
`ServerNoConflict`, `ServerLeaseRecorded`, `ServerQuietHolders` and
`ServerExcludedNotInUse`. The last four assume `~Reordered`, as their runs do,
and need it: with packets in any order a RELEASE that a later REQUEST has
overtaken ends the lease that the REQUEST was just given, and the address is free
while its client uses it. That is a weakness of the protocol as the server
treats it, and section 4 lists it.

`ServerKeepsLedger` is the refinement: every step is a step of the ledger under
the mapping or leaves it as it is (`StepRefines`). A client that takes an ACK is
granted its lease, where the conjunct "nobody else holds the address" is
`BackedInv` once more; this is why `MaxCrashes = 0` is assumed: after a restart a
client whose request is unanswered may lose its address (section 4).
`LedgerExclusive`, in `ServerPartsProofs`, shows what the ledger promises in
turn. Assumed: `ServerAssumption` and those of the manager.

### ServerPartsProofs

`ReservationsAgree`: the two dictionaries agree, by cases on the calls, under
`ReservationAssumption`. `ServesUntilStop`: what a thread relies on at each
statement (`Undisturbed`: the attribute from the assignment on, the flag from the
loop on, nobody in `stop()`), as long as its owner is up; nothing is assumed.
`LedgerExclusive` needs only the types beside it.

`OptionsReadAsWritten`, for any field of octets: every offset at which an option
begins before the one at hand goes on, and no further than there (`AllGoOnTo`);
what was read so far is what is written before it. So the loop stands at the
offsets of `Begins` one after the other, and whether it ends well depends only
on where the last of them is. `RepliesReadBack`, for any lease time, server
address and settings: the octets sent are laid out option by option (`LaidOut`,
from `Pieces` of `DataLemmas`), and the client has read as many options as begin
before its offset (`Halfway`). That a value fits into its length octet, and a
time into its four, are facts about the options the server composes; the timers
T1 and T2 are compared by division. Assumed: `WireAssumption`.

### DNSResolverProofs

`ShapeInv` is the type with what each place of a query and of `apply_upstream`
knows. `OpenInv` lists the upstreams that may be open: the active one, the one
about to become active, and the one to be closed; that the upstream to be closed
is never the active one is why a replacement cannot close the upstream in use.
`ConfigInv` has the moment between the write of the file and the exchange, and
that what waits to be saved is what was built of the request; `Settings` is what
the two ways of a configuration have in common.
`CountersAddUp` is inductive together with the types, by the kinds of outcomes.
`TTLInv` relates an entry to when its domain was last open, and makes
`BlockedWithinTTL` a step property of the invariant. Assumed:
`ResolverAssumption`.

### DNSFiltersProofs

`ManagerInv` says how far switches and definitions may lag behind the list in the
middle of each endpoint (`NotSwitchedYet`, `StillSwitched`, `NotDefinedYet`,
`StillDefined`); between two calls these sets are empty and `FilterTablesAgree`
follows. It is stated for any set of names, and proved to be kept for those that
no failing reading has left half-way. `WalkInv` bounds a walk over a list that changes under it: its index may
be one further beyond the end than a walk over a list at rest, if an addition
was taken back. `LoadersInv` exempts the file an endpoint has yet to fill
(`Reloaded`). `FiltersNeverSkipped` rests on `StandingInv`: a filter that has
blocked the domain all along is still ahead of the walk, or in its hands. It
holds for removals because a walk keeps the list that it began with, and for
replacements because they stay at their place. `StoreInv` exempts the names that
an endpoint has changed and is about to write (`InHand`); an addition that is
taken back goes back to what the file says, which is why its name may not have
been left unwritten before. `ListsInv` rests on it: a list that no definition in
memory names is named in the store by strayed names only. Assumed: `FilterAssumption`.

### DNSPartsProofs

Metrics: `LatencyInv` counts the queries that have ended, which leave room for
the one that ends next; the rest is arithmetic on products. `BucketsInv` states
what each entry of the deques counts as long as no reading of the clock was
overtaken; the oldest entry of a full history is exempt, as snapshots do not use
it. `RecentIsRecent` is not inductive: when entries are dropped, what is left has
to fit into a shorter time. `RecentInv` therefore bounds every number of newest
entries (`AgeCounts`) by what was counted within that many seconds. The sums are
sizes of sets, so that a step shifts a set or adds an element to it and takes no
induction. Assumed: `MetricsAssumption`.

Cache: `UsedInv` says that the `OrderedDict` lists what is cached, each once, in
the order of the uses recorded beside it; `EvictsLeastRecentlyUsed`, an action
property, follows. `ExpiryInv` is inductive by itself. Query log: `RecordingInv`
is what `record()` relies on between its steps; `LogInv` says that records come
by ascending numbers, in memory and in what is readable of the file, whatever
torn line is at its end; `NoneMissing` is the second half of `ShownIsNewest` for
a file that can be read. Both rest on `PickedInOrder`: picking elements keeps
their order and their number (`Ranks` shows that ranks count the kept positions
without a gap). Assumed: `CacheAssumption`, `QueryLogAssumption` (the marks for
no tail and for a torn record differ, and are no records).

Parser: `QuestionsAreParsed`, for any packets of octets, any two limits, and
whichever octets are text (`Decodable`).
`Continues` is the invariant of the loop: what was read, and the name that
begins where the cursor is, make up the name of the question. The parser stops
in three cases in which this alone would not do. It refuses a pointer to a place
that it was at before: `Nearer` says that the name from there, if there were one,
would end with fewer pointers than itself. It refuses a name when a limit is
passed, in the middle of it: `Within` and the labels and pointers still to come
show that the whole is beyond the limit too. And its reference is cut off at a
number of steps: `NamesStay` shows that a name which has ended is the same with
more steps. `Measured` gives the length of the domain, counted by the
parser as it goes and by the property from the labels joined. Assumed:
`ParserAssumption`.

### SessionsProofs

`AccessIsRecent` and `AccessEnds`: neither property mentions the requests under
way, which is where a bad answer would come from. `SessionInv` says that a request
about to commit began with a token that has not ended by now, that what any
answer brings is a recent token (`Recent`: one lifetime, or two after a
confirmation), and that a browser that is out holds no cookie of the present
session. `AdministratorNotLockedOut` needs to know what a request will write
(`WritesSound`): the row it read, switched on, with a secret that the
authenticator knows, or a row that is switched off. Assumed:
`SessionAssumption`.

### DataLemmas

Induction over data. The theorems of the library that allow it have a parameter
which is an operator, and no installed prover instantiates one. `Least` (a set
of naturals that is not empty has a least member, from the well-foundedness of
`<`), `Induction` (a set with zero and with the successor of each member is all
naturals) and `Recursion` (the function that begins with a value and follows a
given step exists) say the same of sets and functions, which are values and can
be instantiated. On them rest `Flattened`, `Pieces` and `OneMorePiece` (what
`FlattenSeq` of the community modules returns, where each sequence is found in
it, and what one more adds), `Ranks` and `PickedInOrder`.

### Only model-checked

Every invariant and every safety property of a passing run is proved. TLC alone
decides:

- Liveness: `ShutdownWorks`, `EveryPacketFinished`, `RequestAnswered`,
  `NobodyWaitsForEver`. Neither fairness nor ENABLED is in the prover's reach.
- The three refuted claims, which are counterexamples and have no proof.

## 6. Not modelled

- DHCP: packets that select another server or are malformed, as far as the
  tables go (what they are taken for is in `DHCPWire`); the fields of the header
  that are copied as they are. `update`, `delete_by_ip`, `clear` and
  `delete_expired` of the storage have no caller.
- DNS: the lower case of letters outside ASCII (which octets are UTF-8 is a
  parameter of `DNSParser`, and the packets of the run have characters of two
  octets); the octets of responses (`response.py`) beyond
  their code. `clear` of the query log and `reset` of the metrics have no caller.
  Security events (an append to a bounded deque).
- Authentication: bearer tokens without cookies (no page sends them), `register`
  (called by tests and a script), the audit rows, inactive accounts, hashing.
- Dashboard and read-only pages: reads of state that other components own.
- The scheduler (its reload does nothing), `BlocklistUpdater` (only a test script
  calls it), settings and schemas (declarative validation), migrations, the
  front end.

## 7. Plan

1. DHCP: pool, lease manager, reservations, server, control API, wire format.
   *Done.*
2. DNS: parser, cache, filters and block lists, resolver and upstream, metrics,
   query log. *Done.*
3. Life cycle of the two servers and of the process. *Done.*
4. Authentication. *Done.*
5. Proofs of the safety properties of the lease manager, the DHCP server and its
   refinement of the ledger, reservations, life cycle, filters, resolver, cache,
   metrics, query log and sessions. *Done.*
6. Proofs of what loops over data compute: the parser, the options of DHCP, the
   sums of the metrics. *Done.*
7. What is left is liveness, for which the prover has no means; it stays with the
   runs.
