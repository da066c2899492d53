----------------------------- MODULE ServerLife -----------------------------
(* The life of the two servers of SentinelDNS: start, serve_forever and    *)
(* stop of dns_engine/server.py and of dhcp/server.py, and the lifespan of *)
(* main.py that starts and stops the DNS server.  A server serves in a     *)
(* thread of its own and is stopped by its owner, while the thread stops   *)
(* it too when it leaves the loop.  The two share an attribute that refers *)
(* to the socket and a flag that says whether to go on.  The DHCP server   *)
(* has a lock, which the loop does not take; the DNS server has none.      *)
EXTENDS Naturals

Servers == {"dns", "dhcp"}

Callers == {"owner", "thread"}  \* of stop()

VARIABLES
    running,  \* _running, or that _stop_event is not set
    held,     \* self.socket is a socket, not None
    socket,   \* the socket itself: "absent", "open" or "closed"
    thread,   \* where the serving thread is
    stopping, \* for each caller, where it is in stop(); "out" when it is not
    taken,    \* for each caller of the DNS stop(), its local variable sock
    owner     \* "up", "stopping", "join" or "done"

lifeVars == <<running, held, socket, thread, stopping, taken, owner>>

ThreadPlaces ==
    {"new", "bound", "assigned", "serve", "loop", "receive", "waiting",
     "error", "handle", "send", "sending", "finally", "ended"}

StopPlaces == {"out", "flag", "read", "clear", "close"}

LifeTypeOK ==
    /\ running \in [Servers -> BOOLEAN]
    /\ held \in [Servers -> BOOLEAN]
    /\ socket \in [Servers -> {"absent", "open", "closed"}]
    /\ thread \in [Servers -> ThreadPlaces]
    /\ stopping \in [Servers -> [Callers -> StopPlaces]]
    /\ taken \in [Servers -> [Callers -> BOOLEAN]]
    /\ owner \in [Servers -> {"up", "stopping", "join", "done"}]

LifeInit ==
    /\ running = [s \in Servers |-> s = "dhcp"]
    /\ held = [s \in Servers |-> FALSE]
    /\ socket = [s \in Servers |-> "absent"]
    /\ thread = [s \in Servers |-> "new"]
    /\ stopping = [s \in Servers |-> [c \in Callers |-> "out"]]
    /\ taken = [s \in Servers |-> [c \in Callers |-> FALSE]]
    /\ owner = [s \in Servers |-> "up"]

-----------------------------------------------------------------------------
(* start().                                                                *)

Goes(s, from, to) ==
    /\ thread[s] = from
    /\ thread' = [thread EXCEPT ![s] = to]

KeepServer == UNCHANGED <<running, held, socket>>

KeepStops == UNCHANGED <<stopping, taken, owner>>

\* Nobody is in the part of the DHCP stop() that holds the lock.
LockFree(s) == \A c \in Callers : stopping[s][c] # "clear"

\* The port is taken, or binding to it is not permitted.
DNSBindFails ==
    /\ ~running["dns"]
    /\ Goes("dns", "new", "ended")
    /\ KeepServer /\ KeepStops

DNSBind ==
    /\ ~running["dns"]
    /\ Goes("dns", "new", "bound")
    /\ socket' = [socket EXCEPT !["dns"] = "open"]
    /\ UNCHANGED <<running, held>> /\ KeepStops

DNSAssign ==
    /\ Goes("dns", "bound", "assigned")
    /\ held' = [held EXCEPT !["dns"] = TRUE]
    /\ UNCHANGED <<running, socket>> /\ KeepStops

DNSSetRunning ==
    /\ Goes("dns", "assigned", "serve")
    /\ running' = [running EXCEPT !["dns"] = TRUE]
    /\ UNCHANGED <<held, socket>> /\ KeepStops

\* The service is switched off in the configuration.
DHCPDisabled ==
    /\ Goes("dhcp", "new", "ended")
    /\ KeepServer /\ KeepStops

DHCPBindFails ==
    /\ LockFree("dhcp") /\ ~held["dhcp"]
    /\ Goes("dhcp", "new", "ended")
    /\ running' = [running EXCEPT !["dhcp"] = TRUE]
    /\ UNCHANGED <<held, socket>> /\ KeepStops

\* Under the lock: the event is cleared and the socket made.
DHCPBind ==
    /\ LockFree("dhcp") /\ ~held["dhcp"]
    /\ Goes("dhcp", "new", "serve")
    /\ running' = [running EXCEPT !["dhcp"] = TRUE]
    /\ socket' = [socket EXCEPT !["dhcp"] = "open"]
    /\ held' = [held EXCEPT !["dhcp"] = TRUE]
    /\ KeepStops

StartStep(s) ==
    \/ s = "dns" /\ (DNSBindFails \/ DNSBind \/ DNSAssign \/ DNSSetRunning)
    \/ s = "dhcp" /\ (DHCPDisabled \/ DHCPBindFails \/ DHCPBind)

-----------------------------------------------------------------------------
(* serve_forever().  None has neither recvfrom nor sendto: whoever finds   *)
(* it raises what the loop does not catch, and goes to the finally of      *)
(* start().                                                                *)

NeedsSocket(s, from, to) ==
    /\ Goes(s, from, IF held[s] THEN to ELSE "finally")
    /\ KeepServer /\ KeepStops

Serve(s) == NeedsSocket(s, "serve", "loop")

Loop(s) ==
    /\ Goes(s, "loop", IF running[s] THEN "receive" ELSE "finally")
    /\ KeepServer /\ KeepStops

Receive(s) == NeedsSocket(s, "receive", "waiting")

ReceiveTimesOut(s) ==
    /\ Goes(s, "waiting", "loop")
    /\ KeepServer /\ KeepStops

ReceivePacket(s) ==
    /\ socket[s] = "open"
    /\ Goes(s, "waiting", "handle")
    /\ KeepServer /\ KeepStops

\* The socket is closed, or the system reports an error of an open one.
ReceiveFails(s) ==
    /\ Goes(s, "waiting", "error")
    /\ KeepServer /\ KeepStops

\* Faulty variant: every error ends the thread.
AfterErrorAlways(s) ==
    /\ Goes(s, "error", "finally")
    /\ KeepServer /\ KeepStops

\* Both loops leave on an error after stop() only.
AfterError(s) ==
    /\ Goes(s, "error", IF running[s] THEN "loop" ELSE "finally")
    /\ KeepServer /\ KeepStops

\* The handler raises or has nothing to send.
HandleNothing(s) ==
    /\ Goes(s, "handle", "loop")
    /\ KeepServer /\ KeepStops

HandleReply(s) ==
    /\ Goes(s, "handle", "send")
    /\ KeepServer /\ KeepStops

\* _send_response of the DHCP server looks for None and raises itself.
Send(s) == NeedsSocket(s, "send", "sending")

SendSucceeds(s) ==
    /\ socket[s] = "open"
    /\ Goes(s, "sending", "loop")
    /\ KeepServer /\ KeepStops

\* _send_response reads the attribute once more than it checks it.
SendFindsNone ==
    /\ ~held["dhcp"]
    /\ Goes("dhcp", "sending", "finally")
    /\ KeepServer /\ KeepStops

\* The DHCP server only reports the error.
SendFails(s) ==
    /\ Goes(s, "sending", IF s = "dns" THEN "error" ELSE "loop")
    /\ KeepServer /\ KeepStops

ServeStep(s) ==
    \/ Serve(s) \/ Loop(s)
    \/ Receive(s) \/ ReceiveTimesOut(s) \/ ReceivePacket(s) \/ ReceiveFails(s)
    \/ AfterError(s)
    \/ HandleNothing(s) \/ HandleReply(s)
    \/ Send(s) \/ SendSucceeds(s) \/ SendFails(s)
    \/ s = "dhcp" /\ SendFindsNone

-----------------------------------------------------------------------------
(* stop(), by either caller.                                               *)

StopGoes(s, c, from, to) ==
    /\ stopping[s][c] = from
    /\ stopping' = [stopping EXCEPT ![s][c] = to]
    /\ UNCHANGED <<thread, owner>>

StopFlag(s, c) ==
    /\ StopGoes(s, c, "flag", "read")
    /\ running' = [running EXCEPT ![s] = FALSE]
    /\ UNCHANGED <<held, socket, taken>>

DNSStopRead(c) ==
    /\ StopGoes("dns", c, "read", "clear")
    /\ taken' = [taken EXCEPT !["dns"][c] = held["dns"]]
    /\ KeepServer

\* Faulty variant: the socket stays in the attribute.
DNSStopKeep(c) ==
    /\ StopGoes("dns", c, "clear", "close")
    /\ KeepServer /\ UNCHANGED taken

DNSStopClear(c) ==
    /\ StopGoes("dns", c, "clear", "close")
    /\ held' = [held EXCEPT !["dns"] = FALSE]
    /\ UNCHANGED <<running, socket, taken>>

DNSStopClose(c) ==
    /\ StopGoes("dns", c, "close", "out")
    /\ socket' = [socket EXCEPT !["dns"] =
                     IF taken["dns"][c] THEN "closed" ELSE @]
    /\ UNCHANGED <<running, held, taken>>

\* The DHCP server closes first and clears then, under the lock.
DHCPStopClose(c) ==
    /\ LockFree("dhcp")
    /\ StopGoes("dhcp", c, "read", IF held["dhcp"] THEN "clear" ELSE "out")
    /\ socket' = [socket EXCEPT !["dhcp"] =
                     IF held["dhcp"] THEN "closed" ELSE @]
    /\ UNCHANGED <<running, held, taken>>

DHCPStopClear(c) ==
    /\ StopGoes("dhcp", c, "clear", "out")
    /\ held' = [held EXCEPT !["dhcp"] = FALSE]
    /\ UNCHANGED <<running, socket, taken>>

StopStep(s, c) ==
    \/ StopFlag(s, c)
    \/ s = "dns" /\ (DNSStopRead(c) \/ DNSStopClear(c) \/ DNSStopClose(c))
    \/ s = "dhcp" /\ (DHCPStopClose(c) \/ DHCPStopClear(c))

-----------------------------------------------------------------------------
(* The thread and the owner, each with its call of stop().                 *)

\* The thread leaves serve_forever and calls stop().
Finally(s) ==
    /\ thread[s] = "finally" /\ stopping[s]["thread"] = "out"
    /\ thread' = [thread EXCEPT ![s] = "ended"]
    /\ stopping' = [stopping EXCEPT ![s]["thread"] = "flag"]
    /\ KeepServer /\ UNCHANGED <<taken, owner>>

Ended(s) == thread[s] = "ended" /\ stopping[s]["thread"] = "out"

\* A socket that nobody refers to any more is closed by the interpreter.
SocketDropped(s) ==
    /\ Ended(s) /\ ~held[s] /\ socket[s] = "open"
    /\ ~taken[s]["owner"]
    /\ socket' = [socket EXCEPT ![s] = "closed"]
    /\ UNCHANGED <<running, held, thread>> /\ KeepStops

ThreadStep(s) ==
    \/ StartStep(s)
    \/ ServeStep(s)
    \/ Finally(s)
    \/ StopStep(s, "thread")
    \/ SocketDropped(s)

\* The application shuts down: at any time after the thread was created,
\* before its first step too.
BeginStop(s) ==
    /\ owner[s] = "up"
    /\ owner' = [owner EXCEPT ![s] = "stopping"]
    /\ stopping' = [stopping EXCEPT ![s]["owner"] = "flag"]
    /\ KeepServer /\ UNCHANGED <<thread, taken>>

StopReturns(s) ==
    /\ owner[s] = "stopping" /\ stopping[s]["owner"] = "out"
    /\ owner' = [owner EXCEPT ![s] = IF s = "dns" THEN "join" ELSE "done"]
    /\ KeepServer /\ UNCHANGED <<thread, stopping, taken>>

\* join(timeout=2.0) returns whether the thread has ended or not.
JoinReturns ==
    /\ owner["dns"] = "join"
    /\ owner' = [owner EXCEPT !["dns"] = "done"]
    /\ KeepServer /\ UNCHANGED <<thread, stopping, taken>>

OwnerGoesOn(s) ==
    \/ StopStep(s, "owner")
    \/ StopReturns(s)
    \/ s = "dns" /\ JoinReturns

LifeNext ==
    \E s \in Servers : ThreadStep(s) \/ BeginStop(s) \/ OwnerGoesOn(s)

\* A thread that can go on does, and so does an owner that has begun to stop
\* the server: every wait of theirs has a timeout.
LifeFairness ==
    \A s \in Servers : WF_lifeVars(ThreadStep(s)) /\ WF_lifeVars(OwnerGoesOn(s))

LifeSpec == LifeInit /\ [][LifeNext]_lifeVars /\ LifeFairness

-----------------------------------------------------------------------------
\* stop() has returned and had a socket to take away.  (A stop() that overtook
\* start() before the socket was assigned has stopped nothing.)
TakenAway(s) ==
    /\ owner[s] \in {"join", "done"}
    /\ \/ socket[s] = "closed"
       \/ ~held[s] /\ thread[s] \notin {"new", "bound"}

\* server.py, stop: "Stop the DNS server safely", and main.py, lifespan.  A
\* server whose socket was taken away ends its thread and frees its port, at
\* whatever statement of start() or of the loop stop() met it; and the shutdown
\* of the application comes to its end, also when stop() overtook start() and
\* the DNS thread goes on.
ShutdownWorks ==
    /\ \A s \in Servers : TakenAway(s) ~> Ended(s) /\ socket[s] # "open"
    /\ owner["dns"] = "stopping" ~> owner["dns"] = "done"

\* server.py, start: "blocks until stop() is called".  A thread that got its
\* socket serves until then: no timeout, no failing receive or send and no
\* exception of the resolver or of the DHCP handlers ends it.
OnlyStopEnds ==
    \A s \in Servers :
        owner[s] = "up" /\ socket[s] # "absent" =>
            thread[s] \notin {"finally", "ended"}
=============================================================================
