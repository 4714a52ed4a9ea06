----------------------------- MODULE ClientSessions -----------------------------
(***************************************************************************)
(* The daemon clients of one app and their session in the daemon:            *)
(* client/daemon-client.ts, which connects, asks and reconnects, and         *)
(* server/websocket-server.ts, which keeps one session for the clientId and  *)
(* lets it outlive its sockets for a while.  An app has two clients of one   *)
(* clientId while it changes from a direct connection to the relay.          *)
(*                                                                         *)
(* A socket carries what was sent until it is read.  Losing a connection     *)
(* loses what is under way; each end is told of it on its own.  A session    *)
(* is named by the socket whose hello created it.                           *)
(***************************************************************************)
EXTENDS Naturals, FiniteSets

CONSTANTS
    Clients,     \* daemon clients, all of one clientId
    Requests,    \* bound: what they ask, each once
    Sockets,     \* bound: connection attempts
    None,        \* no socket, no session, no client
    Shares,      \* whether a hello presents a share token: {FALSE}, {TRUE} or either
    LateVerdict, \* a share token may be validated after its socket has closed
    Impatient,   \* connect() is called while a reconnection is scheduled
    MaxFaults    \* bound: losses, refusals, timeouts of either side, restarts

Notices == {"hello", "open", "server_info", "error", "close"}

ASSUME SessionsAssumption ==
    /\ IsFiniteSet(Sockets) /\ None \notin Sockets \cup Clients
    /\ Requests \cap Notices = {}
    /\ Shares \subseteq BOOLEAN /\ {LateVerdict, Impatient} \subseteq BOOLEAN /\ MaxFaults \in Nat

VARIABLES
    client,    \* the daemon clients
    req,       \* the requests: where they are, and for whom
    line,      \* the sockets: their state and what is under way
    pending,   \* pendingConnections
    checking,  \* sockets whose share token is being validated
    session,   \* sessions: the session of a socket
    conn,      \* the session connections ever made
    byKey,     \* externalSessionsByKey, at the clientId
    handling,  \* the requests a session is handling
    faults

server == <<pending, checking, session, conn, byKey, handling>>
vars == <<client, req, line, server, faults>>

NoClient == [status |-> "idle", transport |-> None, retry |-> FALSE, deadline |-> FALSE,
             error |-> FALSE, promise |-> FALSE]
NoRequest == [st |-> "new", by |-> None, on |-> None, waiter |-> FALSE]
NoLine == [st |-> "unused", up |-> {}, down |-> {}]
NoSession == [live |-> FALSE, sockets |-> {}, grace |-> FALSE]

TypeOK ==
    /\ client \in [Clients ->
         [status: {"idle", "connecting", "connected", "disconnected", "disposed"},
          transport: Sockets \cup {None}, retry: BOOLEAN, deadline: BOOLEAN,
          error: BOOLEAN, promise: BOOLEAN]]
    /\ req \in [Requests ->
         [st: {"new", "queued", "sent", "answered", "failed"}, by: Clients \cup {None},
          on: Sockets \cup {None}, waiter: BOOLEAN]]
    /\ line \in [Sockets ->
         [st: {"unused", "opening", "open", "shut", "closed"},
          up: SUBSET ({"hello", "close"} \cup Requests),
          down: SUBSET ({"open", "server_info", "error", "close"} \cup Requests)]]
    /\ pending \subseteq Sockets /\ checking \subseteq Sockets
    /\ session \in [Sockets -> Sockets \cup {None}]
    /\ conn \in [Sockets -> [live: BOOLEAN, sockets: SUBSET Sockets, grace: BOOLEAN]]
    /\ byKey \in Sockets \cup {None}
    /\ handling \subseteq (Requests \X Sockets)
    /\ faults \in 0..MaxFaults

Init ==
    /\ client = [d \in Clients |-> NoClient]
    /\ req = [r \in Requests |-> NoRequest]
    /\ line = [s \in Sockets |-> NoLine]
    /\ pending = {} /\ checking = {}
    /\ session = [s \in Sockets |-> None] /\ conn = [s \in Sockets |-> NoSession]
    /\ byKey = None /\ handling = {} /\ faults = 0

Fault == faults < MaxFaults /\ faults' = faults + 1

-----------------------------------------------------------------------------
(* Sockets.  "shut": one end has closed it or it is lost, and the server has  *)
(* not heard; "closed": the server has.  A close is read after all the rest.  *)
Comes(m, way) == m \in way /\ (m = "close" => way = {"close"})
\* What is sent on a socket that is not open any more is lost.
Sends(s, msgs) == [line EXCEPT ![s].up = IF line[s].st = "open" THEN @ \cup msgs ELSE @]
Delivers(to, m, l) ==
    [s \in Sockets |-> IF s \in to /\ l[s].st = "open" THEN [l[s] EXCEPT !.down = @ \cup {m}]
                       ELSE l[s]]

\* disposeTransport: the client listens no more and closes the socket.
Disposed(l, s) ==
    IF s = None THEN l
    ELSE [l EXCEPT ![s] =
            [st |-> CASE @.st = "opening" -> "closed" [] @.st = "open" -> "shut" [] OTHER -> @.st,
             up |-> IF @.st = "open" THEN @.up \cup {"close"} ELSE @.up,
             down |-> {}]]
\* ws.close() at the server
Shut(l, s) ==
    IF l[s].st # "open" THEN l
    ELSE [l EXCEPT ![s] = [st |-> "shut", up |-> @.up \cup {"close"},
                           down |-> @.down \cup {"close"}]]
Lost(s, notice) ==
    line' = [line EXCEPT ![s] = [st |-> "shut", up |-> {"close"}, down |-> notice]]

\* The request reaches the daemon; attachSocket, and the client's onOpen.
Opens(s) ==
    /\ line[s].st = "opening"
    /\ line' = [line EXCEPT ![s].st = "open", ![s].down = {"open"}]
    /\ pending' = pending \cup {s}
    /\ UNCHANGED <<client, req, checking, session, conn, byKey, handling, faults>>

Refused(s) ==
    /\ Fault /\ line[s].st = "opening"
    /\ \E notice \in {{"close"}, {"error", "close"}} :
         line' = [line EXCEPT ![s] = [@ EXCEPT !.st = "closed", !.down = notice]]
    /\ UNCHANGED <<client, req, server>>

Breaks(s) ==
    /\ Fault /\ line[s].st = "open"
    /\ \E notice \in {{"close"}, {"error", "close"}} : Lost(s, notice)
    /\ UNCHANGED <<client, req, server>>

-----------------------------------------------------------------------------
(* The client *)
Of(d, states) == {r \in Requests : req[r].by = d /\ req[r].st \in states}

\* attemptConnect: the old transport goes, and a new one is made.
Attempts(d, c) ==
    LET s == CHOOSE s \in Sockets : line[s].st = "unused"
    IN  /\ \E x \in Sockets : line[x].st = "unused"
        /\ line' = [Disposed(line, client[d].transport) EXCEPT ![s].st = "opening"]
        /\ client' = [client EXCEPT ![d] =
             [c EXCEPT !.status = "connecting", !.transport = s, !.deadline = TRUE, !.error = FALSE]]

\* Mutant: the loss of a connection leaves what waits for its answers.
KeepsWaiters(d, c) ==
    client' = [client EXCEPT ![d] =
      [c EXCEPT !.status = "disconnected", !.retry = TRUE]] /\ UNCHANGED req
\* Mutant: nothing is scheduled when the connection was never made.
GivesUp(d, c) ==
    /\ client' = [client EXCEPT ![d] =
         [c EXCEPT !.status = "disconnected", !.retry = client[d].status = "connected"]]
    /\ req' = [r \in Requests |->
         IF r \in Of(d, {"queued", "sent"}) THEN [req[r] EXCEPT !.st = "failed"] ELSE req[r]]
\* scheduleReconnect: what waits or is queued is rejected, and a timer is set.
SchedulesReconnect(d, c) ==
    /\ client' = [client EXCEPT ![d] = [c EXCEPT !.status = "disconnected", !.retry = TRUE]]
    /\ req' = [r \in Requests |->
         IF r \in Of(d, {"queued", "sent"}) THEN [req[r] EXCEPT !.st = "failed"] ELSE req[r]]

\* connect, and ensureConnected on a client that is neither connected nor about to be.
Connect(d) ==
    /\ client[d].status \in {"idle", "disconnected"} /\ ~client[d].promise
    /\ Impatient \/ ~client[d].retry
    /\ Attempts(d, [client[d] EXCEPT !.promise = TRUE])
    /\ UNCHANGED <<req, server, faults>>

RetryFires(d) ==
    /\ client[d].retry
    /\ LET c == [client[d] EXCEPT !.retry = FALSE]
       IN  IF c.status = "connecting"
           THEN client' = [client EXCEPT ![d] = c] /\ UNCHANGED line
           ELSE Attempts(d, c)
    /\ UNCHANGED <<req, server, faults>>

ConnectTimesOut(d) ==
    /\ Fault /\ client[d].deadline /\ client[d].status = "connecting"
    /\ line' = Disposed(line, client[d].transport)
    /\ SchedulesReconnect(d, [client[d] EXCEPT !.transport = None, !.deadline = FALSE, !.error = FALSE])
    /\ UNCHANGED server

\* The quarter of a second that an error without details is given to become a close.
ErrorTimerFires(d) ==
    /\ client[d].error
    /\ LET c == [client[d] EXCEPT !.error = FALSE]
       IN  IF c.status \in {"connected", "connecting"} THEN SchedulesReconnect(d, c)
           ELSE client' = [client EXCEPT ![d] = c] /\ UNCHANGED req
    /\ UNCHANGED <<line, server, faults>>

Close(d) ==
    /\ client[d].status # "disposed"
    /\ line' = Disposed(line, client[d].transport)
    /\ client' = [client EXCEPT ![d] = [NoClient EXCEPT !.status = "disposed"]]
    /\ req' = [r \in Requests |->
         IF r \in Of(d, {"queued", "sent"}) THEN [req[r] EXCEPT !.st = "failed"] ELSE req[r]]
    /\ UNCHANGED <<server, faults>>

\* The notices of the transport.  It is still listened to after its close.
Hears(d, m) ==
    /\ client[d].transport # None
    /\ Comes(m, line[client[d].transport].down)
Reads(d, m) == [line EXCEPT ![client[d].transport].down = @ \ {m}]

\* onOpen: the hello; when it cannot be sent the client reconnects.
OnOpen(d) ==
    LET s == client[d].transport
        c == [client[d] EXCEPT !.error = FALSE]
    IN  /\ Hears(d, "open")
        /\ \/ /\ line' = [Sends(s, {"hello"}) EXCEPT ![s].down = @ \ {"open"}]
              /\ client' = [client EXCEPT ![d] = c] /\ UNCHANGED req
           \/ /\ line[s].st # "open" /\ line' = Reads(d, "open")
              /\ SchedulesReconnect(d, c)
        /\ UNCHANGED <<server, faults>>

\* handleSessionMessage on server_info, with flushPendingSendQueue.  Only what still
\* has a waiter waits; the rest is sent all the same.
OnServerInfo(d) ==
    LET s == client[d].transport
        flushed == Of(d, {"queued"})
    IN  /\ Hears(d, "server_info")
        /\ IF client[d].status # "connecting"
           THEN line' = Reads(d, "server_info") /\ UNCHANGED <<client, req>>
           ELSE /\ line' = [Sends(s, flushed) EXCEPT ![s].down = @ \ {"server_info"}]
                /\ client' = [client EXCEPT ![d].status = "connected", ![d].deadline = FALSE,
                                            ![d].promise = FALSE]
                /\ req' = [r \in Requests |->
                     IF r \notin flushed THEN req[r]
                     ELSE [req[r] EXCEPT !.st = IF req[r].waiter THEN "sent" ELSE "failed", !.on = s]]
        /\ UNCHANGED <<server, faults>>

OnAnswer(d, r) ==
    /\ Hears(d, r) /\ line' = Reads(d, r)
    /\ req' = IF r \in Of(d, {"sent"}) THEN [req EXCEPT ![r].st = "answered"] ELSE req
    /\ UNCHANGED <<client, server, faults>>

\* An error without details waits for the close that may say more.
OnError(d) ==
    /\ Hears(d, "error") /\ line' = Reads(d, "error")
    /\ \/ client' = [client EXCEPT ![d].deadline = FALSE, ![d].error = TRUE] /\ UNCHANGED req
       \/ SchedulesReconnect(d, [client[d] EXCEPT !.deadline = FALSE, !.error = FALSE])
    /\ UNCHANGED <<server, faults>>

OnClose(d) ==
    /\ Hears(d, "close") /\ line' = Reads(d, "close")
    /\ SchedulesReconnect(d, [client[d] EXCEPT !.deadline = FALSE, !.error = FALSE])
    /\ UNCHANGED <<server, faults>>

\* sendRequest: sent, queued while connecting, or rejected.
Asks(d, r) ==
    LET s == client[d].transport
        asked == [NoRequest EXCEPT !.by = d, !.waiter = TRUE]
    IN  /\ req[r].st = "new"
        /\ \/ /\ client[d].status = "connected"
              /\ line' = Sends(s, {r})
              /\ req' = [req EXCEPT ![r] = [asked EXCEPT !.st = "sent", !.on = s]]
           \/ /\ client[d].status = "connecting"
              /\ req' = [req EXCEPT ![r] = [asked EXCEPT !.st = "queued"]] /\ UNCHANGED line
           \/ /\ \/ client[d].status \notin {"connected", "connecting"}
                 \/ client[d].status = "connected" /\ line[s].st # "open"
              /\ req' = [req EXCEPT ![r] = [asked EXCEPT !.st = "failed"]] /\ UNCHANGED line
        /\ UNCHANGED <<client, server, faults>>

\* Mutant: a request that timed out is given a state of its own.
RequestTimesOutAs(r) ==
    /\ req[r].st \in {"queued", "sent"} /\ req[r].waiter
    /\ req' = [req EXCEPT ![r].waiter = FALSE, ![r].st = "timeout"]
    /\ UNCHANGED <<client, line, server, faults>>
\* The timer of the waiter, which does not take the message out of the queue; and
\* the one of the queue.
RequestTimesOut(r) ==
    /\ req[r].st \in {"queued", "sent"} /\ req[r].waiter
    /\ req' = [req EXCEPT ![r].waiter = FALSE, ![r].st = IF @ = "sent" THEN "failed" ELSE @]
    /\ UNCHANGED <<client, line, server, faults>>
QueueTimesOut(r) ==
    /\ req[r].st = "queued"
    /\ req' = [req EXCEPT ![r].st = "failed"]
    /\ UNCHANGED <<client, line, server, faults>>

-----------------------------------------------------------------------------
(* The server *)
Arrives(s, m) == line[s].st \in {"open", "shut"} /\ Comes(m, line[s].up)
Taken(s, m) == [line EXCEPT ![s].up = @ \ {m}]

\* Mutant: a session that is resumed keeps its grace timer.
FinalizesTimed(s, l) ==
    /\ pending' = pending \ {s}
    /\ LET k == IF byKey = None THEN s ELSE byKey
       IN  /\ conn' = [conn EXCEPT ![k] = [@ EXCEPT !.live = TRUE, !.sockets = @ \cup {s}]]
           /\ session' = [session EXCEPT ![s] = k] /\ byKey' = k
    /\ line' = Delivers({s}, "server_info", l)
\* finalizeHello: the session of the clientId is resumed, or made.
Finalizes(s, l) ==
    /\ pending' = pending \ {s}
    /\ LET k == IF byKey = None THEN s ELSE byKey
       IN  /\ conn' = [conn EXCEPT ![k] = [live |-> TRUE, sockets |-> @.sockets \cup {s},
                                           grace |-> FALSE]]
           /\ session' = [session EXCEPT ![s] = k] /\ byKey' = k
    /\ line' = Delivers({s}, "server_info", l)

OnHello(s) ==
    /\ Arrives(s, "hello")
    /\ \/ /\ s \notin pending \/ TRUE \in Shares
          /\ checking' = IF s \in pending THEN checking \cup {s} ELSE checking
          /\ line' = Taken(s, "hello")
          /\ UNCHANGED <<pending, session, conn, byKey>>
       \/ /\ s \in pending /\ FALSE \in Shares
          /\ Finalizes(s, Taken(s, "hello")) /\ UNCHANGED checking
    /\ UNCHANGED <<client, req, handling, faults>>

\* handleShareScopedHello goes on, whatever became of the socket.
Validated(s) ==
    /\ s \in checking /\ checking' = checking \ {s}
    /\ Finalizes(s, line)
    /\ UNCHANGED <<client, req, handling, faults>>

\* The token, or a hello of another protocol version, is refused.
HelloRefused(s) ==
    /\ Fault
    /\ \/ s \in checking /\ checking' = checking \ {s} /\ line' = Shut(line, s)
       \/ /\ FALSE \in Shares /\ s \in pending /\ Arrives(s, "hello")
          /\ line' = Shut(Taken(s, "hello"), s) /\ UNCHANGED checking
    /\ pending' = pending \ {s}
    /\ UNCHANGED <<client, req, session, conn, byKey, handling>>

HelloTimesOut(s) ==
    /\ Fault /\ s \in pending
    /\ pending' = pending \ {s} /\ line' = Shut(line, s)
    /\ UNCHANGED <<client, req, checking, session, conn, byKey, handling>>

OnRequest(s, r) ==
    /\ Arrives(s, r) /\ line' = Taken(s, r)
    /\ handling' = IF session[s] = None THEN handling ELSE handling \cup {<<r, session[s]>>}
    /\ UNCHANGED <<client, req, pending, checking, session, conn, byKey, faults>>

\* The session has handled a request; its answer, or its error, goes to all sockets.
Answers(r, k) ==
    /\ <<r, k>> \in handling /\ handling' = handling \ {<<r, k>>}
    /\ line' = Delivers(conn[k].sockets, r, line)
    /\ UNCHANGED <<client, req, pending, checking, session, conn, byKey, faults>>

\* detachSocket: the last socket of a session leaves its grace timer behind.
Detached(s) ==
    LET k == session[s]
    IN  /\ session' = [session EXCEPT ![s] = None]
        /\ conn' = [conn EXCEPT ![k].sockets = @ \ {s}, ![k].grace = (conn[k].sockets = {s})]

\* Mutant: a socket that closes before its hello stays pending.
OnSocketCloseForgets(s) ==
    /\ Arrives(s, "close")
    /\ line' = [line EXCEPT ![s].up = {}, ![s].st = "closed"]
    /\ IF s \in pending \/ session[s] = None THEN UNCHANGED <<session, conn>> ELSE Detached(s)
    /\ UNCHANGED <<client, req, pending, checking, byKey, handling, faults>>
OnSocketClose(s) ==
    /\ Arrives(s, "close") /\ (LateVerdict \/ s \notin checking)
    /\ line' = [line EXCEPT ![s].up = {}, ![s].st = "closed"]
    /\ pending' = pending \ {s}
    /\ IF s \in pending \/ session[s] = None THEN UNCHANGED <<session, conn>> ELSE Detached(s)
    /\ UNCHANGED <<client, req, checking, byKey, handling, faults>>

\* cleanupConnection, when the grace timer of a session fires
GraceExpires(k) ==
    /\ conn[k].grace
    /\ conn' = [conn EXCEPT ![k] = NoSession]
    /\ session' = [s \in Sockets |-> IF s \in conn[k].sockets THEN None ELSE session[s]]
    /\ byKey' = IF byKey = k THEN None ELSE byKey
    /\ UNCHANGED <<client, req, line, pending, checking, handling, faults>>

\* The daemon ends, with all it kept, and another starts.
Restarts ==
    /\ Fault
    /\ line' = [s \in Sockets |->
         CASE line[s].st = "open" -> [st |-> "closed", up |-> {}, down |-> {"close"}]
           [] line[s].st = "shut" -> [line[s] EXCEPT !.st = "closed", !.up = {}]
           [] OTHER -> line[s]]
    /\ pending' = {} /\ checking' = {} /\ handling' = {} /\ byKey' = None
    /\ session' = [s \in Sockets |-> None] /\ conn' = [s \in Sockets |-> NoSession]
    /\ UNCHANGED <<client, req>>

-----------------------------------------------------------------------------
ClientReads(d) ==
    \/ OnOpen(d) \/ OnServerInfo(d) \/ OnError(d) \/ OnClose(d)
    \/ \E r \in Requests : OnAnswer(d, r)
ServerReads(s) == OnHello(s) \/ OnSocketClose(s) \/ \E r \in Requests : OnRequest(s, r)

Next ==
    \/ \E d \in Clients :
         \/ Connect(d) \/ RetryFires(d) \/ ConnectTimesOut(d) \/ ErrorTimerFires(d) \/ Close(d)
         \/ ClientReads(d) \/ \E r \in Requests : Asks(d, r)
    \/ \E r \in Requests : \/ RequestTimesOut(r) \/ QueueTimesOut(r)
                           \/ \E k \in Sockets : Answers(r, k)
    \/ \E s \in Sockets :
         \/ Opens(s) \/ Refused(s) \/ Breaks(s) \/ ServerReads(s) \/ GraceExpires(s)
         \/ Validated(s) \/ HelloRefused(s) \/ HelloTimesOut(s)
    \/ Restarts

Spec == Init /\ [][Next]_vars

(* Timers fire, what was sent is read, and what is tried comes to an end.    *)
Fairness ==
    /\ \A d \in Clients : WF_vars(RetryFires(d)) /\ WF_vars(ClientReads(d))
    /\ \A s \in Sockets : /\ WF_vars(Opens(s)) /\ WF_vars(ServerReads(s))
                          /\ WF_vars(Validated(s)) /\ WF_vars(GraceExpires(s))
FairSpec == Spec /\ Fairness

-----------------------------------------------------------------------------
(* A request waits only while its answer can still come, or the client is    *)
(* still to be told that the connection is gone.  daemon-client.ts:4483-4484: *)
(* waiters are cleared "since the connection was lost and responses from the  *)
(* previous connection will never arrive".                                   *)
NoVainWait ==
    \A r \in Requests : req[r].st = "sent" =>
        LET s == req[r].on
        IN  /\ client[req[r].by].transport = s /\ client[req[r].by].status = "connected"
            /\ \/ r \in line[s].up \cup line[s].down \/ "close" \in line[s].down
               \/ \E k \in Sockets : <<r, k>> \in handling /\ s \in conn[k].sockets

(* The daemon has one session for the clientId at most, reachable by every   *)
(* socket that is attached to it, and about to be cleaned up exactly when     *)
(* none is: a client that comes back as the timer fires finds it or makes     *)
(* another.                                                                 *)
SessionHeld ==
    \A k \in Sockets :
        /\ conn[k].live <=> byKey = k
        /\ conn[k].sockets = {s \in Sockets : session[s] = k}
        /\ conn[k].grace <=> conn[k].live /\ conn[k].sockets = {}

(* A client that lost its connection, or is making its first, gets one,      *)
(* unless it is closed.                                                     *)
ComesBack ==
    \A d \in Clients : client[d].status \in {"connecting", "disconnected"}
                         ~> client[d].status \in {"connected", "disposed"}

(* When the app has closed its clients the daemon gets rid of what it kept   *)
(* for them.                                                                *)
Released ==
    /\ pending = {} /\ byKey = None
    /\ \A s \in Sockets : session[s] = None /\ ~conn[s].live
Gone == \A d \in Clients : client[d].status \in {"idle", "disposed"}
EverythingIsReleased == Gone ~> (Released \/ ~Gone)

=============================================================================
