------------------------------ MODULE RelaySockets ------------------------------
(***************************************************************************)
(* Clients that reach the daemon through the relay: the relay's sockets       *)
(* (relay/src/cloudflare-adapter.ts, version 2), the daemon's control socket   *)
(* and its data sockets, one for each client (server/relay-transport.ts), and  *)
(* the handshake of the encrypted channel between client and daemon            *)
(* (relay/src/encrypted-channel.ts).                                          *)
(*                                                                         *)
(* A socket carries frames both ways in order; who closes it is answered with *)
(* a close, and what is sent after a close is lost.  No client of the          *)
(* repository chooses its connectionId, so that a client's socket and its      *)
(* connection are one.  Keys, pings and the frames' contents are left out, and *)
(* a control or client socket that is refused is not a step.                   *)
(***************************************************************************)
EXTENDS Naturals, Sequences

CONSTANTS
    Clients,      \* bound: client sockets
    Controls,     \* bound: control sockets at a time
    None,         \* no control socket
    BufferLimit,  \* frames kept for a client whose data socket is missing
    LateRefusals, \* whether a data socket may be refused after the relay's nudges
    MaxFaults     \* bound: losses, refusals and sockets that fall silent

ASSUME RelayAssumption ==
    /\ None \notin Controls /\ BufferLimit \in Nat \ {0} /\ MaxFaults \in Nat
    /\ LateRefusals \in BOOLEAN
    /\ Clients \cap Controls = {}
    /\ (Clients \cup Controls) \cap (Clients \X {1, 2}) = {}

VARIABLES
    line,     \* the sockets
    pending,  \* pendingFrames of the relay
    nudge,    \* the relay's timers of a client: the first or the second delay
    current,  \* controlWs of the daemon
    retry,    \* its reconnectTimeout
    dataOf,   \* its dataSockets: which of a client's two sockets, or 0
    channel,  \* the daemon's end of the encrypted channel of a data socket
    shake,    \* the client's end
    faults

vars == <<line, pending, nudge, current, retry, dataOf, channel, shake, faults>>

\* A client has a data socket, and for a while the one that it replaces.
Slots == {1, 2}
Datas == Clients \X Slots
Sockets == Clients \cup Controls \cup Datas

\* near is the end of the client or of the daemon, far the relay's.
NoLine == [near |-> "free", far |-> "none", silent |-> FALSE, up |-> <<>>, down |-> <<>>]
Frame(op) == [op |-> op, ids |-> {}]
Hello == Frame("hello")
Ready == Frame("ready")
Data == Frame("data")
CloseFrame == Frame("close")
Sync(ids) == [op |-> "sync", ids |-> ids]          \* and "connected"
Disconnected(c) == [op |-> "disconnected", ids |-> {c}]
Frames == [op: {"hello", "ready", "data", "close", "sync", "disconnected"}, ids: SUBSET Clients]

TypeOK ==
    /\ \A x \in Sockets :
         /\ line[x].near \in {"free", "opening", "open", "closing", "closed"}
         /\ line[x].far \in {"none", "open", "closing", "gone"}
         /\ line[x].silent \in BOOLEAN
         /\ line[x].up \in Seq(Frames) /\ line[x].down \in Seq(Frames)
    /\ pending \in [Clients -> Seq({Hello, Data})]
    /\ \A c \in Clients : Len(pending[c]) <= BufferLimit
    /\ nudge \in [Clients -> {"none", "first", "second"}]
    /\ current \in Controls \cup {None} /\ retry \in BOOLEAN
    /\ dataOf \in [Clients -> {0} \cup Slots]
    /\ channel \in [Datas -> {"none", "waits", "open"}]
    /\ shake \in [Clients -> {"none", "shaking", "open"}]
    /\ faults \in 0..MaxFaults

Init ==
    /\ line = [x \in Sockets |-> NoLine]
    /\ pending = [c \in Clients |-> <<>>] /\ nudge = [c \in Clients |-> "none"]
    /\ current = None /\ retry = TRUE
    /\ dataOf = [c \in Clients |-> 0] /\ channel = [d \in Datas |-> "none"]
    /\ shake = [c \in Clients |-> "none"]
    /\ faults = 0

-----------------------------------------------------------------------------
(* Sockets *)
\* The runtime lists a socket until its webSocketClose was called.
Listed(x) == line[x].far \in {"open", "closing"}
SendsTo(l, f) ==
    IF l.far = "open" /\ l.near # "closed" /\ ~l.silent
    THEN [l EXCEPT !.down = Append(@, f)] ELSE l
\* ws.close() of the relay
Shut(l) == [SendsTo(l, CloseFrame) EXCEPT !.far = IF @ = "open" THEN "closing" ELSE @]
\* socket.close() of a client or the daemon; terminate() does not wait for the answer.
\* A relay that has closed its end hears of it no more.
Leaves(l, near) ==
    IF l.near = "opening" THEN NoLine
    ELSE [l EXCEPT !.near = near, !.up = IF l.silent \/ l.far = "gone" THEN @ ELSE Append(@, CloseFrame),
                   !.down = IF near = "closed" THEN <<>> ELSE @]
\* A socket whose two ends are closed may be used again.
Tidy(l) == IF l.near = "closed" /\ l.far \in {"none", "gone"} THEN NoLine ELSE l
\* A client comes once: its socket stays closed.
ForGood(l) == IF l.near = "free" THEN [l EXCEPT !.near = "closed"] ELSE l
\* An end reads a close, and answers it unless it was an answer.
NearCloses(l) ==
    Tidy([l EXCEPT !.near = "closed", !.down = <<>>,
                   !.up = IF l.near = "open" THEN Append(@, CloseFrame) ELSE @])
FarCloses(l) ==
    Tidy([l EXCEPT !.far = "gone", !.up = <<>>,
                   !.down = IF l.far = "open" /\ l.near # "closed" THEN Append(@, CloseFrame) ELSE @])
NearReads(x, op) == line[x].down # <<>> /\ Head(line[x].down).op = op
FarReads(x, op) == line[x].up # <<>> /\ Head(line[x].up).op = op
DownRead(x) == [line EXCEPT ![x].down = Tail(@)]
UpRead(x) == [line EXCEPT ![x].up = Tail(@)]

\* notifyControls
ToControls(l, f) == [x \in Sockets |-> IF x \in Controls THEN SendsTo(l[x], f) ELSE l[x]]
ShutAll(l, some) == [x \in Sockets |-> IF x \in some THEN Shut(l[x]) ELSE l[x]]
DatasOf(c) == {c} \X Slots

Relays == UNCHANGED <<current, retry, dataOf, channel, shake, faults>>
Daemons == UNCHANGED <<pending, nudge, shake, faults>>
AClient == UNCHANGED <<pending, nudge, current, retry, dataOf, channel, faults>>

-----------------------------------------------------------------------------
(* The relay: fetchV2 *)
\* The daemon's data socket replaces the one before it, and gets what was kept.
TakesData(c, n) ==
    /\ line[<<c, n>>].near = "opening"
    /\ line' = [ShutAll(line, DatasOf(c) \ {<<c, n>>}) EXCEPT
                  ![<<c, n>>] = [NoLine EXCEPT !.near = "open", !.far = "open", !.down = pending[c]]]
    /\ pending' = [pending EXCEPT ![c] = <<>>]
    /\ channel' = [channel EXCEPT ![<<c, n>>] = "waits"]
    /\ UNCHANGED <<nudge, current, retry, dataOf, shake, faults>>

ListedClients == {c \in Clients : Listed(c)}
\* The daemon's control socket, first at the start and then when its timer fires
\* (connectControl, scheduleReconnect); an attempt that fails is made again.
ConnectControl(k) ==
    /\ retry /\ line[k].near = "free"
    /\ line' = [ShutAll(line, Controls \ {k}) EXCEPT
                  ![k] = [NoLine EXCEPT !.near = "open", !.far = "open",
                                        !.down = <<Sync(ListedClients)>>]]
    /\ current' = k /\ retry' = FALSE
    /\ UNCHANGED <<pending, nudge, dataOf, channel, shake, faults>>

\* The client's channel says hello as soon as its socket is open.
Connects(c) ==
    /\ line[c].near = "free"
    /\ line' = ToControls([line EXCEPT ![c] = [NoLine EXCEPT !.near = "open", !.far = "open",
                                                             !.up = <<Hello>>]], Sync({c}))
    /\ nudge' = [nudge EXCEPT ![c] = "first"]
    /\ shake' = [shake EXCEPT ![c] = "shaking"]
    /\ UNCHANGED <<pending, current, retry, dataOf, channel, faults>>

\* nudgeOrResetControlForConnection; its delays may be short or long.
Nudges(c) ==
    /\ nudge[c] # "none"
    /\ IF ~Listed(c) \/ \E d \in DatasOf(c) : Listed(d)
       THEN nudge' = [nudge EXCEPT ![c] = "none"] /\ UNCHANGED line
       ELSE \/ /\ nudge[c] = "first" /\ nudge' = [nudge EXCEPT ![c] = "second"]
               /\ line' = ToControls(line, Sync(ListedClients))
            \/ /\ nudge[c] = "second" /\ nudge' = [nudge EXCEPT ![c] = "none"]
               /\ line' = ShutAll(line, Controls)
    /\ UNCHANGED pending /\ Relays

-----------------------------------------------------------------------------
(* The relay: webSocketMessage and webSocketClose *)
\* Mutant: frames are kept without a limit.
KeptAll(fs, f) == Append(fs, f)
\* bufferFrame
Kept(fs, f) == IF Len(fs) < BufferLimit THEN Append(fs, f) ELSE Append(Tail(fs), f)

\* A frame of a client goes to its data sockets, or waits for one.  A socket that the
\* relay has closed is not listened to.
FromClient(c, f) ==
    /\ FarReads(c, f.op) /\ f \in {Hello, Data}
    /\ CASE line[c].far = "closing" -> line' = UpRead(c) /\ UNCHANGED pending
         [] line[c].far # "closing" /\ ~\E d \in DatasOf(c) : Listed(d) ->
              line' = UpRead(c) /\ pending' = [pending EXCEPT ![c] = Kept(@, f)]
         [] OTHER ->
              /\ line' = [x \in Sockets |-> IF x \in DatasOf(c) THEN SendsTo(line[x], f) ELSE UpRead(c)[x]]
              /\ UNCHANGED pending
    /\ UNCHANGED nudge /\ Relays

\* The client is gone: so are its frames and its data sockets, and the daemon is told.
ClientGone(c) ==
    /\ FarReads(c, "close")
    /\ line' = ToControls(ShutAll([line EXCEPT ![c] = ForGood(FarCloses(@))], DatasOf(c)), Disconnected(c))
    /\ pending' = [pending EXCEPT ![c] = <<>>]
    /\ UNCHANGED nudge /\ Relays

FromData(d) ==
    /\ FarReads(d, "ready")
    /\ line' = IF line[d].far = "open" THEN [UpRead(d) EXCEPT ![d[1]] = SendsTo(@, Ready)] ELSE UpRead(d)
    /\ UNCHANGED <<pending, nudge>> /\ Relays

\* Mutant: the client of a data socket that is lost is left alone.
DataGoneUntold(d) ==
    /\ FarReads(d, "close")
    /\ line' = [line EXCEPT ![d] = FarCloses(@)]
    /\ UNCHANGED <<pending, nudge>> /\ Relays
\* "Force the client to reconnect and re-handshake when the daemon side drops."
DataGone(d) ==
    /\ FarReads(d, "close")
    /\ line' = [line EXCEPT ![d] = FarCloses(@), ![d[1]] = Shut(@)]
    /\ UNCHANGED <<pending, nudge>> /\ Relays

ControlGone(k) ==
    /\ FarReads(k, "close")
    /\ line' = [line EXCEPT ![k] = FarCloses(@)]
    /\ UNCHANGED <<pending, nudge>> /\ Relays

-----------------------------------------------------------------------------
(* The daemon's control socket *)
\* The messages of a socket that was given up are not listened to.
\* ensureClientDataSocket: one socket for each client that has none.
FreeSlot(c) == CHOOSE n \in Slots : line[<<c, n>>].near = "free"
OnSync(k) ==
    /\ NearReads(k, "sync")
    /\ LET new == IF current = k THEN {c \in Head(line[k].down).ids : dataOf[c] = 0} ELSE {}
       IN  /\ \A c \in new : \E n \in Slots : line[<<c, n>>].near = "free"
           /\ dataOf' = [c \in Clients |-> IF c \in new THEN FreeSlot(c) ELSE dataOf[c]]
           /\ line' = [x \in Sockets |->
                IF x \in {<<c, FreeSlot(c)>> : c \in new} THEN [line[x] EXCEPT !.near = "opening"]
                ELSE DownRead(k)[x]]
    /\ UNCHANGED <<current, retry, channel>> /\ Daemons

OnDisconnected(k, c) ==
    /\ line[k].down # <<>> /\ Head(line[k].down) = Disconnected(c)
    /\ IF current # k \/ dataOf[c] = 0
       THEN line' = DownRead(k) /\ UNCHANGED dataOf
       ELSE /\ line' = [DownRead(k) EXCEPT
                  ![<<c, dataOf[c]>>] = IF @.near \in {"opening", "open"} THEN Leaves(@, "closing") ELSE @]
            /\ dataOf' = [dataOf EXCEPT ![c] = 0]
    /\ UNCHANGED <<current, retry, channel>> /\ Daemons

\* The handler of its close.
ControlLost(k, l) ==
    /\ line' = [line EXCEPT ![k] = l]
    /\ current' = IF current = k THEN None ELSE current
    /\ retry' = (retry \/ current = k)
    /\ UNCHANGED <<dataOf, channel>> /\ Daemons
OnControlClose(k) == NearReads(k, "close") /\ ControlLost(k, NearCloses(line[k]))
\* Mutant: a silent socket that the relay has given up is not terminated.
ControlStaleOpen(k) ==
    /\ line[k].silent /\ line[k].near = "open" /\ line[k].far = "open"
    /\ ControlLost(k, Tidy(Leaves(line[k], "closed")))
\* Nothing came for long enough: the socket is terminated (keepalive, ready timeout).
ControlStale(k) ==
    /\ line[k].silent /\ line[k].near = "open"
    /\ ControlLost(k, Tidy(Leaves(line[k], "closed")))

-----------------------------------------------------------------------------
(* The daemon's data sockets and channels *)
\* createDaemonChannel, and later hellos of the same key: the answer is "ready".
OnHello(d) ==
    /\ NearReads(d, "hello")
    /\ line' = IF line[d].near = "open" THEN [DownRead(d) EXCEPT ![d].up = Append(@, Ready)] ELSE DownRead(d)
    /\ channel' = IF line[d].near = "open" THEN [channel EXCEPT ![d] = "open"] ELSE channel
    /\ UNCHANGED <<current, retry, dataOf>> /\ Daemons

\* A first frame that is no hello fails the handshake.
OnData(d) ==
    /\ NearReads(d, "data")
    /\ line' = IF line[d].near = "open" /\ channel[d] = "waits"
               THEN [DownRead(d) EXCEPT ![d] = Leaves(@, "closing")] ELSE DownRead(d)
    /\ channel' = IF channel[d] = "waits" THEN [channel EXCEPT ![d] = "none"] ELSE channel
    /\ UNCHANGED <<current, retry, dataOf>> /\ Daemons

\* Mutant: the entry of a data socket that closes is not deleted.
ForgottenNot(d) == dataOf
Forgotten(d) == IF dataOf[d[1]] = d[2] THEN [dataOf EXCEPT ![d[1]] = 0] ELSE dataOf
OnDataClose(d) ==
    /\ NearReads(d, "close")
    /\ line' = [line EXCEPT ![d] = NearCloses(@)]
    /\ dataOf' = Forgotten(d)
    /\ channel' = [channel EXCEPT ![d] = "none"]
    /\ UNCHANGED <<current, retry>> /\ Daemons

-----------------------------------------------------------------------------
(* The client's socket and channel *)
\* The hello is said again every second; room for it, since the wires are bounded.
Room(c) == /\ line[c].up = <<>> /\ line[c].down = <<>>
           /\ \A d \in DatasOf(c) : line[d].up = <<>> /\ line[d].down = <<>>
HelloAgain(c) ==
    /\ line[c].near = "open" /\ shake[c] = "shaking" /\ Room(c)
    /\ line' = [line EXCEPT ![c].up = Append(@, Hello)]
    /\ UNCHANGED shake /\ AClient
Says(c) ==
    /\ line[c].near = "open" /\ shake[c] = "open" /\ Room(c)
    /\ line' = [line EXCEPT ![c].up = Append(@, Data)]
    /\ UNCHANGED shake /\ AClient
OnReady(c) ==
    /\ NearReads(c, "ready")
    /\ line' = DownRead(c)
    /\ shake' = [shake EXCEPT ![c] = "open"]
    /\ AClient
OnClientClose(c) ==
    /\ NearReads(c, "close")
    /\ line' = [line EXCEPT ![c] = ForGood(NearCloses(@))]
    /\ shake' = [shake EXCEPT ![c] = "none"]
    /\ AClient
\* The app closes its connection, or the client's own timeout does.
Disconnects(c) ==
    /\ line[c].near = "open"
    /\ line' = [line EXCEPT ![c] = Leaves(@, "closed")]
    /\ shake' = [shake EXCEPT ![c] = "none"]
    /\ AClient

-----------------------------------------------------------------------------
(* Failures *)
Fault == faults < MaxFaults /\ faults' = faults + 1
\* A connection is lost, and each end hears of it; what was under way is lost.
Breaks(x) ==
    /\ Fault /\ line[x].near # "closed" /\ line[x].far = "open" /\ ~line[x].silent
    /\ line' = [line EXCEPT ![x].up = <<CloseFrame>>, ![x].down = <<CloseFrame>>]
    /\ UNCHANGED <<pending, nudge, current, retry, dataOf, channel, shake>>
\* A control socket is half open: neither end hears of it.
FallsSilent(k) ==
    /\ Fault /\ line[k].near = "open" /\ line[k].far = "open" /\ ~line[k].silent
    /\ line' = [line EXCEPT ![k].silent = TRUE, ![k].up = <<>>, ![k].down = <<>>]
    /\ UNCHANGED <<pending, nudge, current, retry, dataOf, channel, shake>>
\* A data socket is refused, or not opened in time.
DataRefused(d) ==
    /\ Fault /\ line[d].near = "opening" /\ (LateRefusals \/ nudge[d[1]] # "none")
    /\ line' = [line EXCEPT ![d] = NoLine]
    /\ dataOf' = Forgotten(d)
    /\ UNCHANGED <<pending, nudge, current, retry, channel, shake>>

-----------------------------------------------------------------------------
RelayReads(c) ==
    \/ ClientGone(c) \/ \E f \in {Hello, Data} : FromClient(c, f)
ClientReads(c) == OnReady(c) \/ OnClientClose(c)
RelayReadsData(d) == FromData(d) \/ DataGone(d)
DaemonReadsData(d) == OnHello(d) \/ OnData(d) \/ OnDataClose(d)
ControlReads(k) ==
    \/ OnSync(k) \/ \E c \in Clients : OnDisconnected(k, c)
    \/ OnControlClose(k) \/ ControlStale(k)
Next ==
    \/ \E c \in Clients : \/ Connects(c) \/ HelloAgain(c) \/ Says(c) \/ Disconnects(c)
                          \/ ClientReads(c) \/ RelayReads(c) \/ Nudges(c)
    \/ \E k \in Controls : \/ ConnectControl(k) \/ ControlReads(k)
                           \/ ControlGone(k) \/ FallsSilent(k)
    \/ \E d \in Datas : \/ TakesData(d[1], d[2]) \/ RelayReadsData(d) \/ DaemonReadsData(d)
                        \/ DataRefused(d)
    \/ \E x \in Sockets : Breaks(x)

\* Timers fire, connections are made, and what was sent is read.
Fairness ==
    /\ \A c \in Clients : /\ WF_vars(HelloAgain(c)) /\ WF_vars(ClientReads(c)) 
                          /\ WF_vars(RelayReads(c)) /\ WF_vars(Nudges(c))
    /\ \A k \in Controls : WF_vars(ControlReads(k)) /\ WF_vars(ControlGone(k))
    /\ WF_vars(\E k \in Controls : ConnectControl(k))
    /\ \A d \in Datas : /\ WF_vars(TakesData(d[1], d[2]))
                        /\ WF_vars(RelayReadsData(d)) /\ WF_vars(DaemonReadsData(d))
Spec == Init /\ [][Next]_vars
FairSpec == Spec /\ Fairness

-----------------------------------------------------------------------------
(* Properties *)
\* A client that stays gets a channel or is told to come again, though a connection is
\* lost, refused or half open meanwhile (connected, sync, nudges, repeated hellos).  It is
\* not so with LateRefusals.
Waits(c) == line[c].near = "open" /\ shake[c] = "shaking"
ClientServed == \A c \in Clients : Waits(c) ~> ~Waits(c)

\* A client does not go on with a channel whose other end is gone (webSocketClose).
Stranded(c) ==
    /\ line[c].near = "open" /\ shake[c] = "open"
    /\ \A d \in DatasOf(c) : channel[d] # "open"
StrandedLeaves == \A c \in Clients : Stranded(c) ~> ~Stranded(c)

\* The daemon ends up with one control socket that works at both ends, though sockets are
\* lost, fall silent, are replaced, or are reset by the nudges (keepalive, scheduleReconnect).
Controlled == current # None /\ line[current].near = "open" /\ line[current].far = "open"
              /\ ~line[current].silent
ControlSettles == <>[]Controlled

\* The daemon keeps no data socket of a client that is gone ("clean up matching server-data
\* socket").  It does not hold when the control socket is lost as the client leaves.
OrphansClose ==
    \A c \in Clients : (line[c].near = "closed" /\ line[c].far \in {"none", "gone"})
        ~> \A d \in DatasOf(c) : line[d].near \in {"free", "closed"}
=============================================================================
