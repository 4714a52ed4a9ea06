-------------------------- MODULE ClientSessionsProofs --------------------------
(***************************************************************************)
(* Proofs about ClientSessions, for any clients, requests, sockets and       *)
(* faults: its types, that sessions are held by their sockets, and that no   *)
(* request waits in vain.                                                   *)
(***************************************************************************)
EXTENDS ClientSessions, TLAPS

-----------------------------------------------------------------------------
(* Types *)
ClientType ==
    [status: {"idle", "connecting", "connected", "disconnected", "disposed"},
     transport: Sockets \cup {None}, retry: BOOLEAN, deadline: BOOLEAN,
     error: BOOLEAN, promise: BOOLEAN]
RequestType ==
    [st: {"new", "queued", "sent", "answered", "failed"}, by: Clients \cup {None},
     on: Sockets \cup {None}, waiter: BOOLEAN]
LineType ==
    [st: {"unused", "opening", "open", "shut", "closed"},
     up: SUBSET ({"hello", "close"} \cup Requests),
     down: SUBSET ({"open", "server_info", "error", "close"} \cup Requests)]
ConnType == [live: BOOLEAN, sockets: SUBSET Sockets, grace: BOOLEAN]

\* TypeOK, by who keeps what.
ClientTypes == client \in [Clients -> ClientType] /\ req \in [Requests -> RequestType]
LineTypes == line \in [Sockets -> LineType]
ServerTypes ==
    /\ pending \subseteq Sockets /\ checking \subseteq Sockets
    /\ session \in [Sockets -> Sockets \cup {None}]
    /\ conn \in [Sockets -> ConnType]
    /\ byKey \in Sockets \cup {None}
    /\ handling \subseteq (Requests \X Sockets)
FaultTypes == faults \in 0..MaxFaults

LEMMA TypesOK == TypeOK <=> ClientTypes /\ LineTypes /\ ServerTypes /\ FaultTypes
  BY DEF TypeOK, ClientTypes, LineTypes, ServerTypes, FaultTypes, ClientType, RequestType,
         LineType, ConnType

\* What a client or the server does to a socket leaves it a socket.
LEMMA DisposedType ==
    ASSUME NEW l \in [Sockets -> LineType], NEW s \in Sockets \cup {None}
    PROVE  Disposed(l, s) \in [Sockets -> LineType]
  BY SessionsAssumption DEF Disposed, LineType

LEMMA ShutType ==
    ASSUME NEW l \in [Sockets -> LineType], NEW s \in Sockets
    PROVE  Shut(l, s) \in [Sockets -> LineType]
  BY DEF Shut, LineType

LEMMA DeliversType ==
    ASSUME NEW l \in [Sockets -> LineType], NEW to, NEW m \in {"server_info"} \cup Requests
    PROVE  Delivers(to, m, l) \in [Sockets -> LineType]
  BY DEF Delivers, LineType

LEMMA TakenType ==
    ASSUME LineTypes, NEW s \in Sockets, NEW m
    PROVE  Taken(s, m) \in [Sockets -> LineType]
  BY DEF Taken, LineTypes, LineType

LEMMA SendsType ==
    ASSUME LineTypes, NEW s \in Sockets, NEW msgs \in SUBSET ({"hello"} \cup Requests)
    PROVE  Sends(s, msgs) \in [Sockets -> LineType]
  BY DEF Sends, LineTypes, LineType

LEMMA ReadsType ==
    ASSUME LineTypes, NEW d \in Clients, NEW m
    PROVE  Reads(d, m) \in [Sockets -> LineType]
  BY DEF Reads, LineTypes, LineType

LEMMA ReconnectType ==
    ASSUME ClientTypes, NEW d \in Clients, NEW c \in ClientType, SchedulesReconnect(d, c)
    PROVE  ClientTypes'
  BY ZenonT(40) DEF ClientTypes, ClientType, RequestType, SchedulesReconnect, Of

LEMMA AttemptsType ==
    ASSUME ClientTypes, LineTypes, NEW d \in Clients, NEW c \in ClientType, Attempts(d, c),
           UNCHANGED req
    PROVE  ClientTypes' /\ LineTypes'
  <1> DEFINE s == CHOOSE s \in Sockets : line[s].st = "unused"
             l == Disposed(line, client[d].transport)
  <1>1. s \in Sockets
    BY DEF Attempts
  <1>2. client[d].transport \in Sockets \cup {None}
    BY DEF ClientTypes, ClientType
  <1>3. l \in [Sockets -> LineType]
    BY <1>2, DisposedType DEF LineTypes
  <1>4. /\ line' = [l EXCEPT ![s].st = "opening"]
        /\ client' = [client EXCEPT ![d] =
             [c EXCEPT !.status = "connecting", !.transport = s, !.deadline = TRUE, !.error = FALSE]]
    BY DEF Attempts
  <1> HIDE DEF s, l
  <1>5. LineTypes'
    BY <1>1, <1>3, <1>4 DEF LineTypes, LineType
  <1>6. ClientTypes'
    BY <1>1, <1>4 DEF ClientTypes, ClientType
  <1> QED BY <1>5, <1>6

LEMMA FinalizesType ==
    ASSUME ServerTypes, NEW s \in Sockets, NEW l \in [Sockets -> LineType], Finalizes(s, l),
           UNCHANGED handling, checking' \subseteq Sockets
    PROVE  ServerTypes' /\ LineTypes'
  <1>1. LineTypes'
    BY DeliversType DEF Finalizes, LineTypes
  <1>2. ServerTypes'
    BY DEF Finalizes, ServerTypes, ConnType
  <1> QED BY <1>1, <1>2

LEMMA DetachedType ==
    ASSUME ServerTypes, NEW s \in Sockets, session[s] # None, Detached(s)
    PROVE  session' \in [Sockets -> Sockets \cup {None}] /\ conn' \in [Sockets -> ConnType]
  BY DEF Detached, ServerTypes, ConnType

LEMMA InitTypes == Init => TypeOK
  <1> SUFFICES ASSUME Init PROVE TypeOK
    OBVIOUS
  <1>1. ClientTypes
    BY DEF Init, ClientTypes, ClientType, RequestType, NoClient, NoRequest
  <1>2. LineTypes
    BY DEF Init, LineTypes, LineType, NoLine
  <1>3. ServerTypes
    BY DEF Init, ServerTypes, ConnType, NoSession
  <1>4. FaultTypes
    BY SessionsAssumption DEF Init, FaultTypes
  <1> QED BY <1>1, <1>2, <1>3, <1>4, TypesOK

LEMMA FaultsType ==
    ASSUME FaultTypes, Fault \/ UNCHANGED faults
    PROVE  FaultTypes'
  BY SessionsAssumption DEF FaultTypes, Fault

LEMMA ServerKept ==
    ASSUME ServerTypes, UNCHANGED server
    PROVE  ServerTypes'
  BY DEF ServerTypes, server

LEMMA ClientKept ==
    ASSUME ClientTypes, UNCHANGED <<client, req>>
    PROVE  ClientTypes'
  BY DEF ClientTypes

-----------------------------------------------------------------------------
(* Every action keeps the types *)
Typed == ClientTypes /\ LineTypes /\ ServerTypes /\ FaultTypes

LEMMA ClientActionsType ==
    ASSUME Typed, NEW d \in Clients,
           Connect(d) \/ RetryFires(d) \/ ConnectTimesOut(d) \/ ErrorTimerFires(d) \/ Close(d)
    PROVE  Typed'
  <1> USE DEF Typed
  <1>t. client[d] \in ClientType
    BY DEF ClientTypes
  <1>k. UNCHANGED server => ServerTypes'
    BY ServerKept
  <1>f. (Fault \/ UNCHANGED faults) => FaultTypes'
    BY FaultsType
  <1>d. Disposed(line, client[d].transport) \in [Sockets -> LineType]
    BY <1>t, DisposedType DEF ClientType, LineTypes
  <1>1. CASE Connect(d)
    <2>1. [client[d] EXCEPT !.promise = TRUE] \in ClientType
      BY <1>t DEF ClientType
    <2>2. ClientTypes' /\ LineTypes'
      BY <1>1, <2>1, AttemptsType DEF Connect
    <2> QED BY <1>1, <2>2, <1>k, <1>f DEF Connect
  <1>2. CASE RetryFires(d)
    <2>1. [client[d] EXCEPT !.retry = FALSE] \in ClientType
      BY <1>t DEF ClientType
    <2>2. CASE client[d].status = "connecting"
      <3>1. client' = [client EXCEPT ![d] = [client[d] EXCEPT !.retry = FALSE]] /\ UNCHANGED <<line, req>>
        BY <1>2, <2>2 DEF RetryFires
      <3>2. ClientTypes' /\ LineTypes'
        BY <2>1, <3>1 DEF ClientTypes, LineTypes
      <3> QED BY <1>2, <3>2, <1>k, <1>f DEF RetryFires
    <2>3. CASE client[d].status # "connecting"
      <3>1. Attempts(d, [client[d] EXCEPT !.retry = FALSE]) /\ UNCHANGED req
        BY <1>2, <2>3 DEF RetryFires
      <3>2. ClientTypes' /\ LineTypes'
        BY <2>1, <3>1, AttemptsType
      <3> QED BY <1>2, <3>2, <1>k, <1>f DEF RetryFires
    <2> QED BY <2>2, <2>3
  <1>3. CASE ConnectTimesOut(d)
    <2>1. [client[d] EXCEPT !.transport = None, !.deadline = FALSE, !.error = FALSE] \in ClientType
      BY <1>t DEF ClientType
    <2>2. ClientTypes'
      BY <1>3, <2>1, ReconnectType DEF ConnectTimesOut
    <2>3. LineTypes'
      BY <1>3, <1>d DEF ConnectTimesOut, LineTypes
    <2> QED BY <1>3, <2>2, <2>3, <1>k, <1>f DEF ConnectTimesOut
  <1>4. CASE ErrorTimerFires(d)
    <2>1. [client[d] EXCEPT !.error = FALSE] \in ClientType
      BY <1>t DEF ClientType
    <2>2. ClientTypes'
      <3>1. CASE client[d].status \in {"connected", "connecting"}
        BY <1>4, <2>1, <3>1, ReconnectType DEF ErrorTimerFires
      <3>2. CASE client[d].status \notin {"connected", "connecting"}
        <4>1. client' = [client EXCEPT ![d] = [client[d] EXCEPT !.error = FALSE]] /\ UNCHANGED req
          BY <1>4, <3>2 DEF ErrorTimerFires
        <4> QED BY <4>1, <2>1 DEF ClientTypes
      <3> QED BY <3>1, <3>2
    <2>3. LineTypes'
      BY <1>4 DEF ErrorTimerFires, LineTypes
    <2> QED BY <1>4, <2>2, <2>3, <1>k, <1>f DEF ErrorTimerFires
  <1>5. CASE Close(d)
    <2>1. LineTypes'
      BY <1>5, <1>d DEF Close, LineTypes
    <2>2. ClientTypes'
      <3>1. [NoClient EXCEPT !.status = "disposed"] \in ClientType
        BY DEF NoClient, ClientType
      <3>2. client' \in [Clients -> ClientType]
        BY <1>5, <3>1 DEF Close, ClientTypes
      <3>3. req' \in [Requests -> RequestType]
        BY <1>5 DEF Close, ClientTypes, RequestType
      <3> QED BY <3>2, <3>3 DEF ClientTypes
    <2> QED BY <1>5, <2>1, <2>2, <1>k, <1>f DEF Close
  <1> QED BY <1>1, <1>2, <1>3, <1>4, <1>5

LEMMA HeardSocket ==
    ASSUME ClientTypes, NEW d \in Clients, NEW m, Hears(d, m)
    PROVE  client[d].transport \in Sockets /\ m \in line[client[d].transport].down
  BY DEF Hears, Comes, ClientTypes, ClientType

LEMMA ClientReadsType ==
    ASSUME Typed, NEW d \in Clients, ClientReads(d)
    PROVE  Typed'
  <1> USE DEF Typed
  <1>t. client[d] \in ClientType
    BY DEF ClientTypes
  <1>k. UNCHANGED server => ServerTypes'
    BY ServerKept
  <1>f. UNCHANGED faults => FaultTypes'
    BY FaultsType
  <1>r. \A m : Reads(d, m) \in [Sockets -> LineType]
    BY ReadsType
  <1>c. /\ [client[d] EXCEPT !.error = FALSE] \in ClientType
        /\ [client[d] EXCEPT !.deadline = FALSE, !.error = TRUE] \in ClientType
        /\ [client[d] EXCEPT !.deadline = FALSE, !.error = FALSE] \in ClientType
    BY <1>t DEF ClientType
  <1> DEFINE s == client[d].transport
  <1>1. CASE OnOpen(d)
    <2>1. s \in Sockets
      BY <1>1, HeardSocket DEF OnOpen
    <2>2. Sends(s, {"hello"}) \in [Sockets -> LineType]
      BY <2>1, SendsType
    <2>3. CASE SchedulesReconnect(d, [client[d] EXCEPT !.error = FALSE]) /\ line' = Reads(d, "open")
      <3>1. ClientTypes'
        BY <2>3, <1>c, ReconnectType
      <3>2. LineTypes'
        BY <2>3, <1>r DEF LineTypes
      <3> QED BY <1>1, <3>1, <3>2, <1>k, <1>f DEF OnOpen
    <2>4. CASE /\ line' = [Sends(s, {"hello"}) EXCEPT ![s].down = @ \ {"open"}]
               /\ client' = [client EXCEPT ![d] = [client[d] EXCEPT !.error = FALSE]] /\ UNCHANGED req
      <3>1. ClientTypes'
        BY <2>4, <1>c DEF ClientTypes
      <3>2. LineTypes'
        BY SMTT(30), <2>1, <2>2, <2>4 DEF LineTypes, LineType
      <3> QED BY <1>1, <3>1, <3>2, <1>k, <1>f DEF OnOpen
    <2> QED BY <1>1, <2>3, <2>4 DEF OnOpen
  <1>2. CASE OnServerInfo(d)
    <2>1. s \in Sockets
      BY <1>2, HeardSocket DEF OnServerInfo
    <2>2. Sends(s, Of(d, {"queued"})) \in [Sockets -> LineType]
      BY <2>1, SendsType DEF Of
    <2>3. CASE client[d].status # "connecting"
      <3>1. line' = Reads(d, "server_info") /\ UNCHANGED <<client, req>>
        BY <1>2, <2>3 DEF OnServerInfo
      <3>2. LineTypes'
        BY <3>1, <1>r DEF LineTypes
      <3>3. ClientTypes'
        BY <3>1, ClientKept
      <3> QED BY <1>2, <3>2, <3>3, <1>k, <1>f DEF OnServerInfo
    <2>4. CASE client[d].status = "connecting"
      <3>1. /\ line' = [Sends(s, Of(d, {"queued"})) EXCEPT ![s].down = @ \ {"server_info"}]
            /\ client' = [client EXCEPT ![d].status = "connected", ![d].deadline = FALSE,
                                        ![d].promise = FALSE]
            /\ req' = [r \in Requests |->
                 IF r \notin Of(d, {"queued"}) THEN req[r]
                 ELSE [req[r] EXCEPT !.st = IF req[r].waiter THEN "sent" ELSE "failed", !.on = s]]
        BY <1>2, <2>4 DEF OnServerInfo
      <3>2. LineTypes'
        BY ZenonT(40), <2>1, <2>2, <3>1 DEF LineTypes, LineType
      <3>3. client' \in [Clients -> ClientType]
        <4> DEFINE c == [client[d] EXCEPT !.status = "connected", !.deadline = FALSE,
                                           !.promise = FALSE]
        <4>1. c \in ClientType
          BY <1>t DEF ClientType
        <4>2. client' = [client EXCEPT ![d] = c]
          BY <3>1, <1>t DEF ClientTypes, ClientType
        <4> QED BY <4>1, <4>2 DEF ClientTypes
      <3>4. req' \in [Requests -> RequestType]
        <4> HIDE DEF s
        <4> QED BY <3>1, <2>1 DEF ClientTypes, RequestType
      <3> QED BY <1>2, <3>2, <3>3, <3>4, <1>k, <1>f DEF OnServerInfo, ClientTypes
    <2> QED BY <2>3, <2>4
  <1>3. CASE OnError(d)
    <2>1. LineTypes'
      BY <1>3, <1>r DEF OnError, LineTypes
    <2>2. CASE SchedulesReconnect(d, [client[d] EXCEPT !.deadline = FALSE, !.error = FALSE])
      <3>1. ClientTypes'
        BY <2>2, <1>c, ReconnectType
      <3> QED BY <1>3, <3>1, <2>1, <1>k, <1>f DEF OnError
    <2>3. CASE client' = [client EXCEPT ![d].deadline = FALSE, ![d].error = TRUE] /\ UNCHANGED req
      <3>1. ClientTypes'
        BY ZenonT(40), <2>3 DEF ClientTypes, ClientType
      <3> QED BY <1>3, <3>1, <2>1, <1>k, <1>f DEF OnError
    <2> QED BY <1>3, <2>2, <2>3 DEF OnError
  <1>4. CASE OnClose(d)
    <2>1. LineTypes'
      BY <1>4, <1>r DEF OnClose, LineTypes
    <2>2. ClientTypes'
      BY <1>4, <1>c, ReconnectType DEF OnClose
    <2> QED BY <1>4, <2>1, <2>2, <1>k, <1>f DEF OnClose
  <1>5. CASE \E r \in Requests : OnAnswer(d, r)
    <2>1. PICK r \in Requests : OnAnswer(d, r)
      BY <1>5
    <2>2. LineTypes'
      BY <2>1, <1>r DEF OnAnswer, LineTypes
    <2>3. ClientTypes'
      BY <2>1 DEF OnAnswer, ClientTypes, RequestType
    <2> QED BY <2>1, <2>2, <2>3, <1>k, <1>f DEF OnAnswer
  <1> QED BY <1>1, <1>2, <1>3, <1>4, <1>5 DEF ClientReads

LEMMA RequestActionsType ==
    ASSUME Typed, NEW r \in Requests,
           (\E d \in Clients : Asks(d, r)) \/ RequestTimesOut(r) \/ QueueTimesOut(r)
    PROVE  Typed'
  <1> USE DEF Typed
  <1>k. UNCHANGED server => ServerTypes'
    BY ServerKept
  <1>f. UNCHANGED faults => FaultTypes'
    BY FaultsType
  <1>1. ASSUME NEW d \in Clients, Asks(d, r)
        PROVE  Typed'
    <2>1. client[d].transport \in Sockets \cup {None}
      BY DEF ClientTypes, ClientType
    <2>2. ClientTypes'
      <3> DEFINE asked == [NoRequest EXCEPT !.by = d, !.waiter = TRUE]
      <3>1. /\ [asked EXCEPT !.st = "sent", !.on = client[d].transport] \in RequestType
            /\ [asked EXCEPT !.st = "queued"] \in RequestType
            /\ [asked EXCEPT !.st = "failed"] \in RequestType
        BY <2>1 DEF RequestType, NoRequest
      <3>2. PICK q \in RequestType : req' = [req EXCEPT ![r] = q]
        BY <1>1, <3>1 DEF Asks
      <3>3. UNCHANGED client
        BY <1>1 DEF Asks
      <3> QED BY <3>2, <3>3 DEF ClientTypes
    <2>3. LineTypes'
      <3>1. Sends(client[d].transport, {r}) \in [Sockets -> LineType]
        <4>1. CASE client[d].transport \in Sockets
          BY <4>1, SendsType
        <4>2. CASE client[d].transport = None
          BY <4>2, SessionsAssumption DEF Sends, LineTypes, LineType
        <4> QED BY <2>1, <4>1, <4>2
      <3> QED BY <1>1, <3>1 DEF Asks, LineTypes
    <2> QED BY <1>1, <2>2, <2>3, <1>k, <1>f DEF Asks
  <1>2. CASE RequestTimesOut(r)
    BY ZenonT(40), <1>2, <1>k, <1>f DEF RequestTimesOut, ClientTypes, RequestType, LineTypes
  <1>3. CASE QueueTimesOut(r)
    BY <1>3, <1>k, <1>f DEF QueueTimesOut, ClientTypes, RequestType, LineTypes
  <1> QED BY <1>1, <1>2, <1>3

LEMMA NetworkType ==
    ASSUME Typed, NEW s \in Sockets, Opens(s) \/ Refused(s) \/ Breaks(s)
    PROVE  Typed'
  <1> USE DEF Typed
  <1>f. (Fault \/ UNCHANGED faults) => FaultTypes'
    BY FaultsType
  <1>c. UNCHANGED <<client, req>> => ClientTypes'
    BY ClientKept
  <1>k. UNCHANGED server => ServerTypes'
    BY ServerKept
  <1>1. CASE Opens(s)
    <2>1. LineTypes'
      BY <1>1 DEF Opens, LineTypes, LineType
    <2>2. ServerTypes'
      BY <1>1 DEF Opens, ServerTypes
    <2> QED BY <1>1, <2>1, <2>2, <1>f, <1>c DEF Opens
  <1>2. CASE Refused(s)
    <2>1. LineTypes'
      <3>1. PICK notice \in {{"close"}, {"error", "close"}} :
              line' = [line EXCEPT ![s] = [line[s] EXCEPT !.st = "closed", !.down = notice]]
        BY <1>2 DEF Refused
      <3> QED BY <3>1 DEF LineTypes, LineType
    <2> QED BY <1>2, <2>1, <1>k, <1>f, <1>c DEF Refused
  <1>3. CASE Breaks(s)
    <2>1. LineTypes'
      <3>1. PICK notice \in {{"close"}, {"error", "close"}} :
              line' = [line EXCEPT ![s] = [st |-> "shut", up |-> {"close"}, down |-> notice]]
        BY <1>3 DEF Breaks, Lost
      <3> QED BY <3>1 DEF LineTypes, LineType
    <2> QED BY <1>3, <2>1, <1>k, <1>f, <1>c DEF Breaks
  <1> QED BY <1>1, <1>2, <1>3

LEMMA ServerActionsType ==
    ASSUME Typed, NEW s \in Sockets,
           ServerReads(s) \/ Validated(s) \/ HelloRefused(s) \/ HelloTimesOut(s) \/ GraceExpires(s)
    PROVE  Typed'
  <1> USE DEF Typed
  <1>f. (Fault \/ UNCHANGED faults) => FaultTypes'
    BY FaultsType
  <1>c. UNCHANGED <<client, req>> => ClientTypes'
    BY ClientKept
  <1>l. \A m : Taken(s, m) \in [Sockets -> LineType]
    BY TakenType
  <1>s. /\ Shut(line, s) \in [Sockets -> LineType]
        /\ Shut(Taken(s, "hello"), s) \in [Sockets -> LineType]
    BY <1>l, ShutType DEF LineTypes
  <1>1. CASE OnHello(s)
    <2>1. CASE s \in pending /\ Finalizes(s, Taken(s, "hello")) /\ UNCHANGED checking
      <3>1. ServerTypes' /\ LineTypes'
        <4>1. UNCHANGED handling /\ checking' \subseteq Sockets
          BY <1>1, <2>1 DEF OnHello, ServerTypes
        <4> QED BY <2>1, <4>1, <1>l, FinalizesType
      <3> QED BY <1>1, <3>1, <1>f, <1>c DEF OnHello
    <2>2. CASE /\ checking' = IF s \in pending THEN checking \cup {s} ELSE checking
               /\ line' = Taken(s, "hello")
               /\ UNCHANGED <<pending, session, conn, byKey>>
      <3>1. ServerTypes' /\ LineTypes'
        BY <1>1, <2>2, <1>l DEF OnHello, ServerTypes, LineTypes
      <3> QED BY <1>1, <3>1, <1>f, <1>c DEF OnHello
    <2> QED BY <1>1, <2>1, <2>2 DEF OnHello
  <1>2. CASE OnSocketClose(s)
    <2>1. LineTypes'
      BY <1>2 DEF OnSocketClose, LineTypes, LineType
    <2>2. session' \in [Sockets -> Sockets \cup {None}] /\ conn' \in [Sockets -> ConnType]
      <3>1. CASE s \in pending \/ session[s] = None
        BY <1>2, <3>1 DEF OnSocketClose, ServerTypes
      <3>2. CASE ~(s \in pending \/ session[s] = None)
        BY <1>2, <3>2, DetachedType DEF OnSocketClose
      <3> QED BY <3>1, <3>2
    <2>3. ServerTypes'
      BY <1>2, <2>2 DEF OnSocketClose, ServerTypes
    <2> QED BY <1>2, <2>1, <2>3, <1>f, <1>c DEF OnSocketClose
  <1>3. CASE \E r \in Requests : OnRequest(s, r)
    <2>1. PICK r \in Requests : OnRequest(s, r)
      BY <1>3
    <2>2. LineTypes'
      BY <2>1, <1>l DEF OnRequest, LineTypes
    <2>3. ServerTypes'
      BY <2>1 DEF OnRequest, ServerTypes
    <2> QED BY <2>1, <2>2, <2>3, <1>f, <1>c DEF OnRequest
  <1>4. CASE Validated(s)
    <2>1. UNCHANGED handling /\ checking' \subseteq Sockets /\ Finalizes(s, line)
      BY <1>4 DEF Validated, ServerTypes
    <2>2. ServerTypes' /\ LineTypes'
      BY <2>1, FinalizesType DEF LineTypes
    <2> QED BY <1>4, <2>2, <1>f, <1>c DEF Validated
  <1>5. CASE HelloRefused(s)
    <2>1. LineTypes'
      BY <1>5, <1>s DEF HelloRefused, LineTypes
    <2>2. ServerTypes'
      BY <1>5 DEF HelloRefused, ServerTypes
    <2> QED BY <1>5, <2>1, <2>2, <1>f, <1>c DEF HelloRefused
  <1>6. CASE HelloTimesOut(s)
    <2>1. LineTypes'
      BY <1>6, <1>s DEF HelloTimesOut, LineTypes
    <2>2. ServerTypes'
      BY <1>6 DEF HelloTimesOut, ServerTypes
    <2> QED BY <1>6, <2>1, <2>2, <1>f, <1>c DEF HelloTimesOut
  <1>7. CASE GraceExpires(s)
    <2>1. NoSession \in ConnType
      BY DEF NoSession, ConnType
    <2>2. ServerTypes'
      BY <1>7, <2>1 DEF GraceExpires, ServerTypes
    <2> QED BY <1>7, <2>2, <1>f, <1>c DEF GraceExpires, LineTypes
  <1> QED BY <1>1, <1>2, <1>3, <1>4, <1>5, <1>6, <1>7 DEF ServerReads

LEMMA AnswersType ==
    ASSUME Typed, NEW r \in Requests, NEW k \in Sockets, Answers(r, k)
    PROVE  Typed'
  <1>1. LineTypes'
    BY DeliversType DEF Typed, Answers, LineTypes
  <1>2. ServerTypes'
    BY DEF Typed, Answers, ServerTypes
  <1> QED BY <1>1, <1>2, ClientKept, FaultsType DEF Typed, Answers

LEMMA RestartsType ==
    ASSUME Typed, Restarts
    PROVE  Typed'
  <1>1. LineTypes'
    BY DEF Typed, Restarts, LineTypes, LineType
  <1>2. NoSession \in ConnType
    BY DEF NoSession, ConnType
  <1>3. ServerTypes'
    BY <1>2 DEF Typed, Restarts, ServerTypes
  <1> QED BY <1>1, <1>3, ClientKept, FaultsType DEF Typed, Restarts

LEMMA StepTypes == Typed /\ [Next]_vars => Typed'
  <1> SUFFICES ASSUME Typed, [Next]_vars PROVE Typed'
    OBVIOUS
  <1>1. CASE UNCHANGED vars
    BY <1>1 DEF Typed, vars, server, ClientTypes, LineTypes, ServerTypes, FaultTypes
  <1>2. CASE Next
    BY <1>2, ClientActionsType, ClientReadsType, RequestActionsType, NetworkType,
       ServerActionsType, AnswersType, RestartsType DEF Next
  <1> QED BY <1>1, <1>2

\* Whatever the app, the network and the daemon do, every variable keeps its type.
THEOREM SessionsTypeOK == Spec => []TypeOK
  <1>1. Init => Typed
    BY InitTypes, TypesOK DEF Typed
  <1>2. Typed => TypeOK
    BY TypesOK DEF Typed
  <1> QED BY <1>1, <1>2, StepTypes, PTL DEF Spec

-----------------------------------------------------------------------------
(* Sessions and their sockets *)
\* SessionHeld, and that a session with a socket is live.
Attached == \A k \in Sockets : conn[k].sockets # {} => conn[k].live
Held == SessionHeld /\ Attached

LEMMA InitHeld == Init => Held
  BY SessionsAssumption DEF Init, Held, SessionHeld, Attached, NoSession

LEMMA HeldKept ==
    ASSUME Held, UNCHANGED <<session, conn, byKey>>
    PROVE  Held'
  BY DEF Held, SessionHeld, Attached

LEMMA FinalizesHeld ==
    ASSUME ServerTypes, Held, NEW s \in Sockets, NEW l, Finalizes(s, l)
    PROVE  Held'
  <1> DEFINE k == IF byKey = None THEN s ELSE byKey
  <1>1. /\ k \in Sockets /\ None \notin Sockets
        /\ conn' = [conn EXCEPT ![k] = [live |-> TRUE, sockets |-> conn[k].sockets \cup {s},
                                        grace |-> FALSE]]
        /\ session' = [session EXCEPT ![s] = k] /\ byKey' = k
    BY SessionsAssumption DEF Finalizes, ServerTypes
  \* s was not attached to another session
  <1>2. session[s] \in {None, k}
    BY <1>1 DEF Held, SessionHeld, Attached, ServerTypes
  <1>3. \A j \in Sockets : j # k => ~conn[j].live /\ conn'[j] = conn[j]
    BY <1>1 DEF Held, SessionHeld, ServerTypes
  <1>4. /\ conn'[k].live /\ ~conn'[k].grace /\ conn'[k].sockets = conn[k].sockets \cup {s}
    BY <1>1 DEF ServerTypes
  <1>5. conn'[k].sockets = {x \in Sockets : session'[x] = k}
    BY <1>1, <1>4 DEF Held, SessionHeld, ServerTypes
  <1>6. \A j \in Sockets : j # k => conn'[j].sockets = {x \in Sockets : session'[x] = j}
    BY <1>1, <1>2, <1>3 DEF Held, SessionHeld, ServerTypes
  <1> HIDE DEF k
  <1>7. Attached'
    BY <1>1, <1>3, <1>4 DEF Held, Attached
  <1>8. SessionHeld'
    BY <1>1, <1>3, <1>4, <1>5, <1>6 DEF Held, SessionHeld
  <1> QED BY <1>7, <1>8 DEF Held

LEMMA DetachedHeld ==
    ASSUME ServerTypes, Held, NEW s \in Sockets, session[s] # None, Detached(s), UNCHANGED byKey
    PROVE  Held'
  <1> DEFINE k == session[s]
  <1>1. /\ k \in Sockets /\ session[s] = k /\ None \notin Sockets
        /\ conn' = [conn EXCEPT ![k].sockets = @ \ {s}, ![k].grace = (conn[k].sockets = {s})]
        /\ session' = [session EXCEPT ![s] = None]
    BY SessionsAssumption DEF Detached, ServerTypes
  <1>2. s \in conn[k].sockets /\ conn[k].live
    BY <1>1 DEF Held, SessionHeld, Attached
  <1>3. \A j \in Sockets : j # k => conn'[j] = conn[j]
    BY <1>1 DEF ServerTypes
  <1>r. conn[k] \in ConnType /\ DOMAIN conn = Sockets
    BY <1>1 DEF ServerTypes
  <1> HIDE DEF k
  <1>4a. conn'[k].sockets = conn[k].sockets \ {s}
    BY <1>1, <1>r DEF ConnType
  <1>4b. conn'[k].live <=> conn[k].live
    BY <1>1, <1>r DEF ConnType
  <1>4c. conn'[k].grace <=> conn[k].sockets = {s}
    BY <1>1, <1>r DEF ConnType
  <1>4. /\ conn'[k].live <=> conn[k].live
        /\ conn'[k].sockets = conn[k].sockets \ {s}
        /\ conn'[k].grace <=> conn[k].sockets = {s}
    BY <1>4a, <1>4b, <1>4c
  <1>5. \A j \in Sockets : conn'[j].sockets = {x \in Sockets : session'[x] = j}
    <2>1. conn[k].sockets = {x \in Sockets : session[x] = k}
      BY <1>1 DEF Held, SessionHeld
    <2>2. conn'[k].sockets = {x \in Sockets : session'[x] = k}
      BY <1>1, <1>4, <2>1 DEF ServerTypes
    <2>3. ASSUME NEW j \in Sockets, j # k
          PROVE  conn'[j].sockets = {x \in Sockets : session'[x] = j}
      <3>1. conn[j].sockets = {x \in Sockets : session[x] = j}
        BY DEF Held, SessionHeld
      <3>2. \A x \in Sockets : session'[x] = j <=> session[x] = j
        BY <1>1, <2>3 DEF ServerTypes
      <3> QED BY <1>3, <2>3, <3>1, <3>2
    <2> QED BY <2>2, <2>3
  <1>6. conn'[k].grace <=> conn'[k].sockets = {}
    BY <1>2, <1>4
  <1>7. Attached'
    BY <1>2, <1>3, <1>4 DEF Held, Attached
  <1>8. SessionHeld'
    <2> SUFFICES ASSUME NEW j \in Sockets
                 PROVE  /\ conn'[j].live <=> byKey' = j
                        /\ conn'[j].grace <=> conn'[j].live /\ conn'[j].sockets = {}
      BY <1>5 DEF SessionHeld
    <2>1. CASE j = k
      BY <2>1, <1>2, <1>4, <1>6 DEF Held, SessionHeld
    <2>2. CASE j # k
      BY <2>2, <1>3 DEF Held, SessionHeld
    <2> QED BY <2>1, <2>2
  <1> QED BY <1>7, <1>8 DEF Held

LEMMA GraceHeld ==
    ASSUME ServerTypes, Held, NEW k \in Sockets, GraceExpires(k)
    PROVE  Held'
  <1>1. conn[k].live /\ conn[k].sockets = {} /\ byKey = k /\ None \notin Sockets
    BY SessionsAssumption DEF GraceExpires, Held, SessionHeld
  <1>2. session' = session /\ byKey' = None /\ conn' = [conn EXCEPT ![k] = NoSession]
    BY <1>1 DEF GraceExpires, ServerTypes
  <1>3. \A j \in Sockets : j # k => conn'[j] = conn[j] /\ ~conn[j].live
    BY <1>1, <1>2 DEF Held, SessionHeld, ServerTypes
  <1>4. ~conn'[k].live /\ ~conn'[k].grace /\ conn'[k].sockets = {}
    BY <1>2 DEF ServerTypes, NoSession
  <1>5. Attached'
    BY <1>3, <1>4 DEF Held, Attached
  <1>6. SessionHeld'
    BY <1>1, <1>2, <1>3, <1>4 DEF Held, SessionHeld
  <1> QED BY <1>5, <1>6 DEF Held

LEMMA StepHeld == ServerTypes /\ Held /\ [Next]_vars => Held'
  <1> SUFFICES ASSUME ServerTypes, Held, [Next]_vars PROVE Held'
    OBVIOUS
  <1>k. UNCHANGED <<session, conn, byKey>> => Held'
    BY HeldKept
  <1>1. CASE UNCHANGED vars
    BY <1>1, <1>k DEF vars, server
  <1>2. ASSUME NEW d \in Clients,
               \/ Connect(d) \/ RetryFires(d) \/ ConnectTimesOut(d) \/ ErrorTimerFires(d)
               \/ Close(d) \/ ClientReads(d) \/ \E r \in Requests : Asks(d, r)
        PROVE  Held'
    <2>1. UNCHANGED server
      BY <1>2 DEF Connect, RetryFires, ConnectTimesOut, ErrorTimerFires, Close, ClientReads,
                  OnOpen, OnServerInfo, OnError, OnClose, OnAnswer, Asks
    <2> QED BY <2>1, <1>k DEF server
  <1>3. ASSUME NEW r \in Requests,
               \/ RequestTimesOut(r) \/ QueueTimesOut(r) \/ \E k \in Sockets : Answers(r, k)
        PROVE  Held'
    BY <1>3, <1>k DEF RequestTimesOut, QueueTimesOut, Answers, server
  <1>4. ASSUME NEW s \in Sockets, Opens(s) \/ Refused(s) \/ Breaks(s) \/ HelloTimesOut(s)
                                  \/ HelloRefused(s) \/ \E r \in Requests : OnRequest(s, r)
        PROVE  Held'
    BY <1>4, <1>k DEF Opens, Refused, Breaks, HelloTimesOut, HelloRefused, OnRequest, server
  <1>5. ASSUME NEW s \in Sockets, OnHello(s)
        PROVE  Held'
    BY <1>5, <1>k, FinalizesHeld DEF OnHello
  <1>6. ASSUME NEW s \in Sockets, Validated(s)
        PROVE  Held'
    BY <1>6, FinalizesHeld DEF Validated
  <1>7. ASSUME NEW s \in Sockets, OnSocketClose(s)
        PROVE  Held'
    <2>1. UNCHANGED byKey
      BY <1>7 DEF OnSocketClose
    <2>2. CASE s \in pending \/ session[s] = None
      BY <1>7, <2>1, <2>2, <1>k DEF OnSocketClose
    <2>3. CASE ~(s \in pending \/ session[s] = None)
      BY <1>7, <2>1, <2>3, DetachedHeld DEF OnSocketClose
    <2> QED BY <2>2, <2>3
  <1>8. ASSUME NEW k \in Sockets, GraceExpires(k)
        PROVE  Held'
    BY <1>8, GraceHeld
  <1>9. CASE Restarts
    BY <1>9, SessionsAssumption DEF Restarts, Held, SessionHeld, Attached, NoSession
  <1> QED BY <1>1, <1>2, <1>3, <1>4, <1>5, <1>6, <1>7, <1>8, <1>9 DEF Next, ServerReads

\* The daemon never has two sessions for the clientId, and a session that has a socket
\* is never about to be cleaned up, whoever comes back while its timer runs.
THEOREM SessionIsHeld == Spec => []SessionHeld
  <1>1. Spec => [](Typed /\ Held)
    <2>1. Init => Typed /\ Held
      BY InitTypes, InitHeld, TypesOK DEF Typed
    <2>2. Typed /\ Held /\ [Next]_vars => (Typed /\ Held)'
      BY StepTypes, StepHeld DEF Typed
    <2> QED BY <2>1, <2>2, PTL DEF Spec
  <1>2. Typed /\ Held => SessionHeld
    BY DEF Held
  <1> QED BY <1>1, <1>2, PTL

-----------------------------------------------------------------------------
(* Requests and the connections that carry them *)
\* Nothing is under way on a socket that was not opened, and an open one is not closing.
SocketSound(s) ==
    /\ line[s].st \in {"unused", "opening"} => line[s].up = {} /\ line[s].down = {}
    /\ line[s].st = "open" => "close" \notin line[s].up
SocketsSound == \A s \in Sockets : SocketSound(s)

\* A client has a socket of its own, and while it counts on it the close, if there was
\* one, is still to be read.
ClientSound(d) ==
    /\ client[d].retry => client[d].status = "disconnected"
    /\ client[d].transport # None => line[client[d].transport].st # "unused"
    /\ client[d].transport # None =>
         \A e \in Clients : client[e].transport = client[d].transport => e = d
    /\ client[d].status \in {"connecting", "connected"} =>
         /\ client[d].transport # None
         /\ line[client[d].transport].st \in {"shut", "closed"} =>
              "close" \in line[client[d].transport].down
    /\ client[d].status = "connected" => line[client[d].transport].st # "opening"
ClientsSound == \A d \in Clients : ClientSound(d)

\* An open socket whose client was told, or is to be told, of its session has one.
ConnectedOn(d, s) == client[d].transport = s /\ client[d].status = "connected"
Knows(s) == "server_info" \in line[s].down \/ \E d \in Clients : ConnectedOn(d, s)
SessionsKnown == \A s \in Sockets : line[s].st = "open" /\ Knows(s) => session[s] # None

\* NoVainWait, of one request and with its types.
CanCome(r, s) ==
    \/ r \in line[s].up \cup line[s].down \/ "close" \in line[s].down
    \/ \E k \in Sockets : <<r, k>> \in handling /\ s \in conn[k].sockets
RequestSound(r) ==
    /\ req[r].st \in {"queued", "sent"} => req[r].by \in Clients
    /\ req[r].st = "sent" =>
         req[r].on \in Sockets /\ ConnectedOn(req[r].by, req[r].on) /\ CanCome(r, req[r].on)
RequestsSound == \A r \in Requests : RequestSound(r)

Links == SocketsSound /\ ClientsSound /\ SessionsKnown
Inv == Typed /\ Held /\ Links /\ RequestsSound

LEMMA InitInv == Init => Inv
  <1> SUFFICES ASSUME Init PROVE Inv
    OBVIOUS
  <1>1. Typed /\ Held
    BY InitTypes, InitHeld, TypesOK DEF Typed
  <1>2. SocketsSound
    BY DEF Init, SocketsSound, SocketSound, NoLine
  <1>3. ClientsSound
    BY DEF Init, ClientsSound, ClientSound, NoClient
  <1>4. SessionsKnown
    BY DEF Init, SessionsKnown, NoLine
  <1>5. RequestsSound
    BY DEF Init, RequestsSound, RequestSound, NoRequest
  <1> QED BY <1>1, <1>2, <1>3, <1>4, <1>5 DEF Inv, Links

\* What a request that waits can rely on.
LEMMA WaitsOn ==
    ASSUME Typed, Links, NEW r \in Requests, RequestSound(r), req[r].st = "sent"
    PROVE  LET s == req[r].on
           IN  /\ s \in Sockets /\ req[r].by \in Clients
               /\ client[req[r].by].transport = s /\ client[req[r].by].status = "connected"
               /\ line[s].st \in {"open", "shut", "closed"}
               /\ line[s].st # "open" => "close" \in line[s].down
               /\ line[s].st = "open" => session[s] # None
               /\ CanCome(r, s)
  <1> DEFINE s == req[r].on
             d == req[r].by
  <1>1. s \in Sockets /\ d \in Clients /\ ConnectedOn(d, s) /\ CanCome(r, s)
    BY DEF RequestSound
  <1>2. ClientSound(d) /\ s # None
    BY <1>1, SessionsAssumption DEF Links, ClientsSound
  <1>3. client[d].transport = s /\ client[d].status = "connected"
    BY <1>1 DEF ConnectedOn
  <1>4. line[s].st \in {"unused", "opening", "open", "shut", "closed"}
    BY <1>1 DEF Typed, LineTypes, LineType
  <1>5. line[s].st # "unused" /\ line[s].st # "opening"
        /\ (line[s].st \in {"shut", "closed"} => "close" \in line[s].down)
    BY <1>2, <1>3 DEF ClientSound
  <1>6. line[s].st = "open" => session[s] # None
    BY <1>1 DEF Links, SessionsKnown, Knows
  <1> QED BY <1>1, <1>3, <1>4, <1>5, <1>6

-----------------------------------------------------------------------------
(* The network and the daemon *)
\* What becomes of a socket while its client does nothing.
SocketMoves(s) ==
    /\ line[s].st # "unused" => line'[s].st # "unused"
    /\ line[s].st # "opening" => line'[s].st # "opening"
    /\ line'[s].st \in {"shut", "closed"} =>
         "close" \in line'[s].down \/ (line[s].st \in {"shut", "closed"} /\ "close" \notin line[s].down)
    /\ line'[s].st = "open" =>
         \/ session'[s] # None
         \/ line[s].st = "opening" /\ "server_info" \notin line'[s].down
         \/ /\ line[s].st = "open" /\ session'[s] = session[s]
            /\ "server_info" \in line'[s].down => "server_info" \in line[s].down

LEMMA LinksMove ==
    ASSUME Typed, Links, UNCHANGED client, SocketsSound',
           \A s \in Sockets : SocketMoves(s)
    PROVE  Links'
  <1>1. ASSUME NEW d \in Clients
        PROVE  ClientSound(d)'
    <2> DEFINE s == client[d].transport
    <2>1. s \in Sockets \cup {None}
      BY DEF Typed, ClientTypes, ClientType
    <2>2. ClientSound(d)
      BY DEF Links, ClientsSound
    <2>3. CASE s = None
      BY <2>2, <2>3 DEF ClientSound
    <2>4. CASE s # None
      <3>1. SocketMoves(s)
        BY <2>1, <2>4
      <3> QED BY <2>2, <2>4, <3>1 DEF ClientSound, SocketMoves
    <2> QED BY <2>3, <2>4
  <1>2. ASSUME NEW s \in Sockets, line'[s].st = "open", Knows(s)'
        PROVE  session'[s] # None
    <2>1. SocketMoves(s)
      OBVIOUS
    <2>2. ASSUME NEW d \in Clients, ConnectedOn(d, s)
          PROVE  line[s].st # "opening"
      BY <2>2 DEF Links, ClientsSound, ClientSound, ConnectedOn
    <2>3. Knows(s)' => "server_info" \in line'[s].down \/ \E d \in Clients : ConnectedOn(d, s)
      BY DEF Knows, ConnectedOn
    <2> QED BY <1>2, <2>1, <2>2, <2>3 DEF SocketMoves, Links, SessionsKnown, Knows
  <1> QED BY <1>1, <1>2 DEF Links, ClientsSound, SessionsKnown

LEMMA RequestsMove ==
    ASSUME Typed, Links, RequestsSound, UNCHANGED <<client, req>>,
           \A r \in Requests : req[r].st = "sent" => CanCome(r, req[r].on)'
    PROVE  RequestsSound'
  <1> SUFFICES ASSUME NEW r \in Requests
               PROVE  RequestSound(r)'
    BY DEF RequestsSound
  <1>1. RequestSound(r)
    BY DEF RequestsSound
  <1>2. req[r].st = "sent" => CanCome(r, req[r].on)'
    OBVIOUS
  <1> QED BY <1>1, <1>2 DEF RequestSound, ConnectedOn, CanCome

LEMMA OpensInv ==
    ASSUME Inv, NEW s \in Sockets, Opens(s)
    PROVE  Links' /\ RequestsSound'
  <1>1. /\ line[s].st = "opening" /\ line[s].up = {}
        /\ line' = [line EXCEPT ![s].st = "open", ![s].down = {"open"}]
        /\ UNCHANGED <<client, req, session, conn, handling>>
    BY DEF Opens, Inv, Links, SocketsSound, SocketSound
  <1>2. /\ line'[s].st = "open" /\ line'[s].up = {} /\ line'[s].down = {"open"}
        /\ \A x \in Sockets : x # s => line'[x] = line[x]
    BY <1>1 DEF Inv, Typed, LineTypes, LineType
  <1>3. SocketsSound'
    BY <1>2 DEF Inv, Links, SocketsSound, SocketSound
  <1>4. ASSUME NEW x \in Sockets
        PROVE  SocketMoves(x)
    <2>1. CASE x = s
      <3>1. line'[x].st = "open" /\ line[x].st = "opening" /\ "server_info" \notin line'[x].down
        <4>1. line[s].st = "opening"
          BY <1>1
        <4>2. line'[s].st = "open" /\ line'[s].down = {"open"}
          BY <1>2
        <4>3. "server_info" \notin {"open"}
          OBVIOUS
        <4> QED BY <2>1, <4>1, <4>2, <4>3
      <3> QED BY <3>1 DEF SocketMoves
    <2>2. CASE x # s
      BY <1>1, <1>2, <2>2 DEF SocketMoves
    <2> QED BY <2>1, <2>2
  <1>5. ASSUME NEW r \in Requests, req[r].st = "sent"
        PROVE  CanCome(r, req[r].on)'
    <2>1. req[r].on \in Sockets /\ req[r].on # s /\ CanCome(r, req[r].on)
      BY <1>1, <1>5, WaitsOn DEF Inv, RequestsSound
    <2> QED BY <1>1, <1>2, <2>1 DEF CanCome
  <1> QED BY <1>1, <1>3, <1>4, <1>5, LinksMove, RequestsMove DEF Inv

\* A socket that is lost or refused tells its client.
LEMMA LostInv ==
    ASSUME Inv, NEW s \in Sockets, Refused(s) \/ Breaks(s)
    PROVE  Links' /\ RequestsSound'
  <1>1. UNCHANGED <<client, req, session, conn, handling>>
    BY DEF Refused, Breaks, server
  <1>2. /\ line'[s].st \in {"shut", "closed"} /\ "close" \in line'[s].down
        /\ \A x \in Sockets : x # s => line'[x] = line[x]
    <2>1. CASE Refused(s)
      <3>1. PICK notice \in {{"close"}, {"error", "close"}} :
              line' = [line EXCEPT ![s] = [line[s] EXCEPT !.st = "closed", !.down = notice]]
        BY <2>1 DEF Refused
      <3> QED BY <3>1 DEF Inv, Typed, LineTypes, LineType
    <2>2. CASE Breaks(s)
      <3>1. PICK notice \in {{"close"}, {"error", "close"}} :
              line' = [line EXCEPT ![s] = [st |-> "shut", up |-> {"close"}, down |-> notice]]
        BY <2>2 DEF Breaks, Lost
      <3> QED BY <3>1 DEF Inv, Typed, LineTypes
    <2> QED BY <2>1, <2>2
  <1>3. SocketsSound'
    BY <1>2 DEF Inv, Links, SocketsSound, SocketSound
  <1>4. ASSUME NEW x \in Sockets
        PROVE  SocketMoves(x)
    <2>1. CASE x = s
      BY <1>1, <1>2, <2>1 DEF SocketMoves
    <2>2. CASE x # s
      BY <1>1, <1>2, <2>2 DEF SocketMoves
    <2> QED BY <2>1, <2>2
  <1>5. ASSUME NEW r \in Requests, req[r].st = "sent"
        PROVE  CanCome(r, req[r].on)'
    <2>1. req[r].on \in Sockets /\ CanCome(r, req[r].on)
      BY <1>5, WaitsOn DEF Inv, RequestsSound
    <2> QED BY <1>1, <1>2, <2>1 DEF CanCome
  <1> QED BY <1>1, <1>3, <1>4, <1>5, LinksMove, RequestsMove DEF Inv

LEMMA ShutFacts ==
    ASSUME NEW l \in [Sockets -> LineType], NEW s \in Sockets
    PROVE  /\ \A x \in Sockets : x # s => Shut(l, s)[x] = l[x]
           /\ l[s].st # "open" => Shut(l, s)[s] = l[s]
           /\ l[s].st = "open" => Shut(l, s)[s].st = "shut" /\ "close" \in Shut(l, s)[s].down
  BY DEF Shut, LineType

LEMMA DisposedFacts ==
    ASSUME NEW l \in [Sockets -> LineType], NEW s \in Sockets \cup {None}, NEW x \in Sockets
    PROVE  /\ x # s => Disposed(l, s)[x] = l[x]
           /\ x = s => /\ Disposed(l, s)[x].st =
                            (CASE l[x].st = "opening" -> "closed" [] l[x].st = "open" -> "shut"
                               [] OTHER -> l[x].st)
                       /\ Disposed(l, s)[x].down = {}
  <1>1. None \notin Sockets
    BY SessionsAssumption
  <1>2. CASE s = None
    BY <1>1, <1>2 DEF Disposed
  <1>3. CASE s # None
    <2> DEFINE q == [st |-> CASE l[s].st = "opening" -> "closed" [] l[s].st = "open" -> "shut"
                              [] OTHER -> l[s].st,
                     up |-> IF l[s].st = "open" THEN l[s].up \cup {"close"} ELSE l[s].up,
                     down |-> {}]
    <2>1. Disposed(l, s) = [l EXCEPT ![s] = q]
      BY <1>3 DEF Disposed
    <2>2. /\ q.st = (CASE l[s].st = "opening" -> "closed" [] l[s].st = "open" -> "shut"
                        [] OTHER -> l[s].st)
          /\ q.down = {}
      OBVIOUS
    <2> HIDE DEF q
    <2>3. CASE x = s
      BY <2>1, <2>2, <2>3
    <2>4. CASE x # s
      BY <2>1, <2>4
    <2> QED BY <2>3, <2>4
  <1> QED BY <1>2, <1>3

LEMMA DeliversFacts ==
    ASSUME NEW l \in [Sockets -> LineType], NEW to, NEW m, NEW x \in Sockets
    PROVE  /\ Delivers(to, m, l)[x].st = l[x].st
           /\ Delivers(to, m, l)[x].up = l[x].up
           /\ Delivers(to, m, l)[x].down =
                IF x \in to /\ l[x].st = "open" THEN l[x].down \cup {m} ELSE l[x].down
  BY DEF Delivers, LineType

LEMMA TakenFacts ==
    ASSUME LineTypes, NEW s \in Sockets, NEW m
    PROVE  /\ \A x \in Sockets : x # s => Taken(s, m)[x] = line[x]
           /\ Taken(s, m)[s].st = line[s].st /\ Taken(s, m)[s].down = line[s].down
           /\ Taken(s, m)[s].up = line[s].up \ {m}
  BY DEF Taken, LineTypes, LineType

LEMMA Names == \A r \in Requests : r \notin Notices
  BY SessionsAssumption

\* The daemon closes a socket that it was not told of, or does not want.
LEMMA ShutInv ==
    ASSUME Inv, NEW s \in Sockets, HelloRefused(s) \/ HelloTimesOut(s)
    PROVE  Links' /\ RequestsSound'
  <1>1. UNCHANGED <<client, req, session, conn, handling>>
    BY DEF HelloRefused, HelloTimesOut
  <1>t. line \in [Sockets -> LineType] /\ Taken(s, "hello") \in [Sockets -> LineType]
    BY TakenType DEF Inv, Typed, LineTypes
  <1>2. PICK l \in {line, Taken(s, "hello")} : line' = Shut(l, s)
    BY DEF HelloRefused, HelloTimesOut
  <1>3. /\ \A x \in Sockets : x # s => l[x] = line[x]
        /\ l[s].st = line[s].st /\ l[s].down = line[s].down /\ l[s].up \subseteq line[s].up
    BY <1>2, TakenFacts DEF Inv, Typed
  <1>4. /\ \A x \in Sockets : x # s => line'[x] = line[x]
        /\ line[s].st = "open" => line'[s].st = "shut" /\ "close" \in line'[s].down
        /\ line[s].st # "open" => /\ line'[s].st = line[s].st /\ line'[s].down = line[s].down
                                  /\ line'[s].up \subseteq line[s].up
    BY <1>2, <1>3, <1>t, ShutFacts
  <1>5. SocketsSound'
    BY <1>4 DEF Inv, Links, SocketsSound, SocketSound
  <1>6. ASSUME NEW x \in Sockets
        PROVE  SocketMoves(x)
    <2>1. CASE x = s
      BY <1>1, <1>4, <2>1 DEF SocketMoves
    <2>2. CASE x # s
      BY <1>1, <1>4, <2>2 DEF SocketMoves
    <2> QED BY <2>1, <2>2
  <1>7. ASSUME NEW r \in Requests, req[r].st = "sent"
        PROVE  CanCome(r, req[r].on)'
    <2> DEFINE x == req[r].on
    <2>1. x \in Sockets /\ CanCome(r, x) /\ (line[x].st # "open" => "close" \in line[x].down)
      BY <1>7, WaitsOn DEF Inv, RequestsSound
    <2>2. CASE x = s
      <3>1. "close" \in line'[x].down
        BY <1>4, <2>1, <2>2
      <3> QED BY <1>1, <3>1 DEF CanCome
    <2>3. CASE x # s
      BY <1>1, <1>4, <2>1, <2>3 DEF CanCome
    <2> QED BY <2>2, <2>3
  <1> QED BY <1>1, <1>5, <1>6, <1>7, LinksMove, RequestsMove DEF Inv

\* A hello that is kept, or that gets its session.
LEMMA HelloInv ==
    ASSUME Inv, NEW s \in Sockets, OnHello(s) \/ Validated(s)
    PROVE  Links' /\ RequestsSound'
  <1>1. UNCHANGED <<client, req, handling>>
    BY DEF OnHello, Validated
  <1>t. line \in [Sockets -> LineType] /\ Taken(s, "hello") \in [Sockets -> LineType]
    BY TakenType DEF Inv, Typed, LineTypes
  <1>2. PICK l \in {line, Taken(s, "hello")} :
          \/ line' = l /\ UNCHANGED <<session, conn>>
          \/ Finalizes(s, l)
    BY DEF OnHello, Validated
  <1>3. /\ \A x \in Sockets : x # s => l[x] = line[x]
        /\ l[s].st = line[s].st /\ l[s].down = line[s].down
        /\ l[s].up \subseteq line[s].up /\ line[s].up \ {"hello"} \subseteq l[s].up
    BY <1>2, TakenFacts DEF Inv, Typed
  <1>4. /\ \A x \in Sockets : x # s => /\ line'[x].st = line[x].st /\ line'[x].up = line[x].up
                                       /\ line'[x].down = line[x].down
        /\ line'[s].st = line[s].st
        /\ line'[s].up \subseteq line[s].up /\ line[s].up \ {"hello"} \subseteq line'[s].up
        /\ line[s].down \subseteq line'[s].down
        /\ line[s].st # "open" => line'[s].down = line[s].down
    <2>1. CASE line' = l
      BY <1>3, <2>1
    <2>2. CASE line' = Delivers({s}, "server_info", l)
      <3>1. ASSUME NEW x \in Sockets
            PROVE  /\ line'[x].st = l[x].st /\ line'[x].up = l[x].up
                   /\ line'[x].down = IF x \in {s} /\ l[x].st = "open"
                                      THEN l[x].down \cup {"server_info"} ELSE l[x].down
        <4>1. l \in [Sockets -> LineType]
          BY <1>2, <1>t
        <4>2. /\ Delivers({s}, "server_info", l)[x].st = l[x].st
              /\ Delivers({s}, "server_info", l)[x].up = l[x].up
              /\ Delivers({s}, "server_info", l)[x].down =
                   IF x \in {s} /\ l[x].st = "open" THEN l[x].down \cup {"server_info"}
                   ELSE l[x].down
          BY SMTT(30), <4>1, DeliversFacts
        <4> QED BY <2>2, <4>2
      <3> QED BY <1>3, <3>1
    <2> QED BY <1>2, <2>1, <2>2 DEF Finalizes
  <1>5. /\ \A x \in Sockets : x # s => session'[x] = session[x]
        /\ \/ session'[s] # None
           \/ session'[s] = session[s] /\ line'[s].down = line[s].down
        /\ \A k \in Sockets : conn[k].sockets \subseteq conn'[k].sockets
    <2>1. CASE line' = l /\ UNCHANGED <<session, conn>>
      BY <1>3, <2>1
    <2>2. CASE Finalizes(s, l)
      <3> DEFINE k == IF byKey = None THEN s ELSE byKey
      <3>1. k \in Sockets /\ session' = [session EXCEPT ![s] = k]
            /\ conn' = [conn EXCEPT ![k] = [live |-> TRUE, sockets |-> conn[k].sockets \cup {s},
                                            grace |-> FALSE]]
        BY <2>2 DEF Finalizes, Inv, Typed, ServerTypes
      <3> HIDE DEF k
      <3>2. session'[s] # None /\ \A x \in Sockets : x # s => session'[x] = session[x]
        BY <3>1, SessionsAssumption DEF Inv, Typed, ServerTypes
      <3>3. \A j \in Sockets : conn[j].sockets \subseteq conn'[j].sockets
        BY <3>1 DEF Inv, Typed, ServerTypes
      <3> QED BY <3>2, <3>3
    <2> QED BY <1>2, <2>1, <2>2
  <1>6. SocketsSound'
    BY <1>4 DEF Inv, Links, SocketsSound, SocketSound
  <1>7. ASSUME NEW x \in Sockets
        PROVE  SocketMoves(x)
    <2>1. CASE x = s
      BY <1>4, <1>5, <2>1 DEF SocketMoves
    <2>2. CASE x # s
      BY <1>4, <1>5, <2>2 DEF SocketMoves
    <2> QED BY <2>1, <2>2
  <1>8. ASSUME NEW r \in Requests, req[r].st = "sent"
        PROVE  CanCome(r, req[r].on)'
    <2> DEFINE x == req[r].on
    <2>1. x \in Sockets /\ CanCome(r, x) /\ r # "hello"
      BY <1>8, WaitsOn, Names DEF Inv, RequestsSound, Notices
    <2>2. \A m : /\ m \in line[x].down => m \in line'[x].down
                 /\ m \in line[x].up /\ m # "hello" => m \in line'[x].up
      BY <1>4, <2>1
    <2>3. ASSUME NEW k \in Sockets, <<r, k>> \in handling, x \in conn[k].sockets
          PROVE  <<r, k>> \in handling' /\ x \in conn'[k].sockets
      BY <1>1, <1>5, <2>3
    <2> QED BY <1>1, <2>1, <2>2, <2>3 DEF CanCome
  <1> QED BY <1>1, <1>6, <1>7, <1>8, LinksMove, RequestsMove DEF Inv

LEMMA SocketCloseInv ==
    ASSUME Inv, NEW s \in Sockets, OnSocketClose(s)
    PROVE  Links' /\ RequestsSound'
  <1>1. /\ UNCHANGED <<client, req, handling>>
        /\ line' = [line EXCEPT ![s].up = {}, ![s].st = "closed"]
        /\ line[s].st \in {"open", "shut"} /\ "close" \in line[s].up
    BY DEF OnSocketClose, Arrives, Comes
  <1>2. line[s].st = "shut"
    BY <1>1 DEF Inv, Links, SocketsSound, SocketSound
  <1>3. /\ line'[s].st = "closed" /\ line'[s].down = line[s].down
        /\ \A x \in Sockets : x # s => line'[x] = line[x]
    BY <1>1 DEF Inv, Typed, LineTypes, LineType
  <1>4. /\ \A x \in Sockets : x # s => session'[x] = session[x]
        /\ \A k \in Sockets : conn[k].sockets \ {s} \subseteq conn'[k].sockets
    <2>1. CASE UNCHANGED <<session, conn>>
      BY <2>1
    <2>2. CASE session[s] # None /\ Detached(s)
      <3> DEFINE k == session[s]
      <3>1. /\ k \in Sockets /\ session' = [session EXCEPT ![s] = None]
            /\ conn' = [conn EXCEPT ![k].sockets = @ \ {s}, ![k].grace = (conn[k].sockets = {s})]
        BY <2>2 DEF Detached, Inv, Typed, ServerTypes
      <3> HIDE DEF k
      <3>2. \A x \in Sockets : x # s => session'[x] = session[x]
        BY <3>1 DEF Inv, Typed, ServerTypes
      <3>3. \A j \in Sockets : conn[j].sockets \ {s} \subseteq conn'[j].sockets
        BY <3>1 DEF Inv, Typed, ServerTypes, ConnType
      <3> QED BY <3>2, <3>3
    <2> QED BY <2>1, <2>2 DEF OnSocketClose
  <1>5. SocketsSound'
    BY <1>3 DEF Inv, Links, SocketsSound, SocketSound
  <1>6. ASSUME NEW x \in Sockets
        PROVE  SocketMoves(x)
    <2>1. CASE x = s
      BY <1>2, <1>3, <2>1 DEF SocketMoves
    <2>2. CASE x # s
      BY <1>3, <1>4, <2>2 DEF SocketMoves
    <2> QED BY <2>1, <2>2
  <1>7. ASSUME NEW r \in Requests, req[r].st = "sent"
        PROVE  CanCome(r, req[r].on)'
    <2> DEFINE x == req[r].on
    <2>1. x \in Sockets /\ CanCome(r, x) /\ (line[x].st # "open" => "close" \in line[x].down)
      BY <1>7, WaitsOn DEF Inv, RequestsSound
    <2>2. CASE x = s
      <3>1. "close" \in line'[x].down
        BY <1>2, <1>3, <2>1, <2>2
      <3> QED BY <1>1, <3>1 DEF CanCome
    <2>3. CASE x # s
      <3>1. ASSUME NEW k \in Sockets, <<r, k>> \in handling, x \in conn[k].sockets
            PROVE  <<r, k>> \in handling' /\ x \in conn'[k].sockets
        BY <1>1, <1>4, <2>3, <3>1
      <3>2. line'[x] = line[x]
        BY <1>3, <2>1, <2>3
      <3> QED BY <1>1, <2>1, <3>1, <3>2 DEF CanCome
    <2> QED BY <2>2, <2>3
  <1> QED BY <1>1, <1>5, <1>6, <1>7, LinksMove, RequestsMove DEF Inv

LEMMA OnRequestInv ==
    ASSUME Inv, NEW s \in Sockets, NEW r \in Requests, OnRequest(s, r)
    PROVE  Links' /\ RequestsSound'
  <1>1. /\ UNCHANGED <<client, req, session, conn>> /\ line' = Taken(s, r)
        /\ handling' = IF session[s] = None THEN handling ELSE handling \cup {<<r, session[s]>>}
    BY DEF OnRequest
  <1>2. /\ \A x \in Sockets : x # s => line'[x] = line[x]
        /\ line'[s].st = line[s].st /\ line'[s].down = line[s].down
        /\ line'[s].up = line[s].up \ {r}
    BY <1>1, TakenFacts DEF Inv, Typed
  <1>3. SocketsSound'
    BY <1>2 DEF Inv, Links, SocketsSound, SocketSound
  <1>4. ASSUME NEW x \in Sockets
        PROVE  SocketMoves(x)
    BY <1>1, <1>2 DEF SocketMoves
  <1>5. ASSUME NEW q \in Requests, req[q].st = "sent"
        PROVE  CanCome(q, req[q].on)'
    <2> DEFINE x == req[q].on
    <2>1. /\ x \in Sockets /\ CanCome(q, x) /\ (line[x].st # "open" => "close" \in line[x].down)
          /\ line[x].st = "open" => session[x] # None
      BY <1>5, WaitsOn DEF Inv, RequestsSound
    <2>2. CASE x = s /\ q = r
      <3>1. CASE line[s].st = "open"
        <4> DEFINE k == session[s]
        <4>1. k \in Sockets /\ <<q, k>> \in handling'
          BY <1>1, <2>1, <2>2, <3>1 DEF Inv, Typed, ServerTypes
        <4>2. x \in conn'[k].sockets
          BY <1>1, <2>2, <4>1 DEF Inv, Held, SessionHeld
        <4> QED BY <1>1, <4>1, <4>2 DEF CanCome
      <3>2. CASE line[s].st # "open"
        <4>1. "close" \in line'[x].down
          BY <1>2, <2>1, <2>2, <3>2
        <4> QED BY <1>1, <4>1 DEF CanCome
      <3> QED BY <3>1, <3>2
    <2>3. CASE ~(x = s /\ q = r)
      <3>1. q \in line[x].up => q \in line'[x].up
        BY <1>2, <2>1, <2>3
      <3>2. line'[x].down = line[x].down
        BY <1>2, <2>1
      <3>3. handling \subseteq handling'
        BY <1>1
      <3> QED BY <1>1, <2>1, <3>1, <3>2, <3>3 DEF CanCome
    <2> QED BY <2>2, <2>3
  <1> QED BY <1>1, <1>3, <1>4, <1>5, LinksMove, RequestsMove DEF Inv

LEMMA AnswersInv ==
    ASSUME Inv, NEW r \in Requests, NEW k \in Sockets, Answers(r, k)
    PROVE  Links' /\ RequestsSound'
  <1>1. /\ UNCHANGED <<client, req, session, conn>> /\ handling' = handling \ {<<r, k>>}
        /\ line' = Delivers(conn[k].sockets, r, line)
    BY DEF Answers
  <1>2. \A x \in Sockets :
          /\ line'[x].st = line[x].st /\ line'[x].up = line[x].up
          /\ line'[x].down = IF x \in conn[k].sockets /\ line[x].st = "open"
                             THEN line[x].down \cup {r} ELSE line[x].down
    <2> SUFFICES ASSUME NEW x \in Sockets
                 PROVE  /\ line'[x].st = line[x].st /\ line'[x].up = line[x].up
                        /\ line'[x].down = IF x \in conn[k].sockets /\ line[x].st = "open"
                                           THEN line[x].down \cup {r} ELSE line[x].down
      OBVIOUS
    <2>1. line \in [Sockets -> LineType]
      BY DEF Inv, Typed, LineTypes
    <2>2. /\ Delivers(conn[k].sockets, r, line)[x].st = line[x].st
          /\ Delivers(conn[k].sockets, r, line)[x].up = line[x].up
          /\ Delivers(conn[k].sockets, r, line)[x].down =
               IF x \in conn[k].sockets /\ line[x].st = "open"
               THEN line[x].down \cup {r} ELSE line[x].down
      BY <2>1, DeliversFacts
    <2> QED BY <1>1, <2>2
  <1>3. SocketsSound'
    BY <1>2 DEF Inv, Links, SocketsSound, SocketSound
  <1>4. ASSUME NEW x \in Sockets
        PROVE  SocketMoves(x)
    <2>1. r # "server_info"
      BY Names DEF Notices
    <2> QED BY <1>1, <1>2, <2>1 DEF SocketMoves
  <1>5. ASSUME NEW q \in Requests, req[q].st = "sent"
        PROVE  CanCome(q, req[q].on)'
    <2> DEFINE x == req[q].on
    <2>1. x \in Sockets /\ CanCome(q, x) /\ (line[x].st # "open" => "close" \in line[x].down)
      BY <1>5, WaitsOn DEF Inv, RequestsSound
    <2>2. CASE q = r /\ x \in conn[k].sockets
      <3>1. q \in line'[x].down \/ "close" \in line'[x].down
        BY <1>2, <2>1, <2>2
      <3> QED BY <1>1, <3>1 DEF CanCome
    <2>3. CASE ~(q = r /\ x \in conn[k].sockets)
      <3>1. ASSUME NEW j \in Sockets, <<q, j>> \in handling, x \in conn[j].sockets
            PROVE  <<q, j>> \in handling' /\ x \in conn'[j].sockets
        BY <1>1, <2>3, <3>1
      <3>2. line'[x].up = line[x].up /\ line[x].down \subseteq line'[x].down
        BY <1>2, <2>1
      <3> QED BY <1>1, <2>1, <3>1, <3>2 DEF CanCome
    <2> QED BY <2>2, <2>3
  <1> QED BY <1>1, <1>3, <1>4, <1>5, LinksMove, RequestsMove DEF Inv

LEMMA GraceInv ==
    ASSUME Inv, NEW k \in Sockets, GraceExpires(k)
    PROVE  Links' /\ RequestsSound'
  <1>1. conn[k].sockets = {}
    BY DEF GraceExpires, Inv, Held, SessionHeld
  <1>2. /\ UNCHANGED <<client, req, line, handling>>
        /\ session' = session /\ conn' = [conn EXCEPT ![k] = NoSession]
    BY <1>1 DEF GraceExpires, Inv, Typed, ServerTypes
  <1>3. SocketsSound'
    BY <1>2 DEF Inv, Links, SocketsSound, SocketSound
  <1>4. ASSUME NEW x \in Sockets
        PROVE  SocketMoves(x)
    BY <1>2 DEF SocketMoves
  <1>5. ASSUME NEW r \in Requests, req[r].st = "sent"
        PROVE  CanCome(r, req[r].on)'
    <2>1. req[r].on \in Sockets /\ CanCome(r, req[r].on)
      BY <1>5, WaitsOn DEF Inv, RequestsSound
    <2>2. ASSUME NEW j \in Sockets, req[r].on \in conn[j].sockets
          PROVE  conn'[j] = conn[j]
      BY <1>1, <1>2, <2>2 DEF Inv, Typed, ServerTypes
    <2> QED BY <1>2, <2>1, <2>2 DEF CanCome
  <1> QED BY <1>2, <1>3, <1>4, <1>5, LinksMove, RequestsMove DEF Inv

LEMMA RestartsInv ==
    ASSUME Inv, Restarts
    PROVE  Links' /\ RequestsSound'
  <1>1. UNCHANGED <<client, req>>
    BY DEF Restarts
  <1>2. ASSUME NEW x \in Sockets
        PROVE  /\ line[x].st = "open" => line'[x].st = "closed" /\ line'[x].down = {"close"}
               /\ line[x].st = "shut" => line'[x].st = "closed" /\ line'[x].down = line[x].down
               /\ line[x].st \notin {"open", "shut"} => line'[x] = line[x]
    BY DEF Restarts, Inv, Typed, LineTypes, LineType
  <1>3. SocketsSound'
    <2> SUFFICES ASSUME NEW x \in Sockets PROVE SocketSound(x)'
      BY DEF SocketsSound
    <2>1. SocketSound(x)
      BY DEF Inv, Links, SocketsSound
    <2> QED BY <1>2, <2>1 DEF SocketSound
  <1>4. ASSUME NEW x \in Sockets
        PROVE  SocketMoves(x)
    BY <1>2 DEF SocketMoves
  <1>5. ASSUME NEW r \in Requests, req[r].st = "sent"
        PROVE  CanCome(r, req[r].on)'
    <2> DEFINE x == req[r].on
    <2>1. /\ x \in Sockets /\ line[x].st \in {"open", "shut", "closed"}
          /\ line[x].st # "open" => "close" \in line[x].down
      BY <1>5, WaitsOn DEF Inv, RequestsSound
    <2>2. "close" \in line'[x].down
      BY <1>2, <2>1
    <2> QED BY <1>1, <2>2 DEF CanCome
  <1> QED BY <1>1, <1>3, <1>4, <1>5, LinksMove, RequestsMove DEF Inv

-----------------------------------------------------------------------------
(* The clients *)
Fresh(x) == line[x].st = "unused" /\ line'[x].st = "opening" /\ line'[x].up = {} /\ line'[x].down = {}
\* Nothing but client d, its socket and a new one changes.
OnlyClient(d) ==
    /\ UNCHANGED <<session, conn, handling>>
    /\ \A e \in Clients : e # d => client'[e] = client[e]
    /\ \A x \in Sockets : x = client[d].transport \/ line'[x] = line[x] \/ Fresh(x)
    /\ \/ client'[d].transport \in {client[d].transport, None}
       \/ client'[d].transport \in Sockets /\ Fresh(client'[d].transport)

\* What a client does to its own socket.
OwnSocket(d, s) ==
    /\ SocketSound(s)'
    /\ line[s].st # "unused" => line'[s].st # "unused"
    /\ line'[s].st = "open" =>
         /\ line[s].st = "open"
         /\ "server_info" \in line'[s].down => "server_info" \in line[s].down
         /\ ConnectedOn(d, s)' => Knows(s)

LEMMA LinksOfOthers ==
    ASSUME Typed, Typed', Links, NEW d \in Clients, OnlyClient(d), ClientSound(d)',
           \A x \in Sockets : x = client[d].transport => OwnSocket(d, x)
    PROVE  Links'
  <1> DEFINE s == client[d].transport
  <1>t. /\ \A e \in Clients : client[e].transport \in Sockets \cup {None}
        /\ None \notin Sockets
    BY SessionsAssumption DEF Typed, ClientTypes, ClientType
  <1>d. ClientSound(d)
    BY DEF Links, ClientsSound
  <1>1. ASSUME NEW x \in Sockets
        PROVE  SocketSound(x)'
    <2>1. SocketSound(x)
      BY DEF Links, SocketsSound
    <2>2. CASE x = s
      BY <2>2 DEF OwnSocket
    <2>3. CASE line'[x] = line[x]
      BY <2>1, <2>3 DEF SocketSound
    <2>4. CASE Fresh(x)
      BY <2>4 DEF SocketSound, Fresh
    <2> QED BY <2>2, <2>3, <2>4 DEF OnlyClient
  <1>2. ASSUME NEW e \in Clients, e # d
        PROVE  ClientSound(e)'
    <2> DEFINE y == client[e].transport
    <2>1. ClientSound(e) /\ client'[e] = client[e]
      BY <1>2 DEF Links, ClientsSound, OnlyClient
    <2>2. CASE y = None
      BY <2>1, <2>2 DEF ClientSound
    <2>3. CASE y # None
      <3>1. y \in Sockets /\ y # s /\ line[y].st # "unused"
        BY <1>t, <1>2, <2>1, <2>3 DEF ClientSound
      <3>2. line'[y] = line[y]
        BY <3>1 DEF OnlyClient, Fresh
      <3>3. client'[d].transport # y
        BY <3>1, <2>3 DEF OnlyClient, Fresh
      <3>4. ASSUME NEW f \in Clients, client'[f].transport = y
            PROVE  f = e
        BY <3>3, <3>4, <2>1, <2>3 DEF ClientSound, OnlyClient
      <3> QED BY <2>1, <2>3, <3>1, <3>2, <3>4 DEF ClientSound
    <2> QED BY <2>2, <2>3
  <1>3. ASSUME NEW x \in Sockets, line'[x].st = "open", Knows(x)'
        PROVE  session'[x] # None
    <2>1. line[x].st = "open" /\ ("server_info" \in line'[x].down => "server_info" \in line[x].down)
      BY <1>t, <1>3 DEF OnlyClient, OwnSocket, Fresh
    <2>2. ASSUME NEW e \in Clients, ConnectedOn(e, x)'
          PROVE  Knows(x)
      <3>1. CASE e # d
        BY <2>2, <3>1 DEF OnlyClient, ConnectedOn, Knows
      <3>2. CASE e = d /\ x = s
        <4>1. OwnSocket(d, x)
          BY <3>2
        <4> QED BY <4>1, <1>3, <2>2, <3>2 DEF OwnSocket
      <3>3. CASE e = d /\ x # s
        BY <1>t, <2>1, <2>2, <3>3 DEF OnlyClient, ConnectedOn, Fresh
      <3> QED BY <3>1, <3>2, <3>3
    <2>3. Knows(x)' => "server_info" \in line'[x].down \/ \E e \in Clients : ConnectedOn(e, x)'
      BY DEF Knows
    <2>4. Knows(x)
      BY <1>3, <2>1, <2>2, <2>3 DEF Knows
    <2>5. session[x] # None
      BY <2>1, <2>4 DEF Links, SessionsKnown
    <2> QED BY <2>5 DEF OnlyClient
  <1> QED BY <1>1, <1>2, <1>3 DEF Links, SocketsSound, ClientsSound, SessionsKnown

\* The requests of the other clients.
LEMMA RequestsOfOthers ==
    ASSUME Typed, Links, NEW d \in Clients, OnlyClient(d), NEW r \in Requests, RequestSound(r),
           req'[r] = req[r], req[r].st \notin {"queued", "sent"} \/ req[r].by # d
    PROVE  RequestSound(r)'
  <1>1. CASE req[r].st # "sent"
    BY <1>1 DEF RequestSound
  <1>2. CASE req[r].st = "sent"
    <2> DEFINE e == req[r].by
               s == req[r].on
    <2>1. /\ s \in Sockets /\ e \in Clients /\ client[e].transport = s
          /\ client[e].status = "connected" /\ line[s].st # "unused" /\ CanCome(r, s)
      BY <1>2, WaitsOn
    <2>2. e # d /\ client'[e] = client[e]
      BY <1>2, <2>1 DEF OnlyClient
    <2>3. s # client[d].transport
      BY <2>1, <2>2, SessionsAssumption DEF Links, ClientsSound, ClientSound
    <2>4. line'[s] = line[s]
      BY <2>1, <2>3 DEF OnlyClient, Fresh
    <2>5. CanCome(r, s)'
      BY <2>1, <2>4 DEF CanCome, OnlyClient
    <2> QED BY <1>2, <2>1, <2>2, <2>5 DEF RequestSound, ConnectedOn, CanCome
  <1> QED BY <1>1, <1>2

\* A new attempt, by a client that counts on no connection.
LEMMA AttemptsInv ==
    ASSUME Inv, Typed', NEW d \in Clients, NEW c \in ClientType, Attempts(d, c),
           client[d].status # "connected", ~c.retry, UNCHANGED <<req, session, conn, handling>>
    PROVE  Links' /\ RequestsSound'
  <1> DEFINE s == CHOOSE s \in Sockets : line[s].st = "unused"
             p == client[d].transport
  <1>1. s \in Sockets /\ line[s].st = "unused"
    BY DEF Attempts
  <1>2. p \in Sockets \cup {None} /\ None \notin Sockets
    BY SessionsAssumption DEF Inv, Typed, ClientTypes, ClientType
  <1>3. /\ line' = [Disposed(line, p) EXCEPT ![s].st = "opening"]
        /\ client' = [client EXCEPT ![d] =
             [c EXCEPT !.status = "connecting", !.transport = s, !.deadline = TRUE, !.error = FALSE]]
    BY DEF Attempts
  <1> HIDE DEF s
  <1>d. ClientSound(d)
    BY DEF Inv, Links, ClientsSound
  <1>4. p # s /\ line[s].up = {} /\ line[s].down = {}
    BY <1>1, <1>2, <1>d DEF ClientSound, Inv, Links, SocketsSound, SocketSound
  <1>l. line \in [Sockets -> LineType] /\ Disposed(line, p) \in [Sockets -> LineType]
    BY <1>2, DisposedType DEF Inv, Typed, LineTypes
  <1>5. /\ \A x \in Sockets : x # p => Disposed(line, p)[x] = line[x]
        /\ \A x \in Sockets : x = p => Disposed(line, p)[x].st \notin {"open", "opening"}
                                    /\ (line[x].st # "unused" => Disposed(line, p)[x].st # "unused")
    BY <1>2, <1>l, DisposedFacts
  <1>6. /\ \A x \in Sockets : x # p /\ x # s => line'[x] = line[x]
        /\ \A x \in Sockets : x = p => line'[x] = Disposed(line, p)[x]
        /\ line'[s].st = "opening" /\ line'[s].up = {} /\ line'[s].down = {}
    BY <1>1, <1>3, <1>4, <1>5, <1>l DEF LineType
  <1>7. Fresh(s)
    BY <1>1, <1>6 DEF Fresh
  <1>8. /\ client'[d].transport = s /\ client'[d].status = "connecting"
        /\ \A e \in Clients : e # d => client'[e] = client[e]
    BY <1>3 DEF Inv, Typed, ClientTypes, ClientType
  <1>9. ~client'[d].retry
    BY <1>3 DEF Inv, Typed, ClientTypes, ClientType
  <1>10. OnlyClient(d)
    BY <1>1, <1>6, <1>7, <1>8 DEF OnlyClient
  <1>11. ASSUME NEW e \in Clients, client'[e].transport = s
         PROVE  e = d
    BY <1>1, <1>2, <1>8, <1>11 DEF Inv, Links, ClientsSound, ClientSound
  <1>12. ClientSound(d)'
    <2>1. line'[client'[d].transport].st = "opening"
      BY <1>6, <1>8
    <2>2. client'[d].transport # None
      BY <1>1, <1>2, <1>8
    <2>3. \A e \in Clients : client'[e].transport = client'[d].transport => e = d
      BY <1>8, <1>11
    <2>4. client'[d].status = "connecting"
      BY <1>8
    <2> QED BY <2>1, <2>2, <2>3, <2>4, <1>9 DEF ClientSound
  <1>13. ASSUME NEW x \in Sockets, x = p
         PROVE  OwnSocket(d, x)
    BY <1>2, <1>5, <1>6, <1>13, <1>d DEF OwnSocket, SocketSound, ClientSound
  <1>14. Links'
    BY <1>10, <1>12, <1>13, LinksOfOthers DEF Inv
  <1>15. ASSUME NEW r \in Requests
         PROVE  RequestSound(r)'
    <2>1. RequestSound(r) /\ req'[r] = req[r]
      BY DEF Inv, RequestsSound
    <2>2. CASE req[r].st = "sent" /\ req[r].by = d
      BY <2>1, <2>2 DEF RequestSound, ConnectedOn
    <2>3. CASE req[r].st = "queued" /\ req[r].by = d
      BY <2>1, <2>3 DEF RequestSound
    <2>4. CASE req[r].st \notin {"queued", "sent"} \/ req[r].by # d
      BY <2>1, <2>4, <1>10, RequestsOfOthers DEF Inv
    <2> QED BY <2>2, <2>3, <2>4
  <1> QED BY <1>14, <1>15 DEF RequestsSound

\* A client that gives a connection up, or is closed, tells whoever waits for it.
LEMMA LeavesInv ==
    ASSUME Inv, Typed', NEW d \in Clients,
           UNCHANGED <<session, conn, handling>>,
           \A e \in Clients : e # d => client'[e] = client[e],
           client'[d].status \in {"disconnected", "disposed"},
           client'[d].retry => client'[d].status = "disconnected",
           client'[d].transport \in {client[d].transport, None},
           \A x \in Sockets : x # client[d].transport => line'[x] = line[x],
           \A x \in Sockets : x = client[d].transport =>
              /\ SocketSound(x)'
              /\ line[x].st # "unused" => line'[x].st # "unused"
              /\ line'[x].st = "open" => line[x].st = "open" /\ line'[x].down \subseteq line[x].down,
           req' = [r \in Requests |->
              IF r \in Of(d, {"queued", "sent"}) THEN [req[r] EXCEPT !.st = "failed"] ELSE req[r]]
    PROVE  Links' /\ RequestsSound'
  <1> DEFINE p == client[d].transport
  <1>2. p \in Sockets \cup {None} /\ None \notin Sockets
    BY SessionsAssumption DEF Inv, Typed, ClientTypes, ClientType
  <1>d. ClientSound(d)
    BY DEF Inv, Links, ClientsSound
  <1>3. OnlyClient(d)
    BY DEF OnlyClient
  <1>4. ClientSound(d)'
    <2>1. CASE client'[d].transport = None
      BY <2>1 DEF ClientSound
    <2>2. CASE client'[d].transport = p /\ p # None
      <3>1. p \in Sockets /\ line[p].st # "unused"
        BY <1>2, <1>d, <2>2 DEF ClientSound
      <3>2. line'[p].st # "unused"
        BY <3>1
      <3>3. \A e \in Clients : client'[e].transport = p => e = d
        BY <1>d, <2>2 DEF ClientSound
      <3> QED BY <2>2, <3>2, <3>3 DEF ClientSound
    <2> QED BY <2>1, <2>2
  <1>5. ASSUME NEW x \in Sockets, x = p
        PROVE  OwnSocket(d, x)
    BY <1>5 DEF OwnSocket, ConnectedOn
  <1>6. Links'
    BY <1>3, <1>4, <1>5, LinksOfOthers DEF Inv
  <1>7. ASSUME NEW r \in Requests
        PROVE  RequestSound(r)'
    <2>1. RequestSound(r)
      BY DEF Inv, RequestsSound
    <2>2. CASE r \in Of(d, {"queued", "sent"})
      <3>1. req'[r].st = "failed"
        BY <2>2 DEF Inv, Typed, ClientTypes, RequestType
      <3> QED BY <3>1 DEF RequestSound
    <2>3. CASE r \notin Of(d, {"queued", "sent"})
      BY <2>1, <2>3, <1>3, RequestsOfOthers DEF Inv, Of
    <2> QED BY <2>2, <2>3
  <1> QED BY <1>6, <1>7 DEF RequestsSound

\* A client that reads or sends, and goes on as it was.
OwnKept(x) ==
    /\ line'[x].st = line[x].st /\ SocketSound(x)'
    /\ line'[x].down \subseteq line[x].down
    /\ "close" \in line[x].down => "close" \in line'[x].down
LEMMA StaysInv ==
    ASSUME Inv, Typed', NEW d \in Clients,
           UNCHANGED <<session, conn, handling>>,
           \A e \in Clients : e # d => client'[e] = client[e],
           client'[d].status = client[d].status, client'[d].transport = client[d].transport,
           client'[d].retry <=> client[d].retry,
           \A x \in Sockets : x # client[d].transport => line'[x] = line[x],
           \A x \in Sockets : x = client[d].transport => OwnKept(x)
    PROVE  Links' /\ OnlyClient(d)
  <1> DEFINE p == client[d].transport
  <1>2. p \in Sockets \cup {None} /\ None \notin Sockets
    BY SessionsAssumption DEF Inv, Typed, ClientTypes, ClientType
  <1>d. ClientSound(d)
    BY DEF Inv, Links, ClientsSound
  <1>3. OnlyClient(d)
    BY DEF OnlyClient
  <1>4. ClientSound(d)'
    <2>1. CASE p = None
      BY <2>1, <1>d DEF ClientSound
    <2>2. CASE p # None
      <3>1. OwnKept(p)
        BY <1>2, <2>2
      <3>2. \A e \in Clients : client'[e].transport = p => e = d
        BY <1>d, <2>2 DEF ClientSound
      <3> QED BY <1>d, <2>2, <3>1, <3>2 DEF ClientSound, OwnKept
    <2> QED BY <2>1, <2>2
  <1>5. ASSUME NEW x \in Sockets, x = p
        PROVE  OwnSocket(d, x)
    BY <1>5 DEF OwnSocket, OwnKept, ConnectedOn, Knows
  <1>6. Links'
    BY <1>3, <1>4, <1>5, LinksOfOthers DEF Inv
  <1> QED BY <1>3, <1>6

LEMMA ReadsFacts ==
    ASSUME Inv, NEW d \in Clients, NEW m, client[d].transport # None
    PROVE  /\ \A x \in Sockets : x # client[d].transport => Reads(d, m)[x] = line[x]
           /\ \A x \in Sockets : x = client[d].transport =>
                /\ Reads(d, m)[x].st = line[x].st /\ Reads(d, m)[x].up = line[x].up
                /\ Reads(d, m)[x].down = line[x].down \ {m}
  BY DEF Reads, Inv, Typed, LineTypes, LineType

LEMMA SendsFacts ==
    ASSUME Inv, NEW s \in Sockets, NEW msgs, line' = Sends(s, msgs)
    PROVE  /\ \A x \in Sockets : x # s => line'[x] = line[x]
           /\ line'[s].st = line[s].st /\ line'[s].down = line[s].down
           /\ line'[s].up = IF line[s].st = "open" THEN line[s].up \cup msgs ELSE line[s].up
  BY DEF Sends, Inv, Typed, LineTypes, LineType

LEMMA SendsReadingFacts ==
    ASSUME Inv, NEW s \in Sockets, NEW msgs, NEW m,
           line' = [Sends(s, msgs) EXCEPT ![s].down = @ \ {m}]
    PROVE  /\ \A x \in Sockets : x # s => line'[x] = line[x]
           /\ line'[s].st = line[s].st /\ line'[s].down = line[s].down \ {m}
           /\ line'[s].up = IF line[s].st = "open" THEN line[s].up \cup msgs ELSE line[s].up
  BY DEF Sends, Inv, Typed, LineTypes, LineType

\* A reading client keeps its socket.
LEMMA ReadsKept ==
    ASSUME Inv, NEW d \in Clients, NEW m, m # "close", line' = Reads(d, m),
           client[d].transport # None
    PROVE  /\ \A x \in Sockets : x # client[d].transport => line'[x] = line[x]
           /\ \A x \in Sockets : x = client[d].transport => OwnKept(x)
  <1>1. \A x \in Sockets : x # client[d].transport => line'[x] = line[x]
    BY ReadsFacts
  <1>2. ASSUME NEW x \in Sockets, x = client[d].transport
        PROVE  OwnKept(x)
    <2>1. /\ line'[x].st = line[x].st /\ line'[x].up = line[x].up
          /\ line'[x].down = line[x].down \ {m}
      BY <1>2, ReadsFacts
    <2>2. SocketSound(x)
      BY DEF Inv, Links, SocketsSound
    <2> QED BY <2>1, <2>2 DEF OwnKept, SocketSound
  <1> QED BY <1>1, <1>2

LEMMA ReconnectsInv ==
    ASSUME Inv, Typed', NEW d \in Clients, NEW c \in ClientType,
           c.transport \in {client[d].transport, None}, SchedulesReconnect(d, c),
           UNCHANGED <<session, conn, handling>>,
           \A x \in Sockets : x # client[d].transport => line'[x] = line[x],
           \A x \in Sockets : x = client[d].transport =>
              /\ SocketSound(x)'
              /\ line[x].st # "unused" => line'[x].st # "unused"
              /\ line'[x].st = "open" => line[x].st = "open" /\ line'[x].down \subseteq line[x].down
    PROVE  Links' /\ RequestsSound'
  <1>1. client' = [client EXCEPT ![d] = [c EXCEPT !.status = "disconnected", !.retry = TRUE]]
    BY DEF SchedulesReconnect
  <1>2. /\ \A e \in Clients : e # d => client'[e] = client[e]
        /\ client'[d].status = "disconnected" /\ client'[d].transport = c.transport
    BY <1>1 DEF Inv, Typed, ClientTypes, ClientType
  <1>3. req' = [r \in Requests |->
          IF r \in Of(d, {"queued", "sent"}) THEN [req[r] EXCEPT !.st = "failed"] ELSE req[r]]
    BY DEF SchedulesReconnect
  <1> QED BY <1>2, <1>3, LeavesInv

\* The same, when the client has only read a notice, or nothing.
LEMMA ReconnectsReading ==
    ASSUME Inv, Typed', NEW d \in Clients, NEW c \in ClientType,
           c.transport = client[d].transport, SchedulesReconnect(d, c),
           UNCHANGED <<session, conn, handling>>,
           UNCHANGED line \/ \E m : line' = Reads(d, m) /\ client[d].transport # None
    PROVE  Links' /\ RequestsSound'
  <1>1. ASSUME NEW x \in Sockets, x # client[d].transport
        PROVE  line'[x] = line[x]
    BY <1>1, ReadsFacts
  <1>2. ASSUME NEW x \in Sockets, x = client[d].transport
        PROVE  /\ line'[x].st = line[x].st /\ line'[x].up = line[x].up
               /\ line'[x].down \subseteq line[x].down
    <2>1. CASE UNCHANGED line
      BY <2>1
    <2>2. CASE \E m : line' = Reads(d, m) /\ client[d].transport # None
      <3>1. PICK m : line' = Reads(d, m) /\ client[d].transport # None
        BY <2>2
      <3>2. /\ Reads(d, m)[x].st = line[x].st /\ Reads(d, m)[x].up = line[x].up
            /\ Reads(d, m)[x].down = line[x].down \ {m}
        BY <1>2, <3>1, ReadsFacts
      <3> QED BY <3>1, <3>2
    <2> QED BY <2>1, <2>2
  <1>3. ASSUME NEW x \in Sockets, x = client[d].transport
        PROVE  SocketSound(x)'
    BY <1>2, <1>3 DEF SocketSound, Inv, Links, SocketsSound
  <1> QED BY <1>1, <1>2, <1>3, ReconnectsInv

LEMMA AttemptingInv ==
    ASSUME Inv, Typed', ~Impatient, NEW d \in Clients, Connect(d) \/ RetryFires(d)
    PROVE  Links' /\ RequestsSound'
  <1>t. client[d] \in ClientType
    BY DEF Inv, Typed, ClientTypes
  <1>1. CASE Connect(d)
    <2> DEFINE c == [client[d] EXCEPT !.promise = TRUE]
    <2>1. c \in ClientType
      BY <1>t DEF ClientType
    <2>2. ~c.retry
      <3>1. ~client[d].retry
        BY <1>1 DEF Connect
      <3> QED BY <1>t, <3>1 DEF ClientType
    <2>3. client[d].status # "connected" /\ Attempts(d, c) /\ UNCHANGED <<req, server>>
      BY <1>1 DEF Connect
    <2> QED BY <2>1, <2>2, <2>3, AttemptsInv DEF server
  <1>2. CASE RetryFires(d)
    <2> DEFINE c == [client[d] EXCEPT !.retry = FALSE]
    <2>1. c \in ClientType
      BY <1>t DEF ClientType
    <2>2. ~c.retry
      BY <1>t DEF ClientType
    <2>3. client[d].status = "disconnected"
      BY <1>2 DEF RetryFires, Inv, Links, ClientsSound, ClientSound
    <2>4. c.status = "disconnected"
      BY <1>t, <2>3 DEF ClientType
    <2>5. Attempts(d, c) /\ UNCHANGED <<req, server>>
      BY <1>2, <2>4 DEF RetryFires
    <2> QED BY <2>1, <2>2, <2>3, <2>5, AttemptsInv DEF server
  <1> QED BY <1>1, <1>2

\* A transport that is disposed of is closed, and nothing is read from it.
LEMMA DisposedKept ==
    ASSUME Inv, NEW d \in Clients, line' = Disposed(line, client[d].transport)
    PROVE  /\ \A x \in Sockets : x # client[d].transport => line'[x] = line[x]
           /\ \A x \in Sockets : x = client[d].transport =>
                /\ SocketSound(x)'
                /\ line[x].st # "unused" => line'[x].st # "unused"
                /\ line'[x].st # "open"
  <1>1. line \in [Sockets -> LineType] /\ client[d].transport \in Sockets \cup {None}
    BY DEF Inv, Typed, LineTypes, ClientTypes, ClientType
  <1>2. \A x \in Sockets : x # client[d].transport => line'[x] = line[x]
    BY <1>1, DisposedFacts
  <1>3. ASSUME NEW x \in Sockets, x = client[d].transport
        PROVE  line'[x].st \notin {"open", "opening"}
               /\ (line[x].st # "unused" => line'[x].st # "unused")
    BY <1>1, <1>3, DisposedFacts
  <1>4. ASSUME NEW x \in Sockets, x = client[d].transport
        PROVE  SocketSound(x)'
    <2>1. line[x].st # "unused"
      BY <1>4, SessionsAssumption DEF Inv, Links, ClientsSound, ClientSound
    <2> QED BY <1>3, <1>4, <2>1 DEF SocketSound
  <1> QED BY <1>2, <1>3, <1>4

LEMMA TimersInv ==
    ASSUME Inv, Typed', NEW d \in Clients, ConnectTimesOut(d) \/ ErrorTimerFires(d) \/ Close(d)
    PROVE  Links' /\ RequestsSound'
  <1>t. client[d] \in ClientType
    BY DEF Inv, Typed, ClientTypes
  <1>1. CASE ConnectTimesOut(d)
    <2> DEFINE c == [client[d] EXCEPT !.transport = None, !.deadline = FALSE, !.error = FALSE]
    <2>1. c \in ClientType /\ c.transport = None
      BY <1>t DEF ClientType
    <2>2. /\ SchedulesReconnect(d, c) /\ line' = Disposed(line, client[d].transport)
          /\ UNCHANGED <<session, conn, handling>>
      BY <1>1 DEF ConnectTimesOut, server
    <2> HIDE DEF c
    <2> QED BY <2>1, <2>2, DisposedKept, ReconnectsInv
  <1>2. CASE ErrorTimerFires(d)
    <2> DEFINE c == [client[d] EXCEPT !.error = FALSE]
    <2>1. /\ c \in ClientType /\ c.transport = client[d].transport /\ c.status = client[d].status
      BY <1>t DEF ClientType
    <2>2. c.retry <=> client[d].retry
      BY <1>t DEF ClientType
    <2>3. UNCHANGED <<line, session, conn, handling>>
      BY <1>2 DEF ErrorTimerFires, server
    <2>4. CASE c.status \in {"connected", "connecting"}
      <3>1. SchedulesReconnect(d, c)
        BY <1>2, <2>4 DEF ErrorTimerFires
      <3> HIDE DEF c
      <3> QED BY <2>1, <2>3, <3>1, ReconnectsReading
    <2>5. CASE c.status \notin {"connected", "connecting"}
      <3>1. client' = [client EXCEPT ![d] = c] /\ UNCHANGED req
        BY <1>2, <2>5 DEF ErrorTimerFires
      <3> HIDE DEF c
      <3>2. client'[d] = c /\ \A e \in Clients : e # d => client'[e] = client[e]
        BY <3>1 DEF Inv, Typed, ClientTypes
      <3>3. ASSUME NEW x \in Sockets PROVE OwnKept(x)
        BY <2>3 DEF OwnKept, SocketSound, Inv, Links, SocketsSound
      <3>4. Links' /\ OnlyClient(d)
        BY <2>1, <2>2, <2>3, <3>2, <3>3, StaysInv
      <3>5. ASSUME NEW r \in Requests PROVE RequestSound(r)'
        <4>1. RequestSound(r) /\ req'[r] = req[r]
          BY <3>1 DEF Inv, RequestsSound
        <4>2. CASE req[r].by = d /\ req[r].st = "sent"
          BY <2>1, <2>5, <4>1, <4>2 DEF RequestSound, ConnectedOn
        <4>3. CASE req[r].by = d /\ req[r].st # "sent"
          BY <4>1, <4>3 DEF RequestSound
        <4>4. CASE req[r].by # d
          BY <3>4, <4>1, <4>4, RequestsOfOthers DEF Inv
        <4> QED BY <4>2, <4>3, <4>4
      <3> QED BY <3>4, <3>5 DEF RequestsSound
    <2> QED BY <2>4, <2>5
  <1>3. CASE Close(d)
    <2>1. /\ line' = Disposed(line, client[d].transport)
          /\ client' = [client EXCEPT ![d] = [NoClient EXCEPT !.status = "disposed"]]
          /\ req' = [r \in Requests |->
               IF r \in Of(d, {"queued", "sent"}) THEN [req[r] EXCEPT !.st = "failed"] ELSE req[r]]
          /\ UNCHANGED <<session, conn, handling>>
      BY <1>3 DEF Close, server
    <2>2. /\ \A e \in Clients : e # d => client'[e] = client[e]
          /\ client'[d].status = "disposed" /\ client'[d].transport = None
      BY <2>1 DEF Inv, Typed, ClientTypes, NoClient
    <2>3. ~client'[d].retry
      BY <2>1 DEF Inv, Typed, ClientTypes, NoClient
    <2> QED BY <2>1, <2>2, <2>3, DisposedKept, LeavesInv
  <1> QED BY <1>1, <1>2, <1>3

\* A request that its client still waits for after the client has read, or sent.
LEMMA StillComes ==
    ASSUME Inv, NEW d \in Clients, NEW r \in Requests, UNCHANGED <<session, conn, handling>>,
           client'[d].status = client[d].status, client'[d].transport = client[d].transport,
           req'[r] = req[r], req[r].by = d,
           \A x \in Sockets : x = client[d].transport =>
              /\ line[x].up \subseteq line'[x].up
              /\ r \in line[x].down => r \in line'[x].down
              /\ "close" \in line[x].down => "close" \in line'[x].down
    PROVE  RequestSound(r)'
  <1>1. RequestSound(r)
    BY DEF Inv, RequestsSound
  <1>2. CASE req[r].st # "sent"
    BY <1>1, <1>2 DEF RequestSound
  <1>3. CASE req[r].st = "sent"
    <2> DEFINE s == req[r].on
    <2>1. s \in Sockets /\ client[d].transport = s /\ client[d].status = "connected" /\ CanCome(r, s)
      BY <1>1, <1>3 DEF RequestSound, ConnectedOn
    <2>2. CanCome(r, s)'
      <3>1. /\ line[s].up \subseteq line'[s].up
            /\ r \in line[s].down => r \in line'[s].down
            /\ "close" \in line[s].down => "close" \in line'[s].down
        BY <2>1
      <3> QED BY <2>1, <3>1 DEF CanCome
    <2> QED BY <1>3, <2>1, <2>2 DEF RequestSound, ConnectedOn, CanCome
  <1> QED BY <1>2, <1>3

LEMMA OnAnswerInv ==
    ASSUME Inv, Typed', NEW d \in Clients, NEW r \in Requests, OnAnswer(d, r)
    PROVE  Links' /\ RequestsSound'
  <1>1. /\ line' = Reads(d, r) /\ UNCHANGED <<client, session, conn, handling>>
        /\ req' = IF r \in Of(d, {"sent"}) THEN [req EXCEPT ![r].st = "answered"] ELSE req
        /\ client[d].transport # None /\ r # "close"
    BY Names DEF OnAnswer, Hears, server, Notices
  <1>2. Links' /\ OnlyClient(d)
    BY <1>1, ReadsKept, StaysInv
  <1>3. ASSUME NEW q \in Requests
        PROVE  RequestSound(q)'
    <2>1. RequestSound(q)
      BY DEF Inv, RequestsSound
    <2>2. CASE q = r /\ r \in Of(d, {"sent"})
      <3>1. req'[q].st = "answered"
        BY <1>1, <2>2 DEF Inv, Typed, ClientTypes, RequestType
      <3> QED BY <3>1 DEF RequestSound
    <2>3. CASE ~(q = r /\ r \in Of(d, {"sent"}))
      <3>1. req'[q] = req[q]
        BY <1>1, <2>3 DEF Inv, Typed, ClientTypes, RequestType
      <3>2. CASE req[q].by = d /\ q # r
        <4>1. \A x \in Sockets : x = client[d].transport =>
                 line'[x].up = line[x].up /\ line'[x].down = line[x].down \ {r}
          BY <1>1, ReadsFacts
        <4> QED BY <1>1, <3>1, <3>2, <4>1, StillComes
      <3>3. CASE req[q].by = d /\ q = r
        <4>1. req[q].st # "sent"
          BY <2>3, <3>3 DEF Of
        <4> QED BY <2>1, <3>1, <3>3, <4>1 DEF RequestSound
      <3>4. CASE req[q].by # d
        BY <1>2, <2>1, <3>1, <3>4, RequestsOfOthers DEF Inv
      <3> QED BY <3>2, <3>3, <3>4
    <2> QED BY <2>2, <2>3
  <1> QED BY <1>2, <1>3 DEF RequestsSound

\* A notice that changes nothing the requests depend on.
LEMMA NoticeInv ==
    ASSUME Inv, Typed', NEW d \in Clients, UNCHANGED <<req, session, conn, handling>>,
           \A e \in Clients : e # d => client'[e] = client[e],
           client'[d].status = client[d].status, client'[d].transport = client[d].transport,
           client'[d].retry <=> client[d].retry,
           \A x \in Sockets : x # client[d].transport => line'[x] = line[x],
           \A x \in Sockets : x = client[d].transport =>
              /\ OwnKept(x) /\ line[x].up \subseteq line'[x].up
              /\ \A r \in Requests : r \in line[x].down => r \in line'[x].down
    PROVE  Links' /\ RequestsSound'
  <1>1. Links' /\ OnlyClient(d)
    BY StaysInv
  <1>2. ASSUME NEW r \in Requests
        PROVE  RequestSound(r)'
    <2>1. RequestSound(r) /\ req'[r] = req[r]
      BY DEF Inv, RequestsSound
    <2>2. CASE req[r].by = d
      BY <2>1, <2>2, StillComes DEF OwnKept
    <2>3. CASE req[r].by # d
      BY <1>1, <2>1, <2>3, RequestsOfOthers DEF Inv
    <2> QED BY <2>2, <2>3
  <1> QED BY <1>1, <1>2 DEF RequestsSound

\* Reading a notice other than the close.
LEMMA NoticeRead ==
    ASSUME Inv, NEW d \in Clients, NEW m \in {"open", "server_info", "error"}, Hears(d, m),
           line' = Reads(d, m)
    PROVE  /\ \A x \in Sockets : x # client[d].transport => line'[x] = line[x]
           /\ \A x \in Sockets : x = client[d].transport =>
              /\ OwnKept(x) /\ line[x].up \subseteq line'[x].up
              /\ \A r \in Requests : r \in line[x].down => r \in line'[x].down
  <1>1. client[d].transport # None /\ m # "close" /\ \A r \in Requests : r # m
    BY Names DEF Hears, Notices
  <1>2. /\ \A x \in Sockets : x # client[d].transport => line'[x] = line[x]
        /\ \A x \in Sockets : x = client[d].transport => OwnKept(x)
    BY <1>1, ReadsKept
  <1>3. \A x \in Sockets : x = client[d].transport =>
            line'[x].up = line[x].up /\ line'[x].down = line[x].down \ {m}
    BY <1>1, ReadsFacts
  <1> QED BY <1>1, <1>2, <1>3

LEMMA OnOpenInv ==
    ASSUME Inv, Typed', NEW d \in Clients, OnOpen(d)
    PROVE  Links' /\ RequestsSound'
  <1> DEFINE s == client[d].transport
             c == [client[d] EXCEPT !.error = FALSE]
  <1>t. client[d] \in ClientType
    BY DEF Inv, Typed, ClientTypes
  <1>1. /\ c \in ClientType /\ c.transport = s /\ c.status = client[d].status
    BY <1>t DEF ClientType
  <1>2. c.retry <=> client[d].retry
    BY <1>t DEF ClientType
  <1>3. s \in Sockets /\ UNCHANGED <<session, conn, handling>> /\ Hears(d, "open")
    BY HeardSocket DEF OnOpen, Inv, Typed, server
  <1>4. CASE SchedulesReconnect(d, c) /\ line' = Reads(d, "open")
    <2>1. s # None
      BY <1>3 DEF Hears
    <2> HIDE DEF c
    <2> QED BY <1>1, <1>3, <1>4, <2>1, ReconnectsReading
  <1>5. CASE /\ line' = [Sends(s, {"hello"}) EXCEPT ![s].down = @ \ {"open"}]
             /\ client' = [client EXCEPT ![d] = c] /\ UNCHANGED req
    <2> HIDE DEF c
    <2>1. client'[d] = c /\ \A e \in Clients : e # d => client'[e] = client[e]
      BY <1>5 DEF Inv, Typed, ClientTypes
    <2>2. /\ \A x \in Sockets : x # s => line'[x] = line[x]
          /\ line'[s].st = line[s].st /\ line'[s].down = line[s].down \ {"open"}
          /\ line'[s].up = IF line[s].st = "open" THEN line[s].up \cup {"hello"} ELSE line[s].up
      <3>1. line' = [Sends(s, {"hello"}) EXCEPT ![s].down = @ \ {"open"}]
        BY <1>5
      <3> HIDE DEF s
      <3> QED BY <1>3, <3>1, SendsReadingFacts
    <2>3. SocketSound(s)
      BY <1>3 DEF Inv, Links, SocketsSound
    <2>4. ASSUME NEW x \in Sockets, x = s
          PROVE  SocketSound(x)'
      BY <2>2, <2>3, <2>4 DEF SocketSound
    <2>5. ASSUME NEW x \in Sockets, x = s
          PROVE  /\ OwnKept(x) /\ line[x].up \subseteq line'[x].up
                 /\ \A r \in Requests : r \in line[x].down => r \in line'[x].down
      <3>1. \A r \in Requests : r # "open"
        BY Names DEF Notices
      <3> QED BY <2>2, <2>4, <2>5, <3>1 DEF OwnKept
    <2> QED BY ZenonT(40), <1>1, <1>2, <1>3, <1>5, <2>1, <2>2, <2>5, NoticeInv
  <1> QED BY <1>4, <1>5 DEF OnOpen

LEMMA OnErrorInv ==
    ASSUME Inv, Typed', NEW d \in Clients, OnError(d)
    PROVE  Links' /\ RequestsSound'
  <1>t. client[d] \in ClientType
    BY DEF Inv, Typed, ClientTypes
  <1>1. /\ Hears(d, "error") /\ line' = Reads(d, "error") /\ client[d].transport # None
        /\ UNCHANGED <<session, conn, handling>>
    BY DEF OnError, server, Hears
  <1>2. CASE client' = [client EXCEPT ![d].deadline = FALSE, ![d].error = TRUE] /\ UNCHANGED req
    <2>1. /\ \A e \in Clients : e # d => client'[e] = client[e]
          /\ client'[d].status = client[d].status /\ client'[d].transport = client[d].transport
      BY <1>2 DEF Inv, Typed, ClientTypes, ClientType
    <2>2. client'[d].retry <=> client[d].retry
      BY <1>2 DEF Inv, Typed, ClientTypes, ClientType
    <2> QED BY <1>1, <1>2, <2>1, <2>2, NoticeRead, NoticeInv
  <1>3. CASE SchedulesReconnect(d, [client[d] EXCEPT !.deadline = FALSE, !.error = FALSE])
    <2> DEFINE c == [client[d] EXCEPT !.deadline = FALSE, !.error = FALSE]
    <2>1. c \in ClientType /\ c.transport = client[d].transport
      BY <1>t DEF ClientType
    <2> HIDE DEF c
    <2> QED BY <1>1, <1>3, <2>1, ReconnectsReading DEF c
  <1> QED BY <1>2, <1>3 DEF OnError

LEMMA OnCloseInv ==
    ASSUME Inv, Typed', NEW d \in Clients, OnClose(d)
    PROVE  Links' /\ RequestsSound'
  <1> DEFINE c == [client[d] EXCEPT !.deadline = FALSE, !.error = FALSE]
  <1>1. c \in ClientType /\ c.transport = client[d].transport
    BY DEF ClientType, Inv, Typed, ClientTypes
  <1>2. /\ line' = Reads(d, "close") /\ client[d].transport # None
        /\ UNCHANGED <<session, conn, handling>> /\ SchedulesReconnect(d, c)
    BY DEF OnClose, server, Hears
  <1> HIDE DEF c
  <1> QED BY <1>1, <1>2, ReconnectsReading

LEMMA OnServerInfoInv ==
    ASSUME Inv, Typed', NEW d \in Clients, OnServerInfo(d)
    PROVE  Links' /\ RequestsSound'
  <1> DEFINE s == client[d].transport
             flushed == Of(d, {"queued"})
  <1>1. s \in Sockets /\ s # None /\ UNCHANGED <<session, conn, handling>> /\ Hears(d, "server_info")
    BY HeardSocket DEF OnServerInfo, Inv, Typed, server, Hears
  <1>2. CASE client[d].status # "connecting"
    <2>1. line' = Reads(d, "server_info") /\ UNCHANGED <<client, req>>
      BY <1>2 DEF OnServerInfo
    <2> QED BY <1>1, <2>1, NoticeRead, NoticeInv
  <1>3. CASE client[d].status = "connecting"
    <2>1. /\ line' = [Sends(s, flushed) EXCEPT ![s].down = @ \ {"server_info"}]
          /\ client' = [client EXCEPT ![d].status = "connected", ![d].deadline = FALSE,
                                      ![d].promise = FALSE]
          /\ req' = [r \in Requests |->
               IF r \notin flushed THEN req[r]
               ELSE [req[r] EXCEPT !.st = IF req[r].waiter THEN "sent" ELSE "failed", !.on = s]]
      BY <1>3 DEF OnServerInfo
    <2>2. /\ \A e \in Clients : e # d => client'[e] = client[e]
          /\ client'[d].status = "connected" /\ client'[d].transport = s
      BY <2>1 DEF Inv, Typed, ClientTypes, ClientType
    <2>3. client'[d].retry <=> client[d].retry
      BY <2>1 DEF Inv, Typed, ClientTypes, ClientType
    <2>4. /\ \A x \in Sockets : x # s => line'[x] = line[x]
          /\ line'[s].st = line[s].st /\ line'[s].down = line[s].down \ {"server_info"}
          /\ line'[s].up = IF line[s].st = "open" THEN line[s].up \cup flushed ELSE line[s].up
      <3> HIDE DEF s, flushed
      <3> QED BY <1>1, <2>1, SendsReadingFacts
    <2>5. "server_info" \in line[s].down
      BY <1>1 DEF Hears, Comes
    <2>6. /\ line[s].st \notin {"unused", "opening"} /\ SocketSound(s)
          /\ line[s].st \in {"unused", "opening", "open", "shut", "closed"}
      BY <1>1, <2>5 DEF Inv, Links, SocketsSound, SocketSound, Typed, LineTypes, LineType
    <2>7. ClientSound(d)
      BY DEF Inv, Links, ClientsSound
    <2>8. line[s].st # "open" => "close" \in line'[s].down
      BY <1>1, <1>3, <2>4, <2>6, <2>7 DEF ClientSound
    <2>9. ClientSound(d)'
      <3>1. ~client'[d].retry
        BY <1>3, <2>3, <2>7 DEF ClientSound
      <3>2. \A e \in Clients : client'[e].transport = s => e = d
        BY <1>1, <2>2, <2>7 DEF ClientSound
      <3> QED BY <1>1, <2>2, <2>4, <2>6, <2>8, <3>1, <3>2 DEF ClientSound
    <2>10. ASSUME NEW x \in Sockets, x = s
           PROVE  OwnSocket(d, x)
      <3>1. \A r \in Requests : r # "close"
        BY Names DEF Notices
      <3>2. "close" \in line'[s].up => "close" \in line[s].up
        BY <2>4, <3>1 DEF Of
      <3>3. SocketSound(x)'
        BY <2>4, <2>6, <2>10, <3>2 DEF SocketSound
      <3>4. Knows(x)
        BY <2>5, <2>10 DEF Knows
      <3> QED BY <2>4, <2>6, <2>10, <3>3, <3>4 DEF OwnSocket
    <2>11. OnlyClient(d)
      BY <1>1, <2>2, <2>4 DEF OnlyClient
    <2>12. Links'
      BY <2>9, <2>10, <2>11, LinksOfOthers DEF Inv
    <2>13. ASSUME NEW r \in Requests
           PROVE  RequestSound(r)'
      <3>1. RequestSound(r) /\ req[r] \in RequestType
        BY DEF Inv, RequestsSound, Typed, ClientTypes
      <3>2. CASE r \in flushed
        <4>1. /\ req[r].by = d /\ req'[r].by = d /\ req'[r].on = s
              /\ req'[r].st \in {"sent", "failed"}
          BY <2>1, <3>1, <3>2 DEF Of, RequestType
        <4>2. CanCome(r, s)'
          <5>1. r \in line'[s].up \/ "close" \in line'[s].down
            BY <2>4, <2>8, <3>2
          <5> QED BY <2>2, <5>1 DEF CanCome
        <4> QED BY <1>1, <2>2, <4>1, <4>2 DEF RequestSound, ConnectedOn, CanCome
      <3>3. CASE r \notin flushed
        <4>1. req'[r] = req[r]
          BY <2>1, <3>3
        <4>2. req[r].by = d => req[r].st \notin {"queued", "sent"}
          <5>1. ASSUME req[r].by = d, req[r].st = "sent"
                PROVE  FALSE
            BY <1>3, <3>1, <5>1 DEF RequestSound, ConnectedOn
          <5> QED BY <3>3, <5>1 DEF Of
        <4> QED BY <2>11, <3>1, <4>1, <4>2, RequestsOfOthers DEF Inv
      <3> QED BY <3>2, <3>3
    <2> QED BY <2>12, <2>13 DEF RequestsSound
  <1> QED BY <1>2, <1>3

\* What a client asks, and what it waits for no longer.
LEMMA AsksInv ==
    ASSUME Inv, Typed', NEW d \in Clients, NEW r \in Requests, Asks(d, r)
    PROVE  Links' /\ RequestsSound'
  <1> DEFINE s == client[d].transport
  <1>1. UNCHANGED <<client, session, conn, handling>> /\ req[r].st = "new"
    BY DEF Asks, server
  <1>2. CASE /\ client[d].status = "connected" /\ line' = Sends(s, {r})
             /\ req' = [req EXCEPT ![r] = [NoRequest EXCEPT !.by = d, !.waiter = TRUE,
                                                            !.st = "sent", !.on = s]]
    <2>1. ClientSound(d)
      BY DEF Inv, Links, ClientsSound
    <2>2. s \in Sockets /\ s # None
      BY <1>2, <2>1 DEF ClientSound, Inv, Typed, ClientTypes, ClientType
    <2>3. /\ \A x \in Sockets : x # s => line'[x] = line[x]
          /\ line'[s].st = line[s].st /\ line'[s].down = line[s].down
          /\ line'[s].up = IF line[s].st = "open" THEN line[s].up \cup {r} ELSE line[s].up
      <3>1. line' = Sends(s, {r})
        BY <1>2
      <3> HIDE DEF s
      <3> QED BY <2>2, <3>1, SendsFacts
    <2>4. ASSUME NEW x \in Sockets, x = s
          PROVE  OwnKept(x)
      <3>1. r # "close" /\ SocketSound(s) /\ line[s].st # "unused" /\ line[s].st # "opening"
        BY <1>2, <2>1, <2>2, Names DEF Notices, Inv, Links, SocketsSound, ClientSound
      <3> QED BY <2>3, <2>4, <3>1 DEF OwnKept, SocketSound
    <2>5. Links' /\ OnlyClient(d)
      BY <1>1, <2>3, <2>4, StaysInv
    <2>6. RequestSound(r)'
      <3>1. req'[r].st = "sent" /\ req'[r].by = d /\ req'[r].on = s
        BY <1>2 DEF NoRequest, Inv, Typed, ClientTypes
      <3>2. line[s].st \in {"shut", "closed", "open"}
        BY <1>2, <2>1, <2>2 DEF ClientSound, Inv, Typed, LineTypes, LineType
      <3>3. r \in line'[s].up \/ "close" \in line'[s].down
        BY <1>2, <2>1, <2>3, <3>2 DEF ClientSound
      <3>4. CanCome(r, s)'
        BY <1>1, <3>3 DEF CanCome
      <3> QED BY <1>1, <1>2, <2>2, <3>1, <3>4 DEF RequestSound, ConnectedOn, CanCome
    <2>7. ASSUME NEW q \in Requests, q # r
          PROVE  RequestSound(q)'
      <3>1. RequestSound(q) /\ req'[q] = req[q]
        BY <1>2, <2>7 DEF Inv, RequestsSound, Typed, ClientTypes
      <3>2. CASE req[q].by = d
        <4>1. \A x \in Sockets : x = client[d].transport =>
                 /\ line[x].up \subseteq line'[x].up
                 /\ q \in line[x].down => q \in line'[x].down
                 /\ "close" \in line[x].down => "close" \in line'[x].down
          BY <2>3
        <4> QED BY <1>1, <3>1, <3>2, <4>1, StillComes
      <3>3. CASE req[q].by # d
        BY <2>5, <3>1, <3>3, RequestsOfOthers DEF Inv
      <3> QED BY <3>2, <3>3
    <2> QED BY <2>5, <2>6, <2>7 DEF RequestsSound
  <1>3. CASE /\ UNCHANGED line
             /\ \E st \in {"queued", "failed"} :
                  req' = [req EXCEPT ![r] = [NoRequest EXCEPT !.by = d, !.waiter = TRUE, !.st = st]]
    <2>1. PICK st \in {"queued", "failed"} :
            req' = [req EXCEPT ![r] = [NoRequest EXCEPT !.by = d, !.waiter = TRUE, !.st = st]]
      BY <1>3
    <2>2. Links'
      BY <1>1, <1>3 DEF Inv, Links, SocketsSound, SocketSound, ClientsSound, ClientSound,
                        SessionsKnown, Knows, ConnectedOn
    <2>3. req'[r].st = st /\ req'[r].by = d /\ \A q \in Requests : q # r => req'[q] = req[q]
      BY <2>1 DEF NoRequest, Inv, Typed, ClientTypes
    <2>4. ASSUME NEW q \in Requests
          PROVE  RequestSound(q)'
      <3>1. RequestSound(q)
        BY DEF Inv, RequestsSound
      <3>2. CASE q = r
        BY <2>3, <3>2 DEF RequestSound
      <3>3. CASE q # r
        BY <1>1, <1>3, <2>3, <3>1, <3>3 DEF RequestSound, ConnectedOn, CanCome
      <3> QED BY <3>2, <3>3
    <2> QED BY <2>2, <2>4 DEF RequestsSound
  <1> QED
    <2>1. \/ /\ client[d].status = "connected" /\ line' = Sends(s, {r})
             /\ req' = [req EXCEPT ![r] = [[NoRequest EXCEPT !.by = d, !.waiter = TRUE]
                                             EXCEPT !.st = "sent", !.on = s]]
          \/ /\ UNCHANGED line
             /\ \E st \in {"queued", "failed"} :
                  req' = [req EXCEPT ![r] = [[NoRequest EXCEPT !.by = d, !.waiter = TRUE]
                                               EXCEPT !.st = st]]
      BY DEF Asks
    <2>2. [[NoRequest EXCEPT !.by = d, !.waiter = TRUE] EXCEPT !.st = "sent", !.on = s]
            = [NoRequest EXCEPT !.by = d, !.waiter = TRUE, !.st = "sent", !.on = s]
      BY DEF NoRequest
    <2>3. \A st \in {"queued", "failed"} :
            [[NoRequest EXCEPT !.by = d, !.waiter = TRUE] EXCEPT !.st = st]
              = [NoRequest EXCEPT !.by = d, !.waiter = TRUE, !.st = st]
      BY DEF NoRequest
    <2> QED BY <1>2, <1>3, <2>1, <2>2, <2>3

LEMMA TimesOutInv ==
    ASSUME Inv, NEW r \in Requests, RequestTimesOut(r) \/ QueueTimesOut(r)
    PROVE  Links' /\ RequestsSound'
  <1>1. UNCHANGED <<client, line, session, conn, handling>>
    BY DEF RequestTimesOut, QueueTimesOut, server
  <1>2. Links'
    BY <1>1 DEF Inv, Links, SocketsSound, SocketSound, ClientsSound, ClientSound,
                SessionsKnown, Knows, ConnectedOn
  <1>3. /\ req'[r].st \in {"queued", "failed"} /\ req'[r].by = req[r].by
        /\ req[r].st \in {"queued", "sent"} /\ \A q \in Requests : q # r => req'[q] = req[q]
    BY DEF RequestTimesOut, QueueTimesOut, Inv, Typed, ClientTypes, RequestType
  <1>4. ASSUME NEW q \in Requests
        PROVE  RequestSound(q)'
    <2>1. RequestSound(q)
      BY DEF Inv, RequestsSound
    <2>2. CASE q = r
      BY <1>3, <2>1, <2>2 DEF RequestSound
    <2>3. CASE q # r
      BY <1>1, <1>3, <2>1, <2>3 DEF RequestSound, ConnectedOn, CanCome
    <2> QED BY <2>2, <2>3
  <1> QED BY <1>2, <1>4 DEF RequestsSound

-----------------------------------------------------------------------------
(* No request waits in vain *)
LEMMA StepInv == ASSUME ~Impatient PROVE Inv /\ [Next]_vars => Inv'
  <1> SUFFICES ASSUME Inv, [Next]_vars PROVE Inv'
    OBVIOUS
  <1>t. Typed'
    BY StepTypes DEF Inv
  <1>h. Held'
    BY StepHeld DEF Inv, Typed
  <1>1. CASE UNCHANGED vars
    <2>1. UNCHANGED <<client, req, line, session, conn, handling>>
      BY <1>1 DEF vars, server
    <2>2. Links'
      BY <2>1 DEF Inv, Links, SocketsSound, SocketSound, ClientsSound, ClientSound,
                  SessionsKnown, Knows, ConnectedOn
    <2>3. ASSUME NEW q \in Requests
          PROVE  RequestSound(q)'
      BY <2>1 DEF Inv, RequestsSound, RequestSound, ConnectedOn, CanCome
    <2> QED BY <1>t, <1>h, <2>2, <2>3 DEF Inv, RequestsSound
  <1>2. ASSUME NEW d \in Clients,
               \/ Connect(d) \/ RetryFires(d) \/ ConnectTimesOut(d) \/ ErrorTimerFires(d) \/ Close(d)
        PROVE  Links' /\ RequestsSound'
    BY <1>t, <1>2, AttemptingInv, TimersInv
  <1>3. ASSUME NEW d \in Clients, ClientReads(d)
        PROVE  Links' /\ RequestsSound'
    BY <1>t, <1>3, OnOpenInv, OnServerInfoInv, OnErrorInv, OnCloseInv, OnAnswerInv DEF ClientReads
  <1>4. ASSUME NEW d \in Clients, NEW r \in Requests, Asks(d, r)
        PROVE  Links' /\ RequestsSound'
    BY <1>t, <1>4, AsksInv
  <1>5. ASSUME NEW r \in Requests,
               \/ RequestTimesOut(r) \/ QueueTimesOut(r) \/ \E k \in Sockets : Answers(r, k)
        PROVE  Links' /\ RequestsSound'
    BY <1>5, TimesOutInv, AnswersInv
  <1>6. ASSUME NEW s \in Sockets,
               \/ Opens(s) \/ Refused(s) \/ Breaks(s) \/ ServerReads(s) \/ GraceExpires(s)
               \/ Validated(s) \/ HelloRefused(s) \/ HelloTimesOut(s)
        PROVE  Links' /\ RequestsSound'
    BY <1>6, OpensInv, LostInv, HelloInv, SocketCloseInv, OnRequestInv, GraceInv, ShutInv
       DEF ServerReads
  <1>7. Restarts => Links' /\ RequestsSound'
    BY RestartsInv
  <1>8. CASE Next
    <2>1. Links' /\ RequestsSound'
      BY <1>2, <1>3, <1>4, <1>5, <1>6, <1>7, <1>8 DEF Next
    <2> QED BY <1>t, <1>h, <2>1 DEF Inv
  <1> QED BY <1>1, <1>8

\* Of a client that calls connect() only when no reconnection is scheduled, no request
\* waits on a connection that it has lost: its answer can come, or the notice of the
\* close that will fail it is still to be read.
THEOREM NoRequestWaitsInVain == ASSUME ~Impatient PROVE Spec => []NoVainWait
  <1>1. Init => Inv
    BY InitInv
  <1>2. Inv /\ [Next]_vars => Inv'
    BY StepInv
  <1>3. Inv => NoVainWait
    BY DEF Inv, RequestsSound, RequestSound, ConnectedOn, CanCome, NoVainWait
  <1> QED BY <1>1, <1>2, <1>3, PTL DEF Spec
=============================================================================
