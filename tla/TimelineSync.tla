----------------------------- MODULE TimelineSync -----------------------------
(***************************************************************************)
(* The timeline of one agent in the daemon and its copy in one client.      *)
(* The daemon (server/src/server/agent/agent-manager.ts, session.ts)        *)
(* numbers the rows of a registration of the agent, its epoch, 1, 2, 3...   *)
(* and streams them; the client (app/src/contexts/session-context.tsx,      *)
(* session-stream-reducers.ts) keeps a cursor over the rows it shows,       *)
(* drops what does not continue them and asks for what it missed.           *)
(*                                                                         *)
(* A row's content is the number of recordTimeline calls up to it, so two   *)
(* rows are equal only if they are the same row.  The websocket delivers in *)
(* order; the daemon's request handlers await, so they answer in any order. *)
(***************************************************************************)
EXTENDS Integers, Sequences, FiniteSets

CONSTANTS
    MaxRows,           \* bound: rows ever recorded
    MaxEpochs,         \* bound: registrations of the agent
    Slots,             \* bound: requests and live rows under way
    NoSlot,            \* the slot of a message that answers no request
    MaxTimelineItems,  \* rows the daemon keeps (maxTimelineItems); 0: all
    TailLimit,         \* rows of a first fetch (resolveInitialTimelineLimit); 0: all
    Mobile,            \* the daemon withholds the rows of a hidden agent
    Unloads,           \* the agent may be closed and resumed
    RecordsInReload    \* rows are recorded while the session is reloaded

ASSUME BoundsAssumption ==
    /\ MaxRows \in Nat /\ MaxEpochs \in Nat \ {0} /\ IsFiniteSet(Slots)
    /\ NoSlot \notin Slots
    /\ MaxTimelineItems \in Nat /\ TailLimit \in Nat
    /\ {Mobile, Unloads, RecordsInReload} \subseteq BOOLEAN

VARIABLES
    life,      \* the agent's state in the daemon
    epoch,     \* timelineEpoch of the last registration
    log,       \* timelineRows of each epoch, trimmed rows included
    left,      \* rows hydrateTimeline has still to replay
    copied,    \* rows reloadAgentSession copied, or NotReloading
    recorded,  \* number of rows recorded so far
    online,    \* the websocket is open
    wire,      \* daemon-to-client messages under way
    req,       \* fetch_agent_timeline requests
    focused,   \* the agent's pane has the focus
    cursor,    \* agentTimelineCursor
    shown,     \* agentStreamTail and agentStreamHead: the rows on the screen
    synced,    \* agentAuthoritativeHistoryApplied
    init       \* the init deferred and its direction

daemonVars == <<life, epoch, log, left, copied, recorded>>
clientVars == <<focused, cursor, shown, synced, init>>
vars == <<daemonVars, online, wire, req, clientVars>>

Epochs == 1..MaxEpochs
Items == 1..MaxRows
NotReloading == -1
NoCursor == [epoch |-> 0, start |-> 0, end |-> 0]
Cursors == [epoch: Epochs, start: Items, end: Items]
Directions == {"tail", "after"}
\* "waiting": in ensureAgentLoaded; "ready": past it, before fetchTimeline.
\* init: a failure of the request rejects the init deferred.
Requests ==
    [st: {"free", "sent", "waiting", "ready", "answered"},
     dir: Directions, epoch: Epochs \cup {0}, seq: Items \cup {0}, init: BOOLEAN]
\* A live row ("row"), an answer ("tail", "after") or a failed answer ("error").
Messages ==
    [kind: Directions \cup {"row", "error"}, epoch: Epochs \cup {0},
     from: Nat, rows: Seq(Items), reset: BOOLEAN, slot: Slots \cup {NoSlot}]

TypeOK ==
    /\ life \in {"absent", "loading", "hydrating", "loaded"}
    /\ epoch \in Epochs
    /\ log \in [Epochs -> Seq(Items)]
    /\ left \in 0..MaxRows
    /\ copied \in Nat \cup {NotReloading}
    /\ recorded \in 0..MaxRows
    /\ online \in BOOLEAN
    /\ wire \in Seq(Messages)
    /\ req \in [Slots -> Requests]
    /\ focused \in BOOLEAN
    /\ cursor \in Cursors \cup {NoCursor}
    /\ shown \in Seq(Items)
    /\ synced \in BOOLEAN
    /\ init \in Directions \cup {"none"}

NoRequest == [st |-> "free", dir |-> "tail", epoch |-> 0, seq |-> 0, init |-> FALSE]

(* The agent runs in the daemon; the client has not connected yet. *)
Init ==
    /\ life = "loaded" /\ epoch = 1 /\ log = [e \in Epochs |-> <<>>]
    /\ left = 0 /\ copied = NotReloading /\ recorded = 0
    /\ online = FALSE /\ wire = <<>> /\ req = [s \in Slots |-> NoRequest]
    /\ focused = FALSE /\ cursor = NoCursor /\ shown = <<>>
    /\ synced = FALSE /\ init = "none"

-----------------------------------------------------------------------------
Larger(a, b) == IF a < b THEN b ELSE a

Used(slots) == {s \in Slots : slots[s].st # "free"}
LiveRows == {i \in 1..Len(wire) : wire[i].kind = "row"}
\* A live row on its way may make the client send one request more.
HasRoom == Cardinality(Used(req)) + Cardinality(LiveRows) < Cardinality(Slots)
Send(slots, r) == \E s \in Slots \ Used(slots) : req' = [slots EXCEPT ![s] = r]

(* A first fetch of the tail, and the rows after a cursor, without a limit. *)
TailRequest ==
    [st |-> "sent", dir |-> "tail", epoch |-> 0, seq |-> 0, init |-> TRUE]
\* Mutant: the catch-up starts one row too late.
AfterRequestOneOff(c, isInit) ==
    [st |-> "sent", dir |-> "after", epoch |-> c.epoch, seq |-> c.end + 1, init |-> isInit]
AfterRequest(c, isInit) ==
    [st |-> "sent", dir |-> "after", epoch |-> c.epoch, seq |-> c.end, init |-> isInit]

-----------------------------------------------------------------------------
(* The daemon *)

Present == life \in {"hydrating", "loaded"}
FirstKept(n) ==
    IF MaxTimelineItems = 0 THEN 1 ELSE Larger(1, n - MaxTimelineItems + 1)

(* recordTimeline *)
RecordRow ==
    /\ recorded < MaxRows
    /\ recorded' = recorded + 1
    /\ log' = [log EXCEPT ![epoch] = Append(@, recorded + 1)]

RowMessage ==
    [kind |-> "row", epoch |-> epoch, from |-> Len(log[epoch]) + 1,
     rows |-> <<recorded + 1>>, reset |-> FALSE, slot |-> NoSlot]

(* An event of the session or a message of the user, and its dispatch: to a *)
(* mobile client only when the daemon thinks that the agent is on screen.   *)
Record ==
    /\ Present
    /\ copied = NotReloading \/ RecordsInReload
    /\ RecordRow
    /\ \/ online /\ HasRoom /\ wire' = Append(wire, RowMessage)
       \/ (~online \/ Mobile) /\ UNCHANGED wire
    /\ UNCHANGED <<life, epoch, left, copied, online, req, clientVars>>

(* hydrateTimeline replays the provider's history without dispatching it. *)
Hydrate ==
    /\ life = "hydrating"
    /\ IF left > 0
       THEN /\ RecordRow
            /\ left' = left - 1
            /\ UNCHANGED <<life, req>>
       ELSE /\ life' = "loaded"
            /\ req' = [s \in Slots |->
                 IF req[s].st = "waiting" THEN [req[s] EXCEPT !.st = "ready"] ELSE req[s]]
            /\ UNCHANGED <<left, log, recorded>>
    /\ UNCHANGED <<epoch, copied, online, wire, clientVars>>

(* ensureAgentLoaded: a registered agent is used as it is, hydrated or not. *)
Arrive(s) ==
    /\ req[s].st = "sent"
    /\ req' = [req EXCEPT ![s].st = IF Present THEN "ready" ELSE "waiting"]
    /\ life' = IF life = "absent" THEN "loading" ELSE life
    /\ UNCHANGED <<epoch, log, left, copied, recorded, online, wire, clientVars>>

(* resumeAgentFromPersistence: a new epoch, and some history to replay. *)
Register ==
    /\ life = "loading"
    /\ life' = "hydrating"
    /\ epoch' = epoch + 1
    /\ left' \in 0..(MaxRows - recorded)
    /\ UNCHANGED <<log, copied, recorded, online, wire, req, clientVars>>

RegisterFails ==
    /\ life = "loading"
    /\ life' = "absent"
    /\ req' = [s \in Slots |->
         IF req[s].st = "waiting" THEN [req[s] EXCEPT !.st = "ready"] ELSE req[s]]
    /\ UNCHANGED <<epoch, log, left, copied, recorded, online, wire, clientVars>>

(* closeAgent; the requests that wait for a load give up once it is over. *)
Unload ==
    /\ Unloads /\ Present /\ copied = NotReloading
    /\ epoch < MaxEpochs
    /\ life' = "absent"
    /\ left' = 0
    /\ req' = [s \in Slots |->
         IF req[s].st = "waiting" THEN [req[s] EXCEPT !.st = "ready"] ELSE req[s]]
    /\ UNCHANGED <<epoch, log, copied, recorded, online, wire, clientVars>>

(* reloadAgentSession: the rows are copied, the new session starts, and the *)
(* copy, with its epoch and its next number, replaces the rows.  (A reload  *)
(* before the history is replayed is left out.)                             *)
ReloadCopies ==
    /\ life = "loaded" /\ copied = NotReloading
    /\ copied' = Len(log[epoch])
    /\ UNCHANGED <<life, epoch, log, left, recorded, online, wire, req, clientVars>>

ReloadSwaps ==
    /\ copied # NotReloading
    /\ log' = [log EXCEPT ![epoch] = SubSeq(@, 1, copied)]
    /\ copied' = NotReloading
    /\ UNCHANGED <<life, epoch, left, recorded, online, wire, req, clientVars>>

(* fetchTimeline: everything if the cursor is of another epoch or the rows *)
(* after it are trimmed; else the tail, or the rows after the cursor.      *)
Reset(r) ==
    /\ r.dir = "after"
    /\ \/ r.epoch # epoch
       \/ log[epoch] # <<>> /\ r.seq < FirstKept(Len(log[epoch])) - 1

FetchFrom(r) ==
    LET n == Len(log[epoch])
    IN  IF Reset(r) \/ (r.dir = "tail" /\ TailLimit = 0) THEN FirstKept(n)
        ELSE IF r.dir = "tail" THEN Larger(FirstKept(n), n - TailLimit + 1)
        ELSE Larger(FirstKept(n), r.seq + 1)

\* Mutant: a limited first fetch takes the oldest rows instead of the last.
AnswerMessageOldest(s) ==
    LET first == IF req[s].dir = "tail" THEN FirstKept(Len(log[epoch]))
                 ELSE FetchFrom(req[s])
    IN  IF Present
        THEN [kind |-> req[s].dir, epoch |-> epoch, from |-> first,
              rows |-> SubSeq(log[epoch], first,
                              first + Len(log[epoch]) - FetchFrom(req[s])),
              reset |-> Reset(req[s]), slot |-> s]
        ELSE [kind |-> "error", epoch |-> 0, from |-> 0, rows |-> <<>>,
              reset |-> FALSE, slot |-> s]
AnswerMessage(s) ==
    IF Present
    THEN [kind |-> req[s].dir, epoch |-> epoch, from |-> FetchFrom(req[s]),
          rows |-> SubSeq(log[epoch], FetchFrom(req[s]), Len(log[epoch])),
          reset |-> Reset(req[s]), slot |-> s]
    ELSE [kind |-> "error", epoch |-> 0, from |-> 0, rows |-> <<>>,
          reset |-> FALSE, slot |-> s]

(* The fetch and its answer; no socket, no answer. *)
Answer(s) ==
    /\ req[s].st = "ready"
    /\ IF online
       THEN /\ wire' = Append(wire, AnswerMessage(s))
            /\ req' = [req EXCEPT ![s].st = "answered"]
       ELSE /\ req' = [req EXCEPT ![s] = NoRequest]
            /\ UNCHANGED wire
    /\ UNCHANGED <<daemonVars, online, clientVars>>

-----------------------------------------------------------------------------
(* The client *)

(* ensureAgentIsInitialized: one init at a time *)
InitDirection == IF synced /\ cursor # NoCursor THEN "after" ELSE "tail"
Initialize ==
    IF init # "none"
    THEN UNCHANGED <<req, init>>
    ELSE /\ HasRoom
         /\ init' = InitDirection
         /\ Send(req, IF InitDirection = "tail" THEN TailRequest
                      ELSE AfterRequest(cursor, TRUE))

(* The pane gets the focus while connected, or the connection opens while  *)
(* the pane has the focus; the daemon may have dropped the old session.    *)
Focus ==
    /\ ~focused
    /\ focused' = TRUE
    /\ IF online THEN Initialize ELSE UNCHANGED <<req, init>>
    /\ UNCHANGED <<daemonVars, online, wire, cursor, shown, synced>>

Blur ==
    /\ focused
    /\ focused' = FALSE
    /\ UNCHANGED <<daemonVars, online, wire, req, cursor, shown, synced, init>>

Connect ==
    /\ ~online
    /\ online' = TRUE
    /\ IF focused THEN Initialize ELSE UNCHANGED <<req, init>>
    /\ UNCHANGED <<daemonVars, wire, focused, cursor, shown, synced>>

(* The requests the client awaited fail, and with them the init; those the *)
(* daemon has not read may be lost, and all of them if it drops the session.*)
Disconnect ==
    /\ online
    /\ online' = FALSE
    /\ wire' = <<>>
    /\ \E lost \in SUBSET {s \in Slots : req[s].st # "free"} :
         /\ {s \in Slots : req[s].st = "answered"} \subseteq lost
         /\ req' = [s \in Slots |->
              IF s \in lost THEN NoRequest ELSE [req[s] EXCEPT !.init = FALSE]]
    /\ init' = "none"
    /\ UNCHANGED <<daemonVars, focused, cursor, shown, synced>>

(* The 15 s of an init request pass; its late answer is used all the same. *)
InitTimesOut(s) ==
    /\ req[s].init
    /\ req' = [req EXCEPT ![s].init = FALSE]
    /\ init' = "none"
    /\ UNCHANGED <<daemonVars, online, wire, focused, cursor, shown, synced>>

(* handleAppResumed *)
AppResumed ==
    /\ Mobile /\ online /\ focused /\ cursor # NoCursor
    /\ HasRoom
    /\ Send(req, AfterRequest(cursor, FALSE))
    /\ UNCHANGED <<daemonVars, online, wire, clientVars>>

(* classifySessionTimelineSeq *)
\* Mutant: the epoch is not compared.
ClassifyAnyEpoch(e, seq) ==
    IF cursor = NoCursor THEN "init"
    ELSE IF seq <= cursor.end THEN "drop_stale"
    ELSE IF seq = cursor.end + 1 THEN "accept"
    ELSE "gap"
Classify(e, seq) ==
    IF cursor = NoCursor THEN "init"
    ELSE IF cursor.epoch # e THEN "drop_epoch"
    ELSE IF seq <= cursor.end THEN "drop_stale"
    ELSE IF seq = cursor.end + 1 THEN "accept"
    ELSE "gap"

Last(m) == m.from + Len(m.rows) - 1
Span(m) ==
    IF m.rows = <<>> THEN NoCursor
    ELSE [epoch |-> m.epoch, start |-> m.from, end |-> Last(m)]

(* processAgentStreamEvent, and the incremental path of an answer, whose   *)
(* rows are numbered one after the other: the first decides for all.       *)
Incremental(m, slots) ==
    LET decision == Classify(m.epoch, m.from)
    IN  \/ /\ m.rows = <<>> \/ decision = "drop_epoch"
           /\ req' = slots
           /\ UNCHANGED <<cursor, shown>>
        \/ /\ m.rows # <<>> /\ decision = "init"
           /\ cursor' = Span(m)
           /\ shown' = shown \o m.rows
           /\ req' = slots
        \/ /\ m.rows # <<>> /\ decision \in {"accept", "drop_stale"}
           /\ cursor' = [cursor EXCEPT !.end = Larger(@, Last(m))]
           /\ shown' = shown \o SubSeq(m.rows, cursor.end - m.from + 2, Len(m.rows))
           /\ req' = slots
        \/ /\ m.rows # <<>> /\ decision = "gap"
           /\ Send(slots, AfterRequest(cursor, FALSE))
           /\ UNCHANGED <<cursor, shown>>

DeliverRow ==
    /\ wire # <<>> /\ Head(wire).kind = "row"
    /\ wire' = Tail(wire)
    /\ Incremental(Head(wire), req)
    /\ UNCHANGED <<daemonVars, online, focused, synced, init>>

(* deriveBootstrapTailTimelinePolicy and shouldResolveTimelineInit *)
Bootstrap(m) == m.kind = "tail" /\ init # "none" /\ ~m.reset
\* Mutant: only the answer to a tail request ends an init.
ResolvesInitOnTail(m) == m.reset \/ (m.kind = "tail" /\ init = "tail")
ResolvesInit(m) == m.reset \/ m.kind = init

(* applyTimelineResponse *)
DeliverAnswer ==
    /\ wire # <<>> /\ Head(wire).kind \in Directions
    /\ LET m == Head(wire)
           slots == [req EXCEPT ![m.slot] = NoRequest]
       IN  /\ IF m.reset \/ Bootstrap(m)
              THEN /\ cursor' = Span(m)
                   /\ shown' = m.rows
                   /\ IF Bootstrap(m) /\ m.rows # <<>>
                      THEN Send(slots, AfterRequest(Span(m), FALSE))
                      ELSE req' = slots
              ELSE Incremental(m, slots)
           /\ init' = IF ResolvesInit(m) THEN "none" ELSE init
    /\ synced' = TRUE
    /\ wire' = Tail(wire)
    /\ UNCHANGED <<daemonVars, online, focused>>

DeliverError ==
    /\ wire # <<>> /\ Head(wire).kind = "error"
    /\ wire' = Tail(wire)
    /\ req' = [req EXCEPT ![Head(wire).slot] = NoRequest]
    /\ init' = "none"
    /\ UNCHANGED <<daemonVars, online, focused, cursor, shown, synced>>

-----------------------------------------------------------------------------
Deliver == DeliverRow \/ DeliverAnswer \/ DeliverError

Next ==
    \/ Record \/ Hydrate \/ Register \/ RegisterFails \/ Unload
    \/ ReloadCopies \/ ReloadSwaps
    \/ \E s \in Slots : Arrive(s) \/ Answer(s) \/ InitTimesOut(s)
    \/ Focus \/ Blur \/ Connect \/ Disconnect \/ AppResumed
    \/ Deliver

Spec == Init /\ [][Next]_vars

(* The daemon's handlers run on, and the socket delivers while it is open. *)
Fairness ==
    /\ \A s \in Slots : WF_vars(Arrive(s)) /\ WF_vars(Answer(s))
    /\ WF_vars(Hydrate) /\ WF_vars(Register \/ RegisterFails) /\ WF_vars(Deliver)

FairSpec == Spec /\ Fairness

-----------------------------------------------------------------------------
(* What the client shows is exactly the run of rows its cursor names, in    *)
(* the daemon's order, without a hole, a repetition or a row of another     *)
(* epoch: what the seq gate, the resets and the catch-ups are for.          *)
ShownIsLog ==
    IF cursor = NoCursor THEN shown = <<>>
    ELSE /\ cursor.end <= Len(log[cursor.epoch])
         /\ shown = SubSeq(log[cursor.epoch], cursor.start, cursor.end)

(* No late answer, no old live row and no reset takes the client back to an *)
(* earlier epoch or to an earlier end of the epoch it shows.                *)
NeverGoesBack ==
    [][cursor # NoCursor /\ cursor' # NoCursor =>
         \/ cursor'.epoch > cursor.epoch
         \/ cursor'.epoch = cursor.epoch /\ cursor'.end >= cursor.end]_vars

(* When nothing is under way any more, the pane on the screen of a          *)
(* connected client shows the daemon's rows up to the last one.             *)
CaughtUp ==
    online /\ focused /\ wire = <<>> /\ Used(req) = {} =>
        /\ init = "none"
        /\ IF log[epoch] = <<>> THEN cursor = NoCursor
           ELSE cursor.epoch = epoch /\ cursor.end = Len(log[epoch])

(* The history sync of a pane always ends: no late answer or failure of an  *)
(* earlier request leaves the spinner of a later one on for ever.           *)
OpenSettles == init # "none" ~> init = "none"

(* A live row that came after a hole is shown in the end, unless the        *)
(* connection drops first.                                                  *)
GapAt(n) ==
    /\ wire # <<>> /\ Head(wire).kind = "row" /\ Head(wire).from = n
    /\ Classify(Head(wire).epoch, n) = "gap"
GapCloses == \A n \in Items : GapAt(n) ~> (~online \/ cursor.end >= n)

(* The rows of an epoch are only ever appended to.                          *)
(* docs/ARCHITECTURE.md:148: "Timeline is append-only with epochs".         *)
AppendOnly ==
    [][\A e \in Epochs :
         /\ Len(log'[e]) >= Len(log[e])
         /\ SubSeq(log'[e], 1, Len(log[e])) = log[e]]_vars

(* With no limit on the first fetch and no trimming, a client whose history *)
(* is marked as synced has it from the first row: the later fetches are all *)
(* "after" the cursor (use-agent-initialization.test.ts:5 "uses canonical   *)
(* tail bootstrap when history has not synced yet").                        *)
SyncedFromTheStart == synced /\ cursor # NoCursor => cursor.start = 1

=============================================================================
