------------------------------ MODULE AgentRuns ------------------------------
(***************************************************************************)
(* The run lifecycle of one agent id in the daemon's AgentManager           *)
(* (packages/server/src/server/agent/agent-manager.ts): streamAgent,        *)
(* replaceAgentRun, cancelAgentRun, closeAgent, reloadAgentSession,         *)
(* resumeAgentFromPersistence, registerSession and the dispatch of the      *)
(* provider's turn events.                                                  *)
(*                                                                         *)
(* The daemon is a single-threaded event loop: the code between two awaits  *)
(* is one action here, and every await is a point where any other action    *)
(* may run.  A caller is one chain of awaits (the handler of one client     *)
(* request); its pc names the await it is suspended in.                     *)
(***************************************************************************)
EXTENDS Integers, FiniteSets

CONSTANTS
    Callers,          \* request handlers that may be in progress at once
    MaxRuns,          \* bound: streamAgent calls that start a run
    MaxAgents,        \* bound: ManagedAgent objects ever made for the agent id
    Requests,         \* kinds of request the clients send
    StartMayFail,     \* startTurn may reject although the session is free
    EarlyTerminals,   \* a turn may end before its startTurn has resolved
    StaleTerminals,   \* the terminal event of an ended turn may come again
    Autonomous,       \* the provider runs turns nobody asked for
    SerialSends       \* a prompt is sent only once the previous one has started

RequestKinds == {"send", "cancel", "close", "reload", "resume"}

ASSUME ConstantsAssumption ==
    /\ MaxRuns \in Nat \ {0}
    /\ MaxAgents \in Nat \ {0}
    /\ Requests \subseteq RequestKinds
    /\ {StartMayFail, EarlyTerminals, StaleTerminals, Autonomous, SerialSends}
         \subseteq BOOLEAN

None == 0
Runs == 1..MaxRuns          \* a run and the provider turn it starts share a number
Agents == 1..MaxAgents      \* each ManagedAgent object has a provider session of its own

VARIABLES
    current,   \* agents.get(id): the registered ManagedAgent, or None
    agent,     \* the ManagedAgent objects
    session,   \* their provider sessions
    run,       \* streamAgent's generators, with waiter and pending promise
    pending,   \* pendingForegroundRuns.get(id)
    call,      \* the callers
    shown      \* lifecycle in the last agent_state broadcast to the clients

vars == <<current, agent, session, run, pending, call, shown>>

Lifecycles == {"none", "initializing", "idle", "running", "error"}
AgentRecords ==
    [life: Lifecycles, turn: Runs \cup {None}, replacing: BOOLEAN,
     failed: BOOLEAN, subscribed: BOOLEAN]
SessionRecords ==
    [active: Runs \cup {None}, autonomous: BOOLEAN, closed: BOOLEAN]
\* waiter: the promise of the ForegroundTurnWaiter is unresolved.
\* woken: a terminal event is in the generator's queue.
\* settled: the promise of the PendingForegroundRun is resolved.
RunRecords ==
    [st: {"unused", "starting", "streaming", "done", "failed"},
     agent: Agents \cup {None}, accepted: BOOLEAN,
     waiter: BOOLEAN, woken: BOOLEAN, settled: BOOLEAN]
CallRecords ==
    [op: {"none", "stream", "replace", "cancel", "close", "reload", "resume"},
     pc: {"idle", "interrupt", "waitTurn", "waitState", "waitRun", "force",
          "waitStale", "cancelled", "draining", "prepare", "closeOld", "title",
          "init", "ready", "persist", "closing"},
     agent: Agents \cup {None}, turn: Runs \cup {None}, run: Runs \cup {None}]

TypeOK ==
    /\ current \in Agents \cup {None}
    /\ agent \in [Agents -> AgentRecords]
    /\ session \in [Agents -> SessionRecords]
    /\ run \in [Runs -> RunRecords]
    /\ pending \in Runs \cup {None}
    /\ call \in [Callers -> CallRecords]
    /\ shown \in Lifecycles \cup {"closed"}

NoAgent == [life |-> "none", turn |-> None, replacing |-> FALSE,
            failed |-> FALSE, subscribed |-> FALSE]
NoSession == [active |-> None, autonomous |-> FALSE, closed |-> FALSE]
NoRun == [st |-> "unused", agent |-> None, accepted |-> FALSE,
          waiter |-> FALSE, woken |-> FALSE, settled |-> FALSE]
NoCall == [op |-> "none", pc |-> "idle", agent |-> None, turn |-> None, run |-> None]

\* One agent, registered and subscribed, at rest.
Init ==
    /\ current = 1
    /\ agent = [a \in Agents |->
                  IF a = 1 THEN [NoAgent EXCEPT !.life = "idle", !.subscribed = TRUE]
                           ELSE NoAgent]
    /\ session = [a \in Agents |-> NoSession]
    /\ run = [r \in Runs |-> NoRun]
    /\ pending = None
    /\ call = [c \in Callers |-> NoCall]
    /\ shown = "idle"

-----------------------------------------------------------------------------
(* Turn events *)

Terminals == {"completed", "failed", "canceled"}

\* A waiter of run r is registered on agent a and not settled.
Waiting(a, r) == run[r].agent = a /\ run[r].st = "streaming" /\ run[r].waiter

\* Mutant: the terminal event of a canceled turn marks the agent closed.
AfterTerminalCloses(rec, kind, r) ==
    [rec EXCEPT !.failed = FALSE,
                !.turn = IF r # None /\ rec.turn = r THEN None ELSE @,
                !.life = IF kind = "canceled" THEN "closed" ELSE "idle"]

\* Mutant: finalizeForegroundTurn does not reset activeForegroundTurnId.
AfterTerminalKeepsTurn(rec, kind, r) ==
    [rec EXCEPT !.failed = kind = "failed",
                !.life = IF kind = "failed" THEN "error" ELSE "idle"]

\* Mutant: finalizeForegroundTurn ignores pendingReplacement.
AfterTerminalNoHold(rec, kind, r) ==
    [rec EXCEPT !.failed = kind = "failed",
                !.turn = IF r # None /\ rec.turn = r THEN None ELSE @,
                !.life = IF kind = "failed" THEN "error" ELSE "idle"]

\* The ManagedAgent after handleStreamEvent has handled a terminal event of turn r
\* (None for an autonomous turn), finalizeForegroundTurn included.
AfterTerminal(rec, kind, r) ==
    LET foreground == r # None /\ rec.turn = r
        error == kind = "failed"
    IN  [rec EXCEPT
            !.failed = error,
            !.turn = IF foreground THEN None ELSE @,
            !.life = IF error THEN "error"
                     ELSE IF ~rec.replacing THEN "idle"
                     ELSE IF foreground THEN "running" ELSE @]

\* Whether that event makes the manager emit agent_state.
EmitsState(rec, kind, r) ==
    IF r # None /\ rec.turn = r
    THEN kind = "failed" \/ ~rec.replacing
    ELSE kind = "completed" => rec.life # "idle" /\ ~rec.replacing

\* Mutant: the waiters settle without getting the event.
DispatchTerminalSilently(a, kind, r) ==
    /\ agent' = [agent EXCEPT ![a] = AfterTerminal(@, kind, r)]
    /\ run' = [q \in Runs |-> IF q = r /\ Waiting(a, q)
                              THEN [run[q] EXCEPT !.waiter = FALSE] ELSE run[q]]
    /\ shown' = IF EmitsState(agent[a], kind, r)
                THEN AfterTerminal(agent[a], kind, r).life ELSE shown

\* dispatchSessionEvent on agent a: the matching waiters get the event and settle.
DispatchTerminal(a, kind, r) ==
    /\ agent' = [agent EXCEPT ![a] = AfterTerminal(@, kind, r)]
    /\ run' = [q \in Runs |->
                 IF q = r /\ Waiting(a, q)
                 THEN [run[q] EXCEPT !.waiter = FALSE, !.woken = TRUE]
                 ELSE run[q]]
    /\ shown' = IF EmitsState(agent[a], kind, r)
                THEN AfterTerminal(agent[a], kind, r).life ELSE shown

\* The subscription of session a hands the event to whichever agent is registered.
DeliverTerminal(a, kind, r) ==
    IF agent[a].subscribed /\ current # None
    THEN DispatchTerminal(current, kind, r)
    ELSE UNCHANGED <<agent, run, shown>>

DeliverStarted(a, r) ==
    IF agent[a].subscribed /\ current # None
    THEN IF r # None /\ agent[current].turn = r
         THEN UNCHANGED <<agent, shown>>
         ELSE /\ agent' = [agent EXCEPT ![current].life = "running"]
              /\ shown' = "running"
    ELSE UNCHANGED <<agent, shown>>

-----------------------------------------------------------------------------
(* The provider session *)

TurnStarted(a) ==
    /\ session[a].active # None
    /\ run[session[a].active].st = "starting"
    /\ DeliverStarted(a, session[a].active)
    /\ UNCHANGED <<current, session, run, pending, call>>

TurnEnds(a) ==
    /\ session[a].active # None
    /\ EarlyTerminals \/ run[session[a].active].st # "starting"
    /\ \E kind \in Terminals : DeliverTerminal(a, kind, session[a].active)
    /\ session' = [session EXCEPT ![a].active = None]
    /\ UNCHANGED <<current, pending, call>>

TurnEndsAgain(a) ==
    /\ StaleTerminals
    /\ ~session[a].closed
    /\ \E r \in Runs, kind \in Terminals :
         /\ run[r].agent = a
         /\ run[r].accepted
         /\ run[r].st # "starting"
         /\ session[a].active # r
         /\ DeliverTerminal(a, kind, r)
    /\ UNCHANGED <<current, session, pending, call>>

AutonomousStarts(a) ==
    /\ Autonomous
    /\ agent[a].life # "none"
    /\ ~session[a].closed
    /\ ~session[a].autonomous
    /\ DeliverStarted(a, None)
    /\ session' = [session EXCEPT ![a].autonomous = TRUE]
    /\ UNCHANGED <<current, run, pending, call>>

AutonomousEnds(a) ==
    /\ session[a].autonomous
    /\ \E kind \in Terminals : DeliverTerminal(a, kind, None)
    /\ session' = [session EXCEPT ![a].autonomous = FALSE]
    /\ UNCHANGED <<current, pending, call>>

Closed(s) == [s EXCEPT !.active = None, !.autonomous = FALSE, !.closed = TRUE]

-----------------------------------------------------------------------------
(* streamAgent and its generator *)

\* hasInFlightRun(id)
Busy ==
    /\ current # None
    /\ \/ agent[current].life = "running"
       \/ agent[current].turn # None
       \/ pending # None

\* streamAgent does not throw "already has an active run".
Free == current # None /\ agent[current].turn = None /\ pending = None

\* streamAgent and, in the same step, the generator's call of startTurn: a session
\* that is closed or has an active turn is going to reject it.
StartRun(c, op) ==
    /\ Free
    /\ \E r \in Runs :
         /\ run[r].st = "unused"
         /\ \A q \in 1..(r - 1) : run[q].st # "unused"
         /\ LET accepted == ~session[current].closed /\ session[current].active = None
            IN  /\ run' = [run EXCEPT ![r] = [NoRun EXCEPT !.st = "starting",
                                                !.agent = current, !.accepted = accepted]]
                /\ session' = [session EXCEPT ![current].active = IF accepted THEN r ELSE @]
         /\ pending' = r
         /\ call' = [call EXCEPT ![c] =
                       [NoCall EXCEPT !.op = op, !.pc = "draining", !.run = r]]
    /\ agent' = [agent EXCEPT ![current] = [@ EXCEPT !.replacing = FALSE, !.failed = FALSE]]
    /\ UNCHANGED <<current, shown>>

StartResolves(r) ==
    /\ run[r].st = "starting"
    /\ run[r].accepted
    /\ run' = [run EXCEPT ![r] = [@ EXCEPT !.st = "streaming", !.waiter = TRUE]]
    /\ agent' = [agent EXCEPT ![run[r].agent] = [@ EXCEPT !.turn = r, !.life = "running"]]
    /\ shown' = "running"
    /\ UNCHANGED <<current, session, pending, call>>

\* The session once startTurn has given up turn r.
Freed(s, r) == [s EXCEPT !.active = IF @ = r THEN None ELSE @]

\* The rejection handler: handleStreamEvent(turn_failed), finalizeForegroundTurn,
\* rethrow.  The pending run is left as it is.
StartRejects(r) ==
    /\ run[r].st = "starting"
    /\ ~run[r].accepted \/ StartMayFail \/ session[run[r].agent].closed
    /\ run' = [run EXCEPT ![r].st = "failed"]
    /\ session' = [session EXCEPT ![run[r].agent] = Freed(@, r)]
    /\ agent' = [agent EXCEPT ![run[r].agent] =
                    [@ EXCEPT !.turn = None, !.life = "error", !.failed = TRUE]]
    /\ shown' = "error"
    /\ UNCHANGED <<current, pending, call>>

\* Mutant: the finally block settles whatever entry it finds.
AnyEntry(r) == TRUE

\* settlePendingForegroundRun(id, token): only the entry that carries the token.
OwnEntry(r) == pending = r

\* The generator yields the terminal event, leaves its loop and runs its finally block.
GeneratorEnds(r) ==
    /\ run[r].st = "streaming"
    /\ run[r].woken
    /\ LET p == IF OwnEntry(r) THEN pending ELSE None
       IN  /\ run' = [q \in Runs |->
                        [run[q] EXCEPT !.st = IF q = r THEN "done" ELSE @,
                                       !.settled = @ \/ q = p]]
           /\ pending' = IF p # None THEN None ELSE pending
    /\ UNCHANGED <<current, agent, session, call, shown>>

-----------------------------------------------------------------------------
(* cancelAgentRun, alone or as the first half of a replace or a reload *)

Began(op) == [op |-> op, pc |-> "interrupt", agent |-> current,
              turn |-> agent[current].turn, run |-> pending]

RequestCancel(c) ==
    /\ "cancel" \in Requests
    /\ call[c].pc = "idle"
    /\ Busy
    /\ call' = [call EXCEPT ![c] = Began("cancel")]
    /\ UNCHANGED <<current, agent, session, run, pending, shown>>

\* Where cancelAgentRun goes once it no longer waits for the turn.
PastTurn(k) == IF k.run # None /\ ~run[k.run].settled THEN "waitRun" ELSE "force"

InterruptReturns(c) ==
    LET k == call[c]
    IN  /\ k.pc = "interrupt"
        /\ call' = [call EXCEPT ![c].pc =
             IF k.turn = None THEN IF k.run # None THEN "waitRun" ELSE "force"
             ELSE IF Waiting(k.agent, k.turn) THEN "waitTurn"
             ELSE IF agent[k.agent].turn = k.turn THEN "waitState"
             ELSE PastTurn(k)]
        /\ UNCHANGED <<current, agent, session, run, pending, shown>>

\* The awaited promise resolves.  In waitState it is an agent_state without a turn.
WaitOver(c) ==
    LET k == call[c]
    IN  /\ \/ k.pc = "waitTurn" /\ ~run[k.turn].waiter
           \/ k.pc = "waitState" /\ agent[k.agent].turn # k.turn
           \/ k.pc = "waitRun" /\ run[k.run].settled
        /\ call' = [call EXCEPT ![c].pc = IF k.pc = "waitRun" THEN "force" ELSE PastTurn(k)]
        /\ UNCHANGED <<current, agent, session, run, pending, shown>>

\* Mutant: the waits have no timeout.
WaitForever(c) == FALSE /\ UNCHANGED vars

\* The two-second timer shared by the waits.
WaitTimesOut(c) ==
    /\ call[c].pc \in {"waitTurn", "waitState", "waitRun"}
    /\ call' = [call EXCEPT ![c].pc = "force"]
    /\ UNCHANGED <<current, agent, session, run, pending, shown>>

\* cancelAgentRun returns to its caller.
Returned(k) == IF k.op = "cancel" THEN NoCall ELSE [k EXCEPT !.pc = "cancelled"]

\* Mutant: no synthetic turn_canceled after the timeout.
NeverStillActive(k) == FALSE

StillActive(k) == k.turn # None /\ agent[k.agent].turn = k.turn

ForceCancel(c) ==
    LET k == call[c]
    IN  /\ k.pc = "force"
        /\ IF StillActive(k)
           THEN /\ DispatchTerminal(k.agent, "canceled", k.turn)
                /\ call' = [call EXCEPT ![c] =
                     IF pending # None THEN [k EXCEPT !.pc = "waitStale", !.run = pending]
                                       ELSE Returned(k)]
           ELSE /\ call' = [call EXCEPT ![c] = Returned(k)]
                /\ UNCHANGED <<agent, run, shown>>
        /\ UNCHANGED <<current, session, pending>>

StaleRunSettles(c) ==
    /\ call[c].pc = "waitStale"
    /\ run[call[c].run].settled
    /\ call' = [call EXCEPT ![c] = Returned(@)]
    /\ UNCHANGED <<current, agent, session, run, pending, shown>>

-----------------------------------------------------------------------------
(* Prompts: streamAgent when no turn is in the way, else replaceAgentRun *)

Unused == {r \in Runs : run[r].st = "unused"}
Replacing == {c \in Callers : call[c].op = "replace" /\ call[c].pc # "draining"}

\* With SerialSends no other caller's prompt is between its request and its start.
MaySend(c) ==
    SerialSends =>
        \A d \in Callers \ {c} :
            call[d].op \in {"stream", "replace"} =>
                call[d].pc = "draining" /\ run[call[d].run].st # "starting"

RequestSend(c) ==
    /\ "send" \in Requests
    /\ call[c].pc = "idle"
    /\ current # None
    /\ Cardinality(Unused) > Cardinality(Replacing)     \* bound MaxRuns
    /\ MaySend(c)
    /\ \/ StartRun(c, "stream")
       \/ /\ Busy
          /\ agent' = [agent EXCEPT ![current] = [@ EXCEPT !.replacing = TRUE]]
          /\ call' = [call EXCEPT ![c] = Began("replace")]
          /\ UNCHANGED <<current, session, run, pending, shown>>

\* Mutant: the finally block does not clear pendingReplacement.
ReplaceFailsHolding(c) ==
    /\ call' = [call EXCEPT ![c] = NoCall]
    /\ UNCHANGED <<current, agent, session, run, pending, shown>>

\* The agent once the finally block of replaceAgentRun has cleared pendingReplacement.
Released(rec) ==
    [rec EXCEPT !.replacing = FALSE,
                !.life = IF rec.turn = None /\ @ = "running" THEN "idle" ELSE @]

\* That finally block, when the replacement did not complete.
ReplaceFails(c) ==
    /\ IF current = None
       THEN UNCHANGED <<agent, shown>>
       ELSE /\ agent' = [agent EXCEPT ![current] = Released(@)]
            /\ shown' = IF Released(agent[current]).life # agent[current].life
                        THEN "idle" ELSE shown
    /\ call' = [call EXCEPT ![c] = NoCall]
    /\ UNCHANGED <<current, session, run, pending>>

ReplaceContinues(c) ==
    /\ call[c].op = "replace"
    /\ call[c].pc = "cancelled"
    /\ StartRun(c, "replace") \/ (~Free /\ ReplaceFails(c))

\* The consumer's for-await loop over the generator is over.
Drained(c) ==
    /\ call[c].pc = "draining"
    /\ LET failed == run[call[c].run].st = "failed"
       IN  \/ /\ failed /\ call[c].op = "replace"
              /\ ReplaceFails(c)
           \/ /\ run[call[c].run].st = "done" \/ (failed /\ call[c].op = "stream")
              /\ call' = [call EXCEPT ![c] = NoCall]
              /\ UNCHANGED <<current, agent, session, run, pending, shown>>

-----------------------------------------------------------------------------
(* closeAgent, reloadAgentSession, resumeAgentFromPersistence, registerSession *)

\* The run whose entry settlePendingForegroundRun(id) removes, whatever its token.
Removed == pending

\* The synchronous part of taking agent a down: deleted from agents, unsubscribed,
\* its waiters and the pending run settled.  Only closeAgent wakes the generators.
TakeDown(a, wake) ==
    /\ current' = None
    /\ agent' = [agent EXCEPT ![a].subscribed = FALSE]
    /\ session' = [session EXCEPT ![a] = Closed(@)]
    /\ run' = [q \in Runs |->
                 [run[q] EXCEPT !.waiter = @ /\ ~Waiting(a, q),
                                !.woken = @ \/ (wake /\ Waiting(a, q)),
                                !.settled = @ \/ q = Removed]]
    /\ pending' = IF Removed # None THEN None ELSE pending

RequestClose(c) ==
    /\ "close" \in Requests
    /\ call[c].pc = "idle"
    /\ current # None
    /\ TakeDown(current, TRUE)
    /\ call' = [call EXCEPT ![c] = [NoCall EXCEPT !.op = "close", !.pc = "closing"]]
    /\ UNCHANGED shown

CloseEnds(c) ==
    /\ call[c].pc = "closing"
    /\ call' = [call EXCEPT ![c] = NoCall]
    /\ shown' = "closed"
    /\ UNCHANGED <<current, agent, session, run, pending>>

Preparing(op) == [NoCall EXCEPT !.op = op, !.pc = "prepare", !.agent = current]

\* Bound MaxAgents: no request once every object is made; a registration that began
\* before then stops in front of Register.
MayMake == \E a \in Agents : agent[a].life = "none"

RequestReload(c) ==
    /\ "reload" \in Requests
    /\ call[c].pc = "idle"
    /\ current # None
    /\ MayMake
    /\ call' = [call EXCEPT ![c] = IF Busy THEN Began("reload") ELSE Preparing("reload")]
    /\ UNCHANGED <<current, agent, session, run, pending, shown>>

ReloadContinues(c) ==
    /\ call[c].op = "reload"
    /\ call[c].pc = "cancelled"
    /\ call' = [call EXCEPT ![c] = IF current = None THEN NoCall ELSE Preparing("reload")]
    /\ UNCHANGED <<current, agent, session, run, pending, shown>>

RequestResume(c) ==
    /\ "resume" \in Requests
    /\ call[c].pc = "idle"
    /\ current = None
    /\ MayMake
    /\ call' = [call EXCEPT ![c] = Preparing("resume")]
    /\ UNCHANGED <<current, agent, session, run, pending, shown>>

\* registerSession as far as its first await.
Registering(k) == IF current # None THEN NoCall ELSE [k EXCEPT !.pc = "title"]

\* normalizeConfig and client.resumeSession are over; either may throw.
Prepared(c) ==
    LET k == call[c]
    IN  /\ k.pc = "prepare"
        /\ \/ /\ k.op = "reload"
              /\ TakeDown(k.agent, FALSE)
              /\ call' = [call EXCEPT ![c].pc = "closeOld"]
              /\ UNCHANGED shown
           \/ /\ call' = [call EXCEPT ![c] = IF k.op = "resume" THEN Registering(k)
                                                                ELSE NoCall]
              /\ UNCHANGED <<current, agent, session, run, pending, shown>>

OldClosed(c) ==
    /\ call[c].pc = "closeOld"
    /\ call' = [call EXCEPT ![c] = Registering(@)]
    /\ UNCHANGED <<current, agent, session, run, pending, shown>>

Register(c) ==
    /\ call[c].pc = "title"
    /\ \E a \in Agents :
         /\ agent[a].life = "none"
         /\ \A b \in 1..(a - 1) : agent[b].life # "none"
         /\ current' = a
         /\ agent' = [agent EXCEPT ![a].life = "initializing"]
         /\ call' = [call EXCEPT ![c] = [@ EXCEPT !.pc = "init", !.agent = a]]
    /\ UNCHANGED <<session, run, pending, shown>>

RegisterEmits(c) ==
    /\ call[c].pc = "init"
    /\ shown' = agent[call[c].agent].life
    /\ call' = [call EXCEPT ![c].pc = "ready"]
    /\ UNCHANGED <<current, agent, session, run, pending>>

RegisterIdle(c) ==
    /\ call[c].pc = "ready"
    /\ agent' = [agent EXCEPT ![call[c].agent].life = "idle"]
    /\ call' = [call EXCEPT ![c].pc = "persist"]
    /\ UNCHANGED <<current, session, run, pending, shown>>

RegisterEnds(c) ==
    /\ call[c].pc = "persist"
    /\ shown' = agent[call[c].agent].life
    /\ agent' = [agent EXCEPT ![call[c].agent].subscribed = TRUE]
    /\ call' = [call EXCEPT ![c] = NoCall]
    /\ UNCHANGED <<current, session, run, pending>>

-----------------------------------------------------------------------------
(* The specification *)

\* The provider's events, which nothing obliges to come.  They are tasks of the event
\* loop; the rejection of a refused startTurn is a microtask and goes first.
Provider ==
    /\ ~\E r \in Runs : run[r].st = "starting" /\ ~run[r].accepted
    /\ \E a \in Agents : \/ TurnStarted(a) \/ TurnEnds(a) \/ TurnEndsAgain(a)
                         \/ AutonomousStarts(a) \/ AutonomousEnds(a)

Generator(r) == StartResolves(r) \/ StartRejects(r) \/ GeneratorEnds(r)

Request(c) ==
    \/ RequestSend(c) \/ RequestCancel(c) \/ RequestClose(c)
    \/ RequestReload(c) \/ RequestResume(c)

\* The continuation of a suspended caller.
Continue(c) ==
    \/ InterruptReturns(c) \/ WaitOver(c) \/ WaitTimesOut(c)
    \/ ForceCancel(c) \/ StaleRunSettles(c)
    \/ ReplaceContinues(c) \/ Drained(c)
    \/ CloseEnds(c) \/ ReloadContinues(c) \/ Prepared(c) \/ OldClosed(c)
    \/ Register(c) \/ RegisterEmits(c) \/ RegisterIdle(c) \/ RegisterEnds(c)

Next ==
    \/ Provider
    \/ \E r \in Runs : Generator(r)
    \/ \E c \in Callers : Request(c) \/ Continue(c)

Spec == Init /\ [][Next]_vars

\* The event loop runs every continuation that is ready, timers fire, and a call of
\* startTurn resolves or rejects.  No turn is obliged to end.
Fairness ==
    /\ \A r \in Runs : WF_vars(Generator(r))
    /\ \A c \in Callers : WF_vars(Continue(c))

FairSpec == Spec /\ Fairness

-----------------------------------------------------------------------------
(* Properties *)

Live(r) == run[r].st = "starting" \/ (run[r].st = "streaming" /\ run[r].waiter)

\* The registered agent's active turn always has the generator that started it, still
\* waiting for the terminal event, and the pending entry is that run's: no event order
\* leaves a turn active that nothing will ever finish from the manager's side.
TurnHasItsRun ==
    current # None /\ agent[current].turn # None =>
        LET r == agent[current].turn
        IN  Waiting(current, r) /\ pending = r

\* The registered agent never has two runs in flight, whatever requests overlap.
OneRunAtATime ==
    \A r, q \in Runs :
        /\ r # q /\ Live(r) /\ Live(q)
        => ~(run[r].agent = current /\ run[q].agent = current)

\* A run that is in flight on the registered agent holds the pending entry, so that
\* hasInFlightRun and cancelAgentRun see it.
LiveRunIsPending ==
    \A r \in Runs : Live(r) /\ run[r].agent = current => pending = r

\* No entry outlives the registration of its agent: resuming or reloading an agent
\* frees it for prompts.
NoRunWithoutAgent == current = None => pending = None

\* Only the run itself or the removal of the agent takes an entry out of the map: the
\* cleanup of an old generator never frees the place of a newer run.
EntryHasItsOwner ==
    [][pending # None /\ pending' # pending =>
          \/ run'[pending].st = "done" /\ run[pending].st # "done"
          \/ current # None /\ current' = None]_vars

\* What RunSlot's runs are here: one on an object that is no longer registered is over.
Started == {r \in Runs : run[r].st # "unused"}
Active == {r \in Runs : Live(r) /\ run[r].agent = current}
Slot == INSTANCE RunSlot WITH Nobody <- None, registered <- current, holder <- pending,
                              started <- Started, active <- Active

\* The entry of pendingForegroundRuns is a place for one run: it is taken only when free,
\* by a run that is then in flight, and given up only by that run when it is over or with
\* the agent, in whatever order prompts, cancels, reloads and late events come.
ImplementsSlot == Slot!Spec

\* When cancelAgentRun is past its timeouts, the turn it caught is no longer active.
CancelClearsTurn ==
    \A c \in Callers :
        call[c].pc \in {"waitStale", "cancelled"} /\ call[c].turn # None =>
            agent[call[c].agent].turn # call[c].turn

\* From the request of a replacement to the resolution of its startTurn.
ReplacementUnderWay ==
    /\ current # None
    /\ \/ agent[current].replacing
       \/ \E c \in Callers : /\ call[c].op = "replace" /\ call[c].pc = "draining"
                             /\ run[call[c].run].st = "starting"

\* While a replacement is on its way from the interrupted run to its own start, clients
\* never see the agent go idle (agent-manager.test.ts:1714 and 1828).
NoIdleWhileReplacing ==
    [][ReplacementUnderWay /\ ReplacementUnderWay' =>
          ~(shown = "running" /\ shown' = "idle")]_vars

\* A cancelled or replaced run never keeps the request waiting, even if the provider
\* never ends the turn (agent-manager.test.ts:4226).
CancelReturns ==
    \A c \in Callers :
        call[c].pc \in {"interrupt", "waitTurn", "waitState", "waitRun", "force", "waitStale"}
          ~> call[c].pc \in {"idle", "cancelled", "draining", "prepare"}

\* pendingReplacement is never stuck.
HoldIsReleased == \A a \in Agents : agent[a].replacing ~> ~agent[a].replacing

\* A run that is over leaves the map, so that the next prompt is not rejected with
\* "already has an active run".
EndedRunLeavesMap ==
    \A r \in Runs : run[r].st \in {"failed", "done"} ~> pending # r

\* The generator of a run whose waiter was settled leaves its loop.
SettledRunEnds ==
    \A r \in Runs : run[r].st = "streaming" /\ ~run[r].waiter ~> run[r].st = "done"

=============================================================================
