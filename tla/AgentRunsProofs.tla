--------------------------- MODULE AgentRunsProofs ---------------------------
(***************************************************************************)
(* Theorems about AgentRuns, for any number of callers, runs and ManagedAgent *)
(* objects, whatever the clients request and whatever the provider does; only *)
(* NoIdleShown restricts them.                                               *)
(***************************************************************************)
EXTENDS AgentRuns, TLAPS

-----------------------------------------------------------------------------
(* Type correctness *)

LEMMA InitTypeOK == Init => TypeOK
  <1> SUFFICES ASSUME Init PROVE TypeOK
    OBVIOUS
  <1>1. 1 \in Agents
    BY ConstantsAssumption DEF ConstantsAssumption, Agents
  <1>2. agent \in [Agents -> AgentRecords]
    BY DEF Init, NoAgent, AgentRecords, Lifecycles
  <1>3. session \in [Agents -> SessionRecords] /\ run \in [Runs -> RunRecords]
    BY DEF Init, NoSession, NoRun, SessionRecords, RunRecords
  <1>4. call \in [Callers -> CallRecords]
    BY DEF Init, NoCall, CallRecords
  <1> QED BY <1>1, <1>2, <1>3, <1>4 DEF Init, TypeOK, Lifecycles

\* Handling a terminal event keeps a ManagedAgent well formed.
LEMMA AfterTerminalType ==
    ASSUME NEW rec \in AgentRecords, NEW kind, NEW r
    PROVE  AfterTerminal(rec, kind, r) \in AgentRecords
  BY DEF AfterTerminal, AgentRecords, Lifecycles, None

LEMMA DispatchType ==
    ASSUME TypeOK, NEW a, NEW kind, NEW r, DispatchTerminal(a, kind, r), a \in Agents
    PROVE  /\ agent' \in [Agents -> AgentRecords]
           /\ run' \in [Runs -> RunRecords]
           /\ shown' \in Lifecycles \cup {"closed"}
  <1>1. agent[a] \in AgentRecords
    BY DEF TypeOK
  <1>2. AfterTerminal(agent[a], kind, r) \in AgentRecords
    BY <1>1, AfterTerminalType
  <1>3. agent' \in [Agents -> AgentRecords]
    BY <1>2 DEF DispatchTerminal, TypeOK
  <1>4. run' \in [Runs -> RunRecords]
    <2>1. \A q \in Runs : [run[q] EXCEPT !.waiter = FALSE, !.woken = TRUE] \in RunRecords
      BY DEF TypeOK, RunRecords
    <2> QED BY <2>1 DEF DispatchTerminal, TypeOK
  <1>5. shown' \in Lifecycles \cup {"closed"}
    BY <1>2 DEF DispatchTerminal, TypeOK, AgentRecords
  <1> QED BY <1>3, <1>4, <1>5

-----------------------------------------------------------------------------
(* The inductive invariant *)

\* The ManagedAgent objects and the runs that belong to them.
AgentsAreSound ==
    /\ current # None => agent[current].life # "none"
    /\ \A a \in Agents : agent[a].life = "none" => agent[a].turn = None
    /\ \A r \in Runs : run[r].st # "unused" =>
          run[r].agent # None /\ agent[run[r].agent].life # "none"
    /\ \A r \in Runs : run[r].woken => run[r].st \in {"streaming", "done"} /\ ~run[r].waiter

\* What a suspended caller has captured: a turn that did start, on an object of its own.
CallOK(c) ==
    /\ call[c].pc \in {"init", "ready", "persist"} => call[c].agent # None
    /\ call[c].turn # None =>
          /\ call[c].agent # None
          /\ run[call[c].turn].st \in {"streaming", "done"}
          /\ call[c].pc \in {"waitStale", "cancelled"} =>
                agent[call[c].agent].turn # call[c].turn

CoreInv == AgentsAreSound /\ NoRunWithoutAgent /\ LiveRunIsPending /\ TurnHasItsRun
IInv == TypeOK /\ CoreInv /\ \A c \in Callers : CallOK(c)

-----------------------------------------------------------------------------
(* Type correctness of a step *)

LEMMA BeganType ==
    ASSUME TypeOK, current # None, NEW op \in {"cancel", "replace", "reload"}
    PROVE  Began(op) \in CallRecords
  BY DEF Began, TypeOK, CallRecords, AgentRecords

LEMMA TakeDownType ==
    ASSUME TypeOK, NEW a, NEW wake \in BOOLEAN, TakeDown(a, wake)
    PROVE  /\ current' \in Agents \cup {None}
           /\ agent' \in [Agents -> AgentRecords]
           /\ session' \in [Agents -> SessionRecords]
           /\ run' \in [Runs -> RunRecords]
           /\ pending' \in Runs \cup {None}
  <1>1. agent' \in [Agents -> AgentRecords]
    BY DEF TakeDown, TypeOK, AgentRecords
  <1>2. session' \in [Agents -> SessionRecords]
    BY DEF TakeDown, Closed, TypeOK, SessionRecords
  <1>3. \A q \in Runs : Waiting(a, q) \in BOOLEAN
    BY DEF Waiting, TypeOK, RunRecords
  <1>4. run' \in [Runs -> RunRecords]
    <2>1. \A rec \in RunRecords, waiter, woken, settled \in BOOLEAN :
            [rec EXCEPT !.waiter = waiter, !.woken = woken, !.settled = settled] \in RunRecords
      BY DEF RunRecords
    <2>2. \A q \in Runs : /\ run[q] \in RunRecords
                          /\ {run[q].waiter, run[q].woken, run[q].settled} \subseteq BOOLEAN
      BY DEF TypeOK, RunRecords
    <2> QED BY <1>3, <2>1, <2>2 DEF TakeDown
  <1> QED BY <1>1, <1>2, <1>4 DEF TakeDown, Removed, TypeOK

LEMMA StartRunType ==
    ASSUME TypeOK, NEW c \in Callers, NEW op \in {"stream", "replace"}, StartRun(c, op)
    PROVE  TypeOK'
  <1>1. current \in Agents
    BY DEF StartRun, Free, TypeOK
  <1>2. PICK r \in Runs :
          LET accepted == ~session[current].closed /\ session[current].active = None
          IN  /\ run' = [run EXCEPT ![r] = [NoRun EXCEPT !.st = "starting",
                                              !.agent = current, !.accepted = accepted]]
              /\ session' = [session EXCEPT ![current].active = IF accepted THEN r ELSE @]
              /\ pending' = r
              /\ call' = [call EXCEPT ![c] =
                            [NoCall EXCEPT !.op = op, !.pc = "draining", !.run = r]]
    BY DEF StartRun
  <1>3. session[current].closed \in BOOLEAN
    BY <1>1 DEF TypeOK, SessionRecords
  <1>4. run' \in [Runs -> RunRecords]
    BY <1>1, <1>2, <1>3 DEF TypeOK, NoRun, RunRecords
  <1>5. session' \in [Agents -> SessionRecords]
    BY <1>1, <1>2 DEF TypeOK, SessionRecords
  <1>6. call' \in [Callers -> CallRecords]
    BY <1>2 DEF TypeOK, NoCall, CallRecords
  <1>7. agent' \in [Agents -> AgentRecords]
    <2>1. agent[current] \in AgentRecords
      BY <1>1 DEF TypeOK
    <2>2. [agent[current] EXCEPT !.replacing = FALSE, !.failed = FALSE] \in AgentRecords
      BY <2>1 DEF AgentRecords
    <2> QED BY <2>2 DEF StartRun, TypeOK
  <1> QED BY <1>2, <1>4, <1>5, <1>6, <1>7 DEF StartRun, TypeOK

LEMMA DeliverTerminalType ==
    ASSUME TypeOK, NEW a, NEW kind, NEW r, DeliverTerminal(a, kind, r)
    PROVE  /\ agent' \in [Agents -> AgentRecords]
           /\ run' \in [Runs -> RunRecords]
           /\ shown' \in Lifecycles \cup {"closed"}
  <1>1. CASE agent[a].subscribed /\ current # None
    <2>1. current \in Agents
      BY <1>1 DEF TypeOK
    <2> QED BY <1>1, <2>1, DispatchType DEF DeliverTerminal
  <1>2. CASE ~(agent[a].subscribed /\ current # None)
    BY <1>2 DEF DeliverTerminal, TypeOK
  <1> QED BY <1>1, <1>2

LEMMA ProviderType == TypeOK /\ Provider => TypeOK'
  <1> SUFFICES ASSUME TypeOK, Provider PROVE TypeOK'
    OBVIOUS
  <1>1. ASSUME NEW a \in Agents, TurnStarted(a) PROVE TypeOK'
    <2>1. agent' \in [Agents -> AgentRecords] /\ shown' \in Lifecycles \cup {"closed"}
      BY <1>1 DEF TurnStarted, DeliverStarted, TypeOK, AgentRecords, Lifecycles
    <2> QED BY <1>1, <2>1 DEF TurnStarted, TypeOK
  <1>2. ASSUME NEW a \in Agents, TurnEnds(a) PROVE TypeOK'
    <2>1. PICK kind \in Terminals : DeliverTerminal(a, kind, session[a].active)
      BY <1>2 DEF TurnEnds
    <2>2. session' \in [Agents -> SessionRecords]
      BY <1>2 DEF TurnEnds, TypeOK, SessionRecords
    <2> QED BY <1>2, <2>1, <2>2, DeliverTerminalType DEF TurnEnds, TypeOK
  <1>3. ASSUME NEW a \in Agents, TurnEndsAgain(a) PROVE TypeOK'
    <2>1. PICK r \in Runs, kind \in Terminals : DeliverTerminal(a, kind, r)
      BY <1>3 DEF TurnEndsAgain
    <2> QED BY <1>3, <2>1, DeliverTerminalType DEF TurnEndsAgain, TypeOK
  <1>4. ASSUME NEW a \in Agents, AutonomousStarts(a) PROVE TypeOK'
    <2>1. agent' \in [Agents -> AgentRecords] /\ shown' \in Lifecycles \cup {"closed"}
      BY <1>4 DEF AutonomousStarts, DeliverStarted, TypeOK, AgentRecords, Lifecycles
    <2>2. session' \in [Agents -> SessionRecords]
      BY <1>4 DEF AutonomousStarts, TypeOK, SessionRecords
    <2> QED BY <1>4, <2>1, <2>2 DEF AutonomousStarts, TypeOK
  <1>5. ASSUME NEW a \in Agents, AutonomousEnds(a) PROVE TypeOK'
    <2>1. PICK kind \in Terminals : DeliverTerminal(a, kind, None)
      BY <1>5 DEF AutonomousEnds
    <2>2. session' \in [Agents -> SessionRecords]
      BY <1>5 DEF AutonomousEnds, TypeOK, SessionRecords
    <2> QED BY <1>5, <2>1, <2>2, DeliverTerminalType DEF AutonomousEnds, TypeOK
  <1> QED BY <1>1, <1>2, <1>3, <1>4, <1>5 DEF Provider

LEMMA GeneratorType == ASSUME TypeOK, NEW r \in Runs, Generator(r) PROVE TypeOK'
  <1>1. CASE StartResolves(r)
    <2>1. run' \in [Runs -> RunRecords]
      <3>1. [run[r] EXCEPT !.st = "streaming", !.waiter = TRUE] \in RunRecords
        BY DEF TypeOK, RunRecords
      <3> QED BY <1>1, <3>1 DEF StartResolves, TypeOK
    <2>2. agent' \in [Agents -> AgentRecords]
      <3>1. \A rec \in AgentRecords :
              [rec EXCEPT !.turn = r, !.life = "running"] \in AgentRecords
        BY DEF AgentRecords, Lifecycles
      <3> QED BY <1>1, <3>1 DEF StartResolves, TypeOK
    <2> QED BY <1>1, <2>1, <2>2 DEF StartResolves, TypeOK, Lifecycles
  <1>2. CASE StartRejects(r)
    <2>1. run' \in [Runs -> RunRecords]
      BY <1>2 DEF StartRejects, TypeOK, RunRecords
    <2>2. agent' \in [Agents -> AgentRecords]
      <3>1. \A rec \in AgentRecords :
              [rec EXCEPT !.turn = None, !.life = "error", !.failed = TRUE] \in AgentRecords
        BY DEF AgentRecords, Lifecycles
      <3> QED BY <1>2, <3>1 DEF StartRejects, TypeOK
    <2>3. session' \in [Agents -> SessionRecords]
      <3>1. \A s \in SessionRecords : Freed(s, r) \in SessionRecords
        BY DEF Freed, SessionRecords
      <3> QED BY <1>2, <3>1 DEF StartRejects, TypeOK
    <2> QED BY <1>2, <2>1, <2>2, <2>3 DEF StartRejects, TypeOK, Lifecycles
  <1>3. CASE GeneratorEnds(r)
    <2>1. run' \in [Runs -> RunRecords]
      <3>1. \A rec \in RunRecords : \A st \in {rec.st, "done"} : \A settled \in BOOLEAN :
              [rec EXCEPT !.st = st, !.settled = settled] \in RunRecords
        BY DEF RunRecords
      <3>2. \A q \in Runs : run[q] \in RunRecords /\ run[q].settled \in BOOLEAN
        BY DEF TypeOK, RunRecords
      <3> QED BY <1>3, <3>1, <3>2 DEF GeneratorEnds
    <2> QED BY <1>3, <2>1 DEF GeneratorEnds, TypeOK
  <1> QED BY <1>1, <1>2, <1>3 DEF Generator

LEMMA ReplaceFailsType == ASSUME TypeOK, NEW c \in Callers, ReplaceFails(c) PROVE TypeOK'
  <1>1. agent' \in [Agents -> AgentRecords] /\ shown' \in Lifecycles \cup {"closed"}
    <2>1. \A rec \in AgentRecords : Released(rec) \in AgentRecords
      BY DEF Released, AgentRecords, Lifecycles
    <2> QED BY <2>1 DEF ReplaceFails, TypeOK, Lifecycles
  <1>2. call' \in [Callers -> CallRecords]
    BY DEF ReplaceFails, NoCall, TypeOK, CallRecords
  <1> QED BY <1>1, <1>2 DEF ReplaceFails, TypeOK

LEMMA RequestType == ASSUME IInv, NEW c \in Callers, Request(c) PROVE TypeOK'
  <1> USE DEF IInv
  <1>1. CASE RequestSend(c)
    <2>1. CASE StartRun(c, "stream")
      BY <2>1, StartRunType
    <2>2. CASE ~StartRun(c, "stream")
      <3>1. current \in Agents
        BY <1>1 DEF RequestSend, TypeOK
      <3>2. /\ agent' = [agent EXCEPT ![current] = [@ EXCEPT !.replacing = TRUE]]
            /\ call' = [call EXCEPT ![c] = Began("replace")]
            /\ UNCHANGED <<current, session, run, pending, shown>>
        BY <1>1, <2>2 DEF RequestSend
      <3>3. [agent[current] EXCEPT !.replacing = TRUE] \in AgentRecords
        BY <3>1 DEF TypeOK, AgentRecords
      <3>4. Began("replace") \in CallRecords
        BY <3>1, BeganType, ConstantsAssumption DEF Agents, None
      <3> QED BY <3>2, <3>3, <3>4 DEF TypeOK
    <2> QED BY <2>1, <2>2
  <1>2. CASE RequestCancel(c)
    <2>1. call' \in [Callers -> CallRecords]
      BY <1>2, BeganType DEF RequestCancel, Busy, TypeOK
    <2> QED BY <1>2, <2>1 DEF RequestCancel, TypeOK
  <1>3. CASE RequestClose(c)
    <2>1. call' \in [Callers -> CallRecords]
      BY <1>3 DEF RequestClose, NoCall, TypeOK, CallRecords
    <2> QED BY <1>3, <2>1, TakeDownType DEF RequestClose, TypeOK
  <1>4. CASE RequestReload(c)
    <2>1. Preparing("reload") \in CallRecords
      BY <1>4 DEF Preparing, NoCall, TypeOK, CallRecords
    <2>2. call' \in [Callers -> CallRecords]
      BY <1>4, <2>1, BeganType DEF RequestReload, TypeOK
    <2> QED BY <1>4, <2>2 DEF RequestReload, TypeOK
  <1>5. CASE RequestResume(c)
    <2>1. Preparing("resume") \in CallRecords
      BY DEF Preparing, NoCall, TypeOK, CallRecords
    <2>2. call' \in [Callers -> CallRecords]
      BY <1>5, <2>1 DEF RequestResume, TypeOK
    <2> QED BY <1>5, <2>2 DEF RequestResume, TypeOK
  <1> QED BY <1>1, <1>2, <1>3, <1>4, <1>5 DEF Request

LEMMA ContinueType == ASSUME IInv, NEW c \in Callers, Continue(c) PROVE TypeOK'
  <1> USE DEF IInv
  <1> DEFINE Rest == UNCHANGED <<current, agent, session, run, pending, shown>>
  <1>0. call[c] \in CallRecords
    BY DEF TypeOK
  <1>a. ASSUME Rest, call' \in [Callers -> CallRecords] PROVE TypeOK'
    BY <1>a DEF TypeOK
  <1>b. \A pc \in {"interrupt", "waitTurn", "waitState", "waitRun", "force", "waitStale",
                   "cancelled", "closeOld", "title", "init", "ready", "persist"} :
          [call[c] EXCEPT !.pc = pc] \in CallRecords
    BY <1>0 DEF CallRecords
  <1>n. NoCall \in CallRecords
    BY DEF NoCall, CallRecords
  <1>r. Returned(call[c]) \in CallRecords /\ Registering(call[c]) \in CallRecords
    BY <1>b, <1>n DEF Returned, Registering
  <1>p. PastTurn(call[c]) \in {"waitRun", "force"}
    BY DEF PastTurn
  <1>1. CASE InterruptReturns(c)
    <2>1. call' \in [Callers -> CallRecords]
      BY <1>1, <1>b, <1>p DEF InterruptReturns, TypeOK
    <2> QED BY <1>1, <1>a, <2>1 DEF InterruptReturns
  <1>2. CASE WaitOver(c)
    <2>1. call' \in [Callers -> CallRecords]
      BY <1>2, <1>b, <1>p DEF WaitOver, TypeOK
    <2> QED BY <1>2, <1>a, <2>1 DEF WaitOver
  <1>3. CASE WaitTimesOut(c)
    <2>1. call' \in [Callers -> CallRecords]
      BY <1>3, <1>b DEF WaitTimesOut, TypeOK
    <2> QED BY <1>3, <1>a, <2>1 DEF WaitTimesOut
  <1>4. CASE ForceCancel(c)
    <2>1. [call[c] EXCEPT !.pc = "waitStale", !.run = pending] \in CallRecords
      BY <1>0 DEF TypeOK, CallRecords
    <2>2. call' \in [Callers -> CallRecords]
      BY <1>4, <1>r, <2>1 DEF ForceCancel, TypeOK
    <2>3. CASE StillActive(call[c])
      <3>1. call[c].agent \in Agents
        BY <1>0, <2>3 DEF StillActive, CallOK, CallRecords
      <3> QED BY <1>4, <2>2, <2>3, <3>1, DispatchType DEF ForceCancel, TypeOK
    <2>4. CASE ~StillActive(call[c])
      BY <1>4, <2>2, <2>4 DEF ForceCancel, TypeOK
    <2> QED BY <2>3, <2>4
  <1>5. CASE StaleRunSettles(c)
    <2>1. call' \in [Callers -> CallRecords]
      BY <1>5, <1>r DEF StaleRunSettles, TypeOK
    <2> QED BY <1>5, <1>a, <2>1 DEF StaleRunSettles
  <1>6. CASE ReplaceContinues(c)
    BY <1>6, StartRunType, ReplaceFailsType DEF ReplaceContinues
  <1>7. CASE Drained(c)
    <2>1. CASE ReplaceFails(c)
      BY <2>1, ReplaceFailsType
    <2>2. CASE ~ReplaceFails(c)
      BY <1>7, <2>2, <1>n DEF Drained, TypeOK
    <2> QED BY <2>1, <2>2
  <1>8. CASE CloseEnds(c)
    BY <1>8, <1>n DEF CloseEnds, TypeOK
  <1>9. CASE ReloadContinues(c)
    <2>1. Preparing("reload") \in CallRecords
      BY DEF Preparing, NoCall, TypeOK, CallRecords
    <2>2. call' \in [Callers -> CallRecords]
      BY <1>9, <1>n, <2>1 DEF ReloadContinues, TypeOK
    <2> QED BY <1>9, <1>a, <2>2 DEF ReloadContinues
  <1>10. CASE Prepared(c)
    <2>1. CASE TakeDown(call[c].agent, FALSE) /\ UNCHANGED shown
                 /\ call' = [call EXCEPT ![c].pc = "closeOld"]
      <3>1. call' \in [Callers -> CallRecords]
        BY <2>1, <1>b DEF TypeOK
      <3> QED BY <2>1, <3>1, TakeDownType DEF TypeOK
    <2>2. CASE Rest /\ call' = [call EXCEPT ![c] = IF call[c].op = "resume"
                                  THEN Registering(call[c]) ELSE NoCall]
      <3>1. call' \in [Callers -> CallRecords]
        BY <2>2, <1>n, <1>r DEF TypeOK
      <3> QED BY <2>2, <3>1, <1>a
    <2> QED BY <1>10, <2>1, <2>2 DEF Prepared
  <1>11. CASE OldClosed(c)
    <2>1. call' \in [Callers -> CallRecords]
      BY <1>11, <1>r DEF OldClosed, TypeOK
    <2> QED BY <1>11, <1>a, <2>1 DEF OldClosed
  <1>12. CASE Register(c)
    <2>1. PICK a \in Agents :
            /\ current' = a
            /\ agent' = [agent EXCEPT ![a].life = "initializing"]
            /\ call' = [call EXCEPT ![c] = [@ EXCEPT !.pc = "init", !.agent = a]]
      BY <1>12 DEF Register
    <2>2. agent' \in [Agents -> AgentRecords]
      BY <2>1 DEF TypeOK, AgentRecords, Lifecycles
    <2>3. call' \in [Callers -> CallRecords]
      <3>1. [call[c] EXCEPT !.pc = "init", !.agent = a] \in CallRecords
        BY <1>0 DEF CallRecords
      <3> QED BY <2>1, <3>1 DEF TypeOK
    <2> QED BY <1>12, <2>1, <2>2, <2>3 DEF Register, TypeOK
  <1>13. CASE RegisterEmits(c)
    <2>1. call[c].agent \in Agents
      BY <1>0, <1>13 DEF RegisterEmits, CallOK, CallRecords
    <2>2. shown' \in Lifecycles
      BY <1>13, <2>1 DEF RegisterEmits, TypeOK, AgentRecords
    <2>3. call' \in [Callers -> CallRecords]
      BY <1>13, <1>b DEF RegisterEmits, TypeOK
    <2> QED BY <1>13, <2>2, <2>3 DEF RegisterEmits, TypeOK
  <1>14. CASE RegisterIdle(c)
    <2>1. agent' \in [Agents -> AgentRecords]
      <3>1. \A rec \in AgentRecords : [rec EXCEPT !.life = "idle"] \in AgentRecords
        BY DEF AgentRecords, Lifecycles
      <3> QED BY <1>14, <3>1 DEF RegisterIdle, TypeOK
    <2>2. call' \in [Callers -> CallRecords]
      BY <1>14, <1>b DEF RegisterIdle, TypeOK
    <2> QED BY <1>14, <2>1, <2>2 DEF RegisterIdle, TypeOK
  <1>15. CASE RegisterEnds(c)
    <2>1. call[c].agent \in Agents
      BY <1>0, <1>15 DEF RegisterEnds, CallOK, CallRecords
    <2>2. shown' \in Lifecycles
      BY <1>15, <2>1 DEF RegisterEnds, TypeOK, AgentRecords
    <2>3. agent' \in [Agents -> AgentRecords]
      <3>1. \A rec \in AgentRecords : [rec EXCEPT !.subscribed = TRUE] \in AgentRecords
        BY DEF AgentRecords
      <3> QED BY <1>15, <3>1 DEF RegisterEnds, TypeOK
    <2>4. call' \in [Callers -> CallRecords]
      BY <1>15, <1>n DEF RegisterEnds, TypeOK
    <2> QED BY <1>15, <2>2, <2>3, <2>4 DEF RegisterEnds, TypeOK
  <1> QED BY <1>1, <1>2, <1>3, <1>4, <1>5, <1>6, <1>7, <1>8, <1>9, <1>10, <1>11, <1>12,
             <1>13, <1>14, <1>15 DEF Continue

-----------------------------------------------------------------------------
(* What a step keeps of the agents and the runs *)

\* A turn that has started is never taken back.
TurnsGoOn ==
    \A q \in Runs : run[q].st \in {"streaming", "done"} => run'[q].st \in {"streaming", "done"}

\* A ManagedAgent only ever gets a turn whose startTurn was still pending.
TurnsAreFresh ==
    \A a \in Agents :
        agent'[a].turn \in {agent[a].turn, None} \/ run[agent'[a].turn].st = "starting"

Keeps == CoreInv' /\ TurnsGoOn /\ TurnsAreFresh

LEMMA NoneIsNoRun == None \notin Runs /\ None \notin Agents
  BY ConstantsAssumption DEF None, Runs, Agents

LEMMA KeepsAll ==
    ASSUME CoreInv, UNCHANGED <<current, agent, run, pending>>
    PROVE  Keeps
  BY DEF Keeps, CoreInv, AgentsAreSound, NoRunWithoutAgent, LiveRunIsPending, TurnHasItsRun,
         Live, Waiting, TurnsGoOn, TurnsAreFresh

\* A step that changes only the life (and the flags) of ManagedAgent objects that exist.
LEMMA KeepsTurns ==
    ASSUME TypeOK, CoreInv, UNCHANGED <<current, run, pending>>,
           \A a \in Agents :
               /\ agent'[a].turn = agent[a].turn
               /\ agent'[a].life = "none" => agent[a].life = "none"
    PROVE  Keeps
  <1>1. TurnsGoOn /\ TurnsAreFresh
    BY DEF TurnsGoOn, TurnsAreFresh
  <1>2. AgentsAreSound'
    BY NoneIsNoRun DEF CoreInv, AgentsAreSound, TypeOK, RunRecords
  <1>3. NoRunWithoutAgent' /\ LiveRunIsPending'
    BY DEF CoreInv, NoRunWithoutAgent, LiveRunIsPending, Live
  <1>4. TurnHasItsRun'
    BY NoneIsNoRun DEF CoreInv, TurnHasItsRun, Waiting, TypeOK
  <1> QED BY <1>1, <1>2, <1>3, <1>4 DEF Keeps, CoreInv

\* A terminal event clears the turn it names and touches no other.
LEMMA AfterTerminalTurn ==
    ASSUME NEW rec \in AgentRecords, NEW kind, NEW r
    PROVE  /\ AfterTerminal(rec, kind, r).turn \in {rec.turn, None}
           /\ r # None => AfterTerminal(rec, kind, r).turn # r
           /\ AfterTerminal(rec, kind, r).life = "none" => rec.life = "none"
  BY DEF AfterTerminal, AgentRecords

LEMMA DispatchKeeps ==
    ASSUME TypeOK, CoreInv, NEW a \in Agents, NEW kind, NEW r \in Runs \cup {None},
           DispatchTerminal(a, kind, r), UNCHANGED <<current, pending>>
    PROVE  Keeps
  <1>1. agent[a] \in AgentRecords
    BY DEF TypeOK
  <1>2. agent'[a] = AfterTerminal(agent[a], kind, r)
        /\ \A b \in Agents \ {a} : agent'[b] = agent[b]
    BY DEF DispatchTerminal, TypeOK
  <1>3. \A q \in Runs : /\ run'[q].st = run[q].st
                        /\ run'[q].agent = run[q].agent
                        /\ run'[q].waiter = (run[q].waiter /\ ~(q = r /\ Waiting(a, q)))
                        /\ run'[q].woken =>
                              run[q].woken \/ (run[q].st = "streaming" /\ ~run'[q].waiter)
    BY DEF DispatchTerminal, TypeOK, RunRecords, Waiting
  <1>4. /\ \A b \in Agents : agent'[b].turn \in {agent[b].turn, None}
        /\ \A b \in Agents : agent'[b].life = "none" => agent[b].life = "none"
        /\ r # None => agent'[a].turn # r
    BY <1>1, <1>2, AfterTerminalTurn
  <1>5. TurnsGoOn /\ TurnsAreFresh
    BY <1>3, <1>4 DEF TurnsGoOn, TurnsAreFresh
  <1>6. AgentsAreSound'
    <2>1. current # None => agent'[current].life # "none"
      BY <1>4 DEF CoreInv, AgentsAreSound, TypeOK
    <2>2. \A b \in Agents : agent'[b].life = "none" => agent'[b].turn = None
      BY <1>4 DEF CoreInv, AgentsAreSound
    <2>3. \A q \in Runs : run'[q].st # "unused" =>
            run'[q].agent # None /\ agent'[run'[q].agent].life # "none"
      <3> SUFFICES ASSUME NEW q \in Runs, run'[q].st # "unused"
                   PROVE  run'[q].agent # None /\ agent'[run'[q].agent].life # "none"
        OBVIOUS
      <3>1. run[q].agent \in Agents /\ agent[run[q].agent].life # "none"
        BY <1>3 DEF CoreInv, AgentsAreSound, TypeOK, RunRecords
      <3> QED BY <3>1, <1>3, <1>4, NoneIsNoRun
    <2>4. \A q \in Runs : run'[q].woken =>
            run'[q].st \in {"streaming", "done"} /\ ~run'[q].waiter
      BY <1>3 DEF CoreInv, AgentsAreSound
    <2> QED BY <2>1, <2>2, <2>3, <2>4 DEF AgentsAreSound
  <1>7. NoRunWithoutAgent' /\ LiveRunIsPending'
    BY <1>3 DEF CoreInv, NoRunWithoutAgent, LiveRunIsPending, Live
  <1>8. TurnHasItsRun'
    <2> SUFFICES ASSUME current # None, agent'[current].turn # None
                 PROVE  (Waiting(current, agent[current].turn) /\ pending = agent[current].turn)'
      BY DEF TurnHasItsRun
    <2>1. current \in Agents /\ agent'[current].turn = agent[current].turn
      BY <1>4 DEF TypeOK
    <2>2. agent[current].turn \in Runs
      BY <2>1, NoneIsNoRun DEF TypeOK, AgentRecords
    <2>3. Waiting(current, agent[current].turn) /\ pending = agent[current].turn
      BY <2>1 DEF CoreInv, TurnHasItsRun
    <2>4. ~(agent[current].turn = r /\ a = current)
      BY <1>4, <2>1, <2>2, NoneIsNoRun
    <2>5. run'[agent[current].turn].waiter
      BY <1>3, <2>2, <2>3, <2>4 DEF Waiting
    <2> QED BY <1>3, <2>1, <2>2, <2>3, <2>5 DEF Waiting
  <1> QED BY <1>5, <1>6, <1>7, <1>8 DEF Keeps, CoreInv

LEMMA DeliverTerminalKeeps ==
    ASSUME TypeOK, CoreInv, NEW a \in Agents, NEW kind, NEW r \in Runs \cup {None},
           DeliverTerminal(a, kind, r), UNCHANGED <<current, pending>>
    PROVE  Keeps
  <1>1. CASE agent[a].subscribed /\ current # None
    <2>1. current \in Agents
      BY <1>1 DEF TypeOK
    <2> QED BY <1>1, <2>1, DispatchKeeps DEF DeliverTerminal
  <1>2. CASE ~(agent[a].subscribed /\ current # None)
    BY <1>2, KeepsAll DEF DeliverTerminal
  <1> QED BY <1>1, <1>2

LEMMA DeliverStartedKeeps ==
    ASSUME TypeOK, CoreInv, NEW a, NEW r, DeliverStarted(a, r),
           UNCHANGED <<current, run, pending>>
    PROVE  Keeps
  <1>1. CASE UNCHANGED agent
    BY <1>1, KeepsAll
  <1>2. CASE current # None /\ agent' = [agent EXCEPT ![current].life = "running"]
    <2>1. current \in Agents /\ agent[current].life # "none"
      BY <1>2 DEF TypeOK, CoreInv, AgentsAreSound
    <2>2. \A b \in Agents : /\ agent'[b].turn = agent[b].turn
                            /\ agent'[b].life = "none" <=> agent[b].life = "none"
      BY <1>2, <2>1 DEF TypeOK, AgentRecords
    <2> QED BY <2>2, KeepsTurns
  <1> QED BY <1>1, <1>2 DEF DeliverStarted

LEMMA ProviderKeeps == TypeOK /\ CoreInv /\ Provider => Keeps
  <1> SUFFICES ASSUME TypeOK, CoreInv, Provider PROVE Keeps
    OBVIOUS
  <1>1. ASSUME NEW a \in Agents, TurnStarted(a) PROVE Keeps
    BY <1>1, DeliverStartedKeeps DEF TurnStarted
  <1>2. ASSUME NEW a \in Agents, TurnEnds(a) PROVE Keeps
    BY <1>2, DeliverTerminalKeeps DEF TurnEnds, TypeOK, SessionRecords
  <1>3. ASSUME NEW a \in Agents, TurnEndsAgain(a) PROVE Keeps
    BY <1>3, DeliverTerminalKeeps DEF TurnEndsAgain
  <1>4. ASSUME NEW a \in Agents, AutonomousStarts(a) PROVE Keeps
    BY <1>4, DeliverStartedKeeps DEF AutonomousStarts
  <1>5. ASSUME NEW a \in Agents, AutonomousEnds(a) PROVE Keeps
    BY <1>5, DeliverTerminalKeeps DEF AutonomousEnds
  <1> QED BY <1>1, <1>2, <1>3, <1>4, <1>5 DEF Provider

LEMMA StartResolvesKeeps ==
    ASSUME TypeOK, CoreInv, NEW r \in Runs, StartResolves(r)
    PROVE  Keeps
  <1> DEFINE a == run[r].agent
  <1>1. a \in Agents /\ agent[a].life # "none"
    BY DEF StartResolves, CoreInv, AgentsAreSound, TypeOK, RunRecords
  <1>2. /\ agent'[a].turn = r /\ agent'[a].life = "running"
        /\ \A b \in Agents \ {a} : agent'[b] = agent[b]
    BY <1>1 DEF StartResolves, TypeOK, AgentRecords
  <1>3. /\ run'[r].st = "streaming" /\ run'[r].waiter /\ run'[r].agent = a
        /\ run'[r].woken = run[r].woken
        /\ \A q \in Runs : q # r => run'[q] = run[q]
    BY DEF StartResolves, TypeOK, RunRecords
  <1>4. run[r].st = "starting" /\ UNCHANGED <<current, pending>>
    BY DEF StartResolves
  <1>5. TurnsGoOn /\ TurnsAreFresh
    BY <1>2, <1>3, <1>4 DEF TurnsGoOn, TurnsAreFresh
  <1>6. AgentsAreSound'
    BY <1>1, <1>2, <1>3, <1>4 DEF CoreInv, AgentsAreSound, TypeOK, RunRecords
  <1>7. NoRunWithoutAgent' /\ LiveRunIsPending'
    BY <1>3, <1>4 DEF CoreInv, NoRunWithoutAgent, LiveRunIsPending, Live
  <1>8. TurnHasItsRun'
    <2>1. CASE current = a
      <3>1. pending = r
        BY <1>4, <2>1 DEF CoreInv, LiveRunIsPending, Live
      <3> QED BY <1>2, <1>3, <1>4, <2>1, <3>1 DEF TurnHasItsRun, Waiting
    <2>2. CASE current # a
      <3> SUFFICES ASSUME current # None, agent'[current].turn # None
                   PROVE  (Waiting(current, agent[current].turn) /\ pending = agent[current].turn)'
        BY <1>4 DEF TurnHasItsRun
      <3>1. current \in Agents /\ agent'[current] = agent[current]
        BY <1>2, <2>2 DEF TypeOK
      <3>2. agent[current].turn \in Runs
        BY <3>1, NoneIsNoRun DEF TypeOK, AgentRecords
      <3>3. Waiting(current, agent[current].turn) /\ pending = agent[current].turn
        BY <3>1 DEF CoreInv, TurnHasItsRun
      <3>4. agent[current].turn # r
        BY <1>4, <3>3 DEF Waiting
      <3> QED BY <1>3, <1>4, <3>1, <3>2, <3>3, <3>4 DEF Waiting
    <2> QED BY <2>1, <2>2
  <1> QED BY <1>5, <1>6, <1>7, <1>8 DEF Keeps, CoreInv

LEMMA StartRejectsKeeps ==
    ASSUME TypeOK, CoreInv, NEW r \in Runs, StartRejects(r)
    PROVE  Keeps
  <1> DEFINE a == run[r].agent
  <1>1. a \in Agents
    BY DEF StartRejects, CoreInv, AgentsAreSound, TypeOK, RunRecords
  <1>2. /\ agent'[a].turn = None /\ agent'[a].life = "error"
        /\ \A b \in Agents \ {a} : agent'[b] = agent[b]
    BY <1>1 DEF StartRejects, TypeOK, AgentRecords
  <1>3. /\ run'[r].st = "failed"
        /\ \A q \in Runs : /\ q # r => run'[q].st = run[q].st
                           /\ run'[q].agent = run[q].agent
                           /\ run'[q].waiter = run[q].waiter
                           /\ run'[q].woken = run[q].woken
    BY DEF StartRejects, TypeOK, RunRecords
  <1>4. run[r].st = "starting" /\ UNCHANGED <<current, pending>>
    BY DEF StartRejects
  <1>5. TurnsGoOn /\ TurnsAreFresh
    BY <1>2, <1>3, <1>4 DEF TurnsGoOn, TurnsAreFresh
  <1>6. AgentsAreSound'
    BY <1>1, <1>2, <1>3, <1>4 DEF CoreInv, AgentsAreSound, TypeOK, RunRecords
  <1>7. NoRunWithoutAgent' /\ LiveRunIsPending'
    BY <1>3, <1>4 DEF CoreInv, NoRunWithoutAgent, LiveRunIsPending, Live
  <1>8. TurnHasItsRun'
    <2> SUFFICES ASSUME current # None, agent'[current].turn # None
                 PROVE  (Waiting(current, agent[current].turn) /\ pending = agent[current].turn)'
      BY <1>4 DEF TurnHasItsRun
    <2>1. current \in Agents \ {a} /\ agent'[current] = agent[current]
      BY <1>2 DEF TypeOK
    <2>2. agent[current].turn \in Runs
      BY <2>1, NoneIsNoRun DEF TypeOK, AgentRecords
    <2>3. Waiting(current, agent[current].turn) /\ pending = agent[current].turn
      BY <2>1 DEF CoreInv, TurnHasItsRun
    <2> QED BY <1>3, <1>4, <2>1, <2>2, <2>3 DEF Waiting
  <1> QED BY <1>5, <1>6, <1>7, <1>8 DEF Keeps, CoreInv

LEMMA GeneratorEndsKeeps ==
    ASSUME TypeOK, CoreInv, NEW r \in Runs, GeneratorEnds(r)
    PROVE  Keeps
  <1>1. /\ run'[r].st = "done"
        /\ \A q \in Runs : /\ q # r => run'[q].st = run[q].st
                           /\ run'[q].agent = run[q].agent
                           /\ run'[q].waiter = run[q].waiter
                           /\ run'[q].woken = run[q].woken
    <2>1. ASSUME NEW q \in Runs
          PROVE  /\ run'[q].st = IF q = r THEN "done" ELSE run[q].st
                 /\ run'[q].agent = run[q].agent
                 /\ run'[q].waiter = run[q].waiter
                 /\ run'[q].woken = run[q].woken
      <3>1. run[q] \in RunRecords
        BY DEF TypeOK
      <3>2. PICK settled :
              run'[q] = [run[q] EXCEPT !.st = IF q = r THEN "done" ELSE @, !.settled = settled]
        BY DEF GeneratorEnds
      <3> QED BY <3>1, <3>2 DEF RunRecords
    <2> QED BY <2>1
  <1>2. /\ run[r].st = "streaming" /\ ~run[r].waiter
        /\ pending' \in {pending, None} /\ (pending # r => pending' = pending)
        /\ UNCHANGED <<current, agent>>
    BY DEF GeneratorEnds, OwnEntry, CoreInv, AgentsAreSound
  <1>3. TurnsGoOn /\ TurnsAreFresh
    BY <1>1, <1>2 DEF TurnsGoOn, TurnsAreFresh
  <1>4. AgentsAreSound'
    BY <1>1, <1>2 DEF CoreInv, AgentsAreSound, TypeOK, RunRecords
  <1>5. NoRunWithoutAgent' /\ LiveRunIsPending'
    BY <1>1, <1>2 DEF CoreInv, NoRunWithoutAgent, LiveRunIsPending, Live
  <1>6. TurnHasItsRun'
    <2> SUFFICES ASSUME current # None, agent[current].turn # None
                 PROVE  (Waiting(current, agent[current].turn) /\ pending = agent[current].turn)'
      BY <1>2 DEF TurnHasItsRun
    <2>1. agent[current].turn \in Runs
      BY NoneIsNoRun DEF TypeOK, AgentRecords
    <2>2. Waiting(current, agent[current].turn) /\ pending = agent[current].turn
      BY DEF CoreInv, TurnHasItsRun
    <2>3. agent[current].turn # r
      BY <1>2, <2>2 DEF Waiting
    <2> QED BY <1>1, <1>2, <2>1, <2>2, <2>3 DEF Waiting
  <1> QED BY <1>3, <1>4, <1>5, <1>6 DEF Keeps, CoreInv

LEMMA StartRunKeeps ==
    ASSUME TypeOK, CoreInv, NEW c, NEW op, StartRun(c, op)
    PROVE  Keeps
  <1>1. current \in Agents /\ agent[current].turn = None /\ pending = None
    BY DEF StartRun, Free, TypeOK
  <1>2. agent[current].life # "none" /\ UNCHANGED current
    BY <1>1, NoneIsNoRun DEF StartRun, CoreInv, AgentsAreSound
  <1>3. PICK r \in Runs :
          /\ run[r].st = "unused"
          /\ \E accepted :
               run' = [run EXCEPT ![r] = [NoRun EXCEPT !.st = "starting",
                                            !.agent = current, !.accepted = accepted]]
          /\ pending' = r
    BY DEF StartRun
  <1>4. /\ run'[r].st = "starting" /\ run'[r].agent = current /\ ~run'[r].woken
        /\ \A q \in Runs : q # r => run'[q] = run[q]
    BY <1>3 DEF TypeOK, NoRun
  <1>5. \A a \in Agents : agent'[a].turn = agent[a].turn /\ agent'[a].life = agent[a].life
    BY <1>1 DEF StartRun, TypeOK, AgentRecords
  <1>6. TurnsGoOn /\ TurnsAreFresh
    BY <1>3, <1>4, <1>5 DEF TurnsGoOn, TurnsAreFresh
  <1>7. AgentsAreSound'
    BY <1>1, <1>2, <1>4, <1>5, NoneIsNoRun DEF CoreInv, AgentsAreSound, TypeOK, RunRecords
  <1>8. NoRunWithoutAgent' /\ TurnHasItsRun'
    BY <1>1, <1>2, <1>5, NoneIsNoRun DEF NoRunWithoutAgent, TurnHasItsRun
  <1>9. LiveRunIsPending'
    BY <1>1, <1>2, <1>3, <1>4, NoneIsNoRun DEF CoreInv, LiveRunIsPending, Live
  <1> QED BY <1>6, <1>7, <1>8, <1>9 DEF Keeps, CoreInv

LEMMA ReplaceFailsKeeps ==
    ASSUME TypeOK, CoreInv, NEW c, ReplaceFails(c)
    PROVE  Keeps
  <1>1. CASE current = None
    BY <1>1, KeepsAll DEF ReplaceFails
  <1>2. CASE current # None
    <2>1. \A rec \in AgentRecords : /\ Released(rec).turn = rec.turn
                                    /\ Released(rec).life = "none" <=> rec.life = "none"
      BY DEF Released, AgentRecords
    <2>2. \A a \in Agents : agent'[a] \in {agent[a], Released(agent[a])}
      BY <1>2 DEF ReplaceFails, TypeOK
    <2>3. \A a \in Agents : /\ agent'[a].turn = agent[a].turn
                            /\ agent'[a].life = "none" <=> agent[a].life = "none"
      BY <2>1, <2>2 DEF TypeOK
    <2> QED BY <2>3, KeepsTurns DEF ReplaceFails
  <1> QED BY <1>1, <1>2

LEMMA TakeDownKeeps ==
    ASSUME TypeOK, CoreInv, NEW a, NEW wake, TakeDown(a, wake)
    PROVE  Keeps
  <1>1. current' = None /\ pending' = None
    BY DEF TakeDown, Removed
  <1>2. \A b \in Agents : agent'[b].turn = agent[b].turn /\ agent'[b].life = agent[b].life
    BY DEF TakeDown, TypeOK, AgentRecords
  <1>3. ASSUME NEW q \in Runs
        PROVE  /\ run'[q].st = run[q].st
               /\ run'[q].agent = run[q].agent
               /\ run'[q].woken => run'[q].st \in {"streaming", "done"} /\ ~run'[q].waiter
    <2>1. run[q] \in RunRecords
      BY DEF TypeOK
    <2>2. PICK settled :
            run'[q] = [run[q] EXCEPT !.waiter = @ /\ ~Waiting(a, q),
                                     !.woken = @ \/ (wake /\ Waiting(a, q)),
                                     !.settled = settled]
      BY DEF TakeDown
    <2>3. /\ run'[q].st = run[q].st /\ run'[q].agent = run[q].agent
          /\ run'[q].waiter = (run[q].waiter /\ ~Waiting(a, q))
          /\ run'[q].woken = (run[q].woken \/ (wake /\ Waiting(a, q)))
      BY <2>1, <2>2 DEF RunRecords
    <2> QED BY <2>3 DEF Waiting, CoreInv, AgentsAreSound
  <1>4. TurnsGoOn /\ TurnsAreFresh
    BY <1>2, <1>3 DEF TurnsGoOn, TurnsAreFresh
  <1>5. AgentsAreSound'
    BY <1>1, <1>2, <1>3, NoneIsNoRun DEF CoreInv, AgentsAreSound, TypeOK, RunRecords
  <1>6. NoRunWithoutAgent' /\ TurnHasItsRun'
    BY <1>1 DEF NoRunWithoutAgent, TurnHasItsRun
  <1>7. LiveRunIsPending'
    BY <1>1, <1>3, <1>5 DEF LiveRunIsPending, Live, AgentsAreSound
  <1> QED BY <1>4, <1>5, <1>6, <1>7 DEF Keeps, CoreInv

LEMMA RegisterKeeps ==
    ASSUME TypeOK, CoreInv, NEW c, Register(c)
    PROVE  Keeps
  <1>1. PICK a \in Agents :
          /\ agent[a].life = "none"
          /\ current' = a
          /\ agent' = [agent EXCEPT ![a].life = "initializing"]
    BY DEF Register
  <1>2. /\ agent'[a].life = "initializing" /\ agent'[a].turn = None
        /\ \A b \in Agents : b # a => agent'[b] = agent[b]
    BY <1>1 DEF TypeOK, AgentRecords, CoreInv, AgentsAreSound
  <1>3. UNCHANGED <<run, pending>>
    BY DEF Register
  <1>4. TurnsGoOn /\ TurnsAreFresh
    BY <1>2, <1>3 DEF TurnsGoOn, TurnsAreFresh
  <1>5. AgentsAreSound'
    BY <1>1, <1>2, <1>3 DEF CoreInv, AgentsAreSound, TypeOK, RunRecords
  <1>6. NoRunWithoutAgent' /\ TurnHasItsRun'
    BY <1>1, <1>2, NoneIsNoRun DEF NoRunWithoutAgent, TurnHasItsRun
  <1>7. LiveRunIsPending'
    BY <1>1, <1>3 DEF LiveRunIsPending, Live, CoreInv, AgentsAreSound
  <1> QED BY <1>4, <1>5, <1>6, <1>7 DEF Keeps, CoreInv

LEMMA RequestKeeps == ASSUME TypeOK, CoreInv, NEW c \in Callers, Request(c) PROVE Keeps
  <1>1. CASE RequestSend(c)
    <2>1. CASE StartRun(c, "stream")
      BY <2>1, StartRunKeeps
    <2>2. CASE ~StartRun(c, "stream")
      <3>1. current \in Agents /\ UNCHANGED <<current, run, pending>>
            /\ agent' = [agent EXCEPT ![current] = [@ EXCEPT !.replacing = TRUE]]
        BY <1>1, <2>2 DEF RequestSend, TypeOK
      <3>2. \A a \in Agents : agent'[a].turn = agent[a].turn /\ agent'[a].life = agent[a].life
        BY <3>1 DEF TypeOK, AgentRecords
      <3> QED BY <3>1, <3>2, KeepsTurns
    <2> QED BY <2>1, <2>2
  <1>2. CASE RequestClose(c)
    BY <1>2, TakeDownKeeps DEF RequestClose
  <1>3. CASE RequestCancel(c) \/ RequestReload(c) \/ RequestResume(c)
    BY <1>3, KeepsAll DEF RequestCancel, RequestReload, RequestResume
  <1> QED BY <1>1, <1>2, <1>3 DEF Request

LEMMA ContinueKeeps == ASSUME IInv, NEW c \in Callers, Continue(c) PROVE Keeps
  <1> USE DEF IInv
  <1>1. CASE \/ InterruptReturns(c) \/ WaitOver(c) \/ WaitTimesOut(c) \/ StaleRunSettles(c)
             \/ ReloadContinues(c) \/ OldClosed(c) \/ CloseEnds(c) \/ RegisterEmits(c)
    BY <1>1, KeepsAll DEF InterruptReturns, WaitOver, WaitTimesOut, StaleRunSettles,
         ReloadContinues, OldClosed, CloseEnds, RegisterEmits
  <1>2. CASE ForceCancel(c)
    <2>1. CASE StillActive(call[c])
      <3>1. call[c].agent \in Agents /\ call[c].turn \in Runs
        BY <2>1, NoneIsNoRun DEF StillActive, CallOK, TypeOK, CallRecords
      <3> QED BY <1>2, <2>1, <3>1, DispatchKeeps DEF ForceCancel
    <2>2. CASE ~StillActive(call[c])
      BY <1>2, <2>2, KeepsAll DEF ForceCancel
    <2> QED BY <2>1, <2>2
  <1>3. CASE ReplaceContinues(c)
    BY <1>3, StartRunKeeps, ReplaceFailsKeeps DEF ReplaceContinues
  <1>4. CASE Drained(c)
    BY <1>4, ReplaceFailsKeeps, KeepsAll DEF Drained
  <1>5. CASE Prepared(c)
    BY <1>5, TakeDownKeeps, KeepsAll DEF Prepared
  <1>6. CASE Register(c)
    BY <1>6, RegisterKeeps
  <1>7. CASE RegisterIdle(c) \/ RegisterEnds(c)
    <2>1. \A a \in Agents : /\ agent'[a].turn = agent[a].turn
                            /\ agent'[a].life = "none" => agent[a].life = "none"
      BY <1>7 DEF RegisterIdle, RegisterEnds, TypeOK, AgentRecords
    <2> QED BY <1>7, <2>1, KeepsTurns DEF RegisterIdle, RegisterEnds
  <1> QED BY <1>1, <1>2, <1>3, <1>4, <1>5, <1>6, <1>7 DEF Continue

-----------------------------------------------------------------------------
(* What a step keeps of the callers *)

\* A caller that has captured no turn owes nothing.
LEMMA NoTurnOK ==
    ASSUME NEW c \in Callers, call'[c].turn = None, call'[c].pc \notin {"init", "ready", "persist"}
    PROVE  CallOK(c)'
  BY DEF CallOK

\* The capture of a caller stays sound while it waits.
LEMMA CallKept ==
    ASSUME IInv, Keeps, NEW c \in Callers,
           call'[c].turn = call[c].turn, call'[c].agent = call[c].agent,
           call'[c].pc \in {"init", "ready", "persist"} => call[c].pc \in {"init", "ready", "persist"},
           call'[c].pc \in {"waitStale", "cancelled"} =>
               call[c].pc \in {"waitStale", "cancelled"}
    PROVE  CallOK(c)'
  <1> SUFFICES ASSUME call[c].turn # None
               PROVE  /\ call[c].agent # None
                      /\ run'[call[c].turn].st \in {"streaming", "done"}
                      /\ call[c].pc \in {"waitStale", "cancelled"} =>
                            agent'[call[c].agent].turn # call[c].turn
    BY DEF CallOK, IInv
  <1>1. call[c].turn \in Runs /\ call[c].agent \in Agents
        /\ run[call[c].turn].st \in {"streaming", "done"}
    BY NoneIsNoRun DEF IInv, CallOK, TypeOK, CallRecords
  <1>2. run'[call[c].turn].st \in {"streaming", "done"}
    BY <1>1 DEF Keeps, TurnsGoOn
  <1>3. agent'[call[c].agent].turn = call[c].turn => agent[call[c].agent].turn = call[c].turn
    BY <1>1, NoneIsNoRun DEF Keeps, TurnsAreFresh
  <1> QED BY <1>1, <1>2, <1>3, NoneIsNoRun DEF IInv, CallOK

\* cancelAgentRun captures a turn that has started.
LEMMA BeganOK ==
    ASSUME IInv, Keeps, current # None, NEW c \in Callers, NEW op,
           call'[c] = Began(op)
    PROVE  CallOK(c)'
  <1>1. /\ call'[c].turn = agent[current].turn
        /\ call'[c].agent = current
        /\ call'[c].pc = "interrupt"
    BY DEF Began
  <1> SUFFICES ASSUME agent[current].turn # None
               PROVE  run'[agent[current].turn].st = "streaming"
                      \/ run'[agent[current].turn].st = "done"
    BY <1>1 DEF CallOK
  <1>2. current \in Agents /\ agent[current].turn \in Runs
    BY NoneIsNoRun DEF IInv, TypeOK, AgentRecords
  <1>3. run[agent[current].turn].st = "streaming"
    BY DEF IInv, CoreInv, TurnHasItsRun, Waiting
  <1> QED BY <1>2, <1>3 DEF Keeps, TurnsGoOn

LEMMA OtherCalls ==
    ASSUME TypeOK, NEW c \in Callers, Request(c) \/ Continue(c), NEW d \in Callers, d # c
    PROVE  call'[d] = call[d]
  BY DEF Request, Continue, RequestSend, StartRun, RequestCancel, RequestClose, RequestReload,
     RequestResume, InterruptReturns, WaitOver, WaitTimesOut, ForceCancel, StaleRunSettles,
     ReplaceContinues, ReplaceFails, Drained, CloseEnds, ReloadContinues, Prepared,
     OldClosed, Register, RegisterEmits, RegisterIdle, RegisterEnds, TypeOK

\* Handling a request leaves its caller sound.
LEMMA RequestCall ==
    ASSUME IInv, Keeps, NEW c \in Callers, Request(c) PROVE CallOK(c)'
  <1>0. call \in [Callers -> CallRecords]
    BY DEF IInv, TypeOK
  <1>1. ASSUME NEW op, StartRun(c, op) PROVE CallOK(c)'
    BY <1>0, <1>1, NoTurnOK DEF StartRun, NoCall
  <1>2. ASSUME NEW op, call'[c] = Preparing(op) PROVE CallOK(c)'
    BY <1>2, NoTurnOK DEF Preparing, NoCall
  <1>3. CASE RequestSend(c)
    <2>1. CASE ~StartRun(c, "stream")
      BY <1>0, <1>3, <2>1, BeganOK DEF RequestSend
    <2> QED BY <1>1, <2>1
  <1>4. CASE RequestCancel(c)
    BY <1>0, <1>4, BeganOK DEF RequestCancel, Busy
  <1>5. CASE RequestClose(c)
    BY <1>0, <1>5, NoTurnOK DEF RequestClose, NoCall
  <1>6. CASE RequestReload(c)
    <2>1. call'[c] = Began("reload") \/ call'[c] = Preparing("reload")
      BY <1>0, <1>6 DEF RequestReload
    <2> QED BY <1>2, <1>6, <2>1, BeganOK DEF RequestReload
  <1>7. CASE RequestResume(c)
    BY <1>0, <1>2, <1>7 DEF RequestResume
  <1> QED BY <1>3, <1>4, <1>5, <1>6, <1>7 DEF Request

\* So does every continuation; ForceCancel is the one that clears the captured turn.
LEMMA ContinueCall ==
    ASSUME IInv, Keeps, NEW c \in Callers, Continue(c) PROVE CallOK(c)'
  <1>0. call \in [Callers -> CallRecords] /\ call[c] \in CallRecords
    BY DEF IInv, TypeOK
  <1>1. ASSUME call'[c] = NoCall PROVE CallOK(c)'
    BY <1>1, NoTurnOK DEF NoCall
  <1>2. ASSUME NEW op, call'[c] = Preparing(op) PROVE CallOK(c)'
    BY <1>2, NoTurnOK DEF Preparing, NoCall
  <1>3. ASSUME NEW pc, call'[c] = [call[c] EXCEPT !.pc = pc],
               pc \notin {"init", "ready", "persist", "waitStale", "cancelled"}
        PROVE CallOK(c)'
    <2>1. call'[c].pc = pc /\ call'[c].turn = call[c].turn /\ call'[c].agent = call[c].agent
      BY <1>0, <1>3 DEF CallRecords
    <2> QED BY <1>3, <2>1, CallKept
  <1>4. ASSUME NEW op, StartRun(c, op) PROVE CallOK(c)'
    BY <1>0, <1>4, NoTurnOK DEF StartRun, NoCall
  <1>5. ASSUME ReplaceFails(c) PROVE CallOK(c)'
    BY <1>0, <1>1, <1>5 DEF ReplaceFails
  <1>6. ASSUME call'[c] = Registering(call[c]) PROVE CallOK(c)'
    BY <1>1, <1>3, <1>6 DEF Registering
  <1>7. CASE InterruptReturns(c) \/ WaitOver(c) \/ WaitTimesOut(c)
    <2>1. PastTurn(call[c]) \in {"waitRun", "force"}
      BY DEF PastTurn
    <2>2. PICK pc \in {"waitRun", "force", "waitTurn", "waitState"} :
            call'[c] = [call[c] EXCEPT !.pc = pc]
      BY <1>0, <1>7, <2>1 DEF InterruptReturns, WaitOver, WaitTimesOut
    <2> QED BY <1>3, <2>2
  <1>8. CASE ForceCancel(c)
    <2>1. call[c].turn # None => call[c].agent \in Agents /\ call[c].turn \in Runs
      BY <1>0, NoneIsNoRun DEF IInv, CallOK, CallRecords
    <2>2. call[c].turn # None => agent'[call[c].agent].turn # call[c].turn
      <3>1. CASE StillActive(call[c])
        <4> DEFINE rec == agent[call[c].agent]
        <4>1. call[c].turn # None /\ rec \in AgentRecords
          BY <2>1, <3>1 DEF StillActive, IInv, TypeOK
        <4>2. agent'[call[c].agent] = AfterTerminal(rec, "canceled", call[c].turn)
          BY <1>8, <2>1, <3>1, <4>1 DEF ForceCancel, DispatchTerminal, IInv, TypeOK
        <4> QED BY <4>1, <4>2, AfterTerminalTurn
      <3>2. CASE ~StillActive(call[c])
        BY <1>8, <3>2 DEF ForceCancel, StillActive
      <3> QED BY <3>1, <3>2
    <2>3. call[c].turn # None => run'[call[c].turn].st \in {"streaming", "done"}
      BY <2>1 DEF IInv, CallOK, Keeps, TurnsGoOn
    <2>4. \/ call'[c] = NoCall
          \/ /\ call'[c].turn = call[c].turn /\ call'[c].agent = call[c].agent
             /\ call'[c].pc \in {"waitStale", "cancelled"}
      <3>1. \/ call'[c] = NoCall
            \/ call'[c] = [call[c] EXCEPT !.pc = "cancelled"]
            \/ call'[c] = [call[c] EXCEPT !.pc = "waitStale", !.run = pending]
        BY <1>0, <1>8 DEF ForceCancel, Returned
      <3> QED BY <1>0, <3>1 DEF CallRecords
    <2> QED BY <1>1, <2>1, <2>2, <2>3, <2>4, NoneIsNoRun DEF CallOK
  <1>9. CASE StaleRunSettles(c)
    <2>1. \/ call'[c] = NoCall
          \/ /\ call'[c].turn = call[c].turn /\ call'[c].agent = call[c].agent
             /\ call'[c].pc = "cancelled" /\ call[c].pc = "waitStale"
      BY <1>0, <1>9 DEF StaleRunSettles, Returned, CallRecords
    <2> QED BY <1>1, <2>1, CallKept
  <1>10. CASE ReplaceContinues(c)
    BY <1>4, <1>5, <1>10 DEF ReplaceContinues
  <1>11. CASE Drained(c)
    BY <1>0, <1>1, <1>5, <1>11 DEF Drained
  <1>12. CASE CloseEnds(c) \/ RegisterEnds(c)
    BY <1>0, <1>1, <1>12 DEF CloseEnds, RegisterEnds
  <1>13. CASE ReloadContinues(c)
    BY <1>0, <1>1, <1>2, <1>13 DEF ReloadContinues
  <1>14. CASE Prepared(c)
    <2>1. \/ call'[c] = [call[c] EXCEPT !.pc = "closeOld"]
          \/ call'[c] = Registering(call[c])
          \/ call'[c] = NoCall
      BY <1>0, <1>14 DEF Prepared
    <2> QED BY <1>1, <1>3, <1>6, <2>1
  <1>15. CASE OldClosed(c)
    BY <1>0, <1>6, <1>15 DEF OldClosed
  <1>16. CASE Register(c)
    <2>1. PICK a \in Agents : call'[c] = [call[c] EXCEPT !.pc = "init", !.agent = a]
      BY <1>0, <1>16 DEF Register
    <2>2. call'[c].turn = call[c].turn /\ call'[c].agent = a /\ call'[c].pc = "init"
      BY <1>0, <2>1 DEF CallRecords
    <2>3. call[c].turn # None => run'[call[c].turn].st \in {"streaming", "done"}
      BY <1>0, NoneIsNoRun DEF IInv, CallOK, CallRecords, Keeps, TurnsGoOn
    <2> QED BY <2>2, <2>3, NoneIsNoRun DEF CallOK
  <1>17. CASE RegisterEmits(c) \/ RegisterIdle(c)
    <2>1. /\ call'[c].turn = call[c].turn /\ call'[c].agent = call[c].agent
          /\ call'[c].pc \in {"ready", "persist"} /\ call[c].pc \in {"init", "ready"}
      BY <1>0, <1>17 DEF RegisterEmits, RegisterIdle, CallRecords
    <2> QED BY <2>1, CallKept
  <1> QED BY <1>7, <1>8, <1>9, <1>10, <1>11, <1>12, <1>13, <1>14, <1>15, <1>16, <1>17
          DEF Continue

-----------------------------------------------------------------------------
(* The theorems *)

LEMMA InitIInv == Init => IInv
  <1> SUFFICES ASSUME Init PROVE IInv
    OBVIOUS
  <1>1. current = 1 /\ 1 \in Agents /\ 1 # None /\ pending = None
    BY ConstantsAssumption DEF Init, ConstantsAssumption, Agents, None
  <1>2. \A a \in Agents : agent[a].turn = None
    BY DEF Init, NoAgent
  <1>3. agent[1].life = "idle"
    BY <1>1 DEF Init, NoAgent
  <1>4. \A r \in Runs : run[r].st = "unused" /\ ~run[r].woken
    BY DEF Init, NoRun
  <1>5. CoreInv
    BY <1>1, <1>2, <1>3, <1>4 DEF CoreInv, AgentsAreSound, NoRunWithoutAgent, LiveRunIsPending,
                                  Live, TurnHasItsRun
  <1>6. \A c \in Callers : CallOK(c)
    BY DEF Init, NoCall, CallOK
  <1> QED BY <1>5, <1>6, InitTypeOK DEF IInv

LEMMA GeneratorKeeps ==
    ASSUME TypeOK, CoreInv, NEW r \in Runs, Generator(r) PROVE Keeps
  BY StartResolvesKeeps, StartRejectsKeeps, GeneratorEndsKeeps DEF Generator

\* Every step keeps the inductive invariant.
LEMMA NextIInv == IInv /\ [Next]_vars => IInv'
  <1> SUFFICES ASSUME IInv, [Next]_vars PROVE IInv'
    OBVIOUS
  <1>0. TypeOK /\ CoreInv
    BY DEF IInv
  <1>1. ASSUME Keeps, TypeOK', UNCHANGED call PROVE IInv'
    BY <1>1, CallKept DEF IInv, Keeps
  <1>2. CASE UNCHANGED vars
    <2>1. Keeps /\ TypeOK'
      BY <1>0, <1>2, KeepsAll DEF vars, TypeOK
    <2> QED BY <1>1, <1>2, <2>1 DEF vars
  <1>3. CASE Provider
    <2>1. UNCHANGED call
      BY <1>3 DEF Provider, TurnStarted, TurnEnds, TurnEndsAgain, AutonomousStarts,
                  AutonomousEnds
    <2> QED BY <1>0, <1>1, <1>3, <2>1, ProviderType, ProviderKeeps
  <1>4. ASSUME NEW r \in Runs, Generator(r) PROVE IInv'
    <2>1. UNCHANGED call
      BY <1>4 DEF Generator, StartResolves, StartRejects, GeneratorEnds
    <2> QED BY <1>0, <1>1, <1>4, <2>1, GeneratorType, GeneratorKeeps
  <1>5. ASSUME NEW c \in Callers, Request(c) \/ Continue(c) PROVE IInv'
    <2>1. TypeOK' /\ Keeps
      BY <1>0, <1>5, RequestType, ContinueType, RequestKeeps, ContinueKeeps
    <2>2. CallOK(c)'
      BY <1>5, <2>1, RequestCall, ContinueCall
    <2>3. \A d \in Callers : d # c => CallOK(d)'
      BY <1>0, <1>5, <2>1, OtherCalls, CallKept
    <2> QED BY <2>1, <2>2, <2>3 DEF IInv, Keeps
  <1> QED BY <1>2, <1>3, <1>4, <1>5 DEF Next

\* The inductive invariant holds of every behaviour of the manager.
THEOREM IInvHolds == Spec => []IInv
  <1> QED BY InitIInv, NextIInv, PTL DEF Spec

\* Every variable of the manager's model keeps its type: no agent ends in a lifecycle the
\* code does not have, no caller in a wait it cannot leave.
THEOREM TypeCorrect == Spec => []TypeOK
  <1>1. IInv => TypeOK
    BY DEF IInv
  <1> QED BY IInvHolds, <1>1, PTL

\* An active turn always has the generator that waits for its end, and the pending entry.
THEOREM TurnsHaveRuns == Spec => []TurnHasItsRun
  <1>1. IInv => TurnHasItsRun
    BY DEF IInv, CoreInv
  <1> QED BY IInvHolds, <1>1, PTL

\* A run in flight on the registered agent holds the entry of pendingForegroundRuns.
THEOREM LiveRunsArePending == Spec => []LiveRunIsPending
  <1>1. IInv => LiveRunIsPending
    BY DEF IInv, CoreInv
  <1> QED BY IInvHolds, <1>1, PTL

\* Two runs are never in flight on the registered agent: both would hold the one entry.
THEOREM OneRun == Spec => []OneRunAtATime
  <1>1. IInv => OneRunAtATime
    BY DEF IInv, CoreInv, LiveRunIsPending, OneRunAtATime
  <1> QED BY IInvHolds, <1>1, PTL

\* Removing the agent removes its pending run.
THEOREM NoAgentNoRun == Spec => []NoRunWithoutAgent
  <1>1. IInv => NoRunWithoutAgent
    BY DEF IInv, CoreInv
  <1> QED BY IInvHolds, <1>1, PTL

\* A cancel that has returned has cleared the turn it caught, whatever the provider did.
THEOREM CancelsClearTurns == Spec => []CancelClearsTurn
  <1>1. IInv => CancelClearsTurn
    BY DEF IInv, CallOK, CancelClearsTurn
  <1> QED BY IInvHolds, <1>1, PTL

\* The entry of a run leaves the map by its own generator or with the agent.
LEMMA StepKeepsEntry ==
    ASSUME IInv, [Next]_vars, pending # None, pending' # pending
    PROVE  \/ run'[pending].st = "done" /\ run[pending].st # "done"
           \/ current # None /\ current' = None
  <1>0. TypeOK /\ pending \in Runs /\ current # None
    BY DEF IInv, CoreInv, NoRunWithoutAgent, TypeOK
  <1>1. ASSUME NEW c, NEW op, StartRun(c, op) PROVE FALSE
    BY <1>1 DEF StartRun, Free
  <1>2. ASSUME NEW r \in Runs, GeneratorEnds(r)
        PROVE  run'[pending].st = "done" /\ run[pending].st # "done"
    <2>1. pending = r
      BY <1>2 DEF GeneratorEnds, OwnEntry
    <2>2. PICK settled : run'[r] = [run[r] EXCEPT !.st = "done", !.settled = settled]
      BY <1>2, <2>1 DEF GeneratorEnds
    <2>3. run[r] \in RunRecords /\ run[r].st = "streaming"
      BY <1>0, <1>2, <2>1 DEF GeneratorEnds, TypeOK
    <2>4. run'[r].st = "done"
      BY <2>2, <2>3 DEF RunRecords
    <2> QED BY <2>1, <2>3, <2>4
  <1>3. ASSUME NEW a, NEW wake, TakeDown(a, wake) PROVE current' = None
    BY <1>3 DEF TakeDown
  <1>4. ASSUME NEW r \in Runs, Generator(r)
        PROVE  run'[pending].st = "done" /\ run[pending].st # "done"
    BY <1>2, <1>4 DEF Generator, StartResolves, StartRejects
  <1>5. ~Provider
    BY DEF Provider, TurnStarted, TurnEnds, TurnEndsAgain, AutonomousStarts, AutonomousEnds
  <1>6. ASSUME NEW c \in Callers, Request(c) \/ Continue(c) PROVE current' = None
    BY <1>1, <1>3, <1>6 DEF Request, Continue, RequestSend, RequestCancel, RequestClose,
       RequestReload, RequestResume, InterruptReturns, WaitOver, WaitTimesOut, ForceCancel,
       StaleRunSettles, ReplaceContinues, ReplaceFails, Drained, CloseEnds, ReloadContinues,
       Prepared, OldClosed, Register, RegisterEmits, RegisterIdle, RegisterEnds
  <1> QED BY <1>0, <1>4, <1>5, <1>6 DEF Next, vars

\* The cleanup of an old generator never frees the place of a newer run.
THEOREM EntriesHaveOwners == Spec => EntryHasItsOwner
  <1>1. IInv /\ [Next]_vars =>
          [pending # None /\ pending' # pending =>
             \/ run'[pending].st = "done" /\ run[pending].st # "done"
             \/ current # None /\ current' = None]_vars
    BY StepKeepsEntry
  <1> QED BY IInvHolds, <1>1, PTL DEF Spec, EntryHasItsOwner

-----------------------------------------------------------------------------
(* Refinement: the manager implements RunSlot *)

\* A step of the place for a run, or none.
SlotStep == Slot!Next \/ UNCHANGED Slot!vars

\* What RunSlot sees of a run.
SameRun(r) ==
    /\ run'[r].st = run[r].st
    /\ run'[r].agent = run[r].agent
    /\ run'[r].waiter = run[r].waiter

LEMMA RunKept ==
    ASSUME NEW r \in Runs, UNCHANGED current, SameRun(r)
    PROVE  (r \in Started' <=> r \in Started) /\ (r \in Active' <=> r \in Active)
  BY DEF SameRun, Started, Active, Live

LEMMA SlotStutters ==
    ASSUME UNCHANGED <<current, pending>>, Started' = Started, Active' = Active
    PROVE  SlotStep
  BY DEF SlotStep, Slot!vars

LEMMA SlotKept ==
    ASSUME UNCHANGED <<current, pending>>, \A r \in Runs : SameRun(r)
    PROVE  SlotStep
  <1>1. \A r \in Runs : (r \in Started' <=> r \in Started) /\ (r \in Active' <=> r \in Active)
    BY RunKept
  <1>2. /\ Started \subseteq Runs /\ Started' \subseteq Runs
        /\ Active \subseteq Runs /\ Active' \subseteq Runs
    BY DEF Started, Active
  <1>3. Started' = Started /\ Active' = Active
    BY <1>1, <1>2
  <1> QED BY <1>3, SlotStutters

\* A run in flight is over; the others are as they were.
LEMMA SlotEnds ==
    ASSUME UNCHANGED <<current, pending>>, NEW r \in Runs, r \in Active, r \notin Active',
           Started' = Started, \A q \in Runs \ {r} : q \in Active' <=> q \in Active
    PROVE  SlotStep
  <1>1. Active \subseteq Runs /\ Active' \subseteq Runs
    BY DEF Active
  <1>2. Active' = Active \ {r}
    BY <1>1
  <1>3. Slot!End(r)
    BY <1>2 DEF Slot!End
  <1> QED BY <1>3 DEF SlotStep, Slot!Next

LEMMA DispatchSlot ==
    ASSUME TypeOK, NEW a \in Agents, NEW kind, NEW r \in Runs \cup {None},
           DispatchTerminal(a, kind, r), UNCHANGED <<current, pending>>
    PROVE  SlotStep
  <1>1. \A q \in Runs : /\ run'[q].st = run[q].st
                        /\ run'[q].agent = run[q].agent
                        /\ run'[q].waiter = (run[q].waiter /\ ~(q = r /\ Waiting(a, q)))
    BY DEF DispatchTerminal, TypeOK, RunRecords, Waiting
  <1>2. Started' = Started
    BY <1>1 DEF Started
  <1>3. ASSUME NEW q \in Runs, ~(q = r /\ Waiting(a, q))
        PROVE  q \in Active' <=> q \in Active
    <2>1. SameRun(q)
      BY <1>1, <1>3 DEF SameRun, TypeOK, RunRecords
    <2> QED BY <2>1, RunKept
  <1>4. CASE r \in Runs /\ Waiting(a, r) /\ a = current
    <2>1. r \in Active /\ r \notin Active'
      BY <1>1, <1>4 DEF Active, Live, Waiting
    <2>2. \A q \in Runs \ {r} : q \in Active' <=> q \in Active
      BY <1>3
    <2> QED BY <1>2, <1>4, <2>1, <2>2, SlotEnds
  <1>5. CASE ~(r \in Runs /\ Waiting(a, r) /\ a = current)
    <2>1. ASSUME NEW q \in Runs PROVE q \in Active' <=> q \in Active
      <3>1. CASE q = r /\ Waiting(a, q)
        <4>1. run[q].agent # current /\ run'[q].agent # current
          BY <1>1, <1>5, <3>1 DEF Waiting
        <4> QED BY <4>1 DEF Active
      <3>2. CASE ~(q = r /\ Waiting(a, q))
        BY <1>3, <3>2
      <3> QED BY <3>1, <3>2
    <2>2. Active \subseteq Runs /\ Active' \subseteq Runs
      BY DEF Active
    <2>3. Active' = Active
      BY <2>1, <2>2
    <2> QED BY <1>2, <2>3, SlotStutters
  <1> QED BY <1>4, <1>5

LEMMA DeliverTerminalSlot ==
    ASSUME TypeOK, NEW a \in Agents, NEW kind, NEW r \in Runs \cup {None},
           DeliverTerminal(a, kind, r), UNCHANGED <<current, pending>>
    PROVE  SlotStep
  <1>1. CASE agent[a].subscribed /\ current # None
    <2>1. current \in Agents
      BY <1>1 DEF TypeOK
    <2> QED BY <1>1, <2>1, DispatchSlot DEF DeliverTerminal
  <1>2. CASE ~(agent[a].subscribed /\ current # None)
    BY <1>2, SlotKept DEF DeliverTerminal, SameRun
  <1> QED BY <1>1, <1>2

LEMMA ProviderSlot == ASSUME TypeOK, Provider PROVE SlotStep
  <1>1. ASSUME NEW a \in Agents, TurnStarted(a) \/ AutonomousStarts(a) PROVE SlotStep
    BY <1>1, SlotKept DEF TurnStarted, AutonomousStarts, SameRun
  <1>2. ASSUME NEW a \in Agents, TurnEnds(a) PROVE SlotStep
    BY <1>2, DeliverTerminalSlot DEF TurnEnds, TypeOK, SessionRecords
  <1>3. ASSUME NEW a \in Agents, TurnEndsAgain(a) PROVE SlotStep
    BY <1>3, DeliverTerminalSlot DEF TurnEndsAgain
  <1>4. ASSUME NEW a \in Agents, AutonomousEnds(a) PROVE SlotStep
    BY <1>4, DeliverTerminalSlot DEF AutonomousEnds
  <1> QED BY <1>1, <1>2, <1>3, <1>4 DEF Provider

\* The runs but one are as they were.
LEMMA OthersKept ==
    ASSUME UNCHANGED current, NEW r \in Runs, \A q \in Runs \ {r} : SameRun(q)
    PROVE  /\ (r \in Started' <=> r \in Started) => Started' = Started
           /\ (r \in Active' <=> r \in Active) => Active' = Active
           /\ \A q \in Runs \ {r} : q \in Active' <=> q \in Active
           /\ r \in Started' => Started' = Started \cup {r}
           /\ r \in Active' => Active' = Active \cup {r}
  <1>1. \A q \in Runs \ {r} :
           (q \in Started' <=> q \in Started) /\ (q \in Active' <=> q \in Active)
    BY RunKept
  <1>2. /\ Started \subseteq Runs /\ Started' \subseteq Runs
        /\ Active \subseteq Runs /\ Active' \subseteq Runs
    BY DEF Started, Active
  <1> QED BY <1>1, <1>2

LEMMA StartResolvesSlot == ASSUME TypeOK, NEW r \in Runs, StartResolves(r) PROVE SlotStep
  <1>1. run'[r].st = "streaming" /\ run'[r].waiter /\ run'[r].agent = run[r].agent
    BY DEF StartResolves, TypeOK, RunRecords
  <1>2. \A q \in Runs \ {r} : SameRun(q)
    BY DEF StartResolves, SameRun, TypeOK
  <1>3. run[r].st = "starting" /\ UNCHANGED <<current, pending>>
    BY DEF StartResolves
  <1>4. (r \in Started' <=> r \in Started) /\ (r \in Active' <=> r \in Active)
    BY <1>1, <1>3 DEF Started, Active, Live
  <1> QED BY <1>2, <1>3, <1>4, OthersKept, SlotStutters

LEMMA StartRejectsSlot == ASSUME TypeOK, NEW r \in Runs, StartRejects(r) PROVE SlotStep
  <1>1. run'[r].st = "failed"
    BY DEF StartRejects, TypeOK, RunRecords
  <1>2. \A q \in Runs \ {r} : SameRun(q)
    BY DEF StartRejects, SameRun, TypeOK
  <1>3. run[r].st = "starting" /\ UNCHANGED <<current, pending>>
    BY DEF StartRejects
  <1>4. r \in Started' /\ r \in Started /\ r \notin Active'
    BY <1>1, <1>3 DEF Started, Active, Live
  <1>5. CASE r \in Active
    BY <1>2, <1>3, <1>4, <1>5, OthersKept, SlotEnds
  <1>6. CASE r \notin Active
    BY <1>2, <1>3, <1>4, <1>6, OthersKept, SlotStutters
  <1> QED BY <1>5, <1>6

\* A generator that ends frees the place if it holds it, and nothing else.
LEMMA GeneratorEndsSlot ==
    ASSUME TypeOK, CoreInv, NEW r \in Runs, GeneratorEnds(r) PROVE SlotStep
  <1>1. ASSUME NEW q \in Runs
        PROVE  /\ run'[q].st = IF q = r THEN "done" ELSE run[q].st
               /\ run'[q].agent = run[q].agent
               /\ run'[q].waiter = run[q].waiter
    <2>1. run[q] \in RunRecords
      BY DEF TypeOK
    <2>2. PICK settled :
            run'[q] = [run[q] EXCEPT !.st = IF q = r THEN "done" ELSE @, !.settled = settled]
      BY DEF GeneratorEnds
    <2> QED BY <2>1, <2>2 DEF RunRecords
  <1>2. run[r].st = "streaming" /\ ~run[r].waiter /\ UNCHANGED current
    BY DEF GeneratorEnds, CoreInv, AgentsAreSound
  <1>3. r \in Started /\ r \in Started' /\ r \notin Active /\ r \notin Active'
    BY <1>1, <1>2 DEF Started, Active, Live
  <1>4. Started' = Started /\ Active' = Active
    BY <1>1, <1>2, <1>3, OthersKept DEF SameRun
  <1>5. CASE pending = r
    <2>1. pending' = None
      BY <1>5, NoneIsNoRun DEF GeneratorEnds, OwnEntry
    <2>2. Slot!Leave(r)
      BY <1>2, <1>3, <1>4, <1>5, <2>1 DEF Slot!Leave
    <2> QED BY <2>2 DEF SlotStep, Slot!Next
  <1>6. CASE pending # r
    <2>1. UNCHANGED pending
      BY <1>6 DEF GeneratorEnds, OwnEntry
    <2> QED BY <1>2, <1>4, <2>1, SlotStutters
  <1> QED BY <1>5, <1>6

LEMMA StartRunSlot == ASSUME TypeOK, NEW c, NEW op, StartRun(c, op) PROVE SlotStep
  <1>1. current \in Agents /\ current # None /\ pending = None /\ UNCHANGED current
    BY DEF StartRun, Free, TypeOK
  <1>2. PICK r \in Runs :
          /\ run[r].st = "unused"
          /\ \E accepted :
               run' = [run EXCEPT ![r] = [NoRun EXCEPT !.st = "starting",
                                            !.agent = current, !.accepted = accepted]]
          /\ pending' = r
    BY DEF StartRun
  <1>3. run'[r].st = "starting" /\ run'[r].agent = current
    BY <1>2 DEF TypeOK, NoRun
  <1>4. \A q \in Runs \ {r} : SameRun(q)
    BY <1>2 DEF SameRun, TypeOK
  <1>5. r \notin Started /\ r \in Started' /\ r \in Active'
    BY <1>1, <1>2, <1>3 DEF Started, Active, Live
  <1>6. Started' = Started \cup {r} /\ Active' = Active \cup {r}
    BY <1>1, <1>4, <1>5, OthersKept
  <1>7. Slot!Enter(r)
    BY <1>1, <1>2, <1>5, <1>6 DEF Slot!Enter
  <1> QED BY <1>7 DEF SlotStep, Slot!Next

\* What is left when the registered agent is another one, or none.
LEMMA SlotEmptied ==
    ASSUME \A r \in Runs : run'[r].st = run[r].st /\ run'[r].agent = run[r].agent,
           \A r \in Runs : run'[r].st # "unused" => run'[r].agent # current'
    PROVE  Started' = Started /\ Active' = {}
  BY DEF Started, Active, Live

LEMMA TakeDownSlot ==
    ASSUME TypeOK, CoreInv, NEW a, NEW wake, TakeDown(a, wake) PROVE SlotStep
  <1>1. current' = None /\ pending' = None
    BY DEF TakeDown, Removed
  <1>2. ASSUME NEW q \in Runs
        PROVE  run'[q].st = run[q].st /\ run'[q].agent = run[q].agent
    <2>1. run[q] \in RunRecords
      BY DEF TypeOK
    <2>2. PICK waiter, woken, settled :
            run'[q] = [run[q] EXCEPT !.waiter = waiter, !.woken = woken, !.settled = settled]
      BY DEF TakeDown
    <2> QED BY <2>1, <2>2 DEF RunRecords
  <1>3. \A q \in Runs : run'[q].st # "unused" => run'[q].agent # current'
    BY <1>1, <1>2 DEF CoreInv, AgentsAreSound
  <1>4. Started' = Started /\ Active' = {}
    BY <1>2, <1>3, SlotEmptied
  <1>5. Slot!Remove
    BY <1>1, <1>4 DEF Slot!Remove
  <1> QED BY <1>5 DEF SlotStep, Slot!Next

\* The object that is registered is a new one: no run belongs to it.
LEMMA RegisterSlot == ASSUME TypeOK, CoreInv, NEW c, Register(c) PROVE SlotStep
  <1>1. PICK a \in Agents : agent[a].life = "none" /\ current' = a
    BY DEF Register
  <1>2. UNCHANGED <<run, pending>>
    BY DEF Register
  <1>3. current' # current /\ current' \in Agents
    BY <1>1, NoneIsNoRun DEF CoreInv, AgentsAreSound
  <1>4. \A q \in Runs : run'[q].st # "unused" => run'[q].agent # current'
    BY <1>1, <1>2 DEF CoreInv, AgentsAreSound
  <1>5. Started' = Started /\ Active' = {}
    BY <1>2, <1>4, SlotEmptied
  <1>6. Slot!Register
    BY <1>2, <1>3, <1>5 DEF Slot!Register
  <1> QED BY <1>6 DEF SlotStep, Slot!Next

LEMMA RequestSlot == ASSUME TypeOK, CoreInv, NEW c \in Callers, Request(c) PROVE SlotStep
  <1>1. CASE RequestSend(c)
    <2>1. CASE StartRun(c, "stream")
      BY <2>1, StartRunSlot
    <2>2. CASE ~StartRun(c, "stream")
      BY <1>1, <2>2, SlotKept DEF RequestSend, SameRun
    <2> QED BY <2>1, <2>2
  <1>2. CASE RequestClose(c)
    BY <1>2, TakeDownSlot DEF RequestClose
  <1>3. CASE RequestCancel(c) \/ RequestReload(c) \/ RequestResume(c)
    BY <1>3, SlotKept DEF RequestCancel, RequestReload, RequestResume, SameRun
  <1> QED BY <1>1, <1>2, <1>3 DEF Request

LEMMA ContinueSlot == ASSUME IInv, NEW c \in Callers, Continue(c) PROVE SlotStep
  <1> USE DEF IInv
  <1>1. CASE UNCHANGED <<current, run, pending>>
    BY <1>1, SlotKept DEF SameRun
  <1>2. CASE ForceCancel(c)
    <2>1. CASE StillActive(call[c])
      <3>1. call[c].agent \in Agents /\ call[c].turn \in Runs
        BY <2>1, NoneIsNoRun DEF StillActive, CallOK, TypeOK, CallRecords
      <3> QED BY <1>2, <2>1, <3>1, DispatchSlot DEF ForceCancel
    <2>2. CASE ~StillActive(call[c])
      BY <1>1, <1>2, <2>2 DEF ForceCancel
    <2> QED BY <2>1, <2>2
  <1>3. CASE ReplaceContinues(c)
    BY <1>1, <1>3, StartRunSlot DEF ReplaceContinues, ReplaceFails
  <1>4. CASE Prepared(c)
    BY <1>1, <1>4, TakeDownSlot DEF Prepared
  <1>5. CASE Register(c)
    BY <1>5, RegisterSlot
  <1>6. CASE \/ InterruptReturns(c) \/ WaitOver(c) \/ WaitTimesOut(c) \/ StaleRunSettles(c)
             \/ Drained(c) \/ ReloadContinues(c) \/ OldClosed(c) \/ CloseEnds(c)
             \/ RegisterEmits(c) \/ RegisterIdle(c) \/ RegisterEnds(c)
    BY <1>1, <1>6 DEF InterruptReturns, WaitOver, WaitTimesOut, StaleRunSettles, Drained,
         ReplaceFails, ReloadContinues, OldClosed, CloseEnds, RegisterEmits, RegisterIdle,
         RegisterEnds
  <1> QED BY <1>2, <1>3, <1>4, <1>5, <1>6 DEF Continue

LEMMA StepSlot == IInv /\ [Next]_vars => [Slot!Next]_(Slot!vars)
  <1> SUFFICES ASSUME IInv, [Next]_vars PROVE SlotStep
    BY DEF SlotStep
  <1>0. TypeOK /\ CoreInv
    BY DEF IInv
  <1>1. CASE UNCHANGED vars
    BY <1>1, SlotKept DEF vars, SameRun
  <1>2. CASE Provider
    BY <1>0, <1>2, ProviderSlot
  <1>3. ASSUME NEW r \in Runs, Generator(r) PROVE SlotStep
    BY <1>0, <1>3, StartResolvesSlot, StartRejectsSlot, GeneratorEndsSlot DEF Generator
  <1>4. ASSUME NEW c \in Callers, Request(c) \/ Continue(c) PROVE SlotStep
    BY <1>0, <1>4, RequestSlot, ContinueSlot
  <1> QED BY <1>1, <1>2, <1>3, <1>4 DEF Next

LEMMA InitSlot == Init => Slot!Init
  <1> SUFFICES ASSUME Init PROVE Slot!Init
    OBVIOUS
  <1>1. Started = {} /\ Active = {}
    BY DEF Init, NoRun, Started, Active, Live
  <1>2. current \in Agents /\ pending = None
    BY ConstantsAssumption DEF Init, ConstantsAssumption, Agents
  <1> QED BY <1>1, <1>2 DEF Slot!Init

\* The manager implements the one place for a run: whatever requests overlap and whatever
\* the provider does, a run starts only when the place is free, it keeps it until it is
\* over, and its place passes to the next one by its own generator or with the agent.
THEOREM RunsImplementSlot == Spec => ImplementsSlot
  <1> QED BY InitSlot, IInvHolds, StepSlot, PTL DEF Spec, ImplementsSlot, Slot!Spec

-----------------------------------------------------------------------------
(* Replacements shown to the clients *)

\* The clients only send and cancel, each prompt after the previous one has started, and
\* the provider ends a turn once, after its startTurn has resolved.
QuietEnvironment ==
    /\ Requests \subseteq {"send", "cancel"}
    /\ ~EarlyTerminals /\ ~StaleTerminals /\ ~Autonomous
    /\ SerialSends

\* A run and its turn once the requests are sends and cancels only: the provider's session
\* has no turn but that of the agent's run, and the clients see the agent as it is.
TurnsAgree ==
    /\ \A a \in Agents : ~session[a].autonomous
    /\ \A a \in Agents \ {current} : session[a].active = None /\ agent[a].turn = None
    /\ \A r \in Runs : run[r].st = "starting" /\ run[r].accepted => session[current].active = r
    /\ agent[current].turn # None => session[current].active = agent[current].turn
    /\ agent[current].turn # None => agent[current].life = "running"
    /\ shown = agent[current].life

\* The agent stays registered, every run is its own, and a run that was refused keeps the entry.
AgentStays ==
    /\ current # None
    /\ agent[current].subscribed
    /\ \A r \in Runs : run[r].st # "unused" => run[r].agent = current
    /\ \A r \in Runs : run[r].st = "failed" => pending = r

\* A prompt of caller c is on its way to its start.
Sending(c) ==
    /\ call[c].op \in {"stream", "replace"}
    /\ call[c].pc = "draining" => run[call[c].run].st = "starting"

OneSends ==
    /\ \A c \in Callers :
         /\ call[c].op \in {"none", "stream", "replace", "cancel"}
         /\ call[c].pc \in {"idle", "interrupt", "waitTurn", "waitState", "waitRun", "force",
                            "waitStale", "cancelled", "draining"}
         /\ call[c].pc = "draining" =>
               call[c].run # None /\ run[call[c].run].st # "unused"
    /\ \A c, d \in Callers : Sending(c) /\ Sending(d) => c = d

QuietInv == IInv /\ AgentStays /\ TurnsAgree /\ OneSends

\* A run that has started is not unused again, and does not start again.
RunsGoOn ==
    \A r \in Runs : run[r].st # "unused" =>
        /\ run'[r].st # "unused"
        /\ run'[r].st = "starting" => run[r].st = "starting"

Quiet == AgentStays' /\ TurnsAgree' /\ RunsGoOn

\* A step that leaves sessions, runs and what the clients see alone.
LEMMA QuietKept ==
    ASSUME QuietInv, UNCHANGED <<current, session, run, pending, shown>>,
           \A a \in Agents : /\ agent'[a].turn = agent[a].turn
                             /\ agent'[a].life = agent[a].life
                             /\ agent'[a].subscribed = agent[a].subscribed
    PROVE  Quiet
  <1>1. current \in Agents
    BY DEF QuietInv, IInv, TypeOK, AgentStays
  <1> QED BY <1>1 DEF QuietInv, Quiet, AgentStays, TurnsAgree, RunsGoOn

\* What a terminal event of the agent's own turn, or of none, does to the agent: clients
\* are told of the change, and of no idle while a replacement is on its way.
LEMMA AfterTerminalShown ==
    ASSUME NEW rec \in AgentRecords, NEW kind \in Terminals, NEW r \in Runs,
           rec.turn \in {None, r}, rec.turn # None => rec.life = "running"
    PROVE  /\ AfterTerminal(rec, kind, r).turn = None
           /\ AfterTerminal(rec, kind, r).subscribed = rec.subscribed
           /\ ~EmitsState(rec, kind, r) => AfterTerminal(rec, kind, r).life = rec.life
           /\ rec.replacing /\ AfterTerminal(rec, kind, r).life = "idle" => rec.life = "idle"
  BY NoneIsNoRun DEF AfterTerminal, EmitsState, AgentRecords, Terminals

LEMMA DispatchQuiet ==
    ASSUME QuietInv, NEW kind \in Terminals, NEW r \in Runs,
           DispatchTerminal(current, kind, r), UNCHANGED <<current, pending>>,
           agent[current].turn \in {None, r},
           \/ UNCHANGED session
           \/ /\ session[current].active = r /\ run[r].st # "starting"
              /\ session' = [session EXCEPT ![current].active = None]
    PROVE  /\ Quiet
           /\ agent[current].replacing /\ shown' = "idle" => shown = "idle"
  <1> DEFINE new == AfterTerminal(agent[current], kind, r)
  <1>0. TypeOK /\ AgentStays /\ TurnsAgree
    BY DEF QuietInv, IInv
  <1>1. current \in Agents /\ agent[current] \in AgentRecords
    BY <1>0 DEF TypeOK, AgentStays
  <1>2. agent[current].turn # None => agent[current].life = "running"
    BY <1>0 DEF TurnsAgree
  <1>3. /\ new.turn = None
        /\ new.subscribed = agent[current].subscribed
        /\ ~EmitsState(agent[current], kind, r) => new.life = agent[current].life
        /\ agent[current].replacing /\ new.life = "idle" => agent[current].life = "idle"
    BY <1>1, <1>2, AfterTerminalShown
  <1> HIDE DEF new
  <1>4. agent'[current] = new /\ \A a \in Agents \ {current} : agent'[a] = agent[a]
    BY <1>0, <1>1 DEF DispatchTerminal, TypeOK, new
  <1>5. shown' = new.life
    BY <1>0, <1>3 DEF DispatchTerminal, TurnsAgree, new
  <1>6. \A q \in Runs : /\ run'[q].st = run[q].st
                        /\ run'[q].agent = run[q].agent
                        /\ run'[q].accepted = run[q].accepted
    <2>1. \A q \in Runs :
            run'[q] \in {run[q], [run[q] EXCEPT !.waiter = FALSE, !.woken = TRUE]}
      BY DEF DispatchTerminal
    <2>2. \A rec \in RunRecords :
            LET woken == [rec EXCEPT !.waiter = FALSE, !.woken = TRUE]
            IN  woken.st = rec.st /\ woken.agent = rec.agent /\ woken.accepted = rec.accepted
      BY DEF RunRecords
    <2>3. \A q \in Runs : run[q] \in RunRecords
      BY <1>0 DEF TypeOK
    <2> QED BY <2>1, <2>2, <2>3
  <1>7. /\ \A a \in Agents : session'[a].autonomous = session[a].autonomous
        /\ \A a \in Agents \ {current} : session'[a] = session[a]
        /\ \/ session'[current].active = session[current].active
           \/ session[current].active = r /\ run[r].st # "starting"
    BY <1>0, <1>1 DEF TypeOK, SessionRecords
  <1>8. AgentStays'
    <2>1. agent'[current].subscribed
      BY <1>0, <1>3, <1>4 DEF AgentStays
    <2> QED BY <1>0, <1>6, <2>1 DEF AgentStays
  <1>9. \A q \in Runs : run'[q].st = "starting" /\ run'[q].accepted =>
           session'[current].active = q
    BY <1>0, <1>6, <1>7 DEF TurnsAgree
  <1>10. TurnsAgree'
    BY <1>0, <1>3, <1>4, <1>5, <1>7, <1>9 DEF TurnsAgree
  <1>11. RunsGoOn
    BY <1>6 DEF RunsGoOn
  <1>12. agent[current].replacing /\ shown' = "idle" => shown = "idle"
    BY <1>0, <1>3, <1>5 DEF TurnsAgree
  <1> QED BY <1>8, <1>10, <1>11, <1>12 DEF Quiet

\* The end of a turn does not show the agent idle while a replacement is on its way: the
\* turn that ends is the agent's, and a run that is starting has the session to itself.
LEMMA TurnEndsQuiet ==
    ASSUME QuietEnvironment, QuietInv, NEW a \in Agents, TurnEnds(a)
    PROVE  /\ Quiet
           /\ agent[current].replacing /\ shown' = "idle" => shown = "idle"
           /\ \A r \in Runs : ~(run[r].st = "starting" /\ run[r].accepted)
  <1>0. TypeOK /\ AgentStays /\ TurnsAgree
    BY DEF QuietInv, IInv
  <1>1. a = current /\ session[current].active # None
    BY <1>0 DEF TurnEnds, TurnsAgree
  <1> DEFINE r == session[current].active
  <1>2. r \in Runs
    BY <1>0, <1>1 DEF TypeOK, SessionRecords
  <1>3. run[r].st # "starting"
    BY <1>1 DEF TurnEnds, QuietEnvironment
  <1>4. PICK kind \in Terminals : DispatchTerminal(current, kind, r)
    BY <1>0, <1>1 DEF TurnEnds, DeliverTerminal, AgentStays
  <1>5. agent[current].turn \in {None, r}
    BY <1>0 DEF TurnsAgree
  <1>6. UNCHANGED <<current, pending>>
        /\ session' = [session EXCEPT ![current].active = None]
    BY <1>1 DEF TurnEnds
  <1>7. \A q \in Runs : ~(run[q].st = "starting" /\ run[q].accepted)
    BY <1>0, <1>3 DEF TurnsAgree
  <1> HIDE DEF r
  <1>8. session[current].active = r
    BY DEF r
  <1>9. Quiet /\ (agent[current].replacing /\ shown' = "idle" => shown = "idle")
    BY <1>2, <1>3, <1>4, <1>5, <1>6, <1>8, DispatchQuiet
  <1> QED BY <1>7, <1>9

LEMMA TurnStartedQuiet ==
    ASSUME QuietInv, NEW a \in Agents, TurnStarted(a)
    PROVE  Quiet /\ (shown' = "idle" => shown = "idle")
  <1>0. TypeOK /\ AgentStays /\ TurnsAgree
    BY DEF QuietInv, IInv
  <1>1. current \in Agents
    BY <1>0 DEF TypeOK, AgentStays
  <1>2. CASE UNCHANGED <<agent, shown>>
    BY <1>2, QuietKept DEF TurnStarted
  <1>3. CASE agent' = [agent EXCEPT ![current].life = "running"] /\ shown' = "running"
    <2>1. /\ agent'[current].life = "running"
          /\ agent'[current].turn = agent[current].turn
          /\ agent'[current].subscribed = agent[current].subscribed
          /\ \A b \in Agents \ {current} : agent'[b] = agent[b]
      BY <1>0, <1>1, <1>3 DEF TypeOK, AgentRecords
    <2>2. UNCHANGED <<current, session, run, pending>>
      BY DEF TurnStarted
    <2>3. AgentStays' /\ RunsGoOn
      BY <1>0, <2>1, <2>2 DEF AgentStays, RunsGoOn
    <2>4. TurnsAgree'
      BY <1>0, <1>3, <2>1, <2>2 DEF TurnsAgree
    <2> QED BY <1>3, <2>3, <2>4 DEF Quiet
  <1> QED BY <1>2, <1>3 DEF TurnStarted, DeliverStarted

LEMMA StartResolvesQuiet ==
    ASSUME QuietInv, NEW r \in Runs, StartResolves(r)
    PROVE  Quiet /\ shown' = "running"
  <1>0. TypeOK /\ AgentStays /\ TurnsAgree
    BY DEF QuietInv, IInv
  <1>1. /\ run[r].st = "starting" /\ run[r].accepted /\ run[r].agent = current
        /\ UNCHANGED <<current, session, pending>> /\ shown' = "running"
    BY <1>0 DEF StartResolves, AgentStays
  <1>2. current \in Agents
    BY <1>0 DEF TypeOK, AgentStays
  <1>3. /\ run'[r].st = "streaming" /\ run'[r].agent = run[r].agent
        /\ \A q \in Runs \ {r} : run'[q] = run[q]
    BY <1>0 DEF StartResolves, TypeOK, RunRecords
  <1>4. /\ agent'[current].turn = r /\ agent'[current].life = "running"
        /\ agent'[current].subscribed = agent[current].subscribed
        /\ \A b \in Agents \ {current} : agent'[b] = agent[b]
    BY <1>0, <1>1, <1>2 DEF StartResolves, TypeOK, AgentRecords
  <1>5. AgentStays' /\ RunsGoOn
    BY <1>0, <1>1, <1>3, <1>4 DEF AgentStays, RunsGoOn
  <1>6. TurnsAgree'
    BY <1>0, <1>1, <1>3, <1>4 DEF TurnsAgree
  <1> QED BY <1>1, <1>5, <1>6 DEF Quiet

LEMMA StartRejectsQuiet ==
    ASSUME QuietInv, NEW r \in Runs, StartRejects(r)
    PROVE  Quiet /\ shown' = "error"
  <1>0. TypeOK /\ AgentStays /\ TurnsAgree /\ LiveRunIsPending
    BY DEF QuietInv, IInv, CoreInv
  <1>1. /\ run[r].st = "starting" /\ run[r].agent = current
        /\ UNCHANGED <<current, pending>> /\ shown' = "error"
    BY <1>0 DEF StartRejects, AgentStays
  <1>2. current \in Agents /\ pending = r
    BY <1>0, <1>1 DEF TypeOK, AgentStays, LiveRunIsPending, Live
  <1>3. /\ run'[r].st = "failed" /\ run'[r].agent = run[r].agent
        /\ \A q \in Runs \ {r} : run'[q] = run[q]
    BY <1>0 DEF StartRejects, TypeOK, RunRecords
  <1>4. /\ agent'[current].turn = None /\ agent'[current].life = "error"
        /\ agent'[current].subscribed = agent[current].subscribed
        /\ \A b \in Agents \ {current} : agent'[b] = agent[b]
    BY <1>0, <1>1, <1>2 DEF StartRejects, TypeOK, AgentRecords
  <1>5. /\ session'[current] = Freed(session[current], r)
        /\ \A b \in Agents \ {current} : session'[b] = session[b]
    BY <1>0, <1>1, <1>2 DEF StartRejects, TypeOK
  <1>6. /\ session'[current].autonomous = session[current].autonomous
        /\ session[current].active # r => session'[current].active = session[current].active
    BY <1>0, <1>2, <1>5 DEF Freed, TypeOK, SessionRecords
  <1>7. AgentStays' /\ RunsGoOn
    BY <1>0, <1>1, <1>2, <1>3, <1>4 DEF AgentStays, RunsGoOn
  <1>8. \A q \in Runs : run'[q].st = "starting" /\ run'[q].accepted =>
           session'[current].active = q
    BY <1>0, <1>3, <1>6 DEF TurnsAgree
  <1>9. TurnsAgree'
    BY <1>0, <1>1, <1>2, <1>4, <1>5, <1>6, <1>8 DEF TurnsAgree
  <1> QED BY <1>1, <1>7, <1>9 DEF Quiet

LEMMA GeneratorEndsQuiet ==
    ASSUME QuietInv, NEW r \in Runs, GeneratorEnds(r)
    PROVE  Quiet /\ UNCHANGED shown
  <1>0. TypeOK /\ AgentStays /\ TurnsAgree
    BY DEF QuietInv, IInv
  <1>1. ASSUME NEW q \in Runs
        PROVE  /\ run'[q].st = IF q = r THEN "done" ELSE run[q].st
               /\ run'[q].agent = run[q].agent
               /\ run'[q].accepted = run[q].accepted
    <2>1. run[q] \in RunRecords
      BY <1>0 DEF TypeOK
    <2>2. PICK settled :
            run'[q] = [run[q] EXCEPT !.st = IF q = r THEN "done" ELSE @, !.settled = settled]
      BY DEF GeneratorEnds
    <2> QED BY <2>1, <2>2 DEF RunRecords
  <1>2. /\ run[r].st = "streaming" /\ (pending # r => pending' = pending)
        /\ UNCHANGED <<current, agent, session, shown>>
    BY DEF GeneratorEnds, OwnEntry
  <1>3. AgentStays' /\ RunsGoOn
    BY <1>0, <1>1, <1>2 DEF AgentStays, RunsGoOn
  <1>4. TurnsAgree'
    BY <1>0, <1>1, <1>2 DEF TurnsAgree
  <1> QED BY <1>2, <1>3, <1>4 DEF Quiet

LEMMA StartRunQuiet ==
    ASSUME QuietInv, NEW c, NEW op, StartRun(c, op)
    PROVE  Quiet /\ UNCHANGED shown
  <1>0. TypeOK /\ AgentStays /\ TurnsAgree
    BY DEF QuietInv, IInv
  <1>1. /\ current \in Agents /\ agent[current].turn = None /\ pending = None
        /\ UNCHANGED <<current, shown>>
    BY <1>0 DEF StartRun, Free, TypeOK
  <1>2. PICK r \in Runs :
          /\ run[r].st = "unused"
          /\ LET accepted == ~session[current].closed /\ session[current].active = None
             IN  /\ run' = [run EXCEPT ![r] = [NoRun EXCEPT !.st = "starting",
                                                 !.agent = current, !.accepted = accepted]]
                 /\ session' = [session EXCEPT ![current].active = IF accepted THEN r ELSE @]
          /\ pending' = r
    BY DEF StartRun
  <1> DEFINE accepted == ~session[current].closed /\ session[current].active = None
  <1>3. /\ run'[r].st = "starting" /\ run'[r].agent = current
        /\ run'[r].accepted = accepted
        /\ \A q \in Runs \ {r} : run'[q] = run[q]
    BY <1>0, <1>2 DEF TypeOK, NoRun
  <1>4. /\ session'[current].active = IF accepted THEN r ELSE session[current].active
        /\ session'[current].autonomous = session[current].autonomous
        /\ \A b \in Agents \ {current} : session'[b] = session[b]
    BY <1>0, <1>1, <1>2 DEF TypeOK, SessionRecords
  <1>5. \A b \in Agents : /\ agent'[b].turn = agent[b].turn
                          /\ agent'[b].life = agent[b].life
                          /\ agent'[b].subscribed = agent[b].subscribed
    BY <1>0, <1>1 DEF StartRun, TypeOK, AgentRecords
  <1>6. \A q \in Runs : run[q].st # "failed"
    BY <1>0, <1>1, NoneIsNoRun DEF AgentStays
  <1>7. AgentStays' /\ RunsGoOn
    BY <1>0, <1>1, <1>2, <1>3, <1>5, <1>6 DEF AgentStays, RunsGoOn
  <1>8. \A q \in Runs : run'[q].st = "starting" /\ run'[q].accepted =>
           session'[current].active = q
    <2>1. ASSUME NEW q \in Runs \ {r}, run'[q].st = "starting", run'[q].accepted
          PROVE  session'[current].active = q
      <3>1. session[current].active = q
        BY <1>0, <1>3, <2>1 DEF TurnsAgree
      <3>2. ~accepted
        BY <3>1, NoneIsNoRun
      <3> QED BY <1>4, <3>1, <3>2
    <2>2. run'[r].accepted => session'[current].active = r
      BY <1>3, <1>4
    <2> QED BY <2>1, <2>2
  <1>9. TurnsAgree'
    BY <1>0, <1>1, <1>4, <1>5, <1>8 DEF TurnsAgree
  <1> QED BY <1>1, <1>7, <1>9 DEF Quiet

LEMMA ReplaceFailsQuiet ==
    ASSUME QuietInv, NEW c, ReplaceFails(c)
    PROVE  Quiet /\ ~agent'[current].replacing
  <1> DEFINE new == Released(agent[current])
  <1>0. TypeOK /\ AgentStays /\ TurnsAgree
    BY DEF QuietInv, IInv
  <1>1. current \in Agents /\ current # None /\ agent[current] \in AgentRecords
    BY <1>0 DEF TypeOK, AgentStays
  <1>2. /\ new.turn = agent[current].turn
        /\ new.subscribed = agent[current].subscribed
        /\ ~new.replacing
        /\ new.life = agent[current].life \/ (new.turn = None /\ new.life = "idle")
    BY <1>1 DEF Released, AgentRecords
  <1> HIDE DEF new
  <1>3. /\ agent' = [agent EXCEPT ![current] = new]
        /\ shown' = IF new.life # agent[current].life THEN "idle" ELSE shown
        /\ UNCHANGED <<current, session, run, pending>>
    BY <1>1 DEF ReplaceFails, new
  <1>4. agent'[current] = new /\ \A b \in Agents \ {current} : agent'[b] = agent[b]
    BY <1>0, <1>1, <1>3 DEF TypeOK
  <1>5. AgentStays' /\ RunsGoOn
    BY <1>0, <1>2, <1>3, <1>4 DEF AgentStays, RunsGoOn
  <1>6. shown' = new.life
    BY <1>0, <1>2, <1>3 DEF TurnsAgree
  <1>7. TurnsAgree'
    BY <1>0, <1>2, <1>3, <1>4, <1>6 DEF TurnsAgree
  <1> QED BY <1>2, <1>4, <1>5, <1>7 DEF Quiet

\* A caller never leaves the waits of a cancel but for its own run, or to be idle.
CallShape(c) ==
    /\ call[c].op \in {"none", "stream", "replace", "cancel"}
    /\ call[c].pc \in {"idle", "interrupt", "waitTurn", "waitState", "waitRun", "force",
                       "waitStale", "cancelled", "draining"}
    /\ call[c].pc = "draining" => call[c].run # None /\ run[call[c].run].st # "unused"

\* A caller that is left alone does not begin to send, whatever the runs do.
LEMMA SendingKept ==
    ASSUME TypeOK, OneSends, RunsGoOn, NEW c \in Callers, call'[c] = call[c]
    PROVE  CallShape(c)' /\ (Sending(c)' => Sending(c))
  <1>1. CASE call[c].pc = "draining"
    <2>1. call[c].run \in Runs /\ run[call[c].run].st # "unused"
      BY <1>1 DEF OneSends, TypeOK, CallRecords
    <2> QED BY <2>1 DEF OneSends, RunsGoOn, CallShape, Sending
  <1>2. CASE call[c].pc # "draining"
    BY <1>2 DEF OneSends, CallShape, Sending
  <1> QED BY <1>1, <1>2

LEMMA SendsKept ==
    ASSUME TypeOK, OneSends, RunsGoOn, UNCHANGED call
    PROVE  OneSends'
  <1>1. \A c \in Callers : CallShape(c)' /\ (Sending(c)' => Sending(c))
    BY SendingKept
  <1> QED BY <1>1 DEF OneSends, CallShape

\* One caller goes on; if it begins to send, no other does.
LEMMA SendsOne ==
    ASSUME TypeOK, OneSends, RunsGoOn, NEW c \in Callers,
           \A d \in Callers \ {c} : call'[d] = call[d], CallShape(c)',
           Sending(c)' => Sending(c) \/ \A d \in Callers \ {c} : ~Sending(d)
    PROVE  OneSends'
  <1>1. \A d \in Callers \ {c} : CallShape(d)' /\ (Sending(d)' => Sending(d))
    BY SendingKept
  <1>2. \A d \in Callers : CallShape(d)'
    BY <1>1
  <1>3. ASSUME NEW d \in Callers, NEW e \in Callers, Sending(d)', Sending(e)' PROVE d = e
    <2>1. ASSUME NEW f \in Callers \ {c}, Sending(f)', Sending(c)' PROVE FALSE
      BY <1>1, <2>1 DEF OneSends
    <2>2. CASE d # c /\ e # c
      BY <1>1, <1>3, <2>2 DEF OneSends
    <2> QED BY <1>3, <2>1, <2>2
  <1> QED BY <1>2, <1>3 DEF OneSends, CallShape

\* With SerialSends a prompt is taken only when no other is on its way.
LEMMA MaySendAlone ==
    ASSUME QuietEnvironment, TypeOK, OneSends, NEW c \in Callers, MaySend(c)
    PROVE  \A d \in Callers \ {c} : ~Sending(d)
  BY DEF QuietEnvironment, MaySend, Sending

\* The caller of a run that starts.
LEMMA StartRunSends ==
    ASSUME QuietInv, NEW c \in Callers, NEW op \in {"stream", "replace"}, StartRun(c, op),
           Sending(c) \/ \A d \in Callers \ {c} : ~Sending(d)
    PROVE  OneSends'
  <1>0. TypeOK /\ OneSends /\ RunsGoOn
    BY StartRunQuiet DEF QuietInv, IInv, Quiet
  <1>1. PICK r \in Runs :
          /\ \E accepted :
               run' = [run EXCEPT ![r] = [NoRun EXCEPT !.st = "starting",
                                            !.agent = current, !.accepted = accepted]]
          /\ call' = [call EXCEPT ![c] =
                        [NoCall EXCEPT !.op = op, !.pc = "draining", !.run = r]]
    BY DEF StartRun
  <1>2. call'[c].op = op /\ call'[c].pc = "draining" /\ call'[c].run = r
    BY <1>0, <1>1 DEF TypeOK, NoCall
  <1>3. run'[r].st = "starting"
    BY <1>0, <1>1 DEF TypeOK, NoRun
  <1>4. \A d \in Callers \ {c} : call'[d] = call[d]
    BY <1>0, <1>1 DEF TypeOK
  <1>5. CallShape(c)'
    BY <1>2, <1>3, NoneIsNoRun DEF CallShape
  <1> QED BY <1>0, <1>4, <1>5, SendsOne

\* The caller of a replacement that fails is idle.
LEMMA ReplaceFailsSends ==
    ASSUME QuietInv, NEW c \in Callers, ReplaceFails(c)
    PROVE  OneSends'
  <1>0. TypeOK /\ OneSends /\ RunsGoOn
    BY ReplaceFailsQuiet DEF QuietInv, IInv, Quiet
  <1>1. call'[c] = NoCall /\ \A d \in Callers \ {c} : call'[d] = call[d]
    BY <1>0 DEF ReplaceFails, TypeOK
  <1>2. CallShape(c)' /\ ~Sending(c)'
    BY <1>1 DEF CallShape, Sending, NoCall
  <1> QED BY <1>0, <1>1, <1>2, SendsOne

-----------------------------------------------------------------------------
(* Which steps show the agent idle *)

\* This step shows no idle in the middle of a replacement.
NoIdle ==
    ReplacementUnderWay /\ ReplacementUnderWay' => ~(shown = "running" /\ shown' = "idle")

QuietNext == Quiet /\ OneSends' /\ NoIdle

LEMMA ProviderQuietNext ==
    ASSUME QuietEnvironment, QuietInv, Provider
    PROVE  QuietNext
  <1>0. TypeOK /\ AgentStays /\ TurnsAgree /\ OneSends
    BY DEF QuietInv, IInv
  <1>1. PICK a \in Agents : TurnStarted(a) \/ TurnEnds(a)
    BY <1>0 DEF Provider, QuietEnvironment, TurnEndsAgain, AutonomousStarts, AutonomousEnds,
                TurnsAgree
  <1>2. UNCHANGED call
    BY <1>1 DEF TurnStarted, TurnEnds
  <1>3. CASE TurnStarted(a)
    <2>1. Quiet /\ NoIdle
      BY <1>3, TurnStartedQuiet DEF NoIdle
    <2> QED BY <1>0, <1>2, <2>1, SendsKept DEF Quiet, QuietNext
  <1>4. CASE TurnEnds(a)
    <2>1. /\ Quiet
          /\ agent[current].replacing /\ shown' = "idle" => shown = "idle"
          /\ \A r \in Runs : ~(run[r].st = "starting" /\ run[r].accepted)
      BY <1>4, TurnEndsQuiet
    <2>2. \A r \in Runs : run[r].st # "starting"
      BY <2>1 DEF Provider
    <2>3. ReplacementUnderWay => agent[current].replacing
      BY <1>0, <2>2 DEF ReplacementUnderWay, OneSends, TypeOK, CallRecords
    <2>4. NoIdle
      BY <2>1, <2>3 DEF NoIdle
    <2> QED BY <1>0, <1>2, <2>1, <2>4, SendsKept DEF Quiet, QuietNext
  <1> QED BY <1>1, <1>3, <1>4

LEMMA GeneratorQuietNext ==
    ASSUME QuietInv, NEW r \in Runs, Generator(r)
    PROVE  QuietNext
  <1>1. Quiet /\ shown' \in {"running", "error", shown}
    BY StartResolvesQuiet, StartRejectsQuiet, GeneratorEndsQuiet DEF Generator
  <1>2. UNCHANGED call
    BY DEF Generator, StartResolves, StartRejects, GeneratorEnds
  <1>3. OneSends'
    BY <1>1, <1>2, SendsKept DEF QuietInv, IInv, Quiet
  <1> QED BY <1>1, <1>3 DEF QuietNext, NoIdle

LEMMA RequestQuietNext ==
    ASSUME QuietEnvironment, QuietInv, NEW c \in Callers, Request(c)
    PROVE  QuietNext
  <1>0. TypeOK /\ AgentStays /\ OneSends
    BY DEF QuietInv, IInv
  <1>1. CASE RequestCancel(c)
    <2>1. Quiet /\ UNCHANGED shown
      BY <1>1, QuietKept DEF RequestCancel
    <2>2. call'[c] = Began("cancel") /\ \A d \in Callers \ {c} : call'[d] = call[d]
      BY <1>0, <1>1 DEF RequestCancel, TypeOK
    <2>3. CallShape(c)' /\ ~Sending(c)'
      BY <2>2 DEF Began, CallShape, Sending
    <2>4. OneSends'
      BY <1>0, <2>1, <2>2, <2>3, SendsOne DEF Quiet
    <2> QED BY <2>1, <2>4 DEF QuietNext, NoIdle
  <1>2. CASE RequestSend(c)
    <2>1. \A d \in Callers \ {c} : ~Sending(d)
      BY <1>0, <1>2, MaySendAlone DEF RequestSend
    <2>2. CASE StartRun(c, "stream")
      BY <2>1, <2>2, StartRunQuiet, StartRunSends DEF QuietNext, NoIdle
    <2>3. CASE ~StartRun(c, "stream")
      <3>1. /\ agent' = [agent EXCEPT ![current] = [@ EXCEPT !.replacing = TRUE]]
            /\ call' = [call EXCEPT ![c] = Began("replace")]
            /\ UNCHANGED <<current, session, run, pending, shown>>
        BY <1>2, <2>3 DEF RequestSend
      <3>2. \A a \in Agents : /\ agent'[a].turn = agent[a].turn
                              /\ agent'[a].life = agent[a].life
                              /\ agent'[a].subscribed = agent[a].subscribed
        BY <1>0, <3>1 DEF TypeOK, AgentRecords
      <3>3. Quiet
        BY <3>1, <3>2, QuietKept
      <3>4. call'[c] = Began("replace") /\ \A d \in Callers \ {c} : call'[d] = call[d]
        BY <1>0, <3>1 DEF TypeOK
      <3>5. CallShape(c)'
        BY <3>4 DEF Began, CallShape
      <3>6. OneSends'
        BY <1>0, <2>1, <3>3, <3>4, <3>5, SendsOne DEF Quiet
      <3> QED BY <3>1, <3>3, <3>6 DEF QuietNext, NoIdle
    <2> QED BY <2>2, <2>3
  <1> QED BY <1>1, <1>2 DEF Request, RequestClose, RequestReload, RequestResume,
                            QuietEnvironment

\* A replacement that fails was the only one: no other is sent, or the entry is its own.
LEMMA ReplaceFailsNoIdle ==
    ASSUME QuietInv, NEW c \in Callers, ReplaceFails(c),
           Sending(c) \/ (call[c].pc = "draining" /\ run[call[c].run].st = "failed")
    PROVE  NoIdle
  <1>0. TypeOK /\ AgentStays /\ OneSends /\ LiveRunIsPending
    BY DEF QuietInv, IInv, CoreInv
  <1> SUFFICES ASSUME ReplacementUnderWay' PROVE FALSE
    BY DEF NoIdle
  <1>1. ~agent'[current].replacing /\ UNCHANGED <<current, run>>
    BY ReplaceFailsQuiet DEF ReplaceFails
  <1>2. PICK d \in Callers : /\ call'[d].op = "replace" /\ call'[d].pc = "draining"
                             /\ run[call'[d].run].st = "starting"
    BY <1>1 DEF ReplacementUnderWay
  <1>3. call'[c] = NoCall /\ \A e \in Callers \ {c} : call'[e] = call[e]
    BY <1>0 DEF ReplaceFails, TypeOK
  <1>4. d # c /\ call'[d] = call[d] /\ Sending(d)
    BY <1>2, <1>3 DEF NoCall, Sending
  <1>5. run[call[c].run].st = "failed" /\ call[c].run \in Runs /\ call[d].run \in Runs
    BY <1>0, <1>2, <1>4 DEF OneSends, TypeOK, CallRecords
  <1>6. pending = call[c].run
    BY <1>0, <1>5 DEF AgentStays
  <1>7. pending = call[d].run
    BY <1>0, <1>2, <1>4, <1>5 DEF AgentStays, LiveRunIsPending, Live
  <1> QED BY <1>2, <1>4, <1>5, <1>6, <1>7

\* A forced cancel ends the agent's active turn, beside which no run is starting.
LEMMA ForceCancelQuiet ==
    ASSUME QuietInv, NEW c \in Callers, ForceCancel(c)
    PROVE  Quiet /\ NoIdle
  <1> DEFINE k == call[c]
  <1>0. TypeOK /\ AgentStays /\ TurnsAgree /\ OneSends /\ LiveRunIsPending /\ TurnHasItsRun
        /\ CallOK(c)
    BY DEF QuietInv, IInv, CoreInv
  <1>1. CASE StillActive(k)
    <2>1. k.turn \in Runs /\ k.agent \in Agents
      BY <1>0, <1>1, NoneIsNoRun DEF StillActive, CallOK, TypeOK, CallRecords
    <2>2. k.agent = current /\ agent[current].turn = k.turn
      BY <1>0, <1>1, <2>1 DEF StillActive, TurnsAgree
    <2>3. DispatchTerminal(current, "canceled", k.turn) /\ UNCHANGED <<current, session, pending>>
      BY <1>1, <2>2 DEF ForceCancel
    <2>4. "canceled" \in Terminals
      BY DEF Terminals
    <2> HIDE DEF k
    <2>5. Quiet /\ (agent[current].replacing /\ shown' = "idle" => shown = "idle")
      BY <2>1, <2>2, <2>3, <2>4, DispatchQuiet
    <2>6. \A r \in Runs : run[r].st # "starting"
      <3>1. Waiting(current, k.turn) /\ pending = k.turn
        BY <1>0, <2>1, <2>2, NoneIsNoRun DEF TurnHasItsRun, AgentStays
      <3> QED BY <1>0, <3>1 DEF Waiting, AgentStays, LiveRunIsPending, Live
    <2>7. ReplacementUnderWay => agent[current].replacing
      BY <1>0, <2>6 DEF ReplacementUnderWay, OneSends, TypeOK, CallRecords
    <2> QED BY <2>5, <2>7 DEF NoIdle
  <1>2. CASE ~StillActive(k)
    BY <1>2, QuietKept DEF ForceCancel, NoIdle
  <1> QED BY <1>1, <1>2

\* The waits of a cancel, which change only the caller.
LEMMA WaitsQuiet ==
    ASSUME QuietInv, NEW c \in Callers,
           \/ InterruptReturns(c) \/ WaitOver(c) \/ WaitTimesOut(c) \/ StaleRunSettles(c)
           \/ ForceCancel(c)
    PROVE  OneSends' \/ ~RunsGoOn
  <1> SUFFICES ASSUME RunsGoOn PROVE OneSends'
    OBVIOUS
  <1>0. TypeOK /\ OneSends
    BY DEF QuietInv, IInv
  <1>1. call[c] \in CallRecords
    BY <1>0 DEF TypeOK
  <1>2. call[c].pc \notin {"draining", "idle", "cancelled"}
    BY DEF InterruptReturns, WaitOver, WaitTimesOut, StaleRunSettles, ForceCancel
  <1>3. /\ \A d \in Callers \ {c} : call'[d] = call[d]
        /\ \/ call'[c] = NoCall
           \/ /\ call'[c].op = call[c].op
              /\ call'[c].pc \in {"waitTurn", "waitState", "waitRun", "force", "waitStale",
                                  "cancelled"}
    <2>1. CASE InterruptReturns(c) \/ WaitOver(c) \/ WaitTimesOut(c)
      <3>1. PICK pc \in {"waitTurn", "waitState", "waitRun", "force"} :
              call' = [call EXCEPT ![c] = [call[c] EXCEPT !.pc = pc]]
        BY <2>1 DEF InterruptReturns, WaitOver, WaitTimesOut, PastTurn
      <3> QED BY <1>0, <1>1, <3>1 DEF TypeOK, CallRecords
    <2>2. CASE StaleRunSettles(c) \/ ForceCancel(c)
      <3>1. \/ call' = [call EXCEPT ![c] = Returned(call[c])]
            \/ call' = [call EXCEPT ![c] = [call[c] EXCEPT !.pc = "waitStale", !.run = pending]]
        BY <2>2 DEF StaleRunSettles, ForceCancel
      <3>2. PICK k : /\ call' = [call EXCEPT ![c] = k]
                     /\ \/ k = NoCall
                        \/ k = [call[c] EXCEPT !.pc = "cancelled"]
                        \/ k = [call[c] EXCEPT !.pc = "waitStale", !.run = pending]
        BY <3>1 DEF Returned
      <3>3. call'[c] = k /\ \A d \in Callers \ {c} : call'[d] = call[d]
        BY <1>0, <3>2 DEF TypeOK
      <3>4. k = NoCall \/ (k.op = call[c].op /\ k.pc \in {"cancelled", "waitStale"})
        BY <1>1, <3>2 DEF CallRecords
      <3> QED BY <3>3, <3>4
    <2> QED BY <2>1, <2>2
  <1>4. CallShape(c)'
    BY <1>0, <1>3 DEF OneSends, CallShape, NoCall
  <1>5. Sending(c)' => Sending(c)
    BY <1>2, <1>3 DEF Sending, NoCall
  <1> QED BY <1>0, <1>3, <1>4, <1>5, SendsOne

LEMMA ContinueQuietNext ==
    ASSUME QuietInv, NEW c \in Callers, Continue(c)
    PROVE  QuietNext
  <1>0. TypeOK /\ OneSends
    BY DEF QuietInv, IInv
  <1>1. CASE InterruptReturns(c) \/ WaitOver(c) \/ WaitTimesOut(c) \/ StaleRunSettles(c)
    <2>1. Quiet /\ UNCHANGED shown
      BY <1>1, QuietKept DEF InterruptReturns, WaitOver, WaitTimesOut, StaleRunSettles
    <2> QED BY <1>1, <2>1, WaitsQuiet DEF Quiet, QuietNext, NoIdle
  <1>2. CASE ForceCancel(c)
    BY <1>2, ForceCancelQuiet, WaitsQuiet DEF Quiet, QuietNext
  <1>3. CASE ReplaceContinues(c)
    <2>1. Sending(c)
      BY <1>3 DEF ReplaceContinues, Sending
    <2>2. CASE StartRun(c, "replace")
      BY <2>1, <2>2, StartRunQuiet, StartRunSends DEF QuietNext, NoIdle
    <2>3. CASE ReplaceFails(c)
      BY <2>1, <2>3, ReplaceFailsQuiet, ReplaceFailsSends, ReplaceFailsNoIdle DEF QuietNext
    <2> QED BY <1>3, <2>2, <2>3 DEF ReplaceContinues
  <1>4. CASE Drained(c)
    <2>1. CASE ReplaceFails(c) /\ run[call[c].run].st = "failed"
      BY <1>4, <2>1, ReplaceFailsQuiet, ReplaceFailsSends, ReplaceFailsNoIdle
         DEF Drained, QuietNext
    <2>2. CASE call' = [call EXCEPT ![c] = NoCall]
               /\ UNCHANGED <<current, agent, session, run, pending, shown>>
      <3>1. Quiet
        BY <2>2, QuietKept
      <3>2. call'[c] = NoCall /\ \A d \in Callers \ {c} : call'[d] = call[d]
        BY <1>0, <2>2 DEF TypeOK
      <3>3. CallShape(c)' /\ ~Sending(c)'
        BY <3>2 DEF CallShape, Sending, NoCall
      <3> QED BY <1>0, <2>2, <3>1, <3>2, <3>3, SendsOne DEF Quiet, QuietNext, NoIdle
    <2> QED BY <1>4, <2>1, <2>2 DEF Drained
  <1>5. call[c].op # "reload"
        /\ call[c].pc \notin {"closing", "prepare", "closeOld", "title", "init", "ready", "persist"}
    BY <1>0 DEF OneSends
  <1> QED BY <1>1, <1>2, <1>3, <1>4, <1>5 DEF Continue, CloseEnds, ReloadContinues, Prepared,
            OldClosed, Register, RegisterEmits, RegisterIdle, RegisterEnds

LEMMA NextQuiet ==
    ASSUME QuietEnvironment, QuietInv, [Next]_vars
    PROVE  QuietInv' /\ [NoIdle]_vars
  <1>1. IInv'
    BY NextIInv DEF QuietInv
  <1>2. CASE UNCHANGED vars
    <2>1. AgentStays' /\ TurnsAgree' /\ OneSends'
      BY <1>2 DEF vars, QuietInv, AgentStays, TurnsAgree, OneSends, Sending
    <2> QED BY <1>1, <1>2, <2>1 DEF QuietInv
  <1>3. CASE Next
    <2>1. QuietNext
      BY <1>3, ProviderQuietNext, GeneratorQuietNext, RequestQuietNext, ContinueQuietNext
         DEF Next
    <2> QED BY <1>1, <2>1 DEF QuietNext, Quiet, QuietInv
  <1> QED BY <1>2, <1>3

LEMMA InitQuiet == Init => QuietInv
  <1> SUFFICES ASSUME Init PROVE QuietInv
    OBVIOUS
  <1>1. current = 1 /\ 1 \in Agents /\ current # None
    BY ConstantsAssumption DEF Init, ConstantsAssumption, Agents, None
  <1>2. /\ \A a \in Agents : agent[a].turn = None
        /\ agent[1].subscribed /\ agent[1].life = "idle"
        /\ \A a \in Agents : ~session[a].autonomous /\ session[a].active = None
    BY <1>1 DEF Init, NoAgent, NoSession
  <1>3. \A r \in Runs : run[r].st = "unused"
    BY DEF Init, NoRun
  <1>4. AgentStays /\ TurnsAgree
    BY <1>1, <1>2, <1>3 DEF Init, AgentStays, TurnsAgree
  <1>5. OneSends
    BY DEF Init, NoCall, OneSends, Sending
  <1> QED BY <1>4, <1>5, InitIInv DEF QuietInv

\* While a replacement is on its way the clients never see the agent go idle, however many
\* clients send and cancel and whether or not the provider hangs or refuses turns, as long
\* as it ends a turn once and after its start, and prompts come one after the other.
THEOREM NoIdleShown == ASSUME QuietEnvironment PROVE Spec => NoIdleWhileReplacing
  <1>1. QuietInv /\ [Next]_vars => QuietInv' /\ [NoIdle]_vars
    BY NextQuiet
  <1>2. [NoIdle]_vars <=>
          [ReplacementUnderWay /\ ReplacementUnderWay' =>
             ~(shown = "running" /\ shown' = "idle")]_vars
    BY DEF NoIdle
  <1> QED BY InitQuiet, <1>1, <1>2, PTL DEF Spec, NoIdleWhileReplacing

=============================================================================
