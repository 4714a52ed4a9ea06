------------------------------ MODULE LoopService ------------------------------
(***************************************************************************)
(* The loops of the daemon (loop-service.ts): a loop runs a worker agent,    *)
(* verifies what it did with shell commands and a verifier agent, and starts *)
(* over until an iteration passes, a limit is met or it is stopped.  Every   *)
(* change is written to one file, one write at a time.                      *)
(*                                                                         *)
(* Left out: the log lines and the writes that only carry them, names,       *)
(* prompts and models, and the lookup of a loop by a prefix of its id.       *)
(***************************************************************************)
EXTENDS Integers, Sequences, FiniteSets

CONSTANTS
    Loops, NoLoop,
    Torn,           \* a file that cannot be read
    NoWrite,        \* nothing is being written
    MaxIterations,  \* the limit every loop is given
    Checks,         \* shell commands of a verification
    Verifier,       \* there is a verify prompt
    Retries,        \* extra questions to a verifier that gives no verdict
    Deadline,       \* a loop has a time limit
    EarlyStop,      \* a stop may reach a loop before runLoop has returned
    TornWrites,     \* a write that fails or is cut short leaves a broken file
    MaxFailures,    \* bound: writes that fail
    MaxCrashes      \* bound: restarts of the daemon

ASSUME LoopAssumption ==
    /\ MaxIterations \in Nat \ {0} /\ {Checks, Retries, MaxFailures, MaxCrashes} \subseteq Nat
    /\ {Verifier, Deadline, EarlyStop, TornWrites} \subseteq BOOLEAN
    /\ Checks > 0 \/ Verifier

VARIABLES
    up,         \* the daemon runs
    rec,        \* the loops' records
    run,        \* how far executeLoop is
    stop,       \* how far a stopLoop is
    running,    \* the map of running loops
    agents,     \* the agents of a loop that the agent manager has
    queue,      \* the writes that wait, the first one first
    snap,       \* what is being written
    disk,       \* the file
    failures, crashes

service == <<up, rec, run, stop, running, agents>>
store == <<queue, snap, disk>>
vars == <<service, store, failures, crashes>>

Ends == {"succeeded", "failed", "stopped"}
Statuses == {"running"} \cup Ends
Record == [status: {"none"} \cup Statuses, iters: Seq(Statuses), active: Nat,
           agent: {"none", "worker", "verifier"}]
NoRecord == [status |-> "none", iters |-> <<>>, active |-> 0, agent |-> "none"]
Pcs == {"none", "refused", "start", "spawn", "spawning", "work", "working", "closing",
        "check", "checking", "checked", "create", "creating", "verify", "verifying",
        "verdict", "next", "sleeping", "ending", "done"}
NoRun == [pc |-> "none", saving |-> FALSE, aborted |-> FALSE, ok |-> FALSE, n |-> 0]
NoStop == [pc |-> "none", saving |-> FALSE, found |-> FALSE]
Empty == [l \in Loops |-> NoRecord]
Write(who, l) == [who |-> who, of |-> l]

TypeOK ==
    /\ up \in BOOLEAN
    /\ rec \in [Loops -> Record] /\ \A l \in Loops : Len(rec[l].iters) <= MaxIterations
    /\ run \in [Loops -> [pc: Pcs, saving: BOOLEAN, aborted: BOOLEAN, ok: BOOLEAN, n: Nat]]
    /\ stop \in [Loops -> [pc: {"none", "asked", "cancel", "awaiting", "marked", "done"},
                           saving: BOOLEAN, found: BOOLEAN]]
    /\ running \subseteq Loops
    /\ agents \in [Loops -> SUBSET {"worker", "verifier"}]
    /\ queue \in Seq([who: {"run", "stop"}, of: Loops] \cup {Write("init", NoLoop)})
    /\ snap \in [Loops -> Record] \cup {NoWrite}
    /\ disk \in [Loops -> Record] \cup {Torn}
    /\ failures \in 0..MaxFailures /\ crashes \in 0..MaxCrashes

Init ==
    /\ up = TRUE
    /\ rec = Empty /\ run = [l \in Loops |-> NoRun] /\ stop = [l \in Loops |-> NoStop]
    /\ running = {} /\ agents = [l \in Loops |-> {}]
    /\ queue = <<>> /\ snap = NoWrite /\ disk = Empty
    /\ failures = 0 /\ crashes = 0

-----------------------------------------------------------------------------
(* persist: whoever calls it awaits its turn and its write *)
Save(who, l) == queue' = Append(queue, Write(who, l)) /\ UNCHANGED <<snap, disk>>
Ready == up /\ Write("init", NoLoop) \notin {queue[i] : i \in DOMAIN queue}
At(l, pc) == Ready /\ run[l].pc = pc /\ ~run[l].saving
Calm == UNCHANGED <<failures, crashes>>

\* executeLoop goes on to pc, after a write or at once.
Saves(l, r, pc) ==
    /\ rec' = [rec EXCEPT ![l] = r]
    /\ run' = [run EXCEPT ![l].pc = pc, ![l].saving = TRUE]
    /\ Save("run", l)
Goes(l, pc) == run' = [run EXCEPT ![l].pc = pc] /\ UNCHANGED <<rec, store>>

\* finishLoop
Finished(r, status) == [r EXCEPT !.status = status, !.active = 0, !.agent = "none"]
SetLast(r, status) == [r EXCEPT !.iters[Len(r.iters)] = status]
LastIs(r, status) == r.iters # <<>> /\ r.iters[Len(r.iters)] = status

\* Mutant: the catch writes the record without finishing it.
ThrowsUnfinished(l, r, status) == Saves(l, r, "ending")
\* The catch of executeLoop.  finishLoop has cleared activeIteration by then, so the
\* iteration it looks for is never found.
Throws(l, r, status) == Saves(l, Finished(r, status), "ending")
Leaves(l, r) ==
    /\ rec' = [rec EXCEPT ![l] = r]
    /\ run' = [run EXCEPT ![l].pc = "done"] /\ running' = running \ {l}
    /\ UNCHANGED store

\* Mutant: one iteration more than the limit.
IterateOnceMore(l, started) ==
    LET r == rec[l]
    IN  \/ run[l].aborted /\ Throws(l, r, "stopped") /\ running' = started
        \/ /\ ~run[l].aborted /\ (Len(r.iters) > MaxIterations \/ Deadline)
           /\ rec' = [rec EXCEPT ![l] = Finished(r, "failed")]
           /\ run' = [run EXCEPT ![l].pc = "done"] /\ running' = started \ {l}
           /\ UNCHANGED store
        \/ /\ ~run[l].aborted /\ Len(r.iters) <= MaxIterations
           /\ Saves(l, [r EXCEPT !.iters = Append(@, "running"), !.active = Len(r.iters) + 1], "spawn")
           /\ running' = started
\* The head of the loop's body: the limits, then the next iteration.
Iterate(l, started) ==
    LET r == rec[l]
    IN  \/ run[l].aborted /\ Throws(l, r, "stopped") /\ running' = started
        \/ /\ ~run[l].aborted /\ (Len(r.iters) = MaxIterations \/ Deadline)
           /\ rec' = [rec EXCEPT ![l] = Finished(r, "failed")]
           /\ run' = [run EXCEPT ![l].pc = "done"] /\ running' = started \ {l}
           /\ UNCHANGED store
        \/ /\ ~run[l].aborted /\ Len(r.iters) < MaxIterations
           /\ Saves(l, [r EXCEPT !.iters = Append(@, "running"), !.active = Len(r.iters) + 1], "spawn")
           /\ running' = started

-----------------------------------------------------------------------------
(* runLoop and executeLoop *)
Create(l) ==
    /\ Ready /\ rec[l].status = "none" /\ run[l].pc = "none"
    /\ Saves(l, [NoRecord EXCEPT !.status = "running"], "start")
    /\ UNCHANGED <<up, stop, running, agents>> /\ Calm

Begin(l) ==
    /\ At(l, "start")
    /\ Iterate(l, running \cup {l})
    /\ UNCHANGED <<up, stop, agents>> /\ Calm

\* createAgent is called, and returns or throws.
Calls(l, from, to) == At(l, from) /\ Goes(l, to) /\ UNCHANGED <<up, stop, running, agents>> /\ Calm
CallWorker(l) == Calls(l, "spawn", "spawning")
CallVerifier(l) == Calls(l, "create", "creating")
Created(l, from, to, kind) ==
    /\ At(l, from)
    /\ \/ Saves(l, [rec[l] EXCEPT !.agent = kind], to) /\ agents' = [agents EXCEPT ![l] = @ \cup {kind}]
       \/ Throws(l, rec[l], "failed") /\ UNCHANGED agents
    /\ UNCHANGED <<up, stop, running>> /\ Calm
WorkerCreated(l) == Created(l, "spawning", "work", "worker")
VerifierCreated(l) == Created(l, "creating", "verify", "verifier")

\* Mutant: the end of the run is not told to who cancelled it.
ReleasedNot(l) == UNCHANGED stop
\* runAgent.  A cancelAgentRun that waits for the run returns with it.
Released(l) == stop' = [stop EXCEPT ![l].pc = IF @ = "cancel" THEN "awaiting" ELSE @]
WorkerStarts(l) == Calls(l, "work", "working")
WorkerEnds(l, result) ==
    /\ At(l, "working")
    /\ LET r == [rec[l] EXCEPT !.agent = "none"]
       IN  /\ rec' = [rec EXCEPT ![l] = IF result = "canceled" THEN SetLast(r, "stopped") ELSE r]
           /\ run' = [run EXCEPT ![l].pc = "closing", ![l].saving = TRUE, ![l].ok = (result = "completed")]
           /\ Save("run", l)
    /\ Released(l)
    /\ UNCHANGED <<up, running, agents>> /\ Calm

\* An iteration that did not pass.
Failed(r) == IF LastIs(r, "running") THEN SetLast(r, "failed") ELSE r
Idle(r) == [r EXCEPT !.active = 0, !.agent = "none"]

\* archiveAgent or closeAgent is through.
WorkerCloses(l) ==
    /\ At(l, "closing")
    /\ agents' = [agents EXCEPT ![l] = @ \ {"worker"}]
    /\ LET r == IF run[l].aborted /\ LastIs(rec[l], "running") THEN SetLast(rec[l], "stopped") ELSE rec[l]
       IN  CASE run[l].aborted -> Throws(l, r, "stopped") /\ UNCHANGED running
             [] ~run[l].aborted /\ ~run[l].ok -> Saves(l, Idle(Failed(r)), "next") /\ UNCHANGED running
             [] OTHER -> /\ run' = [run EXCEPT ![l].pc = "check", ![l].n = 0]
                         /\ UNCHANGED <<rec, running, store>>
    /\ UNCHANGED <<up, stop>> /\ Calm

\* The shell commands, one after the other.
Check(l) ==
    /\ At(l, "check")
    /\ CASE run[l].n = Checks /\ Verifier -> Goes(l, "create") /\ UNCHANGED running
         [] run[l].n = Checks /\ ~Verifier ->
              Leaves(l, Finished(SetLast(rec[l], "succeeded"), "succeeded"))
         [] run[l].n < Checks /\ run[l].aborted -> Throws(l, rec[l], "stopped") /\ UNCHANGED running
         [] OTHER -> Goes(l, "checking") /\ UNCHANGED running
    /\ UNCHANGED <<up, stop, agents>> /\ Calm
CheckEnds(l, passed) ==
    /\ At(l, "checking")
    /\ run' = [run EXCEPT ![l].pc = "checked", ![l].saving = TRUE, ![l].ok = passed]
    /\ Save("run", l)
    /\ UNCHANGED <<up, rec, stop, running, agents>> /\ Calm
Checked(l) ==
    /\ At(l, "checked")
    /\ IF run[l].ok
       THEN run' = [run EXCEPT ![l].pc = "check", ![l].n = @ + 1] /\ UNCHANGED <<rec, store>>
       ELSE Saves(l, Idle(Failed(rec[l])), "next")
    /\ UNCHANGED <<up, stop, running, agents>> /\ Calm

\* The verifier: no verdict is asked for again, and in the end an error.
VerifierStarts(l) ==
    /\ At(l, "verify")
    /\ run' = [run EXCEPT ![l].pc = "verifying", ![l].n = 0]
    /\ UNCHANGED <<rec, store, up, stop, running, agents>> /\ Calm
VerifierEnds(l, verdict) ==
    /\ At(l, "verifying")
    /\ IF verdict = "unclear" /\ run[l].n < Retries
       THEN run' = [run EXCEPT ![l].n = @ + 1] /\ UNCHANGED <<rec, store>>
       ELSE /\ rec' = [rec EXCEPT ![l].agent = "none"]
            /\ run' = [run EXCEPT ![l].pc = "verdict", ![l].saving = TRUE, ![l].ok = (verdict = "passed"),
                                  ![l].n = IF verdict \in {"unclear", "error"} THEN 1 ELSE 0]
            /\ Save("run", l)
    /\ Released(l)
    /\ UNCHANGED <<up, running, agents>> /\ Calm
\* Nothing asks here whether the loop was aborted.
VerifierCloses(l) ==
    /\ At(l, "verdict")
    /\ agents' = [agents EXCEPT ![l] = @ \ {"verifier"}]
    /\ CASE run[l].n = 1 -> Throws(l, rec[l], "failed") /\ UNCHANGED running
         [] run[l].n # 1 /\ run[l].ok -> Leaves(l, Finished(SetLast(rec[l], "succeeded"), "succeeded"))
         [] OTHER -> Saves(l, Idle(Failed(rec[l])), "next") /\ UNCHANGED running
    /\ UNCHANGED <<up, stop>> /\ Calm

\* The sleep, if only for an instant.
Wraps(l) ==
    /\ At(l, "next")
    /\ Goes(l, "sleeping")
    /\ UNCHANGED <<up, stop, running, agents>> /\ Calm
Wakes(l) ==
    /\ At(l, "sleeping")
    /\ Iterate(l, running)
    /\ UNCHANGED <<up, stop, agents>> /\ Calm

LoopEnds(l) ==
    /\ At(l, "ending")
    /\ Leaves(l, rec[l])
    /\ UNCHANGED <<up, stop, agents>> /\ Calm
-----------------------------------------------------------------------------
(* stopLoop *)
Stop(l) ==
    /\ Ready /\ rec[l].status = "running" /\ stop[l].pc = "none"
    /\ EarlyStop \/ run[l].pc # "start"
    /\ stop' = [stop EXCEPT ![l] = [pc |-> "asked", saving |-> TRUE, found |-> l \in running]]
    /\ Save("stop", l)
    /\ UNCHANGED <<up, rec, run, running, agents>> /\ Calm

StopAt(l, pc) == Ready /\ stop[l].pc = pc /\ ~stop[l].saving

\* Mutant: the record is marked as stopped before its runner is through.
StopAbortsMarking(l) ==
    /\ StopAt(l, "asked") /\ stop[l].found
    /\ stop' = [stop EXCEPT ![l].pc = "marked", ![l].saving = TRUE]
    /\ run' = [run EXCEPT ![l].aborted = TRUE] /\ rec' = [rec EXCEPT ![l].status = "stopped"]
    /\ Save("stop", l)
    /\ UNCHANGED <<up, running, agents>> /\ Calm
\* The runner that was found is aborted: a sleep ends, a turn of an agent is cancelled.
StopAborts(l) ==
    /\ StopAt(l, "asked") /\ stop[l].found
    /\ stop' = [stop EXCEPT ![l].pc =
                  IF run[l].pc \in {"working", "verifying"} THEN "cancel" ELSE "awaiting"]
    /\ IF run[l].pc = "sleeping"
       THEN Throws(l, rec[l], "stopped")
       ELSE run' = [run EXCEPT ![l].aborted = TRUE] /\ UNCHANGED <<rec, store>>
    /\ UNCHANGED <<up, running, agents>> /\ Calm
StopMarks(l) ==
    /\ StopAt(l, "asked") /\ ~stop[l].found
    /\ rec' = [rec EXCEPT ![l].status = "stopped"]
    /\ stop' = [stop EXCEPT ![l].pc = "marked", ![l].saving = TRUE]
    /\ Save("stop", l)
    /\ UNCHANGED <<up, run, running, agents>> /\ Calm
\* Mutant: the promise of the runner is not awaited.
StopReturnsAtOnce(l) ==
    /\ StopAt(l, "marked") \/ StopAt(l, "awaiting")
    /\ stop' = [stop EXCEPT ![l].pc = "done"]
    /\ UNCHANGED <<up, rec, run, running, agents, store>> /\ Calm
StopReturns(l) ==
    /\ StopAt(l, "marked") \/ (StopAt(l, "awaiting") /\ run[l].pc = "done")
    /\ stop' = [stop EXCEPT ![l].pc = "done"]
    /\ UNCHANGED <<up, rec, run, running, agents, store>> /\ Calm

-----------------------------------------------------------------------------
(* The file *)
WriteStarts ==
    /\ up /\ queue # <<>> /\ snap = NoWrite
    /\ snap' = rec
    /\ UNCHANGED <<service, queue, disk>> /\ Calm

\* Its caller goes on.
WriteEnds ==
    /\ up /\ snap # NoWrite
    /\ disk' = snap /\ snap' = NoWrite /\ queue' = Tail(queue)
    /\ LET w == Head(queue)
       IN  /\ run' = IF w.who = "run" THEN [run EXCEPT ![w.of].saving = FALSE] ELSE run
           /\ stop' = IF w.who = "stop" THEN [stop EXCEPT ![w.of].saving = FALSE] ELSE stop
    /\ UNCHANGED <<up, rec, running, agents>> /\ Calm

\* The daemon is gone, and its agents with it.
Dies ==
    /\ up' = FALSE /\ rec' = Empty /\ running' = {}
    /\ run' = [l \in Loops |-> NoRun] /\ stop' = [l \in Loops |-> NoStop]
    /\ agents' = [l \in Loops |-> {}] /\ queue' = <<>> /\ snap' = NoWrite

\* Its caller gets the error; one that nobody waits for is the end of the daemon.
WriteFails ==
    /\ up /\ snap # NoWrite /\ failures < MaxFailures
    /\ failures' = failures + 1 /\ UNCHANGED crashes
    /\ disk' = IF TornWrites THEN Torn ELSE disk
    /\ LET w == Head(queue)
           l == w.of
           Heard == snap' = NoWrite /\ UNCHANGED <<up, agents>>
       IN  \/ /\ w.who = "run" /\ run[l].pc = "start"
              /\ run' = [run EXCEPT ![l].pc = "refused", ![l].saving = FALSE]
              /\ queue' = Tail(queue) /\ UNCHANGED <<rec, stop, running>> /\ Heard
           \/ /\ w.who = "run" /\ run[l].pc \notin {"start", "ending"}
              /\ rec' = [rec EXCEPT ![l] = Finished(@, "failed")]
              /\ run' = [run EXCEPT ![l].pc = "ending"]
              /\ queue' = Append(Tail(queue), w) /\ UNCHANGED <<stop, running>> /\ Heard
           \/ /\ w.who = "run" /\ run[l].pc = "ending" /\ stop[l].pc = "awaiting"
              /\ run' = [run EXCEPT ![l].pc = "done", ![l].saving = FALSE] /\ running' = running \ {l}
              /\ queue' = Tail(queue) /\ UNCHANGED <<rec, stop>> /\ Heard
           \/ /\ w.who = "run" /\ run[l].pc = "ending" /\ stop[l].pc # "awaiting"
              /\ Dies
           \/ /\ w.who = "stop"
              /\ stop' = [stop EXCEPT ![l] = NoStop]
              /\ queue' = Tail(queue) /\ UNCHANGED <<rec, run, running>> /\ Heard
           \/ w.who = "init" /\ Dies

Crash ==
    /\ up /\ crashes < MaxCrashes
    /\ crashes' = crashes + 1 /\ UNCHANGED failures
    /\ disk' \in {disk} \cup IF TornWrites /\ snap # NoWrite THEN {Torn} ELSE {}
    /\ Dies

\* initialize: what was running has been interrupted; a file that cannot be read is
\* overwritten with nothing.
Recovered(r) ==
    IF r.status # "running" THEN r
    ELSE LET q == Finished(r, "stopped") IN IF LastIs(q, "running") THEN SetLast(q, "stopped") ELSE q
Restart ==
    /\ ~up /\ up' = TRUE
    /\ rec' = IF disk = Torn THEN Empty ELSE [l \in Loops |-> Recovered(disk[l])]
    /\ queue' = <<Write("init", NoLoop)>>
    /\ UNCHANGED <<run, stop, running, agents, snap, disk>> /\ Calm

-----------------------------------------------------------------------------
Results == {"completed", "canceled", "failed"}
Verdicts == {"passed", "rejected", "unclear", "error"}
Executes(l) ==
    \/ Begin(l) \/ CallWorker(l) \/ WorkerCreated(l) \/ WorkerStarts(l) \/ WorkerCloses(l)
    \/ Check(l) \/ Checked(l) \/ CallVerifier(l) \/ VerifierCreated(l) \/ VerifierStarts(l)
    \/ VerifierCloses(l) \/ Wraps(l) \/ LoopEnds(l)
Stops(l) == StopAborts(l) \/ StopMarks(l) \/ StopReturns(l)
Next ==
    \/ \E l \in Loops :
         \/ Create(l) \/ Executes(l) \/ Stop(l) \/ Stops(l) \/ Wakes(l)
         \/ \E result \in Results : WorkerEnds(l, result)
         \/ \E passed \in BOOLEAN : CheckEnds(l, passed)
         \/ \E verdict \in Verdicts : VerifierEnds(l, verdict)
    \/ WriteStarts \/ WriteEnds \/ WriteFails \/ Crash \/ Restart

\* Writes, the calls of the agent manager, and the end of a turn that is cancelled; a
\* turn, a shell command or a sleep may take for ever.
Fairness ==
    /\ WF_vars(WriteStarts) /\ WF_vars(WriteEnds)
    /\ \A l \in Loops :
         /\ WF_vars(Executes(l)) /\ WF_vars(Stops(l))
         /\ WF_vars(stop[l].pc = "cancel" /\ \E result \in Results : WorkerEnds(l, result))
Spec == Init /\ [][Next]_vars
FairSpec == Spec /\ Fairness

-----------------------------------------------------------------------------
(* Properties *)
\* A loop whose runLoop has returned and that shows as running has its runner: nothing
\* that fails or is stopped leaves a loop that is never finished (executeLoop).
RunningHasRunner ==
    \A l \in Loops : rec[l].status = "running" => run[l].pc \notin {"none", "done", "ending"}

\* A loop is over once: nothing changes how it ended while the daemon runs (finishLoop).
EndIsFinal ==
    [][\A l \in Loops : up /\ up' /\ rec[l].status \in Ends => rec'[l].status = rec[l].status]_vars

\* A success is the last iteration's, and the ones before it did not pass.
SuccessIsLast ==
    \A l \in Loops :
        /\ rec[l].status = "succeeded" => LastIs(rec[l], "succeeded")
        /\ \A i \in 1..(Len(rec[l].iters) - 1) : rec[l].iters[i] \in {"failed", "stopped"}

\* A loop has one agent at a time: an iteration's worker is closed before its verifier,
\* and both before the next iteration's worker.
OneAgentAtATime == \A l \in Loops : Cardinality(agents[l]) <= 1

\* When a stop has returned, the loop is over and nothing of it runs (stopLoop).
StopIsDone ==
    \A l \in Loops : stop[l].pc = "done" => rec[l].status \in Ends /\ run[l].pc \in {"done", "refused"}

\* A stop that interrupts the worker returns.
StopInterrupts ==
    \A l \in Loops : (stop[l].pc = "cancel" /\ run[l].pc = "working") ~> (stop[l].pc \in {"none", "done"})

\* Once nothing is left to write, the file says how every loop ended.
EndIsStored ==
    up /\ queue = <<>> /\ disk # Torn =>
        \A l \in Loops : rec[l].status \in Ends => disk[l].status = rec[l].status

\* No iteration of a loop that is over shows as running.
EndEndsIterations == \A l \in Loops : rec[l].status \in Ends => ~LastIs(rec[l], "running")
=============================================================================
