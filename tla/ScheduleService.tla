---------------------------- MODULE ScheduleService ----------------------------
(***************************************************************************)
(* The daemon's schedules: server/src/server/schedule/service.ts over the   *)
(* files of schedule/store.ts.                                              *)
(*                                                                         *)
(* A timer starts a tick every second and does not wait for the last one.   *)
(* A tick reads every file, then works through what it read: it awaits the  *)
(* agent run of one schedule, minutes perhaps, before it looks at the next, *)
(* while later ticks, the users' commands and a crash go on.                *)
(*                                                                         *)
(* A put is two steps: the call, with the value it will write, and its end, *)
(* which may be a rejection.                                                *)
(***************************************************************************)
EXTENDS Integers, Sequences, FiniteSets, SequencesExt

CONSTANTS
    Schedules,      \* ids
    ShortReads,     \* a read may meet a file that a put has truncated
    Ticks,          \* bound: ticks under way at a time
    Users,          \* bound: commands under way at a time
    Period,         \* the cadence: everyMs, or the minutes of a cron "*/Period"
    Cron,           \* the cadence is a cron expression
    MaxRuns,        \* maxRuns; 0: null
    ExpiresAt,      \* expiresAt; 0: null
    MaxTime,        \* bound: the clock
    MaxExecutions,  \* bound: a schedule executed so often is listed no more
    MaxCommands,    \* bound: commands
    MaxCrashes,     \* bound: crashes of the daemon
    MaxFailures     \* bound: puts that reject

ASSUME ScheduleAssumption ==
    /\ IsFiniteSet(Schedules) /\ IsFiniteSet(Ticks) /\ IsFiniteSet(Users)
    /\ Period \in Nat \ {0} /\ {Cron, ShortReads} \subseteq BOOLEAN
    /\ {MaxRuns, ExpiresAt, MaxTime, MaxExecutions, MaxCommands, MaxCrashes,
        MaxFailures} \subseteq Nat

VARIABLES
    now,         \* the clock
    up,          \* the daemon runs
    bootAt,      \* when it last started
    crashes,     \* crashes so far
    created,     \* the ids handed out, in the order of createdAt
    file,        \* the content of each schedule's file
    running,     \* runningScheduleIds
    tick,        \* the ticks under way
    commands,    \* commands so far
    user,        \* the pause, resume and create commands under way
    executions,  \* scheduledFor of every execution the runner was asked for
    failures,    \* puts that rejected, so far
    leaked       \* history: the ids a rejected start left in runningScheduleIds

vars == <<now, up, bootAt, crashes, created, file, running, tick, commands, user, executions,
          failures, leaked>>

Runs == [id: Nat, st: {"running", "succeeded", "failed"}]
Statuses == {"active", "paused", "completed"}
StoredSchedules == [status: Statuses, next: Nat, runs: Seq(Runs)]
Nothing == [status |-> "completed", next |-> 0, runs |-> <<>>]
NoFile == [Nothing EXCEPT !.status = "no file"]
Torn == [Nothing EXCEPT !.status = "torn"]   \* a prefix of the JSON

\* "loop": between two schedules; "completing", "starting", "ending": in a put;
\* "running": in the runner; "finishing": before finishRun reads the file.
TickStates == {"idle", "loop", "completing", "starting", "running", "finishing", "ending"}
Executing == {"starting", "running", "finishing", "ending"}
Snapshots == Seq([id: Schedules, sch: StoredSchedules])
Idle == [pc |-> "idle", at |-> 0, list |-> <<>>, id |-> "none", run |-> 0,
         res |-> "none", buf |-> Nothing]
NoCommand == [id |-> "none", buf |-> Nothing]

TypeOK ==
    /\ now \in Nat /\ bootAt \in Nat /\ crashes \in Nat /\ commands \in Nat
    /\ up \in BOOLEAN
    /\ created \in Seq(Schedules)
    /\ file \in [Schedules -> StoredSchedules \cup {NoFile, Torn}]
    /\ running \subseteq Schedules
    /\ tick \in [Ticks ->
         [pc: TickStates, at: Nat, list: Snapshots, id: Schedules \cup {"none"}, run: Nat,
          res: {"none", "succeeded", "failed"}, buf: StoredSchedules]]
    /\ user \in [Users -> [id: Schedules \cup {"none"}, buf: StoredSchedules]]
    /\ executions \in [Schedules -> Seq(Nat)]
    /\ failures \in Nat /\ leaked \subseteq Schedules

Init ==
    /\ now = 1 /\ up = TRUE /\ bootAt = 1 /\ crashes = 0
    /\ created = <<>> /\ file = [s \in Schedules |-> NoFile]
    /\ running = {} /\ tick = [t \in Ticks |-> Idle]
    /\ commands = 0 /\ user = [u \in Users |-> NoCommand]
    /\ executions = [s \in Schedules |-> <<>>] /\ failures = 0 /\ leaked = {}

-----------------------------------------------------------------------------
(* computeNextRunAt, and its iteration from time t until it is after time at *)
NextRun(t) == IF Cron THEN (t \div Period + 1) * Period ELSE t + Period
NextAfter(t, at) ==
    LET first == NextRun(t)
    IN  IF first > at THEN first
        ELSE first + ((at - first) \div Period + 1) * Period

Stored(s) == file[s].status \in Statuses
Ended(sch) == Cardinality({i \in DOMAIN sch.runs : sch.runs[i].st # "running"})
ShouldComplete(sch, at) ==
    \/ ExpiresAt # 0 /\ ExpiresAt <= at
    \/ MaxRuns # 0 /\ Ended(sch) >= MaxRuns
\* Mutant: a status the schema of the files does not have.
CompletedUnknown(sch) == [sch EXCEPT !.status = "expired", !.next = 0]
Completed(sch) == [sch EXCEPT !.status = "completed", !.next = 0]

\* The snapshots tick acts on, unless their run is under way.
Handled(sch, at) ==
    /\ sch.status = "active" /\ sch.next # 0
    /\ ShouldComplete(sch, at) \/ sch.next <= at

Executes(t) == tick[t].pc \in Executing
InPut(s) ==
    \/ \E t \in Ticks : tick[t].id = s /\ tick[t].pc \in {"completing", "starting", "ending"}
    \/ \E u \in Users : user[u].id = s

\* A put that rejects: what was there stays, or a part of the new.
PutRejects(s) ==
    /\ failures < MaxFailures /\ failures' = failures + 1
    /\ \E content \in {file[s], Torn} : file' = [file EXCEPT ![s] = content]

-----------------------------------------------------------------------------
(* A tick *)

(* now() and store.list(), which rejects at a file that does not parse. What *)
(* the tick has nothing to do with is passed over, and a tick that has       *)
(* nothing to do at all is left out.                                         *)
Due(s) ==
    Stored(s) /\ Handled(file[s], now) /\ Len(executions[s]) < MaxExecutions
Entry(s) == [id |-> s, sch |-> IF Due(s) THEN file[s] ELSE Nothing]
TickLists(t) ==
    /\ up /\ tick[t].pc = "idle"
    /\ \A s \in Schedules : file[s] # Torn
    /\ \E s \in Schedules : Due(s)
    /\ tick' = [tick EXCEPT ![t].pc = "loop", ![t].at = now,
         ![t].list = [i \in DOMAIN created |-> Entry(created[i])]]
    /\ UNCHANGED <<now, up, bootAt, crashes, created, file, running, commands, user, executions,
                   failures, leaked>>

\* Mutant: the ids of the runs under way are not looked at.
SkipsNone(t, i) == FALSE
Skips(t, i) == tick[t].list[i].id \in running
PassedOver(t, i) == tick[t].list[i].sch = Nothing \/ Skips(t, i)

\* The tick reaches the i-th schedule of its list.
Reaches(t, i) ==
    /\ tick[t].pc = "loop" /\ i \in DOMAIN tick[t].list
    /\ ~PassedOver(t, i)
    /\ \A j \in 1..(i - 1) : PassedOver(t, j)
Rest(t, i) == SubSeq(tick[t].list, i + 1, Len(tick[t].list))

TickEnds(t) ==
    /\ tick[t].pc = "loop"
    /\ \A i \in DOMAIN tick[t].list : PassedOver(t, i)
    /\ tick' = [tick EXCEPT ![t] = Idle]
    /\ UNCHANGED <<now, up, bootAt, crashes, created, file, running, commands, user, executions,
                   failures, leaked>>

TickCompletes(t) ==
    \E i \in DOMAIN tick[t].list :
        /\ Reaches(t, i)
        /\ LET entry == tick[t].list[i]
           IN  /\ ShouldComplete(entry.sch, tick[t].at)
               /\ tick' = [tick EXCEPT ![t].pc = "completing", ![t].id = entry.id,
                    ![t].list = Rest(t, i), ![t].buf = Completed(entry.sch)]
        /\ UNCHANGED <<now, up, bootAt, crashes, created, file, running, commands, user, executions,
                   failures, leaked>>

CompletedPut(t) ==
    /\ tick[t].pc = "completing"
    /\ file' = [file EXCEPT ![tick[t].id] = tick[t].buf]
    /\ tick' = [tick EXCEPT ![t] = [Idle EXCEPT !.pc = "loop", !.at = tick[t].at,
                                                !.list = tick[t].list]]
    /\ UNCHANGED <<now, up, bootAt, crashes, created, running, commands, user, executions,
                   failures, leaked>>

\* The tick is over, and the rest of its list with it.
CompletedPutRejects(t) ==
    /\ tick[t].pc = "completing" /\ PutRejects(tick[t].id)
    /\ tick' = [tick EXCEPT ![t] = Idle]
    /\ UNCHANGED <<now, up, bootAt, crashes, created, running, commands, user, executions, leaked>>

(* runSchedule: the id is taken, and the run is added to what the tick read. *)
TickRuns(t) ==
    \E i \in DOMAIN tick[t].list :
        /\ Reaches(t, i)
        /\ LET entry == tick[t].list[i]
               run == Len(executions[entry.id]) + 1
           IN  /\ ~ShouldComplete(entry.sch, tick[t].at)
               /\ running' = running \cup {entry.id}
               /\ tick' = [tick EXCEPT ![t].pc = "starting", ![t].id = entry.id,
                    ![t].run = run, ![t].list = Rest(t, i),
                    ![t].buf = [entry.sch EXCEPT !.runs =
                      Append(@, [id |-> run, st |-> "running"])]]
        /\ UNCHANGED <<now, up, bootAt, crashes, created, file, commands, user, executions,
                   failures, leaked>>

(* The put ends and the runner is called with what was put. *)
RunStarts(t) ==
    /\ tick[t].pc = "starting"
    /\ file' = [file EXCEPT ![tick[t].id] = tick[t].buf]
    /\ executions' = [executions EXCEPT ![tick[t].id] = Append(@, tick[t].buf.next)]
    /\ tick' = [tick EXCEPT ![t].pc = "running", ![t].buf = Nothing]
    /\ UNCHANGED <<now, up, bootAt, crashes, created, running, commands, user, failures,
                   leaked>>

(* The put is outside the try: its rejection ends the tick and keeps the id. *)
RunStartRejects(t) ==
    /\ tick[t].pc = "starting" /\ PutRejects(tick[t].id)
    /\ leaked' = leaked \cup {tick[t].id}
    /\ tick' = [tick EXCEPT ![t] = Idle]
    /\ UNCHANGED <<now, up, bootAt, crashes, created, running, commands, user, executions>>

(* The agent's run ends, well or not. *)
RunnerReturns(t) ==
    /\ tick[t].pc = "running"
    /\ \E res \in {"succeeded", "failed"} :
         tick' = [tick EXCEPT ![t].pc = "finishing", ![t].res = res]
    /\ UNCHANGED <<now, up, bootAt, crashes, created, file, running, commands, user, executions,
                   failures, leaked>>

Finished(sch, run, res) ==
    LET ran == [sch EXCEPT !.runs = [i \in DOMAIN sch.runs |->
                  IF sch.runs[i].id = run THEN [sch.runs[i] EXCEPT !.st = res]
                  ELSE sch.runs[i]]]
    IN  IF ShouldComplete(ran, now) THEN Completed(ran)
        ELSE IF ran.status = "paused" THEN [ran EXCEPT !.next = 0]
        ELSE [ran EXCEPT !.next = NextAfter(IF sch.next = 0 THEN now ELSE sch.next, now)]

(* finishRun reads what the schedule is by now. *)
FinishReads(t) ==
    /\ tick[t].pc = "finishing" /\ Stored(tick[t].id)
    /\ tick' = [tick EXCEPT ![t].pc = "ending",
         ![t].buf = Finished(file[tick[t].id], tick[t].run, tick[t].res)]
    /\ UNCHANGED <<now, up, bootAt, crashes, created, file, running, commands, user, executions,
                   failures, leaked>>

\* Mutant: the id is released after the run's end, but not in a finally.
ReleaseAfterAll(t) == UNCHANGED running
\* The finally, on the way out with a rejection.
Release(t) == running' = running \ {tick[t].id}

\* finishRun rejects: the catch records a failed run instead, and a second
\* rejection ends the tick.
FinishRejects(t) ==
    IF tick[t].res = "succeeded"
    THEN /\ tick' = [tick EXCEPT ![t].pc = "finishing", ![t].res = "failed", ![t].buf = Nothing]
         /\ UNCHANGED running
    ELSE /\ tick' = [tick EXCEPT ![t] = Idle]
         /\ Release(t)

\* The file is gone or does not parse, or a put has truncated it.
FinishFails(t) ==
    /\ tick[t].pc = "finishing"
    /\ ~Stored(tick[t].id) \/ (ShortReads /\ InPut(tick[t].id))
    /\ FinishRejects(t)
    /\ UNCHANGED <<now, up, bootAt, crashes, created, file, commands, user, executions,
                   failures, leaked>>

RunEndRejects(t) ==
    /\ tick[t].pc = "ending" /\ PutRejects(tick[t].id)
    /\ FinishRejects(t)
    /\ UNCHANGED <<now, up, bootAt, crashes, created, commands, user, executions, leaked>>

RunEnds(t) ==
    /\ tick[t].pc = "ending"
    /\ file' = [file EXCEPT ![tick[t].id] = tick[t].buf]
    /\ running' = running \ {tick[t].id}
    /\ tick' = [tick EXCEPT ![t] = [Idle EXCEPT !.pc = "loop", !.at = tick[t].at,
                                                !.list = tick[t].list]]
    /\ UNCHANGED <<now, up, bootAt, crashes, created, commands, user, executions,
                   failures, leaked>>

-----------------------------------------------------------------------------
(* The users' commands *)

MayCommand == up /\ commands < MaxCommands
Command(u, s, sch) ==
    /\ MayCommand /\ commands' = commands + 1
    /\ user[u] = NoCommand
    /\ user' = [user EXCEPT ![u] = [id |-> s, buf |-> sch]]

Create(u, s) ==
    /\ s \notin ToSet(created)
    /\ created' = Append(created, s)
    /\ Command(u, s, [status |-> "active", next |-> NextRun(now), runs |-> <<>>])
    /\ UNCHANGED <<now, up, bootAt, crashes, file, running, tick, executions,
                   failures, leaked>>

Pause(u, s) ==
    /\ Stored(s) /\ file[s].status = "active"
    /\ Command(u, s, [file[s] EXCEPT !.status = "paused", !.next = 0])
    /\ UNCHANGED <<now, up, bootAt, crashes, created, file, running, tick, executions,
                   failures, leaked>>

Resume(u, s) ==
    /\ Stored(s) /\ file[s].status = "paused"
    /\ Command(u, s, [file[s] EXCEPT !.status = "active", !.next = NextRun(now)])
    /\ UNCHANGED <<now, up, bootAt, crashes, created, file, running, tick, executions,
                   failures, leaked>>

CommandPut(u) ==
    /\ user[u] # NoCommand
    /\ file' = [file EXCEPT ![user[u].id] = user[u].buf]
    /\ user' = [user EXCEPT ![u] = NoCommand]
    /\ UNCHANGED <<now, up, bootAt, crashes, created, running, tick, commands, executions,
                   failures, leaked>>

CommandPutRejects(u) ==
    /\ user[u] # NoCommand /\ PutRejects(user[u].id)
    /\ user' = [user EXCEPT ![u] = NoCommand]
    /\ UNCHANGED <<now, up, bootAt, crashes, created, running, tick, commands, executions, leaked>>

\* The file is removed unread.
Delete(s) ==
    /\ MayCommand /\ commands' = commands + 1 /\ file[s] # NoFile
    /\ file' = [file EXCEPT ![s] = NoFile]
    /\ UNCHANGED <<now, up, bootAt, crashes, created, running, tick, user, executions,
                   failures, leaked>>

-----------------------------------------------------------------------------
(* The clock and the daemon's process *)

Advance ==
    /\ now < MaxTime
    /\ now' = now + 1
    /\ UNCHANGED <<up, bootAt, crashes, created, file, running, tick, commands, user, executions,
                   failures, leaked>>

(* The process ends; a file in a put keeps its old content or is torn.      *)
Crash ==
    /\ up /\ crashes < MaxCrashes
    /\ up' = FALSE /\ crashes' = crashes + 1
    /\ file' \in {f \in [Schedules -> {file[s] : s \in Schedules} \cup {Torn}] :
                    \A s \in Schedules : f[s] = file[s] \/ (InPut(s) /\ f[s] = Torn)}
    /\ running' = {} /\ tick' = [t \in Ticks |-> Idle] /\ leaked' = {}
    /\ user' = [u \in Users |-> NoCommand]
    /\ UNCHANGED <<now, bootAt, created, commands, executions, failures>>

\* The nextRunAt of an active schedule moves on to the first time to come.
\* Mutant: a run due at the very time of the restart is kept.
SkippedBefore(sch) ==
    IF sch.status = "active" /\ sch.next # 0 /\ sch.next < now
    THEN NextAfter(sch.next, now) ELSE sch.next
Skipped(sch) ==
    IF sch.status = "active" /\ sch.next # 0 /\ sch.next <= now
    THEN NextAfter(sch.next, now) ELSE sch.next

\* The first run in progress has failed, and the times that passed are skipped.
Recovered(sch) ==
    LET inFlight == {i \in DOMAIN sch.runs : sch.runs[i].st = "running"}
        First(i) == i \in inFlight /\ \A j \in inFlight : i <= j
        runs == [i \in DOMAIN sch.runs |->
                   IF First(i) THEN [sch.runs[i] EXCEPT !.st = "failed"] ELSE sch.runs[i]]
    IN  [sch EXCEPT !.runs = runs, !.next = Skipped(sch)]

(* start: a file that does not parse keeps the daemon from starting.        *)
Boot ==
    /\ ~up /\ \A s \in Schedules : file[s] # Torn
    /\ up' = TRUE /\ bootAt' = now
    /\ file' = [s \in Schedules |-> IF Stored(s) THEN Recovered(file[s]) ELSE file[s]]
    /\ UNCHANGED <<now, crashes, created, running, tick, commands, user, executions,
                   failures, leaked>>

\* A put of the recovery rejects, or the process ends in it: the files before
\* it in the list are recovered, and the daemon does not start.
BootFails ==
    /\ ~up /\ \A s \in Schedules : file[s] # Torn
    /\ failures < MaxFailures /\ failures' = failures + 1
    /\ \E i \in DOMAIN created : \E content \in {file[created[i]], Torn} :
         /\ Stored(created[i]) /\ Recovered(file[created[i]]) # file[created[i]]
         /\ file' = [s \in Schedules |->
              IF s = created[i] THEN content
              ELSE IF Stored(s) /\ \E j \in 1..(i - 1) : created[j] = s THEN Recovered(file[s])
              ELSE file[s]]
    /\ UNCHANGED <<now, up, bootAt, crashes, created, running, tick, commands, user, executions,
                   leaked>>

-----------------------------------------------------------------------------
TickStep(t) ==
    \/ TickEnds(t) \/ TickCompletes(t) \/ CompletedPut(t) \/ TickRuns(t) \/ RunStarts(t)
    \/ FinishReads(t) \/ FinishFails(t) \/ RunEnds(t)
TickRejects(t) == CompletedPutRejects(t) \/ RunStartRejects(t) \/ RunEndRejects(t)

Next ==
    \/ \E t \in Ticks : TickLists(t) \/ TickStep(t) \/ RunnerReturns(t) \/ TickRejects(t)
    \/ \E u \in Users : \/ \E s \in Schedules : Create(u, s) \/ Pause(u, s) \/ Resume(u, s)
                        \/ CommandPut(u) \/ CommandPutRejects(u)
    \/ \E s \in Schedules : Delete(s)
    \/ Advance \/ Crash \/ Boot \/ BootFails

Spec == Init /\ [][Next]_vars

(* The timer goes on and what a tick awaits comes, its runner's end apart.  *)
Fairness ==
    /\ \A t \in Ticks : WF_vars(TickLists(t)) /\ WF_vars(TickStep(t))
    /\ \A u \in Users : WF_vars(CommandPut(u))

FairSpec == Spec /\ Fairness

-----------------------------------------------------------------------------
(* Ticks overlap, and none waits for another, yet a schedule never has two  *)
(* executions under way: runningScheduleIds holds those that are, whatever  *)
(* failed, and beside them only the ids whose start could not be written.   *)
OneExecution ==
    /\ \A t1, t2 \in Ticks :
         Executes(t1) /\ Executes(t2) /\ tick[t1].id = tick[t2].id => t1 = t2
    /\ running = {tick[t].id : t \in {x \in Ticks : Executes(x)}} \cup leaked

(* A start that could not be written takes its schedule out of service: it  *)
(* is not executed again before the daemon's next start.                    *)
LeakedRunsNoMore ==
    [][\A s \in leaked : UNCHANGED executions[s]]_vars

(* A schedule has a next time exactly when it is active, whoever wrote last. *)
NextMatchesStatus ==
    \A s \in Schedules : Stored(s) => (file[s].status = "active" <=> file[s].next # 0)

(* What fell due while the daemon was down is skipped, not caught up.       *)
NoMissedRun ==
    [][\A s \in Schedules :
         executions'[s] # executions[s] => executions'[s][Len(executions'[s])] > bootAt]_vars

DueAt(s, n) ==
    up /\ file[s].status = "active" /\ file[s].next = n /\ n <= now
DueIsOver(s, n) ==
    \/ ~DueAt(s, n)
    \/ \E t \in Ticks : Executes(t) /\ tick[t].id = s
    \/ Len(executions[s]) >= MaxExecutions

(* While the daemon is up, a schedule that is due is run or is due no more, *)
(* although runs of others never end and writes reject, unless it was its   *)
(* own start that could not be written or a rejected write tore a file.     *)
DueRuns ==
    \A s \in Schedules : \A n \in 1..MaxTime :
        DueAt(s, n) ~> (DueIsOver(s, n) \/ s \in leaked \/ \E x \in Schedules : file[x] = Torn)

(* The same for a schedule whose own start could not be written. It does   *)
(* not hold: the rejected tick is logged (service.ts:127-129), the next ones *)
(* skip the id.                                                             *)
DueAlwaysRuns ==
    \A s \in Schedules : \A n \in 1..MaxTime :
        DueAt(s, n) ~> (DueIsOver(s, n) \/ \E x \in Schedules : file[x] = Torn)

(* A schedule is executed maxRuns times at most.                            *)
(* docs/DATA_MODEL.md:189: "Max executions before completing".              *)
WithinMaxRuns ==
    MaxRuns # 0 => \A s \in Schedules : Len(executions[s]) <= MaxRuns

=============================================================================
