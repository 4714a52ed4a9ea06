------------------------- MODULE ScheduleServiceProofs -------------------------
(***************************************************************************)
(* Theorems about ScheduleService, for any schedules, overlapping ticks and *)
(* commands, any cadence "every" or "*/n", any limits and any crashes.      *)
(***************************************************************************)
EXTENDS ScheduleService, FiniteSetTheorems, SequenceTheorems, TLAPS

-----------------------------------------------------------------------------
(* The cadence *)

\* The next run is later than the time it is computed from.
LEMMA NextRunLater ==
    ASSUME NEW t \in Nat
    PROVE  NextRun(t) \in Nat /\ NextRun(t) > t
  <1>1. Period \in Nat \ {0}
    BY ScheduleAssumption DEF ScheduleAssumption
  <1>2. (t \div Period + 1) * Period \in Nat /\ (t \div Period + 1) * Period > t
    BY <1>1, Z3
  <1>3. t + Period \in Nat /\ t + Period > t
    BY <1>1
  <1> QED BY <1>2, <1>3 DEF NextRun

\* The iteration ends with the first time of the cadence after at.
LEMMA NextAfterLater ==
    ASSUME NEW t \in Nat, NEW at \in Nat
    PROVE  NextAfter(t, at) \in Nat /\ NextAfter(t, at) > at
  <1> DEFINE first == NextRun(t)
  <1>1. Period \in Nat \ {0} /\ first \in Nat
    BY NextRunLater, ScheduleAssumption DEF ScheduleAssumption
  <1> HIDE DEF first
  <1>2. CASE first > at
    BY <1>1, <1>2 DEF NextAfter, first
  <1>3. CASE ~(first > at)
    <2>1. at - first \in Nat
      BY <1>1, <1>3
    <2>2. ((at - first) \div Period + 1) * Period \in Nat
          /\ first + ((at - first) \div Period + 1) * Period > at
      BY <1>1, <2>1, Z3
    <2>3. NextAfter(t, at) = first + ((at - first) \div Period + 1) * Period
      BY <1>3 DEF NextAfter, first
    <2> QED BY <1>1, <2>2, <2>3
  <1> QED BY <1>2, <1>3

-----------------------------------------------------------------------------
(* The values written to the files *)

\* The status can be told from a file that is gone or torn.
LEMMA StoredTyped ==
    ASSUME TypeOK, NEW s \in Schedules, Stored(s)
    PROVE  file[s] \in StoredSchedules
  <1>1. NoFile.status \notin Statuses /\ Torn.status \notin Statuses
    BY DEF NoFile, Torn, Nothing, Statuses
  <1> QED BY <1>1 DEF TypeOK, Stored

LEMMA NothingTyped == Nothing \in StoredSchedules
  BY DEF Nothing, StoredSchedules, Statuses

LEMMA CompletedTyped ==
    ASSUME NEW sch \in StoredSchedules
    PROVE  Completed(sch) \in StoredSchedules
  BY DEF Completed, StoredSchedules, Statuses

\* A run's end keeps a schedule well formed.
LEMMA FinishedTyped ==
    ASSUME TypeOK, NEW sch \in StoredSchedules, NEW run \in Nat,
           NEW res \in {"none", "succeeded", "failed"}, res # "none"
    PROVE  Finished(sch, run, res) \in StoredSchedules
  <1> DEFINE ended == [i \in DOMAIN sch.runs |->
                         IF sch.runs[i].id = run THEN [sch.runs[i] EXCEPT !.st = res]
                         ELSE sch.runs[i]]
             ran == [sch EXCEPT !.runs = ended]
             next == NextAfter(IF sch.next = 0 THEN now ELSE sch.next, now)
  <1>1. sch.runs \in Seq(Runs) /\ sch.next \in Nat /\ now \in Nat
    BY DEF StoredSchedules, TypeOK
  <1>2. ended \in Seq(Runs)
    <2>1. \A i \in DOMAIN sch.runs : sch.runs[i] \in Runs
      BY <1>1
    <2>2. \A i \in DOMAIN sch.runs : ended[i] \in Runs
      BY <2>1 DEF Runs
    <2>3. DOMAIN sch.runs = 1..Len(sch.runs) /\ Len(sch.runs) \in Nat
      BY <1>1
    <2> HIDE DEF ended
    <2>4. ended = [i \in 1..Len(sch.runs) |-> ended[i]]
      BY <2>3 DEF ended
    <2> QED BY <2>2, <2>3, <2>4, IsASeq
  <1>3. ran \in StoredSchedules
    BY <1>2 DEF StoredSchedules
  <1>4. next \in Nat
    BY <1>1, NextAfterLater
  <1> HIDE DEF ended, ran, next
  <1>5. Finished(sch, run, res) =
          IF ShouldComplete(ran, now) THEN Completed(ran)
          ELSE IF ran.status = "paused" THEN [ran EXCEPT !.next = 0]
          ELSE [ran EXCEPT !.next = next]
    BY DEF Finished, ran, ended, next
  <1>6. Completed(ran) \in StoredSchedules
    BY <1>3, CompletedTyped
  <1>7. [ran EXCEPT !.next = 0] \in StoredSchedules
        /\ [ran EXCEPT !.next = next] \in StoredSchedules
    BY <1>3, <1>4 DEF StoredSchedules
  <1> QED BY <1>5, <1>6, <1>7

\* Recovery keeps a schedule well formed.
LEMMA RecoveredTyped ==
    ASSUME TypeOK, NEW sch \in StoredSchedules
    PROVE  Recovered(sch) \in StoredSchedules
  <1> DEFINE first(i) == /\ i \in {j \in DOMAIN sch.runs : sch.runs[j].st = "running"}
                         /\ \A j \in {k \in DOMAIN sch.runs : sch.runs[k].st = "running"} : i <= j
             runs == [i \in DOMAIN sch.runs |->
                        IF first(i) THEN [sch.runs[i] EXCEPT !.st = "failed"] ELSE sch.runs[i]]
  <1>1. sch.runs \in Seq(Runs) /\ sch.next \in Nat /\ now \in Nat
    BY DEF StoredSchedules, TypeOK
  <1>2. runs \in Seq(Runs)
    <2>1. \A i \in DOMAIN sch.runs : sch.runs[i] \in Runs
      BY <1>1
    <2> HIDE DEF first
    <2>2. \A i \in DOMAIN sch.runs : runs[i] \in Runs
      BY <2>1 DEF Runs
    <2>3. DOMAIN sch.runs = 1..Len(sch.runs) /\ Len(sch.runs) \in Nat
      BY <1>1
    <2> HIDE DEF runs
    <2>4. runs = [i \in 1..Len(sch.runs) |-> runs[i]]
      BY <2>3 DEF runs
    <2> QED BY <2>2, <2>3, <2>4, IsASeq
  <1>3. Skipped(sch) \in Nat
    BY <1>1, NextAfterLater DEF Skipped
  <1>4. Recovered(sch) = [sch EXCEPT !.runs = runs, !.next = Skipped(sch)]
    BY DEF Recovered
  <1> HIDE DEF runs
  <1> QED BY <1>2, <1>3, <1>4 DEF StoredSchedules

-----------------------------------------------------------------------------
(* Type correctness *)

TickRecords ==
    [pc: TickStates, at: Nat, list: Snapshots, id: Schedules \cup {"none"}, run: Nat,
     res: {"none", "succeeded", "failed"}, buf: StoredSchedules]
UserRecords == [id: Schedules \cup {"none"}, buf: StoredSchedules]
Contents == StoredSchedules \cup {NoFile, Torn}

\* A tick that is past its list has a schedule, and one whose run ended its result.
TickShape(r) ==
    /\ r.pc \notin {"idle", "loop"} => r.id \in Schedules
    /\ r.pc = "finishing" => r.res # "none"

TInv == TypeOK /\ \A t \in Ticks : TickShape(tick[t])

LEMMA IdleTyped == Idle \in TickRecords /\ NoCommand \in UserRecords
  <1>1. <<>> \in Snapshots
    BY DEF Snapshots
  <1> QED BY <1>1, NothingTyped DEF Idle, NoCommand, TickRecords, UserRecords, TickStates

\* The initial state is well formed.
LEMMA InitTInv == Init => TInv
  <1> SUFFICES ASSUME Init PROVE TInv
    OBVIOUS
  <1>1. file \in [Schedules -> Contents]
    BY DEF Init, Contents
  <1>2. tick \in [Ticks -> TickRecords] /\ user \in [Users -> UserRecords]
    BY IdleTyped DEF Init
  <1>3. created \in Seq(Schedules) /\ executions \in [Schedules -> Seq(Nat)]
    BY DEF Init
  <1>4. \A t \in Ticks : TickShape(tick[t])
    BY DEF Init, TickShape, Idle
  <1> QED BY <1>1, <1>2, <1>3, <1>4 DEF Init, TInv, TypeOK, Contents, TickRecords, UserRecords

\* What a tick lists is well formed.
LEMMA ListTyped ==
    ASSUME TypeOK
    PROVE  [i \in DOMAIN created |-> Entry(created[i])] \in Snapshots
  <1> DEFINE list == [i \in DOMAIN created |-> Entry(created[i])]
             Entries == [id: Schedules, sch: StoredSchedules]
  <1>1. created \in Seq(Schedules)
    BY DEF TypeOK
  <1>2. DOMAIN created = 1..Len(created) /\ Len(created) \in Nat
    BY <1>1
  <1>3. \A s \in Schedules : Entry(s) \in Entries
    BY StoredTyped, NothingTyped DEF Entry, Due
  <1>4. \A i \in DOMAIN created : list[i] \in Entries
    BY <1>1, <1>3
  <1> HIDE DEF list, Entries
  <1>5. list = [i \in 1..Len(created) |-> list[i]]
    BY <1>2 DEF list
  <1>6. list \in Seq(Entries)
    BY <1>2, <1>4, <1>5, IsASeq
  <1> QED BY <1>6 DEF list, Entries, Snapshots

\* The elements of a sequence, and what follows one of them.
LEMMA SuffixTyped ==
    ASSUME NEW S, NEW s \in Seq(S), NEW i \in DOMAIN s
    PROVE  /\ s[i] \in S /\ SubSeq(s, i + 1, Len(s)) \in Seq(S)
           /\ \A j \in DOMAIN SubSeq(s, i + 1, Len(s)) :
                \E k \in DOMAIN s : SubSeq(s, i + 1, Len(s))[j] = s[k]
  <1> DEFINE rest == SubSeq(s, i + 1, Len(s))
  <1>1. i \in 1..Len(s) /\ Len(s) \in Nat /\ DOMAIN s = 1..Len(s)
    OBVIOUS
  <1>2. \A j \in (i + 1)..Len(s) : s[j] \in S
    BY <1>1
  <1>3. /\ rest \in Seq(S)
        /\ Len(rest) = IF i + 1 <= Len(s) THEN Len(s) - (i + 1) + 1 ELSE 0
        /\ \A j \in 1..(Len(s) - (i + 1) + 1) : rest[j] = s[i + 1 + j - 1]
    <2>1. i + 1 \in Int /\ Len(s) \in Int
      BY <1>1
    <2> QED BY <1>2, <2>1, SubSeqProperties
  <1> HIDE DEF rest
  <1>4. ASSUME NEW j \in DOMAIN rest PROVE \E k \in DOMAIN s : rest[j] = s[k]
    <2>1. j \in 1..Len(rest) /\ Len(rest) \in Nat
      BY <1>3
    <2>2. i + j \in 1..Len(s) /\ rest[j] = s[i + j]
      BY <1>1, <1>3, <2>1
    <2> QED BY <1>1, <2>2
  <1> QED BY <1>1, <1>3, <1>4 DEF rest

\* What is left of a tick's list is well formed, and so is what it reaches.
LEMMA ReachedTyped ==
    ASSUME TypeOK, NEW t \in Ticks, NEW i \in DOMAIN tick[t].list
    PROVE  /\ Rest(t, i) \in Snapshots
           /\ tick[t].list[i].id \in Schedules
           /\ tick[t].list[i].sch \in StoredSchedules
           /\ tick[t].at \in Nat
  <1> DEFINE list == tick[t].list
             Entries == [id: Schedules, sch: StoredSchedules]
  <1>1. list \in Seq(Entries) /\ tick[t].at \in Nat
    BY DEF TypeOK, Snapshots
  <1> HIDE DEF list, Entries
  <1>2. i \in DOMAIN list
    BY DEF list
  <1>3. list[i] \in Entries /\ SubSeq(list, i + 1, Len(list)) \in Seq(Entries)
    BY <1>1, <1>2, SuffixTyped
  <1> QED BY <1>1, <1>3 DEF Rest, Snapshots, list, Entries

\* The type invariant in the parts that the steps change.
LEMMA TypeParts ==
    ASSUME TypeOK
    PROVE  /\ now \in Nat /\ bootAt \in Nat /\ crashes \in Nat /\ commands \in Nat
           /\ up \in BOOLEAN
           /\ created \in Seq(Schedules)
           /\ file \in [Schedules -> Contents]
           /\ running \in SUBSET Schedules
           /\ tick \in [Ticks -> TickRecords]
           /\ user \in [Users -> UserRecords]
           /\ executions \in [Schedules -> Seq(Nat)]
           /\ failures \in Nat /\ leaked \in SUBSET Schedules
  BY DEF TypeOK, Contents, TickRecords, UserRecords

LEMMA TypeNext ==
    ASSUME now' \in Nat, bootAt' \in Nat, crashes' \in Nat, commands' \in Nat,
           up' \in BOOLEAN,
           created' \in Seq(Schedules),
           file' \in [Schedules -> Contents],
           running' \in SUBSET Schedules,
           tick' \in [Ticks -> TickRecords],
           user' \in [Users -> UserRecords],
           executions' \in [Schedules -> Seq(Nat)],
           failures' \in Nat, leaked' \in SUBSET Schedules
    PROVE  TypeOK'
  BY DEF TypeOK, Contents, TickRecords, UserRecords

\* A tick alone changes, to r.
LEMMA TickNext ==
    ASSUME TInv, NEW t \in Ticks, NEW r \in TickRecords, TickShape(r),
           tick' = [tick EXCEPT ![t] = r],
           UNCHANGED <<now, up, bootAt, crashes, created, commands, user>>,
           file' \in [Schedules -> Contents],
           running' \in SUBSET Schedules,
           executions' \in [Schedules -> Seq(Nat)],
           failures' \in Nat, leaked' \in SUBSET Schedules
    PROVE  TInv'
  <1>1. tick \in [Ticks -> TickRecords]
    BY TypeParts DEF TInv
  <1>2. tick' \in [Ticks -> TickRecords]
    BY <1>1
  <1>3. \A x \in Ticks : TickShape(tick[x])'
    BY <1>1 DEF TInv, TickShape
  <1> QED BY <1>2, <1>3, TypeParts, TypeNext DEF TInv

\* A put that rejects leaves the files well formed.
LEMMA RejectTyped ==
    ASSUME TypeOK, NEW s, PutRejects(s)
    PROVE  failures' \in Nat /\ file' \in [Schedules -> Contents]
  <1>1. failures \in Nat /\ file \in [Schedules -> Contents]
    BY TypeParts
  <1>2. PICK content \in {file[s], Torn} : file' = [file EXCEPT ![s] = content]
    BY DEF PutRejects
  <1>3. s \in Schedules => content \in Contents
    BY <1>1 DEF Contents
  <1>4. failures' \in Nat
    BY <1>1 DEF PutRejects
  <1> QED BY <1>1, <1>2, <1>3, <1>4

\* The steps of a tick keep the state well formed.
LEMMA TickTInv ==
    ASSUME TInv, NEW t \in Ticks,
           \/ TickLists(t) \/ TickEnds(t) \/ TickCompletes(t) \/ CompletedPut(t)
           \/ TickRuns(t) \/ RunStarts(t) \/ RunnerReturns(t)
           \/ FinishReads(t) \/ FinishFails(t) \/ RunEnds(t) \/ TickRejects(t)
    PROVE  TInv'
  <1>0. TypeOK /\ TickShape(tick[t])
    BY DEF TInv
  <1>t. /\ tick[t] \in TickRecords
        /\ file \in [Schedules -> Contents] /\ running \in SUBSET Schedules
        /\ executions \in [Schedules -> Seq(Nat)] /\ now \in Nat
        /\ failures \in Nat /\ leaked \in SUBSET Schedules
    BY <1>0, TypeParts
  <1>id. /\ tick[t].buf \in StoredSchedules /\ tick[t].list \in Snapshots
         /\ tick[t].at \in Nat /\ tick[t].run \in Nat
         /\ tick[t].res \in {"none", "succeeded", "failed"}
    BY <1>t DEF TickRecords
  <1>back. [Idle EXCEPT !.pc = "loop", !.at = tick[t].at, !.list = tick[t].list] \in TickRecords
          /\ TickShape([Idle EXCEPT !.pc = "loop", !.at = tick[t].at, !.list = tick[t].list])
    BY <1>id, IdleTyped DEF TickRecords, TickStates, TickShape, Idle
  <1>idle. Idle \in TickRecords /\ TickShape(Idle)
    BY IdleTyped DEF TickShape, Idle
  <1>put. [file EXCEPT ![tick[t].id] = tick[t].buf] \in [Schedules -> Contents]
    BY <1>t, <1>id DEF Contents
  <1>1. CASE TickLists(t)
    <2> DEFINE list == [i \in DOMAIN created |-> Entry(created[i])]
               r == [tick[t] EXCEPT !.pc = "loop", !.at = now, !.list = list]
    <2>1. list \in Snapshots
      BY <1>0, ListTyped
    <2> HIDE DEF list
    <2>2. r \in TickRecords /\ TickShape(r)
      BY <1>0, <1>t, <2>1 DEF TickRecords, TickStates, TickShape
    <2>3. tick' = [tick EXCEPT ![t] = r]
      BY <1>1 DEF TickLists, list
    <2> HIDE DEF r
    <2> QED BY <1>1, <1>t, <2>2, <2>3, TickNext DEF TickLists
  <1>2. CASE TickEnds(t)
    BY <1>2, <1>t, <1>idle, TickNext DEF TickEnds
  <1>3. CASE TickCompletes(t)
    <2> PICK i \in DOMAIN tick[t].list :
          LET entry == tick[t].list[i]
          IN  /\ tick' = [tick EXCEPT ![t].pc = "completing", ![t].id = entry.id,
                    ![t].list = Rest(t, i), ![t].buf = Completed(entry.sch)]
              /\ UNCHANGED <<now, up, bootAt, crashes, created, file, running, commands, user, executions,
                             failures, leaked>>
      BY <1>3 DEF TickCompletes
    <2> DEFINE id == tick[t].list[i].id
               rest == Rest(t, i)
               buf == Completed(tick[t].list[i].sch)
               r == [tick[t] EXCEPT !.pc = "completing", !.id = id, !.list = rest, !.buf = buf]
    <2>1. rest \in Snapshots /\ id \in Schedules /\ buf \in StoredSchedules
      BY <1>0, ReachedTyped, CompletedTyped
    <2>2. tick' = [tick EXCEPT ![t] = r]
      OBVIOUS
    <2> HIDE DEF id, rest, buf
    <2>3. r \in TickRecords /\ TickShape(r)
      BY <1>0, <1>t, <2>1 DEF TickRecords, TickStates, TickShape
    <2> HIDE DEF r
    <2> QED BY <1>t, <2>2, <2>3, TickNext
  <1>4. CASE CompletedPut(t)
    BY <1>4, <1>t, <1>back, <1>put, TickNext DEF CompletedPut
  <1>5. CASE TickRuns(t)
    <2>p. PICK i \in DOMAIN tick[t].list :
          LET entry == tick[t].list[i]
              run == Len(executions[entry.id]) + 1
          IN  /\ running' = running \cup {entry.id}
              /\ tick' = [tick EXCEPT ![t].pc = "starting", ![t].id = entry.id,
                   ![t].run = run, ![t].list = Rest(t, i),
                   ![t].buf = [entry.sch EXCEPT !.runs =
                      Append(@, [id |-> run, st |-> "running"])]]
              /\ UNCHANGED <<now, up, bootAt, crashes, created, file, commands, user, executions,
                             failures, leaked>>
      BY <1>5 DEF TickRuns
    <2> DEFINE id == tick[t].list[i].id
               rest == Rest(t, i)
               sch == tick[t].list[i].sch
               n == Len(executions[id])
               run == n + 1
               buf == [sch EXCEPT !.runs = Append(sch.runs, [id |-> run, st |-> "running"])]
               r == [tick[t] EXCEPT !.pc = "starting", !.id = id, !.run = run,
                                    !.list = rest, !.buf = buf]
    <2>1. rest \in Snapshots /\ id \in Schedules /\ sch \in StoredSchedules
      BY <1>0, ReachedTyped
    <2>2. tick' = [tick EXCEPT ![t] = r]
      BY <2>p
    <2>3. running' = running \cup {id}
      BY <2>p
    <2>4. run \in Nat
      <3>1. executions[id] \in Seq(Nat)
        BY <1>t, <2>1
      <3>2. n \in Nat
        BY <3>1, LenProperties
      <3> HIDE DEF n
      <3> QED BY <3>2
    <2> HIDE DEF run
    <2>5. [id |-> run, st |-> "running"] \in Runs /\ sch.runs \in Seq(Runs)
      BY <2>1, <2>4 DEF Runs, StoredSchedules
    <2>6. Append(sch.runs, [id |-> run, st |-> "running"]) \in Seq(Runs)
      BY <2>5, AppendProperties
    <2>7. buf \in StoredSchedules
      BY <2>1, <2>6 DEF StoredSchedules
    <2> HIDE DEF id, rest, sch, buf
    <2>8. r \in TickRecords /\ TickShape(r)
      BY <1>0, <1>t, <2>1, <2>4, <2>7 DEF TickRecords, TickStates, TickShape
    <2> HIDE DEF r
    <2> QED BY <1>t, <2>p, <2>1, <2>2, <2>3, <2>8, TickNext
  <1>6. CASE RunStarts(t)
    <2> DEFINE r == [tick[t] EXCEPT !.pc = "running", !.buf = Nothing]
    <2>1. r \in TickRecords /\ TickShape(r)
      BY <1>0, <1>t, <1>6, NothingTyped DEF RunStarts, TickRecords, TickStates, TickShape
    <2>2. tick' = [tick EXCEPT ![t] = r]
      BY <1>6 DEF RunStarts
    <2>3. tick[t].buf.next \in Nat
      BY <1>id DEF StoredSchedules
    <2>4. executions' \in [Schedules -> Seq(Nat)]
      <3> DEFINE n == tick[t].buf.next
                 id == tick[t].id
                 seq == Append(executions[id], n)
      <3>1. id \in Schedules
        BY <1>0, <1>6 DEF RunStarts, TickShape
      <3>2. executions[id] \in Seq(Nat) /\ n \in Nat
        BY <1>t, <2>3, <3>1
      <3>3. executions' = [executions EXCEPT ![id] = seq]
        BY <1>6 DEF RunStarts
      <3> HIDE DEF n, id
      <3>4. seq \in Seq(Nat)
        BY <3>2, AppendProperties
      <3> HIDE DEF seq
      <3> QED BY <1>t, <3>3, <3>4
    <2> HIDE DEF r
    <2> QED BY <1>6, <1>t, <1>put, <2>1, <2>2, <2>4, TickNext DEF RunStarts
  <1>7. CASE RunnerReturns(t)
    <2> PICK res \in {"succeeded", "failed"} :
          tick' = [tick EXCEPT ![t].pc = "finishing", ![t].res = res]
      BY <1>7 DEF RunnerReturns
    <2> DEFINE r == [tick[t] EXCEPT !.pc = "finishing", !.res = res]
    <2>1. r \in TickRecords /\ TickShape(r)
      BY <1>0, <1>t, <1>7 DEF RunnerReturns, TickRecords, TickStates, TickShape
    <2>2. tick' = [tick EXCEPT ![t] = r]
      OBVIOUS
    <2> HIDE DEF r
    <2> QED BY <1>7, <1>t, <2>1, <2>2, TickNext DEF RunnerReturns
  <1>8. CASE FinishReads(t)
    <2> DEFINE buf == Finished(file[tick[t].id], tick[t].run, tick[t].res)
               r == [tick[t] EXCEPT !.pc = "ending", !.buf = buf]
    <2>1. buf \in StoredSchedules
      BY <1>0, <1>8, <1>id, StoredTyped, FinishedTyped DEF FinishReads, TickShape
    <2>2. tick' = [tick EXCEPT ![t] = r]
      BY <1>8 DEF FinishReads
    <2> HIDE DEF buf
    <2>3. r \in TickRecords /\ TickShape(r)
      BY <1>0, <1>t, <1>8, <2>1 DEF FinishReads, TickRecords, TickStates, TickShape
    <2> HIDE DEF r
    <2> QED BY <1>8, <1>t, <2>2, <2>3, TickNext DEF FinishReads
  <1>rej. ASSUME tick[t].pc \in {"finishing", "ending"}, FinishRejects(t),
                 UNCHANGED <<now, up, bootAt, crashes, created, commands, user, executions, leaked>>,
                 failures' \in Nat, file' \in [Schedules -> Contents]
          PROVE  TInv'
    <2> DEFINE r == [tick[t] EXCEPT !.pc = "finishing", !.res = "failed", !.buf = Nothing]
    <2>1. r \in TickRecords /\ TickShape(r)
      BY <1>0, <1>t, <1>rej, NothingTyped DEF TickRecords, TickShape, TickStates
    <2>2. tick' = [tick EXCEPT ![t] = r] \/ tick' = [tick EXCEPT ![t] = Idle]
      BY <1>rej DEF FinishRejects
    <2>3. running' \in SUBSET Schedules
      BY <1>rej, <1>t DEF FinishRejects, Release
    <2> HIDE DEF r
    <2> QED BY <1>rej, <1>t, <1>idle, <2>1, <2>2, <2>3, TickNext
  <1>9. CASE FinishFails(t)
    BY <1>9, <1>t, <1>rej DEF FinishFails
  <1>10. CASE RunEnds(t)
    <2>1. running' \in SUBSET Schedules
      BY <1>10, <1>t DEF RunEnds
    <2> QED BY <1>10, <1>t, <1>back, <1>put, <2>1, TickNext DEF RunEnds
  <1>11. CASE CompletedPutRejects(t)
    <2>1. failures' \in Nat /\ file' \in [Schedules -> Contents]
      BY <1>0, <1>11, RejectTyped DEF CompletedPutRejects
    <2> QED BY <1>11, <1>t, <1>idle, <2>1, TickNext DEF CompletedPutRejects
  <1>12. CASE RunStartRejects(t)
    <2>1. failures' \in Nat /\ file' \in [Schedules -> Contents]
      BY <1>0, <1>12, RejectTyped DEF RunStartRejects
    <2>2. leaked' \in SUBSET Schedules
      BY <1>0, <1>12, <1>t DEF RunStartRejects, TickShape
    <2> QED BY <1>12, <1>t, <1>idle, <2>1, <2>2, TickNext DEF RunStartRejects
  <1>13. CASE RunEndRejects(t)
    <2>1. failures' \in Nat /\ file' \in [Schedules -> Contents]
      BY <1>0, <1>13, RejectTyped DEF RunEndRejects
    <2> QED BY <1>13, <1>rej, <2>1 DEF RunEndRejects
  <1> QED BY <1>1, <1>2, <1>3, <1>4, <1>5, <1>6, <1>7, <1>8, <1>9, <1>10, <1>11, <1>12, <1>13
       DEF TickRejects

\* The ticks do not change, and neither do a tick's executions.
LEMMA OthersNext ==
    ASSUME TInv,
           UNCHANGED <<crashes, running, tick, executions, leaked>>,
           failures' \in Nat, now' \in Nat, bootAt' \in Nat, commands' \in Nat, up' \in BOOLEAN,
           created' \in Seq(Schedules),
           file' \in [Schedules -> Contents],
           user' \in [Users -> UserRecords]
    PROVE  TInv'
  BY TypeParts, TypeNext DEF TInv, TickShape

\* The users' commands keep the state well formed.
LEMMA CommandTInv ==
    ASSUME TInv, NEW u \in Users, NEW s \in Schedules,
           Create(u, s) \/ Pause(u, s) \/ Resume(u, s)
    PROVE  TInv'
  <1>0. TypeOK
    BY DEF TInv
  <1>1. /\ now \in Nat /\ commands \in Nat /\ created \in Seq(Schedules)
        /\ user \in [Users -> UserRecords]
    BY <1>0, TypeParts
  <1>2. \A sch \in StoredSchedules : Command(u, s, sch) =>
          commands' \in Nat /\ user' \in [Users -> UserRecords]
    BY <1>1 DEF Command, UserRecords
  <1>3. CASE Create(u, s)
    <2> DEFINE sch == [status |-> "active", next |-> NextRun(now), runs |-> <<>>]
    <2>1. sch \in StoredSchedules
      BY <1>1, NextRunLater DEF StoredSchedules, Statuses
    <2>2. created' \in Seq(Schedules)
      BY <1>1, <1>3 DEF Create
    <2> QED BY <1>0, <1>2, <1>3, <2>1, <2>2, TypeParts, OthersNext DEF Create
  <1>4. CASE Pause(u, s)
    <2> DEFINE sch == [file[s] EXCEPT !.status = "paused", !.next = 0]
    <2>1. sch \in StoredSchedules
      BY <1>0, <1>4, StoredTyped DEF Pause, StoredSchedules, Statuses
    <2> QED BY <1>0, <1>2, <1>4, <2>1, TypeParts, OthersNext DEF Pause
  <1>5. CASE Resume(u, s)
    <2> DEFINE sch == [file[s] EXCEPT !.status = "active", !.next = NextRun(now)]
    <2>1. sch \in StoredSchedules
      BY <1>0, <1>1, <1>5, StoredTyped, NextRunLater DEF Resume, StoredSchedules, Statuses
    <2> QED BY <1>0, <1>2, <1>5, <2>1, TypeParts, OthersNext DEF Resume
  <1> QED BY <1>3, <1>4, <1>5

\* Every step keeps the state well formed.
LEMMA NextTInv == TInv /\ [Next]_vars => TInv'
  <1> SUFFICES ASSUME TInv, [Next]_vars PROVE TInv'
    OBVIOUS
  <1>0. TypeOK
    BY DEF TInv
  <1>1. /\ now \in Nat /\ bootAt \in Nat /\ crashes \in Nat /\ commands \in Nat
        /\ up \in BOOLEAN /\ created \in Seq(Schedules)
        /\ file \in [Schedules -> Contents]
        /\ user \in [Users -> UserRecords]
        /\ executions \in [Schedules -> Seq(Nat)]
        /\ failures \in Nat /\ leaked \in SUBSET Schedules
    BY <1>0, TypeParts
  <1>2. CASE \E t \in Ticks : TickLists(t) \/ TickStep(t) \/ RunnerReturns(t) \/ TickRejects(t)
    BY <1>2, TickTInv DEF TickStep
  <1>3. CASE \E u \in Users : \E s \in Schedules : Create(u, s) \/ Pause(u, s) \/ Resume(u, s)
    BY <1>3, CommandTInv
  <1>4. CASE \E u \in Users : CommandPut(u)
    <2> PICK u \in Users : CommandPut(u)
      BY <1>4
    <2>1. user[u].buf \in Contents
      BY <1>1 DEF UserRecords, Contents
    <2>2. file' \in [Schedules -> Contents]
      BY <1>1, <2>1 DEF CommandPut
    <2>3. user' \in [Users -> UserRecords]
      BY <1>1, IdleTyped DEF CommandPut
    <2> QED BY <1>1, <2>2, <2>3, OthersNext DEF CommandPut
  <1>5. CASE \E s \in Schedules : Delete(s)
    <2>1. file' \in [Schedules -> Contents] /\ commands' \in Nat
      BY <1>1, <1>5 DEF Delete, Contents
    <2> QED BY <1>1, <1>5, <2>1, OthersNext DEF Delete
  <1>6. CASE Advance
    BY <1>1, <1>6, OthersNext DEF Advance
  <1>7. CASE Crash
    <2>1. file' \in [Schedules -> Contents]
      BY <1>1, <1>7 DEF Crash, Contents
    <2>2. tick' \in [Ticks -> TickRecords] /\ user' \in [Users -> UserRecords]
      BY <1>7, IdleTyped DEF Crash
    <2>3. \A t \in Ticks : TickShape(tick[t])'
      BY <1>7 DEF Crash, TickShape, Idle
    <2>4. crashes' = crashes + 1 /\ running' = {} /\ up' = FALSE /\ leaked' = {}
          /\ UNCHANGED <<now, bootAt, created, commands, executions, failures>>
      BY <1>7, Zenon DEF Crash
    <2>5. TypeOK'
      <3>1. now' \in Nat /\ bootAt' \in Nat /\ commands' \in Nat /\ crashes' \in Nat
        BY <1>1, <2>4
      <3>3. running' \in SUBSET Schedules
        BY <2>4
      <3>4. up' \in BOOLEAN
        BY <2>4
      <3>2. created' \in Seq(Schedules) /\ executions' \in [Schedules -> Seq(Nat)]
        BY <1>1, <2>4
      <3>5. failures' \in Nat /\ leaked' \in SUBSET Schedules
        BY <1>1, <2>4
      <3> QED BY <2>1, <2>2, <3>1, <3>2, <3>3, <3>4, <3>5, TypeNext
    <2> QED BY <2>3, <2>5 DEF TInv
  <1>8. CASE Boot
    <2>1. \A s \in Schedules : Stored(s) => Recovered(file[s]) \in Contents
      BY <1>0, StoredTyped, RecoveredTyped DEF Contents
    <2>2. file' \in [Schedules -> Contents]
      BY <1>1, <1>8, <2>1 DEF Boot
    <2> QED BY <1>1, <1>8, <2>2, OthersNext DEF Boot
  <1>9. CASE UNCHANGED vars
    BY <1>1, <1>9, OthersNext DEF vars
  <1>10. CASE \E u \in Users : CommandPutRejects(u)
    <2> PICK u \in Users : CommandPutRejects(u)
      BY <1>10
    <2>1. failures' \in Nat /\ file' \in [Schedules -> Contents]
      BY <1>0, RejectTyped DEF CommandPutRejects
    <2>2. user' \in [Users -> UserRecords]
      BY <1>1, IdleTyped DEF CommandPutRejects
    <2> QED BY <1>1, <2>1, <2>2, OthersNext DEF CommandPutRejects
  <1>11. CASE BootFails
    <2>1. \A s \in Schedules : Stored(s) => Recovered(file[s]) \in Contents
      BY <1>0, StoredTyped, RecoveredTyped DEF Contents
    <2>i. PICK i \in DOMAIN created : \E content \in {file[created[i]], Torn} :
            file' = [s \in Schedules |->
              IF s = created[i] THEN content
              ELSE IF Stored(s) /\ \E j \in 1..(i - 1) : created[j] = s THEN Recovered(file[s])
              ELSE file[s]]
      BY <1>11 DEF BootFails
    <2>2. PICK content \in {file[created[i]], Torn} :
            file' = [s \in Schedules |->
              IF s = created[i] THEN content
              ELSE IF Stored(s) /\ \E j \in 1..(i - 1) : created[j] = s THEN Recovered(file[s])
              ELSE file[s]]
      BY <2>i
    <2>3. created[i] \in Schedules
      BY <1>1
    <2>4. content \in Contents
      BY <1>1, <2>3 DEF Contents
    <2>5. file' \in [Schedules -> Contents]
      BY <1>1, <2>1, <2>2, <2>4
    <2>6. failures' \in Nat /\ UNCHANGED <<now, up, bootAt, crashes, created, running, tick,
                                           commands, user, executions, leaked>>
      BY <1>1, <1>11 DEF BootFails
    <2> QED BY <1>1, <2>5, <2>6, OthersNext
  <1> QED BY <1>2, <1>3, <1>4, <1>5, <1>6, <1>7, <1>8, <1>9, <1>10, <1>11 DEF Next

LEMMA TInvHolds == Spec => []TInv
  BY InitTInv, NextTInv, PTL DEF Spec

(* Every reachable state is well formed: statuses, times and lists alike.   *)
THEOREM TypeCorrect == Spec => []TypeOK
  <1>1. TInv => TypeOK
    BY DEF TInv
  <1> QED BY <1>1, TInvHolds, PTL

-----------------------------------------------------------------------------
(* One execution of a schedule at a time *)

\* What runs is not among the ids that are lost: the strengthening.
OInv ==
    /\ OneExecution
    /\ \A t \in Ticks : Executes(t) => tick[t].id \notin leaked

\* A tick that does not take or release an id leaves who executes alone.
LEMMA SameExecutions ==
    ASSUME TInv, OInv, NEW t \in Ticks, NEW r,
           tick' = [tick EXCEPT ![t] = r],
           r.pc \in Executing <=> Executes(t),
           Executes(t) => r.id = tick[t].id,
           UNCHANGED <<running, leaked>>
    PROVE  OInv'
  <1>1. tick'[t] = r /\ \A x \in Ticks \ {t} : tick'[x] = tick[x]
    BY TypeParts DEF TInv
  <1>2. \A x \in Ticks : /\ Executes(x)' <=> Executes(x)
                         /\ Executes(x) => tick'[x].id = tick[x].id
    BY <1>1 DEF Executes
  <1>3. {tick'[x].id : x \in {y \in Ticks : Executes(y)'}}
          = {tick[x].id : x \in {y \in Ticks : Executes(y)}}
    BY <1>2
  <1> QED BY <1>2, <1>3 DEF OInv, OneExecution

\* A tick that executes no more: no other executes its id.
LEMMA Stopped ==
    ASSUME TInv, OInv, NEW t \in Ticks, NEW r,
           Executes(t), tick' = [tick EXCEPT ![t] = r], r.pc \notin Executing
    PROVE  /\ \A x \in Ticks : /\ Executes(x)' <=> Executes(x) /\ x # t
                               /\ Executes(x)' => tick'[x].id = tick[x].id
           /\ {tick'[x].id : x \in {y \in Ticks : Executes(y)'}}
                 = {tick[x].id : x \in {y \in Ticks : Executes(y)}} \ {tick[t].id}
           /\ tick[t].id \in running /\ tick[t].id \notin leaked
  <1>1. tick'[t] = r /\ \A x \in Ticks \ {t} : tick'[x] = tick[x]
    BY TypeParts DEF TInv
  <1>2. \A x \in Ticks : /\ Executes(x)' <=> Executes(x) /\ x # t
                         /\ Executes(x)' => tick'[x].id = tick[x].id
    BY <1>1 DEF Executes
  <1>3. {tick'[x].id : x \in {y \in Ticks : Executes(y)'}}
          = {tick[x].id : x \in {y \in Ticks : Executes(y)}} \ {tick[t].id}
    BY <1>2 DEF OInv, OneExecution
  <1> QED BY <1>2, <1>3 DEF OInv, OneExecution

\* The end of an execution, in the finally.
LEMMA Released ==
    ASSUME TInv, OInv, NEW t \in Ticks, NEW r,
           Executes(t), tick' = [tick EXCEPT ![t] = r], r.pc \notin Executing,
           running' = running \ {tick[t].id}, UNCHANGED leaked
    PROVE  OInv'
  <1>1. /\ \A x \in Ticks : /\ Executes(x)' <=> Executes(x) /\ x # t
                            /\ Executes(x)' => tick'[x].id = tick[x].id
        /\ {tick'[x].id : x \in {y \in Ticks : Executes(y)'}}
              = {tick[x].id : x \in {y \in Ticks : Executes(y)}} \ {tick[t].id}
        /\ tick[t].id \notin leaked
    BY Stopped
  <1>2. running' = ({tick[x].id : x \in {y \in Ticks : Executes(y)}} \ {tick[t].id}) \cup leaked
    BY <1>1 DEF OInv, OneExecution
  <1> QED BY <1>1, <1>2 DEF OInv, OneExecution

\* The end of an execution whose start could not be written.
LEMMA Lost ==
    ASSUME TInv, OInv, NEW t \in Ticks, NEW r,
           Executes(t), tick' = [tick EXCEPT ![t] = r], r.pc \notin Executing,
           UNCHANGED running, leaked' = leaked \cup {tick[t].id}
    PROVE  OInv'
  <1>1. /\ \A x \in Ticks : /\ Executes(x)' <=> Executes(x) /\ x # t
                            /\ Executes(x)' => tick'[x].id = tick[x].id
        /\ {tick'[x].id : x \in {y \in Ticks : Executes(y)'}}
              = {tick[x].id : x \in {y \in Ticks : Executes(y)}} \ {tick[t].id}
        /\ tick[t].id \in running
    BY Stopped
  <1>2. running' = ({tick[x].id : x \in {y \in Ticks : Executes(y)}} \ {tick[t].id}) \cup leaked'
    BY <1>1 DEF OInv, OneExecution
  <1>3. \A x \in Ticks : Executes(x)' => tick'[x].id \notin leaked'
    BY <1>1 DEF OInv, OneExecution
  <1> QED BY <1>1, <1>2, <1>3 DEF OInv, OneExecution

\* A tick that takes a free id is the only one that executes it.
LEMMA Taken ==
    ASSUME TInv, OInv, NEW t \in Ticks, NEW id,
           ~Executes(t), tick'[t].pc \in Executing, tick'[t].id = id,
           \A x \in Ticks \ {t} : tick'[x] = tick[x],
           id \notin running, running' = running \cup {id}, UNCHANGED leaked
    PROVE  OInv'
  <1>1. \A x \in Ticks : /\ Executes(x)' <=> Executes(x) \/ x = t
                         /\ Executes(x) => tick'[x].id = tick[x].id
    BY DEF Executes
  <1>2. {tick'[x].id : x \in {y \in Ticks : Executes(y)'}}
          = {tick[x].id : x \in {y \in Ticks : Executes(y)}} \cup {id}
    BY <1>1
  <1>3. id \notin leaked /\ \A x \in Ticks : Executes(x) => tick[x].id # id
    BY DEF OInv, OneExecution
  <1> QED BY <1>1, <1>2, <1>3 DEF OInv, OneExecution

\* Every step leaves at most one execution of a schedule.
LEMMA NextOInv == TInv /\ OInv /\ [Next]_vars => OInv'
  <1> SUFFICES ASSUME TInv, OInv, [Next]_vars PROVE OInv'
    OBVIOUS
  <1>0. TypeOK /\ tick \in [Ticks -> TickRecords]
    BY TypeParts DEF TInv
  <1>1. ASSUME NEW t \in Ticks, TickLists(t) \/ TickStep(t) \/ RunnerReturns(t) \/ TickRejects(t)
        PROVE  OInv'
    <2>back. [Idle EXCEPT !.pc = "loop", !.at = tick[t].at, !.list = tick[t].list].pc \notin Executing
      BY DEF Idle, Executing
    <2>idle. Idle.pc \notin Executing
      BY DEF Idle, Executing
    <2>t. tick[t] \in TickRecords
      BY <1>0
    <2>1. CASE TickLists(t)
      <3> DEFINE list == [i \in DOMAIN created |-> Entry(created[i])]
                 r == [tick[t] EXCEPT !.pc = "loop", !.at = now, !.list = list]
      <3>1. tick' = [tick EXCEPT ![t] = r]
        BY <2>1 DEF TickLists
      <3> HIDE DEF list
      <3>2. r.pc \notin Executing /\ ~Executes(t)
        BY <2>t, <2>1 DEF TickLists, Executes, Executing, TickRecords
      <3> HIDE DEF r
      <3> QED BY <2>1, <3>1, <3>2, SameExecutions DEF TickLists
    <2>2. CASE TickEnds(t)
      <3>1. ~Executes(t)
        BY <2>2 DEF TickEnds, Executes, Executing
      <3> QED BY <2>2, <2>idle, <3>1, SameExecutions DEF TickEnds
    <2>3. CASE TickCompletes(t)
      <3> PICK i \in DOMAIN tick[t].list :
            /\ Reaches(t, i)
            /\ tick' = [tick EXCEPT ![t].pc = "completing", ![t].id = tick[t].list[i].id,
                 ![t].list = Rest(t, i), ![t].buf = Completed(tick[t].list[i].sch)]
            /\ UNCHANGED <<running, leaked>>
        BY <2>3 DEF TickCompletes
      <3> DEFINE id == tick[t].list[i].id
                 rest == Rest(t, i)
                 buf == Completed(tick[t].list[i].sch)
                 r == [tick[t] EXCEPT !.pc = "completing", !.id = id, !.list = rest, !.buf = buf]
      <3>1. tick' = [tick EXCEPT ![t] = r]
        OBVIOUS
      <3> HIDE DEF id, rest, buf
      <3>2. r.pc \notin Executing /\ ~Executes(t)
        BY <2>t DEF Reaches, Executes, Executing, TickRecords
      <3> HIDE DEF r
      <3> QED BY <3>1, <3>2, SameExecutions
    <2>4. CASE CompletedPut(t)
      <3>1. ~Executes(t)
        BY <2>4 DEF CompletedPut, Executes, Executing
      <3> QED BY <2>4, <2>back, <3>1, SameExecutions DEF CompletedPut
    <2>5. CASE TickRuns(t)
      <3> PICK i \in DOMAIN tick[t].list :
            /\ Reaches(t, i)
            /\ running' = running \cup {tick[t].list[i].id}
            /\ tick' = [tick EXCEPT ![t].pc = "starting", ![t].id = tick[t].list[i].id,
                 ![t].run = Len(executions[tick[t].list[i].id]) + 1,
                 ![t].list = Rest(t, i),
                 ![t].buf = [tick[t].list[i].sch EXCEPT !.runs = Append(@,
                   [id |-> Len(executions[tick[t].list[i].id]) + 1, st |-> "running"])]]
            /\ UNCHANGED leaked
        BY <2>5 DEF TickRuns
      <3> DEFINE id == tick[t].list[i].id
      <3>1. ~Executes(t) /\ id \notin running
        BY DEF Reaches, PassedOver, Skips, Executes, Executing
      <3>2. /\ tick'[t].pc = "starting" /\ tick'[t].id = id
            /\ \A x \in Ticks \ {t} : tick'[x] = tick[x]
        BY <1>0, <2>t DEF TickRecords
      <3>3. running' = running \cup {id} /\ tick'[t].pc \in Executing
        BY <3>2 DEF Executing
      <3> HIDE DEF id
      <3> QED BY <3>1, <3>2, <3>3, Taken
    <2>6. CASE RunStarts(t)
      <3> DEFINE r == [tick[t] EXCEPT !.pc = "running", !.buf = Nothing]
      <3>1. tick' = [tick EXCEPT ![t] = r]
        BY <2>6 DEF RunStarts
      <3>2. r.pc \in Executing /\ Executes(t) /\ r.id = tick[t].id
        BY <2>t, <2>6 DEF RunStarts, Executes, Executing, TickRecords
      <3> HIDE DEF r
      <3> QED BY <2>6, <3>1, <3>2, SameExecutions DEF RunStarts
    <2>7. CASE RunnerReturns(t)
      <3> PICK res : tick' = [tick EXCEPT ![t].pc = "finishing", ![t].res = res]
        BY <2>7 DEF RunnerReturns
      <3> DEFINE r == [tick[t] EXCEPT !.pc = "finishing", !.res = res]
      <3>1. tick' = [tick EXCEPT ![t] = r]
        OBVIOUS
      <3>2. r.pc \in Executing /\ Executes(t) /\ r.id = tick[t].id
        BY <2>t, <2>7 DEF RunnerReturns, Executes, Executing, TickRecords
      <3> HIDE DEF r
      <3> QED BY <2>7, <3>1, <3>2, SameExecutions DEF RunnerReturns
    <2>8. CASE FinishReads(t)
      <3> DEFINE buf == Finished(file[tick[t].id], tick[t].run, tick[t].res)
                 r == [tick[t] EXCEPT !.pc = "ending", !.buf = buf]
      <3>1. tick' = [tick EXCEPT ![t] = r]
        BY <2>8 DEF FinishReads
      <3> HIDE DEF buf
      <3>2. r.pc \in Executing /\ Executes(t) /\ r.id = tick[t].id
        BY <2>t, <2>8 DEF FinishReads, Executes, Executing, TickRecords
      <3> HIDE DEF r
      <3> QED BY <2>8, <3>1, <3>2, SameExecutions DEF FinishReads
    <2>rej. ASSUME tick[t].pc \in {"finishing", "ending"}, FinishRejects(t), UNCHANGED leaked
            PROVE  OInv'
      <3>0. Executes(t)
        BY <2>rej DEF Executes, Executing
      <3>1. CASE tick[t].res = "succeeded"
        <4> DEFINE r == [tick[t] EXCEPT !.pc = "finishing", !.res = "failed", !.buf = Nothing]
        <4>1. tick' = [tick EXCEPT ![t] = r] /\ UNCHANGED running
          BY <2>rej, <3>1 DEF FinishRejects
        <4>2. r.pc \in Executing /\ r.id = tick[t].id
          BY <2>t DEF Executing, TickRecords
        <4> HIDE DEF r
        <4> QED BY <2>rej, <3>0, <4>1, <4>2, SameExecutions
      <3>2. CASE tick[t].res # "succeeded"
        <4>1. tick' = [tick EXCEPT ![t] = Idle] /\ running' = running \ {tick[t].id}
          BY <2>rej, <3>2 DEF FinishRejects, Release
        <4> QED BY <2>rej, <2>idle, <3>0, <4>1, Released
      <3> QED BY <3>1, <3>2
    <2>9. CASE FinishFails(t)
      BY <2>9, <2>rej DEF FinishFails
    <2>10. CASE RunEnds(t)
      <3>1. Executes(t)
        BY <2>10 DEF RunEnds, Executes, Executing
      <3> QED BY <2>10, <2>back, <3>1, Released DEF RunEnds
    <2>11. CASE CompletedPutRejects(t)
      <3>1. ~Executes(t)
        BY <2>11 DEF CompletedPutRejects, Executes, Executing
      <3> QED BY <2>11, <2>idle, <3>1, SameExecutions DEF CompletedPutRejects
    <2>12. CASE RunStartRejects(t)
      <3>1. Executes(t)
        BY <2>12 DEF RunStartRejects, Executes, Executing
      <3> QED BY <2>12, <2>idle, <3>1, Lost DEF RunStartRejects
    <2>13. CASE RunEndRejects(t)
      BY <2>13, <2>rej DEF RunEndRejects
    <2> QED BY <1>1, <2>1, <2>2, <2>3, <2>4, <2>5, <2>6, <2>7, <2>8, <2>9, <2>10, <2>11, <2>12, <2>13
         DEF TickStep, TickRejects
  <1>2. CASE UNCHANGED <<tick, running, leaked>>
    BY <1>2 DEF OInv, OneExecution, Executes
  <1>3. CASE Crash
    BY <1>3 DEF Crash, OInv, OneExecution, Executes, Executing, Idle
  <1>4. CASE \/ \E u \in Users : \/ \E s \in Schedules : Create(u, s) \/ Pause(u, s) \/ Resume(u, s)
                                 \/ CommandPut(u) \/ CommandPutRejects(u)
             \/ \E s \in Schedules : Delete(s)
             \/ Advance \/ Boot \/ BootFails \/ UNCHANGED vars
    BY <1>2, <1>4 DEF Create, Pause, Resume, CommandPut, CommandPutRejects, Delete, Advance, Boot,
         BootFails, vars
  <1> QED BY <1>1, <1>3, <1>4 DEF Next

LEMMA OInvHolds == Spec => []OInv
  <1>1. Init => OInv
    BY DEF Init, OInv, OneExecution, Executes, Executing, Idle
  <1> QED BY <1>1, NextOInv, TInvHolds, PTL DEF Spec

(* Ticks overlap, but runningScheduleIds keeps a schedule from being run    *)
(* twice at a time, and every execution that was begun gives its id back,   *)
(* however it ends; what else is in the set are ids whose start could not   *)
(* be written.                                                              *)
THEOREM OneExecutionHolds == Spec => []OneExecution
  <1>1. OInv => OneExecution
    BY DEF OInv
  <1> QED BY <1>1, OInvHolds, PTL

\* The steps that ask the runner, and those that do not.
LEMMA OnlyStartsExecute ==
    ASSUME [Next]_vars
    PROVE  (\E t \in Ticks : RunStarts(t)) \/ UNCHANGED executions
  <1>1. ASSUME NEW t \in Ticks, TickLists(t) \/ TickStep(t) \/ RunnerReturns(t) \/ TickRejects(t)
        PROVE  RunStarts(t) \/ UNCHANGED executions
    BY <1>1 DEF TickStep, TickRejects, TickLists, TickEnds, TickCompletes, CompletedPut, TickRuns,
         RunnerReturns, FinishReads, FinishFails, RunEnds, CompletedPutRejects, RunStartRejects,
         RunEndRejects
  <1>2. ASSUME NEW u \in Users, NEW s \in Schedules,
               Create(u, s) \/ Pause(u, s) \/ Resume(u, s)
        PROVE  UNCHANGED executions
    BY <1>2 DEF Create, Pause, Resume
  <1>3. ASSUME NEW u \in Users, CommandPut(u) \/ CommandPutRejects(u) PROVE UNCHANGED executions
    BY <1>3 DEF CommandPut, CommandPutRejects
  <1>4. ASSUME NEW s \in Schedules, Delete(s) PROVE UNCHANGED executions
    BY <1>4 DEF Delete
  <1>5. Advance \/ Boot \/ BootFails \/ UNCHANGED vars => UNCHANGED executions
    BY DEF Advance, Boot, BootFails, vars
  <1>6. Crash => UNCHANGED executions
    BY Zenon DEF Crash
  <1> QED BY <1>1, <1>2, <1>3, <1>4, <1>5, <1>6 DEF Next

(* A schedule whose start could not be written is never executed while the  *)
(* daemon lives: no tick, whatever list it holds, gets past the id.          *)
THEOREM LeakedRunsNoMoreHolds == Spec => LeakedRunsNoMore
  <1> DEFINE Step == \A s \in leaked : UNCHANGED executions[s]
  <1>1. TInv /\ OInv /\ [Next]_vars => [Step]_vars
    <2> SUFFICES ASSUME TInv, OInv, [Next]_vars PROVE Step
      OBVIOUS
    <2>1. ASSUME NEW t \in Ticks, RunStarts(t) PROVE Step
      <3>1. executions \in [Schedules -> Seq(Nat)] /\ leaked \in SUBSET Schedules
        BY TypeParts DEF TInv
      <3>2. tick[t].id \notin leaked
        BY <2>1 DEF OInv, RunStarts, Executes, Executing
      <3> DEFINE seq == Append(executions[tick[t].id], tick[t].buf.next)
      <3>3. executions' = [executions EXCEPT ![tick[t].id] = seq]
        BY <2>1 DEF RunStarts
      <3> HIDE DEF seq
      <3> QED BY <3>1, <3>2, <3>3
    <2>2. CASE UNCHANGED executions
      BY <2>2
    <2> QED BY <2>1, <2>2, OnlyStartsExecute
  <1>2. [Step]_vars => [\A s \in leaked : UNCHANGED executions[s]]_vars
    OBVIOUS
  <1> QED BY <1>1, <1>2, TInvHolds, OInvHolds, PTL DEF Spec, LeakedRunsNoMore

-----------------------------------------------------------------------------
(* Status and next time *)

\* What a file may hold, n being the time and b the time of the last start.
Good(sch, b, n) ==
    /\ sch.status = "active" <=> sch.next # 0
    /\ sch.next # 0 => sch.next > b
    /\ sch.status = "completed" => ShouldComplete(sch, n)

\* What a tick may run.
Live(sch, b) == sch.status = "active" /\ sch.next > b

TickGood(r, b, n) ==
    /\ r.at <= n
    /\ \A i \in DOMAIN r.list : r.list[i].sch = Nothing \/ Live(r.list[i].sch, b)
    /\ r.pc = "starting" => Live(r.buf, b)
    /\ r.pc \in {"completing", "starting", "ending"} => Good(r.buf, b, n)
UserGood(r, b, n) == r # NoCommand => Good(r.buf, b, n)

\* The strengthening: whatever may yet be written to a file is as good as it.
SInv ==
    /\ 1 <= bootAt /\ bootAt <= now
    /\ ~up => tick = [t \in Ticks |-> Idle] /\ user = [u \in Users |-> NoCommand]
    /\ \A s \in Schedules : Stored(s) => Good(file[s], bootAt, now)
    /\ \A t \in Ticks : TickGood(tick[t], bootAt, now)
    /\ \A u \in Users : UserGood(user[u], bootAt, now)

\* More runs have ended where each ended run stays ended.
LEMMA EndedGrows ==
    ASSUME NEW a \in StoredSchedules, NEW b \in StoredSchedules,
           DOMAIN a.runs \subseteq DOMAIN b.runs,
           \A i \in DOMAIN a.runs : a.runs[i].st # "running" => b.runs[i].st # "running"
    PROVE  Ended(a) \in Nat /\ Ended(b) \in Nat /\ Ended(a) <= Ended(b)
  <1> DEFINE A == {i \in DOMAIN a.runs : a.runs[i].st # "running"}
             B == {i \in DOMAIN b.runs : b.runs[i].st # "running"}
  <1>1. b.runs \in Seq(Runs)
    BY DEF StoredSchedules
  <1>2. DOMAIN b.runs = 1..Len(b.runs) /\ Len(b.runs) \in Nat
    BY <1>1
  <1>3. IsFiniteSet(1..Len(b.runs))
    BY <1>2, FS_Interval
  <1>4. A \subseteq B /\ B \subseteq 1..Len(b.runs)
    BY <1>2
  <1> HIDE DEF A, B
  <1>5. IsFiniteSet(B)
    BY <1>3, <1>4, FS_Subset
  <1>6. IsFiniteSet(A) /\ Cardinality(A) <= Cardinality(B)
    BY <1>4, <1>5, FS_Subset
  <1>7. Cardinality(A) \in Nat /\ Cardinality(B) \in Nat
    BY <1>5, <1>6, FS_CardinalityType
  <1> QED BY <1>6, <1>7 DEF Ended, A, B

\* A schedule that should complete should complete later on, too.
LEMMA ShouldCompleteLater ==
    ASSUME NEW a, NEW b, NEW n \in Nat, NEW m \in Nat, n <= m,
           Ended(a) \in Nat, Ended(b) \in Nat, Ended(a) <= Ended(b), ShouldComplete(a, n)
    PROVE  ShouldComplete(b, m)
  <1>1. ExpiresAt \in Nat /\ MaxRuns \in Nat
    BY ScheduleAssumption DEF ScheduleAssumption
  <1> QED BY <1>1 DEF ShouldComplete

LEMMA GoodLater ==
    ASSUME NEW sch \in StoredSchedules, NEW b \in Nat, NEW n \in Nat, NEW m \in Nat, n <= m,
           Good(sch, b, n)
    PROVE  Good(sch, b, m)
  <1>1. Ended(sch) \in Nat /\ Ended(sch) <= Ended(sch)
    BY EndedGrows
  <1>2. ShouldComplete(sch, n) => ShouldComplete(sch, m)
    BY <1>1, ShouldCompleteLater
  <1> QED BY <1>2 DEF Good

LEMMA GoodEarlier ==
    ASSUME NEW sch \in StoredSchedules, NEW b \in Nat, NEW c \in Nat, NEW n \in Nat, c <= b,
           Good(sch, b, n)
    PROVE  Good(sch, c, n)
  <1>1. sch.next \in Nat
    BY DEF StoredSchedules
  <1> QED BY <1>1 DEF Good

LEMMA CompletedGood ==
    ASSUME NEW sch \in StoredSchedules, NEW b \in Nat, NEW n \in Nat, ShouldComplete(sch, n)
    PROVE  Good(Completed(sch), b, n)
  <1> DEFINE c == Completed(sch)
  <1>1. c.status = "completed" /\ c.next = 0 /\ c.runs = sch.runs
    BY DEF Completed, StoredSchedules
  <1>2. ShouldComplete(c, n)
    BY <1>1 DEF ShouldComplete, Ended
  <1> HIDE DEF c
  <1>3. Good(c, b, n)
    BY <1>1, <1>2 DEF Good
  <1> QED BY <1>3 DEF c

\* A run's end leaves a good schedule good, paused or completed since or not.
LEMMA FinishedGood ==
    ASSUME TypeOK, 1 <= bootAt, bootAt <= now,
           NEW sch \in StoredSchedules, Good(sch, bootAt, now),
           NEW run \in Nat, NEW res \in {"none", "succeeded", "failed"}, res # "none"
    PROVE  Good(Finished(sch, run, res), bootAt, now)
  <1> DEFINE ended == [i \in DOMAIN sch.runs |->
                         IF sch.runs[i].id = run THEN [sch.runs[i] EXCEPT !.st = res]
                         ELSE sch.runs[i]]
             ran == [sch EXCEPT !.runs = ended]
             next == NextAfter(IF sch.next = 0 THEN now ELSE sch.next, now)
  <1>1. sch.runs \in Seq(Runs) /\ sch.next \in Nat /\ now \in Nat /\ bootAt \in Nat
    BY DEF StoredSchedules, TypeOK
  <1>2. \A i \in DOMAIN sch.runs : sch.runs[i] \in Runs
    BY <1>1
  <1>3. /\ DOMAIN ended = DOMAIN sch.runs
        /\ \A i \in DOMAIN sch.runs : ended[i] \in Runs
        /\ \A i \in DOMAIN sch.runs : sch.runs[i].st # "running" => ended[i].st # "running"
    BY <1>2 DEF Runs
  <1>4. DOMAIN sch.runs = 1..Len(sch.runs) /\ Len(sch.runs) \in Nat
    BY <1>1
  <1>5. ended = [i \in 1..Len(sch.runs) |-> ended[i]]
    BY <1>4
  <1>6. Finished(sch, run, res) =
          IF ShouldComplete(ran, now) THEN Completed(ran)
          ELSE IF ran.status = "paused" THEN [ran EXCEPT !.next = 0]
          ELSE [ran EXCEPT !.next = next]
    BY DEF Finished
  <1>7. next \in Nat /\ next > now
    BY <1>1, NextAfterLater
  <1> HIDE DEF ended, next
  <1>8. ended \in Seq(Runs)
    BY <1>3, <1>4, <1>5, IsASeq
  <1>9. ran \in StoredSchedules /\ ran.runs = ended /\ ran.status = sch.status
    BY <1>8 DEF StoredSchedules
  <1> HIDE DEF ran
  <1>10. Ended(sch) \in Nat /\ Ended(ran) \in Nat /\ Ended(sch) <= Ended(ran)
    BY <1>3, <1>9, EndedGrows
  <1>11. sch.status = "completed" => ShouldComplete(ran, now)
    BY <1>1, <1>10, ShouldCompleteLater DEF Good
  <1>12. CASE ShouldComplete(ran, now)
    BY <1>1, <1>6, <1>9, <1>12, CompletedGood
  <1>13. CASE ~ShouldComplete(ran, now) /\ ran.status = "paused"
    BY <1>6, <1>9, <1>13 DEF Good, StoredSchedules
  <1>14. CASE ~ShouldComplete(ran, now) /\ ran.status # "paused"
    <2>1. ran.status = "active"
      BY <1>9, <1>11, <1>14 DEF StoredSchedules, Statuses
    <2>2. next # 0 /\ next > bootAt
      BY <1>1, <1>7
    <2> QED BY <1>6, <1>9, <1>14, <2>1, <2>2 DEF Good, StoredSchedules
  <1> QED BY <1>12, <1>13, <1>14

\* After a restart no active schedule has a time that has passed.
LEMMA RecoveredGood ==
    ASSUME TypeOK, 1 <= bootAt, bootAt <= now,
           NEW sch \in StoredSchedules, Good(sch, bootAt, now)
    PROVE  Good(Recovered(sch), now, now)
  <1> DEFINE first(i) == /\ i \in {j \in DOMAIN sch.runs : sch.runs[j].st = "running"}
                         /\ \A j \in {k \in DOMAIN sch.runs : sch.runs[k].st = "running"} : i <= j
             runs == [i \in DOMAIN sch.runs |->
                        IF first(i) THEN [sch.runs[i] EXCEPT !.st = "failed"] ELSE sch.runs[i]]
             next == Skipped(sch)
             rec == [sch EXCEPT !.runs = runs, !.next = next]
  <1>1. sch.runs \in Seq(Runs) /\ sch.next \in Nat /\ now \in Nat /\ bootAt \in Nat
    BY DEF StoredSchedules, TypeOK
  <1>2. \A i \in DOMAIN sch.runs : sch.runs[i] \in Runs
    BY <1>1
  <1>3. Recovered(sch) = rec
    BY DEF Recovered
  <1>4. rec \in StoredSchedules
    BY <1>3, RecoveredTyped
  <1>n. NextAfter(sch.next, now) \in Nat /\ NextAfter(sch.next, now) > now
    BY <1>1, NextAfterLater
  <1> HIDE DEF first, runs
  <1>5. /\ next \in Nat
        /\ sch.status = "active" => next > now
        /\ sch.status # "active" => next = 0
    BY <1>1, <1>n DEF Good, Skipped
  <1> USE DEF runs
  <1>a. DOMAIN runs = DOMAIN sch.runs
    BY Zenon
  <1>b. ASSUME NEW i \in DOMAIN sch.runs, sch.runs[i].st # "running"
        PROVE  runs[i].st # "running"
    <2>1. CASE first(i)
      <3>1. runs[i] = [sch.runs[i] EXCEPT !.st = "failed"]
        BY <2>1
      <3> HIDE DEF runs
      <3> QED BY <1>2, <3>1 DEF Runs
    <2>2. CASE ~first(i)
      <3>1. runs[i] = sch.runs[i]
        BY <2>2
      <3> HIDE DEF runs
      <3> QED BY <1>b, <3>1
    <2> QED BY <2>1, <2>2
  <1> HIDE DEF runs, next
  <1>7. rec.runs = runs /\ rec.next = next /\ rec.status = sch.status
    BY DEF StoredSchedules
  <1> HIDE DEF rec
  <1>8. Ended(sch) \in Nat /\ Ended(rec) \in Nat /\ Ended(sch) <= Ended(rec)
    BY <1>4, <1>a, <1>b, <1>7, EndedGrows
  <1>9. sch.status = "completed" => ShouldComplete(rec, now)
    BY <1>1, <1>8, ShouldCompleteLater DEF Good
  <1> QED BY <1>1, <1>3, <1>5, <1>7, <1>9 DEF Good

LEMMA InitSInv == Init => SInv
  <1> SUFFICES ASSUME Init PROVE SInv
    OBVIOUS
  <1>1. \A s \in Schedules : ~Stored(s)
    BY DEF Init, Stored, NoFile, Nothing, Statuses
  <1>2. TickGood(Idle, bootAt, now) /\ UserGood(NoCommand, bootAt, now)
    BY DEF Init, TickGood, UserGood, Idle
  <1> QED BY <1>1, <1>2 DEF Init, SInv

\* A put of what is good leaves the files good.
LEMMA PutGood ==
    ASSUME TInv, SInv, NEW id, NEW buf, Good(buf, bootAt, now),
           file' = [file EXCEPT ![id] = buf]
    PROVE  \A s \in Schedules : Stored(s)' => Good(file'[s], bootAt, now)
  <1>1. file \in [Schedules -> Contents]
    BY TypeParts DEF TInv
  <1>2. \A s \in Schedules : file'[s] = buf \/ file'[s] = file[s]
    BY <1>1
  <1> QED BY <1>2 DEF SInv, Stored

\* A put that rejects leaves the files good.
LEMMA RejectGood ==
    ASSUME TInv, SInv, NEW s, PutRejects(s)
    PROVE  \A x \in Schedules : Stored(x)' => Good(file'[x], bootAt, now)
  <1>1. PICK content \in {file[s], Torn} : file' = [file EXCEPT ![s] = content]
    BY DEF PutRejects
  <1>2. file \in [Schedules -> Contents]
    BY TypeParts DEF TInv
  <1>3. \A x \in Schedules : file'[x] = file[x] \/ file'[x] = Torn
    BY <1>1, <1>2
  <1>4. Torn.status \notin Statuses
    BY DEF Torn, Nothing, Statuses
  <1> QED BY <1>3, <1>4 DEF SInv, Stored

\* A tick alone changes, to r, and perhaps a file.
LEMMA TickSInv ==
    ASSUME TInv, SInv, up, NEW t \in Ticks, NEW r, TickGood(r, bootAt, now),
           tick' = [tick EXCEPT ![t] = r],
           UNCHANGED <<now, up, bootAt, user>>,
           \A s \in Schedules : Stored(s)' => Good(file'[s], bootAt, now)
    PROVE  SInv'
  <1>1. tick'[t] = r /\ \A x \in Ticks \ {t} : tick'[x] = tick[x]
    BY TypeParts DEF TInv
  <1>2. \A x \in Ticks : TickGood(tick'[x], bootAt, now)
    BY <1>1 DEF SInv
  <1> QED BY <1>2 DEF SInv

\* What a tick reaches is live, and so is the rest of its list.
LEMMA ReachedLive ==
    ASSUME TInv, SInv, NEW t \in Ticks, NEW i \in DOMAIN tick[t].list, Reaches(t, i)
    PROVE  /\ Live(tick[t].list[i].sch, bootAt)
           /\ \A j \in DOMAIN Rest(t, i) :
                Rest(t, i)[j].sch = Nothing \/ Live(Rest(t, i)[j].sch, bootAt)
  <1> DEFINE list == tick[t].list
             Entries == [id: Schedules, sch: StoredSchedules]
  <1>1. list \in Seq(Entries)
    BY DEF TInv, TypeOK, Snapshots
  <1>2. \A j \in DOMAIN list : list[j].sch = Nothing \/ Live(list[j].sch, bootAt)
    BY DEF SInv, TickGood
  <1>3. list[i].sch # Nothing
    BY DEF Reaches, PassedOver
  <1>4. i \in DOMAIN list /\ Rest(t, i) = SubSeq(list, i + 1, Len(list))
    BY DEF Rest
  <1> HIDE DEF list, Entries
  <1>5. \A j \in DOMAIN SubSeq(list, i + 1, Len(list)) :
          \E k \in DOMAIN list : SubSeq(list, i + 1, Len(list))[j] = list[k]
    BY <1>1, <1>4, SuffixTyped
  <1> QED BY <1>2, <1>3, <1>4, <1>5 DEF list

\* The steps of a tick write nothing that is not good.
LEMMA TickStepSInv ==
    ASSUME TInv, SInv, NEW t \in Ticks,
           TickLists(t) \/ TickStep(t) \/ RunnerReturns(t) \/ TickRejects(t)
    PROVE  SInv'
  <1>0. /\ TypeOK /\ TickShape(tick[t]) /\ TickGood(tick[t], bootAt, now)
        /\ tick[t] \in TickRecords
        /\ now \in Nat /\ bootAt \in Nat /\ bootAt <= now /\ 1 <= bootAt
    BY TypeParts DEF TInv, SInv
  <1>id. /\ tick[t].buf \in StoredSchedules /\ tick[t].at \in Nat /\ tick[t].run \in Nat
         /\ tick[t].res \in {"none", "succeeded", "failed"} /\ tick[t].at <= now
         /\ \A i \in DOMAIN tick[t].list :
              tick[t].list[i].sch = Nothing \/ Live(tick[t].list[i].sch, bootAt)
    BY <1>0 DEF TickRecords, TickGood
  <1>same. UNCHANGED file => \A s \in Schedules : Stored(s)' => Good(file'[s], bootAt, now)
    BY DEF SInv, Stored
  <1>up. tick[t].pc # "idle" => up
    BY DEF SInv, Idle
  <1>back. TickGood([Idle EXCEPT !.pc = "loop", !.at = tick[t].at, !.list = tick[t].list],
                    bootAt, now)
    BY <1>id DEF TickGood, Idle
  <1>idle. TickGood(Idle, bootAt, now)
    BY <1>0 DEF TickGood, Idle
  <1>1. CASE TickLists(t)
    <2> DEFINE list == [i \in DOMAIN created |-> Entry(created[i])]
               r == [tick[t] EXCEPT !.pc = "loop", !.at = now, !.list = list]
    <2>1. \A s \in Schedules : Due(s) => Live(file[s], bootAt)
      BY <1>0, StoredTyped DEF Due, Handled, Live, SInv, Good
    <2>2. \A i \in DOMAIN created : created[i] \in Schedules
      BY <1>0 DEF TypeOK
    <2>3. \A i \in DOMAIN list : list[i].sch = Nothing \/ Live(list[i].sch, bootAt)
      BY <2>1, <2>2 DEF Entry
    <2>4. tick' = [tick EXCEPT ![t] = r]
      BY <1>1 DEF TickLists
    <2> HIDE DEF list
    <2>5. TickGood(r, bootAt, now)
      BY <1>0, <2>3 DEF TickGood, TickRecords
    <2> HIDE DEF r
    <2> QED BY <1>1, <1>same, <2>4, <2>5, TickSInv DEF TickLists
  <1>2. CASE TickEnds(t)
    BY <1>2, <1>same, <1>up, <1>idle, TickSInv DEF TickEnds
  <1>3. CASE TickCompletes(t)
    <2>1. PICK i \in DOMAIN tick[t].list :
            /\ Reaches(t, i)
            /\ ShouldComplete(tick[t].list[i].sch, tick[t].at)
            /\ tick' = [tick EXCEPT ![t].pc = "completing", ![t].id = tick[t].list[i].id,
                 ![t].list = Rest(t, i), ![t].buf = Completed(tick[t].list[i].sch)]
            /\ UNCHANGED <<now, up, bootAt, crashes, created, file, running, commands, user, executions,
                           failures, leaked>>
      BY <1>3 DEF TickCompletes
    <2> DEFINE id == tick[t].list[i].id
               sch == tick[t].list[i].sch
               rest == Rest(t, i)
               buf == Completed(sch)
               r == [tick[t] EXCEPT !.pc = "completing", !.id = id, !.list = rest, !.buf = buf]
    <2>2. tick' = [tick EXCEPT ![t] = r]
      BY <2>1
    <2>3. sch \in StoredSchedules
      BY <1>0, ReachedTyped
    <2>4. \A j \in DOMAIN rest : rest[j].sch = Nothing \/ Live(rest[j].sch, bootAt)
      BY <2>1, ReachedLive
    <2>5. ShouldComplete(sch, tick[t].at)
      BY <2>1
    <2> HIDE DEF id, sch, rest
    <2>6. ShouldComplete(sch, now)
      <3>1. Ended(sch) \in Nat /\ Ended(sch) <= Ended(sch)
        BY <2>3, EndedGrows
      <3> QED BY <1>0, <1>id, <2>5, <3>1, ShouldCompleteLater
    <2>7. Good(buf, bootAt, now)
      BY <1>0, <2>3, <2>6, CompletedGood
    <2> HIDE DEF buf
    <2>8. TickGood(r, bootAt, now)
      BY <1>0, <1>id, <2>4, <2>7 DEF TickGood, TickRecords
    <2>9. up
      BY <1>up, <2>1 DEF Reaches
    <2> HIDE DEF r
    <2> QED BY <1>same, <2>1, <2>2, <2>8, <2>9, TickSInv
  <1>4. CASE CompletedPut(t)
    <2>1. Good(tick[t].buf, bootAt, now)
      BY <1>0, <1>4 DEF TickGood, CompletedPut
    <2> QED BY <1>4, <1>up, <1>back, <2>1, PutGood, TickSInv DEF CompletedPut
  <1>5. CASE TickRuns(t)
    <2>1. PICK i \in DOMAIN tick[t].list :
            /\ Reaches(t, i)
            /\ tick' = [tick EXCEPT ![t].pc = "starting", ![t].id = tick[t].list[i].id,
                 ![t].run = Len(executions[tick[t].list[i].id]) + 1,
                 ![t].list = Rest(t, i),
                 ![t].buf = [tick[t].list[i].sch EXCEPT !.runs = Append(@,
                   [id |-> Len(executions[tick[t].list[i].id]) + 1, st |-> "running"])]]
            /\ UNCHANGED <<now, up, bootAt, crashes, created, file, commands, user, executions,
                           failures, leaked>>
      BY <1>5 DEF TickRuns
    <2> DEFINE id == tick[t].list[i].id
               sch == tick[t].list[i].sch
               rest == Rest(t, i)
               run == Len(executions[id]) + 1
               runs == Append(sch.runs, [id |-> run, st |-> "running"])
               buf == [sch EXCEPT !.runs = runs]
               r == [tick[t] EXCEPT !.pc = "starting", !.id = id, !.run = run,
                                    !.list = rest, !.buf = buf]
    <2>2. tick' = [tick EXCEPT ![t] = r]
      BY <2>1
    <2>3. sch \in StoredSchedules
      BY <1>0, ReachedTyped
    <2>4. /\ Live(sch, bootAt)
          /\ \A j \in DOMAIN rest : rest[j].sch = Nothing \/ Live(rest[j].sch, bootAt)
      BY <2>1, ReachedLive
    <2> HIDE DEF id, sch, rest, run, runs
    <2>5. Live(buf, bootAt) /\ Good(buf, bootAt, now)
      BY <1>0, <2>3, <2>4 DEF Live, Good, StoredSchedules
    <2> HIDE DEF buf
    <2>6. TickGood(r, bootAt, now)
      BY <1>0, <1>id, <2>4, <2>5 DEF TickGood, TickRecords
    <2>7. up
      BY <1>up, <2>1 DEF Reaches
    <2> HIDE DEF r
    <2> QED BY <1>same, <2>1, <2>2, <2>6, <2>7, TickSInv
  <1>6. CASE RunStarts(t)
    <2> DEFINE r == [tick[t] EXCEPT !.pc = "running", !.buf = Nothing]
    <2>1. TickGood(r, bootAt, now)
      BY <1>0, <1>id DEF TickGood, TickRecords
    <2>2. tick' = [tick EXCEPT ![t] = r]
      BY <1>6 DEF RunStarts
    <2>3. Good(tick[t].buf, bootAt, now)
      BY <1>0, <1>6 DEF TickGood, RunStarts
    <2> HIDE DEF r
    <2> QED BY <1>6, <1>up, <2>1, <2>2, <2>3, PutGood, TickSInv DEF RunStarts
  <1>7. CASE RunnerReturns(t)
    <2>1. PICK res : tick' = [tick EXCEPT ![t].pc = "finishing", ![t].res = res]
      BY <1>7 DEF RunnerReturns
    <2> DEFINE r == [tick[t] EXCEPT !.pc = "finishing", !.res = res]
    <2>2. TickGood(r, bootAt, now)
      BY <1>0, <1>id DEF TickGood, TickRecords
    <2>3. tick' = [tick EXCEPT ![t] = r]
      BY <2>1
    <2> HIDE DEF r
    <2> QED BY <1>7, <1>same, <1>up, <2>2, <2>3, TickSInv DEF RunnerReturns
  <1>8. CASE FinishReads(t)
    <2> DEFINE sch == file[tick[t].id]
               buf == Finished(sch, tick[t].run, tick[t].res)
               r == [tick[t] EXCEPT !.pc = "ending", !.buf = buf]
    <2>1. tick' = [tick EXCEPT ![t] = r]
      BY <1>8 DEF FinishReads
    <2>2. tick[t].id \in Schedules /\ tick[t].res # "none"
      BY <1>0, <1>8 DEF FinishReads, TickShape
    <2>3. sch \in StoredSchedules /\ Good(sch, bootAt, now)
      BY <1>0, <1>8, <2>2, StoredTyped DEF FinishReads, SInv
    <2> HIDE DEF sch
    <2>4. Good(buf, bootAt, now)
      BY <1>0, <1>id, <2>2, <2>3, FinishedGood
    <2> HIDE DEF buf
    <2>5. TickGood(r, bootAt, now)
      BY <1>0, <1>id, <2>4 DEF TickGood, TickRecords
    <2> HIDE DEF r
    <2> QED BY <1>8, <1>same, <1>up, <2>1, <2>5, TickSInv DEF FinishReads
  <1>rej. ASSUME tick[t].pc \in {"finishing", "ending"}, FinishRejects(t),
                 UNCHANGED <<now, up, bootAt, user>>,
                 \A s \in Schedules : Stored(s)' => Good(file'[s], bootAt, now)
          PROVE  SInv'
    <2> DEFINE r == [tick[t] EXCEPT !.pc = "finishing", !.res = "failed", !.buf = Nothing]
    <2>1. TickGood(r, bootAt, now)
      BY <1>0, <1>id DEF TickGood, TickRecords
    <2>2. tick' = [tick EXCEPT ![t] = r] \/ tick' = [tick EXCEPT ![t] = Idle]
      BY <1>rej DEF FinishRejects
    <2> HIDE DEF r
    <2> QED BY <1>rej, <1>up, <1>idle, <2>1, <2>2, TickSInv
  <1>9. CASE FinishFails(t)
    BY <1>9, <1>same, <1>rej DEF FinishFails
  <1>10. CASE RunEnds(t)
    <2>1. Good(tick[t].buf, bootAt, now)
      BY <1>0, <1>10 DEF TickGood, RunEnds
    <2> QED BY <1>10, <1>up, <1>back, <2>1, PutGood, TickSInv DEF RunEnds
  <1>11. CASE CompletedPutRejects(t)
    BY <1>11, <1>up, <1>idle, RejectGood, TickSInv DEF CompletedPutRejects
  <1>12. CASE RunStartRejects(t)
    BY <1>12, <1>up, <1>idle, RejectGood, TickSInv DEF RunStartRejects
  <1>13. CASE RunEndRejects(t)
    BY <1>13, <1>rej, RejectGood DEF RunEndRejects
  <1> QED BY <1>1, <1>2, <1>3, <1>4, <1>5, <1>6, <1>7, <1>8, <1>9, <1>10, <1>11, <1>12, <1>13
       DEF TickStep, TickRejects

\* The users' commands write nothing that is not good.
LEMMA CommandSInv ==
    ASSUME TInv, SInv, NEW u \in Users, NEW s \in Schedules,
           Create(u, s) \/ Pause(u, s) \/ Resume(u, s)
    PROVE  SInv'
  <1>1. /\ TypeOK /\ user \in [Users -> UserRecords]
        /\ now \in Nat /\ bootAt \in Nat /\ bootAt <= now /\ 1 <= bootAt
    BY TypeParts DEF TInv, SInv
  <1>2. /\ UNCHANGED <<now, up, bootAt, file, tick>>
        /\ up
        /\ \E sch \in StoredSchedules :
              Good(sch, bootAt, now) /\ user' = [user EXCEPT ![u] = [id |-> s, buf |-> sch]]
    <2>1. CASE Create(u, s)
      <3> DEFINE sch == [status |-> "active", next |-> NextRun(now), runs |-> <<>>]
      <3>1. NextRun(now) \in Nat /\ NextRun(now) > now
        BY <1>1, NextRunLater
      <3>2. sch \in StoredSchedules /\ Good(sch, bootAt, now)
        BY <1>1, <3>1 DEF StoredSchedules, Statuses, Good
      <3> QED BY <2>1, <3>2 DEF Create, Command, MayCommand
    <2>2. CASE Pause(u, s)
      <3> DEFINE sch == [file[s] EXCEPT !.status = "paused", !.next = 0]
      <3>1. sch \in StoredSchedules /\ Good(sch, bootAt, now)
        BY <1>1, <2>2, StoredTyped DEF Pause, StoredSchedules, Statuses, Good
      <3> QED BY <2>2, <3>1 DEF Pause, Command, MayCommand
    <2>3. CASE Resume(u, s)
      <3> DEFINE sch == [file[s] EXCEPT !.status = "active", !.next = NextRun(now)]
      <3>1. NextRun(now) \in Nat /\ NextRun(now) > now
        BY <1>1, NextRunLater
      <3>2. sch \in StoredSchedules /\ Good(sch, bootAt, now)
        <4> DEFINE n == NextRun(now)
        <4>1. n \in Nat /\ n # 0 /\ n > bootAt
          BY <1>1, <3>1
        <4>2. file[s] \in StoredSchedules
          BY <1>1, <2>3, StoredTyped DEF Resume
        <4> HIDE DEF n
        <4>3. sch = [file[s] EXCEPT !.status = "active", !.next = n]
          BY DEF n
        <4> HIDE DEF sch
        <4>4. sch \in StoredSchedules /\ sch.status = "active" /\ sch.next = n
          BY <4>1, <4>2, <4>3 DEF StoredSchedules, Statuses
        <4> QED BY <4>1, <4>4 DEF Good
      <3>3. Command(u, s, sch) /\ UNCHANGED <<now, up, bootAt, file, tick>>
        BY <2>3 DEF Resume
      <3> HIDE DEF sch
      <3> QED BY <3>2, <3>3 DEF Command, MayCommand
    <2> QED BY <2>1, <2>2, <2>3
  <1>3. \A x \in Users : UserGood(user'[x], bootAt, now)
    BY <1>1, <1>2 DEF SInv, UserGood
  <1> QED BY <1>2, <1>3 DEF SInv, Stored

\* Every step keeps the files, and all that may be written to them, good.
LEMMA NextSInv == TInv /\ SInv /\ [Next]_vars => SInv'
  <1> SUFFICES ASSUME TInv, SInv, [Next]_vars PROVE SInv'
    OBVIOUS
  <1>1. /\ TypeOK /\ now \in Nat /\ bootAt \in Nat /\ bootAt <= now /\ 1 <= bootAt
        /\ file \in [Schedules -> Contents]
        /\ tick \in [Ticks -> TickRecords] /\ user \in [Users -> UserRecords]
    BY TypeParts DEF TInv, SInv
  <1>2. CASE \E t \in Ticks : TickLists(t) \/ TickStep(t) \/ RunnerReturns(t) \/ TickRejects(t)
    BY <1>2, TickStepSInv
  <1>3. CASE \E u \in Users : \E s \in Schedules : Create(u, s) \/ Pause(u, s) \/ Resume(u, s)
    BY <1>3, CommandSInv
  <1>4. CASE \E u \in Users : CommandPut(u)
    <2> PICK u \in Users : CommandPut(u)
      BY <1>4
    <2>1. Good(user[u].buf, bootAt, now) /\ up
      BY <1>1 DEF CommandPut, SInv, UserGood
    <2>2. \A s \in Schedules : Stored(s)' => Good(file'[s], bootAt, now)
      BY <2>1, PutGood DEF CommandPut
    <2>3. \A x \in Users : UserGood(user'[x], bootAt, now)
      BY <1>1 DEF CommandPut, SInv, UserGood
    <2>4. UNCHANGED <<now, up, bootAt, tick>>
      BY DEF CommandPut
    <2> QED BY <2>1, <2>2, <2>3, <2>4 DEF SInv
  <1>5. CASE \E s \in Schedules : Delete(s)
    <2>1. \A s \in Schedules : file'[s] = NoFile \/ file'[s] = file[s]
      BY <1>1, <1>5 DEF Delete
    <2>2. NoFile.status \notin Statuses
      BY DEF NoFile, Nothing, Statuses
    <2>3. \A s \in Schedules : Stored(s)' => Good(file'[s], bootAt, now)
      BY <2>1, <2>2 DEF SInv, Stored
    <2> QED BY <1>5, <2>3 DEF Delete, SInv
  <1>6. CASE Advance
    <2>1. now' = now + 1 /\ now' \in Nat /\ now <= now'
          /\ UNCHANGED <<up, bootAt, file, tick, user>>
      BY <1>1, <1>6 DEF Advance
    <2>2. \A sch \in StoredSchedules : Good(sch, bootAt, now) => Good(sch, bootAt, now')
      BY <1>1, <2>1, GoodLater
    <2>3. \A s \in Schedules : Stored(s) => Good(file[s], bootAt, now')
      BY <1>1, <2>2, StoredTyped DEF SInv
    <2>4. \A t \in Ticks : TickGood(tick[t], bootAt, now')
      <3> SUFFICES ASSUME NEW t \in Ticks PROVE TickGood(tick[t], bootAt, now')
        OBVIOUS
      <3>1. TickGood(tick[t], bootAt, now)
        BY DEF SInv
      <3>2. tick[t].buf \in StoredSchedules /\ tick[t].at \in Nat
        BY <1>1 DEF TickRecords
      <3>3. tick[t].at <= now'
        BY <1>1, <2>1, <3>1, <3>2 DEF TickGood
      <3> QED BY <2>2, <3>1, <3>2, <3>3 DEF TickGood
    <2>5. \A u \in Users : UserGood(user[u], bootAt, now')
      BY <1>1, <2>2 DEF SInv, UserGood, UserRecords
    <2>6. bootAt <= now'
      BY <1>1, <2>1
    <2> QED BY <2>1, <2>3, <2>4, <2>5, <2>6 DEF SInv, Stored
  <1>7. CASE Crash
    <2>1. \A s \in Schedules : file'[s] = file[s] \/ file'[s] = Torn
      BY <1>7, Zenon DEF Crash
    <2>2. Torn.status \notin Statuses
      BY DEF Torn, Nothing, Statuses
    <2>3. \A s \in Schedules : Stored(s)' => Good(file'[s], bootAt, now)
      BY <2>1, <2>2 DEF SInv, Stored
    <2>4. /\ tick' = [t \in Ticks |-> Idle] /\ user' = [u \in Users |-> NoCommand]
          /\ UNCHANGED <<now, bootAt>>
      BY <1>7, Zenon DEF Crash
    <2>5. TickGood(Idle, bootAt, now) /\ UserGood(NoCommand, bootAt, now)
      BY <1>1 DEF TickGood, UserGood, Idle
    <2> QED BY <1>1, <2>3, <2>4, <2>5 DEF SInv
  <1>8. CASE Boot
    <2>1. \A s \in Schedules : Stored(s) => Good(Recovered(file[s]), now, now)
      BY <1>1, StoredTyped, RecoveredGood DEF SInv
    <2>2. /\ \A s \in Schedules : file'[s] = IF Stored(s) THEN Recovered(file[s]) ELSE file[s]
          /\ up' = TRUE /\ bootAt' = now /\ UNCHANGED <<now, tick, user>>
      BY <1>8 DEF Boot
    <2>3. \A s \in Schedules : Stored(s)' => Good(file'[s], now, now)
      BY <2>1, <2>2 DEF Stored
    <2>4. tick = [t \in Ticks |-> Idle] /\ user = [u \in Users |-> NoCommand]
      BY <1>8 DEF Boot, SInv
    <2>5. TickGood(Idle, now, now) /\ UserGood(NoCommand, now, now)
      BY <1>1 DEF TickGood, UserGood, Idle
    <2>6. /\ \A t \in Ticks : TickGood(tick[t], now, now)
          /\ \A u \in Users : UserGood(user[u], now, now)
      BY <2>4, <2>5
    <2> QED BY <1>1, <2>2, <2>3, <2>6 DEF SInv
  <1>9. CASE UNCHANGED vars
    BY <1>9 DEF vars, SInv, Stored
  <1>10. CASE \E u \in Users : CommandPutRejects(u)
    <2> PICK u \in Users : CommandPutRejects(u)
      BY <1>10
    <2>1. user[u] # NoCommand /\ PutRejects(user[u].id)
          /\ user' = [user EXCEPT ![u] = NoCommand]
          /\ UNCHANGED <<now, up, bootAt, tick>>
      BY DEF CommandPutRejects
    <2>2. up
      BY <2>1 DEF SInv
    <2>3. \A s \in Schedules : Stored(s)' => Good(file'[s], bootAt, now)
      BY <2>1, RejectGood
    <2>4. \A x \in Users : UserGood(user'[x], bootAt, now)
      BY <1>1, <2>1 DEF SInv, UserGood
    <2> QED BY <2>1, <2>2, <2>3, <2>4 DEF SInv
  <1>11. CASE BootFails
    <2>1. PICK i \in DOMAIN created : \E content \in {file[created[i]], Torn} :
            file' = [s \in Schedules |->
              IF s = created[i] THEN content
              ELSE IF Stored(s) /\ \E j \in 1..(i - 1) : created[j] = s THEN Recovered(file[s])
              ELSE file[s]]
      BY <1>11 DEF BootFails
    <2>2. \A s \in Schedules :
            \/ file'[s] = file[s] \/ file'[s] = Torn
            \/ Stored(s) /\ file'[s] = Recovered(file[s])
      <3>1. PICK content \in {file[created[i]], Torn} :
              file' = [s \in Schedules |->
                IF s = created[i] THEN content
                ELSE IF Stored(s) /\ \E j \in 1..(i - 1) : created[j] = s THEN Recovered(file[s])
                ELSE file[s]]
        BY <2>1
      <3>2. ASSUME NEW s \in Schedules
            PROVE  \/ file'[s] = file[s] \/ file'[s] = Torn
                   \/ Stored(s) /\ file'[s] = Recovered(file[s])
        <4>1. file'[s] = IF s = created[i] THEN content
                         ELSE IF Stored(s) /\ \E j \in 1..(i - 1) : created[j] = s
                              THEN Recovered(file[s]) ELSE file[s]
          BY <3>1
        <4>2. CASE s = created[i]
          BY <3>1, <4>1, <4>2
        <4>3. CASE s # created[i]
          BY <4>1, <4>3
        <4> QED BY <4>2, <4>3
      <3> QED BY <3>2
    <2>4. \A s \in Schedules : Stored(s) => Good(Recovered(file[s]), bootAt, now)
      <3> SUFFICES ASSUME NEW s \in Schedules, Stored(s)
                   PROVE  Good(Recovered(file[s]), bootAt, now)
        OBVIOUS
      <3>1. file[s] \in StoredSchedules /\ Good(file[s], bootAt, now)
        BY <1>1, StoredTyped DEF SInv
      <3>2. Good(Recovered(file[s]), now, now) /\ Recovered(file[s]) \in StoredSchedules
        BY <1>1, <3>1, RecoveredGood, RecoveredTyped
      <3> QED BY <1>1, <3>2, GoodEarlier
    <2>5. Torn.status \notin Statuses
      BY DEF Torn, Nothing, Statuses
    <2>6. \A s \in Schedules : Stored(s)' => Good(file'[s], bootAt, now)
      BY <2>2, <2>4, <2>5 DEF SInv, Stored
    <2>7. UNCHANGED <<now, up, bootAt, tick, user>>
      BY <1>11 DEF BootFails
    <2> QED BY <2>6, <2>7 DEF SInv
  <1> QED BY <1>2, <1>3, <1>4, <1>5, <1>6, <1>7, <1>8, <1>9, <1>10, <1>11 DEF Next

LEMMA SInvHolds == Spec => []SInv
  BY InitSInv, NextSInv, TInvHolds, PTL DEF Spec

(* A schedule has a next time exactly when it is active, whatever stale     *)
(* tick, ended run, command or restart wrote its file last.                 *)
THEOREM NextMatchesStatusHolds == Spec => []NextMatchesStatus
  <1>1. SInv => NextMatchesStatus
    BY DEF SInv, NextMatchesStatus, Good
  <1> QED BY <1>1, SInvHolds, PTL

(* However long the daemon was down, it runs no occurrence of that time.    *)
THEOREM NoMissedRunHolds == Spec => NoMissedRun
  <1> DEFINE Step == \A s \in Schedules :
               executions'[s] # executions[s] => executions'[s][Len(executions'[s])] > bootAt
  <1>1. TInv /\ SInv /\ [Next]_vars => [Step]_vars
    <2> SUFFICES ASSUME TInv, SInv, [Next]_vars PROVE Step \/ UNCHANGED vars
      OBVIOUS
    <2>1. ASSUME NEW t \in Ticks, RunStarts(t) PROVE Step
      <3>1. /\ tick[t].buf \in StoredSchedules /\ executions \in [Schedules -> Seq(Nat)]
            /\ Live(tick[t].buf, bootAt)
        BY <2>1, TypeParts DEF TInv, SInv, TickGood, RunStarts, TickRecords
      <3>2. tick[t].buf.next \in Nat /\ tick[t].buf.next > bootAt
        BY <3>1 DEF Live, StoredSchedules
      <3> DEFINE n == tick[t].buf.next
      <3>3. executions' = [executions EXCEPT ![tick[t].id] = Append(@, n)]
        BY <2>1 DEF RunStarts
      <3> HIDE DEF n
      <3>4. \A s \in Schedules : executions'[s] = executions[s] \/ executions'[s] = Append(executions[s], n)
        BY <3>1, <3>3
      <3>5. \A s \in Schedules : LET e == Append(executions[s], n) IN e[Len(e)] = n
        BY <3>1, <3>2, AppendProperties DEF n
      <3> QED BY <3>2, <3>4, <3>5 DEF n
    <2>2. CASE UNCHANGED executions
      BY <2>2
    <2> QED BY <2>1, <2>2, OnlyStartsExecute
  <1>2. [Step]_vars => [\A s \in Schedules : executions'[s] # executions[s]
                          => executions'[s][Len(executions'[s])] > bootAt]_vars
    OBVIOUS
  <1> QED BY <1>1, <1>2, TInvHolds, SInvHolds, PTL DEF Spec, NoMissedRun

================================================================================
