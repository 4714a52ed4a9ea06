--------------------------- MODULE LoopServiceProofs ---------------------------
(***************************************************************************)
(* Proofs about LoopService, for any loops, limits, failures and restarts,   *)
(* when a stop reaches a loop only after its runLoop has returned            *)
(* (~EarlyStop): its types, that a running loop has its runner, what a stop  *)
(* leaves, that an end is final, which iteration a success is, and that the  *)
(* agents of a loop take turns.                                             *)
(***************************************************************************)
EXTENDS LoopService, TLAPS, SequenceTheorems, FiniteSetTheorems

-----------------------------------------------------------------------------
(* The inductive invariant *)
RunType == [pc: Pcs, saving: BOOLEAN, aborted: BOOLEAN, ok: BOOLEAN, n: Nat]
StopType == [pc: {"none", "asked", "cancel", "awaiting", "marked", "done"},
             saving: BOOLEAN, found: BOOLEAN]
Kinds == {"worker", "verifier"}
Writes == [who: {"run", "stop"}, of: Loops] \cup {Write("init", NoLoop)}

\* A record, in memory or in the file.
LastIn(r, statuses) == r.iters # <<>> /\ r.iters[Len(r.iters)] \in statuses
Sound(r) ==
    /\ Len(r.iters) <= MaxIterations
    /\ r.status = "succeeded" => LastIs(r, "succeeded")
    /\ \A i \in 1..(Len(r.iters) - 1) : r.iters[i] \in {"failed", "stopped"}
Good(r) == r \in Record /\ Sound(r)

\* Where executeLoop is in an iteration, and from the first one on.
Active == {"spawn", "spawning", "work", "working", "closing", "check", "checking", "checked",
           "create", "creating", "verify", "verifying", "verdict", "next", "sleeping"}
Begun == Active \cup {"ending", "done"}

\* The record r, the run u, the stop t and the agents a of a loop that is in the map of
\* running loops or not.
RunFine(r, u, mapped) ==
    /\ u.pc = "none" => r.status \in {"none"} \cup Ends
    /\ u.pc = "start" => r.status = "running" /\ r.iters = <<>>
    /\ u.pc = "refused" => r.status \in {"running", "stopped"}
    /\ u.pc \in Active => r.status = "running" /\ LastIn(r, {"running", "failed", "stopped"})
    /\ u.pc \in {"next", "sleeping"} => LastIn(r, {"failed", "stopped"})
    /\ u.pc \in {"ending", "done"} => r.status \in Ends
    /\ u.saving => u.pc \notin {"none", "refused", "done", "sleeping"}
    /\ mapped <=> u.pc \in Active \cup {"ending"}
StopFine(r, u, t) ==
    /\ u.pc \in {"none", "start"} => t.pc = "none"
    /\ u.pc \in Begun => /\ t.pc # "marked" /\ (t.pc = "done" => u.pc = "done")
                         /\ t.pc # "none" => t.found
    /\ u.pc = "refused" => /\ t.pc \notin {"cancel", "awaiting"} /\ (t.pc # "none" => ~t.found)
                           /\ t.pc = "asked" => r.status = "running"
                           /\ t.pc \in {"marked", "done"} => r.status = "stopped"
Working == {"work", "working", "closing"}
Verifying == {"verify", "verifying", "verdict"}
AgentsFine(u, a) ==
    /\ a \subseteq {"worker"} \/ a \subseteq {"verifier"}
    /\ u.pc \in Working => a \subseteq {"worker"}
    /\ u.pc \in Verifying => a \subseteq {"verifier"}
    /\ u.pc \notin Working \cup Verifying \cup {"ending", "done"} => a = {}
LoopFine(l) ==
    /\ RunFine(rec[l], run[l], l \in running) /\ StopFine(rec[l], run[l], stop[l])
    /\ AgentsFine(run[l], agents[l])
LoopsFine == \A l \in Loops : LoopFine(l)

\* A write of executeLoop is one that it waits for.
Awaited ==
    \A i \in DOMAIN queue : queue[i].who = "run" =>
        run[queue[i].of].saving /\ \A j \in DOMAIN queue : queue[j] = queue[i] => j = i
ServiceTypes ==
    /\ up \in BOOLEAN /\ running \subseteq Loops
    /\ rec \in [Loops -> Record] /\ \A l \in Loops : Sound(rec[l])
    /\ run \in [Loops -> RunType] /\ stop \in [Loops -> StopType]
    /\ agents \in [Loops -> SUBSET Kinds]
QueueTypes == queue \in Seq(Writes) /\ Awaited
FileTypes ==
    /\ snap \in [Loops -> Record] \cup {NoWrite} /\ disk \in [Loops -> Record] \cup {Torn}
    /\ snap # NoWrite => queue # <<>> /\ \A l \in Loops : Sound(snap[l])
    /\ disk # Torn => \A l \in Loops : Sound(disk[l])
CountTypes == failures \in 0..MaxFailures /\ crashes \in 0..MaxCrashes
Down == ~up => \A l \in Loops : run[l].pc = "none"
Typed == ServiceTypes /\ QueueTypes /\ FileTypes /\ CountTypes
Inv == Typed /\ LoopsFine /\ Down

LEMMA Lengths == MaxIterations \in Nat \ {0} /\ MaxFailures \in Nat /\ MaxCrashes \in Nat
  BY LoopAssumption

LEMMA InitInv == Init => Inv
  <1> SUFFICES ASSUME Init PROVE Inv
    OBVIOUS
  <1>1. NoRecord \in Record /\ NoRecord.status = "none" /\ NoRecord.iters = <<>>
    BY DEF NoRecord, Record
  <1>2. Sound(NoRecord)
    BY <1>1, Lengths DEF Sound
  <1>3. NoRun \in RunType /\ NoStop \in StopType
    BY DEF NoRun, NoStop, RunType, StopType, Pcs
  <1>4. ServiceTypes
    BY <1>1, <1>2, <1>3 DEF Init, ServiceTypes, Empty
  <1>5. QueueTypes
    BY DEF Init, QueueTypes, Awaited
  <1>6. FileTypes
    BY <1>1, <1>2 DEF Init, FileTypes, Empty
  <1>7. LoopsFine
    BY <1>1 DEF Init, LoopsFine, LoopFine, RunFine, StopFine, AgentsFine, NoRun, NoStop, Empty,
                Active, Begun, Working, Verifying
  <1>8. CountTypes /\ Down
    BY Lengths DEF Init, CountTypes, Down
  <1> QED BY <1>4, <1>5, <1>6, <1>7, <1>8 DEF Inv, Typed

-----------------------------------------------------------------------------
(* Records *)
LEMMA NewRecordGood ==
    LET r == [NoRecord EXCEPT !.status = "running"]
    IN  Good(r) /\ r.status = "running" /\ r.iters = <<>>
  <1> DEFINE r == [NoRecord EXCEPT !.status = "running"]
  <1>0. NoRecord \in Record /\ NoRecord.iters = <<>> /\ "running" \in Statuses
    BY DEF NoRecord, Record, Statuses
  <1>1. r \in Record /\ r.status = "running" /\ r.iters = <<>>
    BY <1>0 DEF Record
  <1> HIDE DEF r
  <1>2. Sound(r)
    BY <1>1, Lengths DEF Sound
  <1> QED BY <1>1, <1>2 DEF Good, r

LEMMA FinishedGood ==
    ASSUME NEW r, Good(r), NEW status \in {"failed", "stopped"}
    PROVE  /\ Good(Finished(r, status)) /\ Finished(r, status).status = status
           /\ Finished(r, status).iters = r.iters
  BY DEF Finished, Good, Record, Sound, Statuses, Ends

LEMMA IdleGood ==
    ASSUME NEW r, Good(r)
    PROVE  Good(Idle(r)) /\ Idle(r).status = r.status /\ Idle(r).iters = r.iters
  BY DEF Idle, Good, Record, Sound, LastIs

LEMMA AgentGood ==
    ASSUME NEW r, Good(r), NEW kind \in {"none", "worker", "verifier"}
    PROVE  LET n == [r EXCEPT !.agent = kind]
           IN  Good(n) /\ n.status = r.status /\ n.iters = r.iters
  BY DEF Good, Record, Sound, LastIs

LEMMA SetLastGood ==
    ASSUME NEW r, Good(r), r.status # "succeeded", r.iters # <<>>, NEW status \in Statuses
    PROVE  LET n == SetLast(r, status)
           IN  /\ Good(n) /\ n.status = r.status /\ n.active = r.active /\ n.agent = r.agent
               /\ n.iters # <<>> /\ n.iters[Len(n.iters)] = status /\ Len(n.iters) = Len(r.iters)
  <1> DEFINE q == r.iters
             e == [q EXCEPT ![Len(q)] = status]
  <1>1. q \in Seq(Statuses) /\ Len(q) \in 1..Len(q)
    BY EmptySeq DEF Good, Record
  <1>2. /\ e \in Seq(Statuses) /\ Len(e) = Len(q) /\ e[Len(q)] = status
        /\ \A j \in 1..Len(q) : j # Len(q) => e[j] = q[j]
    BY <1>1, ExceptSeq
  <1>3. SetLast(r, status) = [r EXCEPT !.iters = e]
    BY DEF SetLast, Good, Record
  <1> HIDE DEF e
  <1>4. /\ SetLast(r, status).iters = e /\ SetLast(r, status).status = r.status
        /\ SetLast(r, status).active = r.active /\ SetLast(r, status).agent = r.agent
        /\ SetLast(r, status) \in Record
    BY <1>2, <1>3 DEF Good, Record
  <1>5. e # <<>>
    BY <1>1, <1>2
  <1>6. \A i \in 1..(Len(e) - 1) : e[i] \in {"failed", "stopped"}
    BY <1>1, <1>2 DEF Good, Sound
  <1>7. Sound(SetLast(r, status))
    BY <1>2, <1>4, <1>6 DEF Good, Sound
  <1> QED BY <1>2, <1>4, <1>5, <1>7 DEF Good

LEMMA SucceededGood ==
    ASSUME NEW r, Good(r), r.status = "running", r.iters # <<>>
    PROVE  LET n == Finished(SetLast(r, "succeeded"), "succeeded")
           IN  Good(n) /\ n.status = "succeeded"
  <1> DEFINE m == SetLast(r, "succeeded")
  <1>1. /\ Good(m) /\ m.iters # <<>> /\ m.iters[Len(m.iters)] = "succeeded"
    BY SetLastGood DEF Statuses, Ends
  <1> HIDE DEF m
  <1>2. /\ Finished(m, "succeeded").iters = m.iters /\ Finished(m, "succeeded").status = "succeeded"
        /\ Finished(m, "succeeded") \in Record
    BY <1>1 DEF Finished, Good, Record, Statuses, Ends
  <1> QED BY <1>1, <1>2 DEF Good, Sound, LastIs, m

LEMMA FailedGood ==
    ASSUME NEW r, Good(r), r.status = "running", LastIn(r, {"running", "failed", "stopped"})
    PROVE  LET n == Idle(Failed(r))
           IN  Good(n) /\ n.status = "running" /\ LastIn(n, {"failed", "stopped"})
  <1> DEFINE m == Failed(r)
  <1>1. Good(m) /\ m.status = "running" /\ LastIn(m, {"failed", "stopped"})
    <2>1. CASE LastIs(r, "running")
      BY <2>1, SetLastGood DEF Failed, LastIn, LastIs, Statuses, Ends
    <2>2. CASE ~LastIs(r, "running")
      <3>1. m = r
        BY <2>2 DEF Failed
      <3>2. r.iters[Len(r.iters)] # "running"
        BY <2>2 DEF LastIn, LastIs
      <3> QED BY <3>1, <3>2 DEF LastIn
    <2> QED BY <2>1, <2>2
  <1> HIDE DEF m
  <1> QED BY <1>1, IdleGood DEF LastIn, m

LEMMA IteratesGood ==
    ASSUME NEW r, Good(r), r.status = "running", Len(r.iters) < MaxIterations,
           r.iters = <<>> \/ LastIn(r, {"failed", "stopped"})
    PROVE  LET n == [r EXCEPT !.iters = Append(@, "running"), !.active = Len(r.iters) + 1]
           IN  Good(n) /\ n.status = "running" /\ LastIn(n, {"running", "failed", "stopped"})
  <1> DEFINE q == r.iters
             e == Append(q, "running")
             k == Len(q) + 1
             n == [r EXCEPT !.iters = e, !.active = k]
  <1>1. q \in Seq(Statuses) /\ Len(q) \in Nat /\ "running" \in Statuses
    BY DEF Good, Record, Statuses
  <1>2. /\ e \in Seq(Statuses) /\ e # <<>> /\ Len(e) = Len(q) + 1 /\ e[Len(q) + 1] = "running"
        /\ \A i \in 1..Len(q) : e[i] = q[i]
    BY <1>1, AppendProperties
  <1>3. \A i \in 1..Len(q) : q[i] \in {"failed", "stopped"}
    BY <1>1 DEF Good, Sound, LastIn
  <1>k. k \in Nat
    BY <1>1
  <1> HIDE DEF e, k
  <1>4. n \in Record /\ n.iters = e /\ n.status = "running"
    BY <1>2, <1>k DEF Good, Record
  <1>5. Len(e) <= MaxIterations
    BY <1>1, <1>2, Lengths
  <1>6. \A i \in 1..(Len(e) - 1) : e[i] \in {"failed", "stopped"}
    BY <1>1, <1>2, <1>3
  <1> HIDE DEF n
  <1>7. Good(n) /\ LastIn(n, {"running", "failed", "stopped"})
    BY <1>2, <1>4, <1>5, <1>6 DEF Good, Sound, LastIn
  <1> QED BY <1>4, <1>7 DEF e, k, n

-----------------------------------------------------------------------------
(* Steps of one loop *)
\* A write joins the queue.
LEMMA SaveQueue ==
    ASSUME QueueTypes, NEW who \in {"run", "stop"}, NEW l \in Loops,
           queue' = Append(queue, Write(who, l)),
           who = "run" => ~run[l].saving /\ run'[l].saving,
           \A m \in Loops : run[m].saving => run'[m].saving
    PROVE  QueueTypes' /\ queue' # <<>>
  <1> DEFINE w == Write(who, l)
             k == Len(queue)
  <1>1. w \in Writes /\ w.who = who /\ w.of = l
    BY DEF Write, Writes
  <1>2. queue \in Seq(Writes) /\ k \in Nat /\ DOMAIN queue = 1..k
    BY DEF QueueTypes
  <1> HIDE DEF w
  <1>3. /\ queue' \in Seq(Writes) /\ queue' # <<>> /\ Len(queue') = k + 1
        /\ queue'[k + 1] = w /\ \A i \in 1..k : queue'[i] = queue[i]
    BY <1>1, <1>2, AppendProperties DEF w
  <1>4. DOMAIN queue' = 1..(k + 1)
    BY <1>2, <1>3
  <1> HIDE DEF k
  <1>5. \A i \in 1..k : queue[i] \in Writes
    BY <1>2, ElementOfSeq DEF k
  <1>6. \A i \in 1..k : queue[i].who = "run" =>
          queue[i].of \in Loops /\ run[queue[i].of].saving /\ \A j \in 1..k : queue[j] = queue[i] => j = i
    BY SMTT(30), <1>2, <1>5 DEF QueueTypes, Awaited, Writes, Write
  <1>7. \A i \in 1..k : who = "run" => queue[i] # w
    BY <1>1, <1>6
  <1>8. ASSUME NEW i \in 1..(k + 1), queue'[i].who = "run"
        PROVE  run'[queue'[i].of].saving /\ \A j \in 1..(k + 1) : queue'[j] = queue'[i] => j = i
    <2>1. CASE i = k + 1
      <3>1. who = "run" /\ run'[queue'[i].of].saving
        BY <1>1, <1>3, <1>8, <2>1
      <3>2. ASSUME NEW j \in 1..(k + 1), j # i
            PROVE  queue'[j] # queue'[i]
        <4>1. j \in 1..k
          BY <1>2, <2>1, <3>2 DEF k
        <4> QED BY <1>3, <1>7, <2>1, <3>1, <4>1
      <3> QED BY <3>1, <3>2
    <2>2. CASE i # k + 1
      <3>1. i \in 1..k /\ queue'[i] = queue[i]
        BY <1>2, <1>3, <2>2 DEF k
      <3>2. run'[queue'[i].of].saving
        BY <1>6, <1>8, <3>1
      <3>3. ASSUME NEW j \in 1..(k + 1), j # i
            PROVE  queue'[j] # queue'[i]
        <4>1. CASE j = k + 1
          BY <1>1, <1>3, <1>7, <1>8, <3>1, <4>1
        <4>2. CASE j \in 1..k
          BY <1>3, <1>6, <1>8, <3>1, <3>3, <4>2
        <4> QED BY <1>2, <4>1, <4>2 DEF k
      <3> QED BY <3>2, <3>3
    <2> QED BY <2>1, <2>2
  <1> QED BY <1>3, <1>4, <1>8 DEF QueueTypes, Awaited

LEMMA KeepQueue ==
    ASSUME QueueTypes, UNCHANGED queue, \A m \in Loops : run[m].saving => run'[m].saving
    PROVE  QueueTypes'
  <1>1. \A i \in DOMAIN queue : queue[i] \in Writes
    BY ElementOfSeq DEF QueueTypes
  <1>2. \A i \in DOMAIN queue : queue[i].who = "run" => queue[i].of \in Loops
    BY <1>1 DEF Writes, Write
  <1> QED BY <1>2 DEF QueueTypes, Awaited

\* The next state of loop l, of which everything else is left alone.
Becomes(l, r, u, t, a, mapped) ==
    /\ rec' = [rec EXCEPT ![l] = r] /\ run' = [run EXCEPT ![l] = u]
    /\ stop' = [stop EXCEPT ![l] = t] /\ agents' = [agents EXCEPT ![l] = a]
    /\ running' = IF mapped THEN running \cup {l} ELSE running \ {l}
    /\ up /\ UNCHANGED up /\ Calm
Stores(l, u) ==
    \/ UNCHANGED store /\ (run[l].saving => u.saving)
    \/ Save("run", l) /\ ~run[l].saving /\ u.saving
    \/ Save("stop", l) /\ (run[l].saving => u.saving)

\* What is fine of a loop stays so of all of them.
LEMMA LoopAlone ==
    ASSUME Inv, NEW l \in Loops, NEW r, Good(r), NEW u \in RunType, NEW t \in StopType,
           NEW a \in SUBSET Kinds, NEW mapped \in BOOLEAN,
           rec' = [rec EXCEPT ![l] = r], run' = [run EXCEPT ![l] = u],
           stop' = [stop EXCEPT ![l] = t], agents' = [agents EXCEPT ![l] = a],
           running' = IF mapped THEN running \cup {l} ELSE running \ {l}, UNCHANGED up,
           RunFine(r, u, mapped), StopFine(r, u, t), AgentsFine(u, a)
    PROVE  /\ ServiceTypes' /\ LoopsFine' /\ run'[l] = u
           /\ \A m \in Loops : m # l => run'[m] = run[m]
  <1>1. ServiceTypes'
    BY DEF Inv, Typed, ServiceTypes, Good
  <1>2. /\ rec'[l] = r /\ run'[l] = u /\ stop'[l] = t /\ agents'[l] = a
        /\ \A m \in Loops : m # l => /\ rec'[m] = rec[m] /\ run'[m] = run[m]
                                     /\ stop'[m] = stop[m] /\ agents'[m] = agents[m]
    BY DEF Inv, Typed, ServiceTypes
  <1>3. /\ l \in running' <=> mapped
        /\ \A m \in Loops : m # l => (m \in running' <=> m \in running)
    OBVIOUS
  <1>4. LoopFine(l)'
    <2>1. RunFine(rec[l], run[l], l \in running)'
      BY <1>2, <1>3 DEF RunFine
    <2>2. StopFine(rec[l], run[l], stop[l])' /\ AgentsFine(run[l], agents[l])'
      BY <1>2 DEF StopFine, AgentsFine
    <2> QED BY <2>1, <2>2 DEF LoopFine
  <1>5. ASSUME NEW m \in Loops, m # l
        PROVE  LoopFine(m)'
    <2>1. LoopFine(m)
      BY DEF Inv, LoopsFine
    <2>2. RunFine(rec[m], run[m], m \in running)'
      BY <1>2, <1>3, <1>5, <2>1 DEF RunFine, LoopFine
    <2>3. StopFine(rec[m], run[m], stop[m])' /\ AgentsFine(run[m], agents[m])'
      BY <1>2, <1>5, <2>1 DEF StopFine, AgentsFine, LoopFine
    <2> QED BY <2>2, <2>3 DEF LoopFine
  <1> QED BY <1>1, <1>2, <1>4, <1>5 DEF LoopsFine

LEMMA BecomesInv ==
    ASSUME Inv, NEW l \in Loops, NEW r, Good(r), NEW u \in RunType, NEW t \in StopType,
           NEW a \in SUBSET Kinds, NEW mapped \in BOOLEAN, Becomes(l, r, u, t, a, mapped), Stores(l, u),
           RunFine(r, u, mapped), StopFine(r, u, t), AgentsFine(u, a)
    PROVE  Inv'
  <1>0. /\ rec' = [rec EXCEPT ![l] = r] /\ run' = [run EXCEPT ![l] = u]
        /\ stop' = [stop EXCEPT ![l] = t] /\ agents' = [agents EXCEPT ![l] = a]
        /\ running' = IF mapped THEN running \cup {l} ELSE running \ {l}
        /\ UNCHANGED up
    BY DEF Becomes
  <1>a. /\ ServiceTypes' /\ LoopsFine' /\ run'[l] = u
        /\ \A m \in Loops : m # l => run'[m] = run[m]
    BY <1>0, LoopAlone
  <1>1. /\ ServiceTypes' /\ LoopsFine' /\ run'[l] = u
        /\ \A m \in Loops : m # l => (run[m].saving => run'[m].saving)
    BY <1>a
  <1>2. QueueTypes' /\ FileTypes'
    <2>1. CASE UNCHANGED store /\ (run[l].saving => u.saving)
      <3>1. QueueTypes'
        BY <1>1, <2>1, KeepQueue DEF Inv, Typed, store
      <3> QED BY <2>1, <3>1 DEF Inv, Typed, FileTypes, store
    <2>2. CASE Save("run", l) /\ ~run[l].saving /\ u.saving
      <3>1. QueueTypes' /\ queue' # <<>>
        BY <1>1, <2>2, SaveQueue DEF Inv, Typed, Save
      <3> QED BY <2>2, <3>1 DEF Inv, Typed, FileTypes, Save
    <2>3. CASE Save("stop", l) /\ (run[l].saving => u.saving)
      <3>1. QueueTypes' /\ queue' # <<>>
        BY <1>1, <2>3, SaveQueue DEF Inv, Typed, Save
      <3> QED BY <2>3, <3>1 DEF Inv, Typed, FileTypes, Save
    <2> QED BY <2>1, <2>2, <2>3 DEF Stores
  <1>3. CountTypes' /\ Down'
    BY DEF Becomes, Calm, Inv, Typed, CountTypes, Down
  <1> QED BY <1>1, <1>2, <1>3 DEF Inv, Typed

\* A step of a loop that has begun, or begins: it goes on, has its last write to make, or
\* is over.
Carries(l, r, u, t, a) ==
    /\ rec' = [rec EXCEPT ![l] = r] /\ run' = [run EXCEPT ![l] = u]
    /\ stop' = [stop EXCEPT ![l] = t] /\ agents' = [agents EXCEPT ![l] = a]
    /\ up /\ UNCHANGED up /\ Calm
Unmarked(t) == t.pc \notin {"marked", "done"} /\ (t.pc # "none" => t.found)
GoesOn(l, r, u) ==
    \/ /\ u.pc \in Active /\ running' = running \cup {l} /\ r.status = "running"
       /\ LastIn(r, {"running", "failed", "stopped"})
       /\ u.pc \in {"next", "sleeping"} => LastIn(r, {"failed", "stopped"})
       /\ u.saving => u.pc # "sleeping"
    \/ u.pc = "ending" /\ running' = running \cup {l} /\ r.status \in Ends
    \/ u.pc = "done" /\ running' = running \ {l} /\ r.status \in Ends /\ ~u.saving

LEMMA CarriesInv ==
    ASSUME Inv, NEW l \in Loops, NEW r, Good(r), NEW u \in RunType, NEW t \in StopType,
           NEW a \in SUBSET Kinds, Carries(l, r, u, t, a), Unmarked(t), AgentsFine(u, a),
           GoesOn(l, r, u), Stores(l, u)
    PROVE  Inv'
  <1>1. StopFine(r, u, t)
    BY DEF StopFine, Unmarked, GoesOn, Begun, Active
  <1>2. CASE u.pc # "done"
    <2>1. RunFine(r, u, TRUE) /\ Becomes(l, r, u, t, a, TRUE)
      BY <1>2 DEF RunFine, Becomes, Carries, GoesOn, Active
    <2> QED BY <1>1, <2>1, BecomesInv
  <1>3. CASE u.pc = "done"
    <2>1. RunFine(r, u, FALSE) /\ Becomes(l, r, u, t, a, FALSE)
      BY <1>3 DEF RunFine, Becomes, Carries, GoesOn, Active
    <2> QED BY <1>1, <2>1, BecomesInv
  <1> QED BY <1>2, <1>3

LEMMA Unchanged ==
    ASSUME Inv, NEW l \in Loops
    PROVE  /\ rec = [rec EXCEPT ![l] = rec[l]] /\ run = [run EXCEPT ![l] = run[l]]
           /\ stop = [stop EXCEPT ![l] = stop[l]] /\ agents = [agents EXCEPT ![l] = agents[l]]
  BY DEF Inv, Typed, ServiceTypes

\* What a loop that is under way can rely on.
LEMMA UnderWay ==
    ASSUME Inv, NEW l \in Loops
    PROVE  /\ Good(rec[l]) /\ run[l] \in RunType /\ stop[l] \in StopType
           /\ agents[l] \in SUBSET Kinds /\ AgentsFine(run[l], agents[l])
           /\ run[l].pc \in Active \cup {"start"} => Unmarked(stop[l]) /\ rec[l].status = "running"
           /\ run[l].pc \in Active => /\ LastIn(rec[l], {"running", "failed", "stopped"})
                                      /\ running = running \cup {l}
           /\ run[l].pc \in {"next", "sleeping"} => LastIn(rec[l], {"failed", "stopped"})
           /\ run[l].pc \notin Active \cup {"ending"} => l \notin running
  <1>1. LoopFine(l)
    BY DEF Inv, LoopsFine
  <1>2. Good(rec[l]) /\ run[l] \in RunType /\ stop[l] \in StopType /\ agents[l] \in SUBSET Kinds
    BY DEF Inv, Typed, ServiceTypes, Good
  <1>3. run[l].pc \in Active \cup {"start"} => Unmarked(stop[l]) /\ rec[l].status = "running"
    BY <1>1 DEF LoopFine, RunFine, StopFine, Unmarked, Begun, Active
  <1>4. /\ run[l].pc \in Active => l \in running
        /\ run[l].pc \notin Active \cup {"ending"} => l \notin running
    BY <1>1 DEF LoopFine, RunFine
  <1> QED BY <1>1, <1>2, <1>3, <1>4 DEF LoopFine, RunFine

\* A move to pc, with or without a write, as a record.
LEMMA MovesRun ==
    ASSUME Inv, NEW l \in Loops, NEW pc \in Pcs
    PROVE  LET u == [run[l] EXCEPT !.pc = pc]
               v == [run[l] EXCEPT !.pc = pc, !.saving = TRUE]
           IN  /\ u \in RunType /\ u.pc = pc /\ (u.saving <=> run[l].saving)
               /\ [run EXCEPT ![l].pc = pc] = [run EXCEPT ![l] = u]
               /\ v \in RunType /\ v.pc = pc /\ v.saving
               /\ [run EXCEPT ![l].pc = pc, ![l].saving = TRUE] = [run EXCEPT ![l] = v]
  <1> DEFINE u == [run[l] EXCEPT !.pc = pc]
             v == [run[l] EXCEPT !.pc = pc, !.saving = TRUE]
  <1>1. run \in [Loops -> RunType] /\ run[l] \in RunType
    BY DEF Inv, Typed, ServiceTypes
  <1>2. u \in RunType /\ v \in RunType
    BY <1>1 DEF RunType
  <1>3. u.pc = pc /\ v.pc = pc
    BY <1>1 DEF RunType
  <1>4. (u.saving <=> run[l].saving) /\ v.saving
    BY <1>1 DEF RunType
  <1>5. [run EXCEPT ![l].pc = pc] = [run EXCEPT ![l] = u]
    BY <1>1
  <1>6. [run EXCEPT ![l].pc = pc, ![l].saving = TRUE] = [run EXCEPT ![l] = v]
    BY <1>1
  <1> QED BY <1>2, <1>3, <1>4, <1>5, <1>6

\* Saves, Goes, Throws and Leaves, of a loop that is under way.
LEMMA SavesInv ==
    ASSUME Inv, NEW l \in Loops, up, UNCHANGED up, Calm, run[l].pc \in Active \cup {"start"},
           ~run[l].saving, NEW r, Good(r), NEW pc \in Active \cup {"ending"}, Saves(l, r, pc),
           NEW t \in StopType, stop' = [stop EXCEPT ![l] = t], Unmarked(t),
           NEW a \in SUBSET Kinds, agents' = [agents EXCEPT ![l] = a],
           \A u \in RunType : u.pc = pc => AgentsFine(u, a),
           running' = running \cup {l}, pc # "sleeping",
           IF pc = "ending" THEN r.status \in Ends
           ELSE r.status = "running" /\ LastIn(r, {"running", "failed", "stopped"}),
           pc = "next" => LastIn(r, {"failed", "stopped"})
    PROVE  Inv'
  <1> DEFINE v == [run[l] EXCEPT !.pc = pc, !.saving = TRUE]
  <1>1. pc \in Pcs
    BY DEF Pcs, Active
  <1>2. /\ v \in RunType /\ v.pc = pc
        /\ [run EXCEPT ![l].pc = pc, ![l].saving = TRUE] = [run EXCEPT ![l] = v]
    BY <1>1, MovesRun
  <1>3. v.saving
    BY <1>1, MovesRun
  <1> HIDE DEF v
  <1>4. Carries(l, r, v, t, a) /\ Stores(l, v)
    BY <1>2, <1>3 DEF Carries, Stores, Saves
  <1>5. GoesOn(l, r, v)
    BY <1>2, <1>3 DEF GoesOn, Active
  <1> QED BY <1>2, <1>4, <1>5, CarriesInv

LEMMA GoesInv ==
    ASSUME Inv, NEW l \in Loops, up, UNCHANGED <<up, rec, stop, running, agents, store>>, Calm,
           run[l].pc \in Active, ~run[l].saving,
           NEW u \in RunType, run' = [run EXCEPT ![l] = u], ~u.saving, u.pc \in Active,
           u.pc \in {"next", "sleeping"} => run[l].pc = "next", AgentsFine(u, agents[l])
    PROVE  Inv'
  <1>1. /\ Good(rec[l]) /\ stop[l] \in StopType /\ agents[l] \in SUBSET Kinds
        /\ Unmarked(stop[l]) /\ rec[l].status = "running" /\ running = running \cup {l}
        /\ LastIn(rec[l], {"running", "failed", "stopped"})
        /\ run[l].pc \in {"next", "sleeping"} => LastIn(rec[l], {"failed", "stopped"})
    BY UnderWay
  <1>2. Carries(l, rec[l], u, stop[l], agents[l])
    BY Unchanged DEF Carries
  <1>3. GoesOn(l, rec[l], u) /\ Stores(l, u)
    BY <1>1 DEF GoesOn, Stores
  <1> QED BY <1>1, <1>2, <1>3, CarriesInv

LEMMA ThrowsInv ==
    ASSUME Inv, NEW l \in Loops, up, UNCHANGED up, Calm, run[l].pc \in Active \cup {"start"},
           ~run[l].saving, NEW r, Good(r), NEW status \in {"failed", "stopped"},
           Throws(l, r, status),
           NEW t \in StopType, stop' = [stop EXCEPT ![l] = t], Unmarked(t),
           NEW a \in SUBSET Kinds, agents' = [agents EXCEPT ![l] = a],
           a \subseteq {"worker"} \/ a \subseteq {"verifier"}, running' = running \cup {l}
    PROVE  Inv'
  <1>1. Good(Finished(r, status)) /\ Finished(r, status).status \in Ends
    BY FinishedGood DEF Ends
  <1>2. \A u \in RunType : u.pc = "ending" => AgentsFine(u, a)
    BY DEF AgentsFine, Working, Verifying
  <1>3. Saves(l, Finished(r, status), "ending")
    BY DEF Throws
  <1> DEFINE q == Finished(r, status)
             pc == "ending"
  <1>4. /\ pc \in Active \cup {"ending"} /\ pc # "sleeping" /\ pc # "next" /\ pc = "ending"
        /\ Good(q) /\ q.status \in Ends /\ Saves(l, q, pc)
        /\ \A u \in RunType : u.pc = pc => AgentsFine(u, a)
    BY <1>1, <1>2, <1>3
  <1> HIDE DEF q, pc
  <1> QED BY <1>4, SavesInv

LEMMA LeavesInv ==
    ASSUME Inv, NEW l \in Loops, up, UNCHANGED <<up, stop>>, Calm,
           run[l].pc \in Active, ~run[l].saving, NEW r, Good(r), r.status \in Ends,
           Leaves(l, r), NEW a \in SUBSET Kinds, agents' = [agents EXCEPT ![l] = a],
           a \subseteq {"worker"} \/ a \subseteq {"verifier"}
    PROVE  Inv'
  <1> DEFINE u == [run[l] EXCEPT !.pc = "done"]
  <1>1. u \in RunType /\ u.pc = "done" /\ [run EXCEPT ![l].pc = "done"] = [run EXCEPT ![l] = u]
    BY MovesRun DEF Pcs
  <1>2. ~u.saving
    BY MovesRun DEF Pcs
  <1> HIDE DEF u
  <1>3. Carries(l, r, u, stop[l], a)
    BY <1>1, Unchanged DEF Carries, Leaves
  <1>4. GoesOn(l, r, u) /\ Stores(l, u) /\ AgentsFine(u, a)
    BY <1>1, <1>2 DEF GoesOn, Stores, AgentsFine, Leaves, Working, Verifying
  <1>5. stop[l] \in StopType /\ Unmarked(stop[l])
    BY UnderWay
  <1> QED BY <1>1, <1>3, <1>4, <1>5, CarriesInv

-----------------------------------------------------------------------------
(* The actions of executeLoop *)
LEMMA CreateInv ==
    ASSUME Inv, NEW l \in Loops, Create(l)
    PROVE  Inv'
  <1> DEFINE r == [NoRecord EXCEPT !.status = "running"]
             v == [run[l] EXCEPT !.pc = "start", !.saving = TRUE]
  <1>1. Good(r) /\ r.status = "running" /\ r.iters = <<>>
    BY NewRecordGood
  <1>p. "start" \in Pcs
    BY DEF Pcs
  <1>2. /\ v \in RunType /\ v.pc = "start"
        /\ [run EXCEPT ![l].pc = "start", ![l].saving = TRUE] = [run EXCEPT ![l] = v]
    BY <1>p, MovesRun
  <1>3. v.saving
    BY <1>p, MovesRun
  <1> HIDE DEF r, v
  <1>4. run[l].pc = "none" /\ LoopFine(l) /\ run[l] \in RunType /\ stop[l] \in StopType
    BY UnderWay DEF Create, Inv, LoopsFine
  <1>5. agents[l] = {} /\ stop[l].pc = "none" /\ l \notin running /\ ~run[l].saving
    BY <1>4 DEF LoopFine, RunFine, StopFine, AgentsFine, Active, Working, Verifying
  <1>u. /\ Saves(l, r, "start") /\ up /\ UNCHANGED <<up, stop, running, agents>> /\ Calm
    BY DEF Create, Ready, r
  <1>6. Becomes(l, r, v, stop[l], agents[l], FALSE) /\ Stores(l, v)
    <2>1. rec' = [rec EXCEPT ![l] = r] /\ run' = [run EXCEPT ![l] = v] /\ Save("run", l)
      BY <1>2, <1>u DEF Saves
    <2>2. running' = running \ {l}
      BY <1>5, <1>u
    <2> QED BY <1>3, <1>5, <1>u, <2>1, <2>2, Unchanged DEF Becomes, Stores
  <1>7. RunFine(r, v, FALSE) /\ StopFine(r, v, stop[l]) /\ AgentsFine(v, agents[l])
    BY <1>1, <1>2, <1>5 DEF RunFine, StopFine, AgentsFine, Active, Begun, Working, Verifying
  <1> QED BY <1>1, <1>2, <1>4, <1>5, <1>6, <1>7, BecomesInv

LEMMA IterateInv ==
    ASSUME Inv, NEW l \in Loops, At(l, "start") \/ At(l, "sleeping"), Iterate(l, running \cup {l}),
           UNCHANGED <<up, stop, agents>>, Calm
    PROVE  Inv'
  <1> DEFINE r == rec[l]
  <1>1. /\ up /\ run[l].pc \in Active \cup {"start"} /\ ~run[l].saving
        /\ run[l].pc \in {"start", "sleeping"}
    BY DEF At, Ready, Active
  <1>2. /\ Good(r) /\ r.status = "running" /\ stop[l] \in StopType /\ Unmarked(stop[l])
        /\ agents[l] = {} /\ (r.iters = <<>> \/ LastIn(r, {"failed", "stopped"}))
    <2>1. LoopFine(l)
      BY DEF Inv, LoopsFine
    <2> QED BY <1>1, <2>1, UnderWay DEF LoopFine, RunFine, AgentsFine, Working, Verifying
  <1>3. stop' = [stop EXCEPT ![l] = stop[l]] /\ agents' = [agents EXCEPT ![l] = {}]
    BY <1>2, Unchanged
  <1>4. CASE Throws(l, r, "stopped") /\ running' = running \cup {l}
    BY <1>1, <1>2, <1>3, <1>4, ThrowsInv
  <1>5. CASE /\ rec' = [rec EXCEPT ![l] = Finished(r, "failed")]
             /\ run' = [run EXCEPT ![l].pc = "done"] /\ running' = (running \cup {l}) \ {l}
             /\ UNCHANGED store
    <2> DEFINE q == Finished(r, "failed")
               u == [run[l] EXCEPT !.pc = "done"]
    <2>1. Good(q) /\ q.status \in Ends
      BY <1>2, FinishedGood DEF Ends
    <2>2. u \in RunType /\ u.pc = "done" /\ run' = [run EXCEPT ![l] = u]
      BY <1>5, MovesRun DEF Pcs
    <2>3. ~u.saving
      BY <1>1, MovesRun DEF Pcs
    <2>4. rec' = [rec EXCEPT ![l] = q]
      BY <1>5
    <2> HIDE DEF q, u
    <2>5. Carries(l, q, u, stop[l], {})
      BY <1>1, <1>3, <2>2, <2>4 DEF Carries
    <2>6. GoesOn(l, q, u) /\ Stores(l, u) /\ AgentsFine(u, {})
      BY <1>1, <1>5, <2>1, <2>2, <2>3 DEF GoesOn, Stores, AgentsFine
    <2> QED BY <1>2, <2>1, <2>2, <2>5, <2>6, CarriesInv
  <1>6. CASE /\ Len(r.iters) < MaxIterations /\ running' = running \cup {l}
             /\ Saves(l, [r EXCEPT !.iters = Append(@, "running"), !.active = Len(r.iters) + 1], "spawn")
    <2> DEFINE q == [r EXCEPT !.iters = Append(@, "running"), !.active = Len(r.iters) + 1]
               pc == "spawn"
    <2>1. Good(q) /\ q.status = "running" /\ LastIn(q, {"running", "failed", "stopped"})
      BY <1>2, <1>6, IteratesGood
    <2>2. Saves(l, q, pc) /\ pc \in Active \cup {"ending"} /\ pc \notin {"sleeping", "next", "ending"}
      BY <1>6 DEF Active
    <2>3. \A u \in RunType : u.pc = pc => AgentsFine(u, {})
      BY DEF AgentsFine, Working, Verifying
    <2> HIDE DEF q, pc
    <2> QED BY <1>1, <1>2, <1>3, <1>6, <2>1, <2>2, <2>3, SavesInv
  <1> QED BY <1>4, <1>5, <1>6 DEF Iterate

LEMMA BeginsInv ==
    ASSUME Inv, NEW l \in Loops, Begin(l) \/ Wakes(l)
    PROVE  Inv'
  <1>1. CASE Begin(l)
    BY <1>1, IterateInv DEF Begin
  <1>2. CASE Wakes(l)
    <2>1. running = running \cup {l}
      BY <1>2, UnderWay DEF Wakes, At, Active
    <2>2. Iterate(l, running \cup {l}) /\ At(l, "sleeping") /\ UNCHANGED <<up, stop, agents>> /\ Calm
      BY <1>2, <2>1 DEF Wakes
    <2> QED BY <2>2, IterateInv
  <1> QED BY <1>1, <1>2

\* The moves that write nothing.
LEMMA CallsInv ==
    ASSUME Inv, NEW l \in Loops,
           CallWorker(l) \/ CallVerifier(l) \/ WorkerStarts(l) \/ Wraps(l)
    PROVE  Inv'
  <1>1. PICK from \in Active, to \in Active :
          /\ At(l, from) /\ Goes(l, to) /\ UNCHANGED <<up, stop, running, agents>> /\ Calm
          /\ to \in {"next", "sleeping"} => from = "next"
          /\ \A u \in RunType : u.pc = to /\ AgentsFine(run[l], agents[l]) => AgentsFine(u, agents[l])
    <2>1. CASE CallWorker(l)
      BY <2>1 DEF CallWorker, Calls, Active, At, AgentsFine, Working, Verifying
    <2>2. CASE CallVerifier(l)
      BY <2>2 DEF CallVerifier, Calls, Active, At, AgentsFine, Working, Verifying
    <2>3. CASE WorkerStarts(l)
      BY <2>3 DEF WorkerStarts, Calls, Active, At, AgentsFine, Working, Verifying
    <2>4. CASE Wraps(l)
      BY <2>4 DEF Wraps, Active, At, AgentsFine, Working, Verifying
    <2> QED BY <2>1, <2>2, <2>3, <2>4
  <1> DEFINE u == [run[l] EXCEPT !.pc = to]
  <1>2. up /\ run[l].pc = from /\ ~run[l].saving
    BY <1>1 DEF At, Ready
  <1>p. to \in Pcs
    BY DEF Active, Pcs
  <1>3. u \in RunType /\ u.pc = to /\ run' = [run EXCEPT ![l] = u]
    BY <1>1, <1>p, MovesRun DEF Goes
  <1>4. ~u.saving
    BY <1>2, <1>p, MovesRun
  <1>5. UNCHANGED <<rec, store>> /\ AgentsFine(run[l], agents[l])
    BY <1>1, UnderWay DEF Goes
  <1> HIDE DEF u
  <1> QED BY <1>1, <1>2, <1>3, <1>4, <1>5, GoesInv

LEMMA CreatedInv ==
    ASSUME Inv, NEW l \in Loops, WorkerCreated(l) \/ VerifierCreated(l)
    PROVE  Inv'
  <1>1. PICK from \in {"spawning", "creating"}, to \in {"work", "verify"}, kind \in Kinds :
          /\ Created(l, from, to, kind)
          /\ \A u \in RunType : u.pc = to => AgentsFine(u, {kind})
    <2>1. CASE WorkerCreated(l)
      BY <2>1 DEF WorkerCreated, Kinds, AgentsFine, Working, Verifying
    <2>2. CASE VerifierCreated(l)
      BY <2>2 DEF VerifierCreated, Kinds, AgentsFine, Working, Verifying
    <2> QED BY <2>1, <2>2
  <1>2. /\ up /\ run[l].pc = from /\ ~run[l].saving /\ Calm
        /\ UNCHANGED <<up, stop, running>>
    BY <1>1 DEF Created, At, Ready
  <1>3. run[l].pc \in Active /\ agents[l] = {}
    BY <1>2, UnderWay DEF AgentsFine, Active, Working, Verifying
  <1>4. /\ Good(rec[l]) /\ rec[l].status = "running" /\ stop[l] \in StopType /\ Unmarked(stop[l])
        /\ LastIn(rec[l], {"running", "failed", "stopped"}) /\ running' = running \cup {l}
        /\ stop' = [stop EXCEPT ![l] = stop[l]]
    BY <1>2, <1>3, UnderWay, Unchanged
  <1>5. CASE /\ Saves(l, [rec[l] EXCEPT !.agent = kind], to)
             /\ agents' = [agents EXCEPT ![l] = @ \cup {kind}]
    <2> DEFINE r == [rec[l] EXCEPT !.agent = kind]
    <2>1. Good(r) /\ r.status = "running" /\ LastIn(r, {"running", "failed", "stopped"})
      BY <1>4, AgentGood DEF Kinds, LastIn
    <2>2. agents' = [agents EXCEPT ![l] = {kind}] /\ Saves(l, r, to)
      BY <1>3, <1>5
    <2>3. to \in Active \cup {"ending"} /\ to \notin {"sleeping", "next", "ending"}
      BY DEF Active
    <2>4. {kind} \in SUBSET Kinds
      OBVIOUS
    <2> HIDE DEF r
    <2> QED BY <1>1, <1>2, <1>3, <1>4, <2>1, <2>2, <2>3, <2>4, SavesInv
  <1>6. CASE Throws(l, rec[l], "failed") /\ UNCHANGED agents
    <2>1. agents' = [agents EXCEPT ![l] = {}]
      BY <1>3, <1>6, Unchanged
    <2> QED BY <1>2, <1>3, <1>4, <1>6, <2>1, ThrowsInv
  <1> QED BY <1>1, <1>5, <1>6 DEF Created

\* A cancel that waits for the run goes on with its end.
LEMMA ReleasedStop ==
    ASSUME Inv, NEW l \in Loops, Released(l), Unmarked(stop[l])
    PROVE  \E t \in StopType : stop' = [stop EXCEPT ![l] = t] /\ Unmarked(t)
  <1> DEFINE t == [stop[l] EXCEPT !.pc = IF @ = "cancel" THEN "awaiting" ELSE @]
  <1>1. stop \in [Loops -> StopType] /\ stop[l] \in StopType
    BY UnderWay DEF Inv, Typed, ServiceTypes
  <1>2. t \in StopType /\ t.pc = (IF stop[l].pc = "cancel" THEN "awaiting" ELSE stop[l].pc)
    BY <1>1 DEF StopType
  <1>3. t.found <=> stop[l].found
    BY <1>1 DEF StopType
  <1>4. stop' = [stop EXCEPT ![l] = t]
    BY <1>1 DEF Released
  <1> HIDE DEF t
  <1>5. Unmarked(t)
    BY <1>2, <1>3 DEF Unmarked
  <1> QED BY <1>2, <1>4, <1>5

\* A move with other fields of the run.
LEMMA RunRecord ==
    ASSUME Inv, NEW l \in Loops, NEW pc \in Pcs, NEW saving \in BOOLEAN, NEW ok \in BOOLEAN, NEW n \in Nat
    PROVE  LET u == [run[l] EXCEPT !.pc = pc, !.saving = saving, !.ok = ok, !.n = n]
           IN  u \in RunType /\ u.pc = pc /\ (u.saving <=> saving)
  <1>1. run[l] \in RunType
    BY UnderWay
  <1> QED BY <1>1 DEF RunType

LEMMA WorkerEndsInv ==
    ASSUME Inv, NEW l \in Loops, NEW result \in Results, WorkerEnds(l, result)
    PROVE  Inv'
  <1>1. /\ up /\ run[l].pc = "working" /\ ~run[l].saving /\ Calm /\ Released(l) /\ Save("run", l)
        /\ UNCHANGED <<up, running, agents>>
    BY DEF WorkerEnds, At, Ready
  <1>2. /\ Good(rec[l]) /\ rec[l].status = "running" /\ Unmarked(stop[l]) /\ AgentsFine(run[l], agents[l])
        /\ LastIn(rec[l], {"running", "failed", "stopped"}) /\ running' = running \cup {l}
        /\ agents[l] \in SUBSET Kinds /\ run[l] \in RunType
    BY <1>1, UnderWay DEF Active
  <1>3. PICK t \in StopType : stop' = [stop EXCEPT ![l] = t] /\ Unmarked(t)
    BY <1>1, <1>2, ReleasedStop
  <1> DEFINE q == [rec[l] EXCEPT !.agent = "none"]
             r == IF result = "canceled" THEN SetLast(q, "stopped") ELSE q
             u == [run[l] EXCEPT !.pc = "closing", !.saving = TRUE, !.ok = (result = "completed")]
  <1>4. Good(r) /\ r.status = "running" /\ LastIn(r, {"running", "failed", "stopped"})
    <2>1. Good(q) /\ q.status = "running" /\ LastIn(q, {"running", "failed", "stopped"})
      BY <1>2, AgentGood DEF LastIn
    <2> HIDE DEF q
    <2>2. CASE result = "canceled"
      BY <2>1, <2>2, SetLastGood DEF LastIn, Statuses, Ends
    <2>3. CASE result # "canceled"
      BY <2>1, <2>3
    <2> QED BY <2>2, <2>3
  <1>5. u \in RunType /\ u.pc = "closing"
    BY <1>2 DEF RunType, Pcs
  <1>6. u.saving
    BY <1>2 DEF RunType
  <1>7. rec' = [rec EXCEPT ![l] = r]
    BY DEF WorkerEnds
  <1>8. run' = [run EXCEPT ![l] = u]
    BY DEF WorkerEnds, Inv, Typed, ServiceTypes
  <1> HIDE DEF r, u
  <1>9. Carries(l, r, u, t, agents[l])
    BY <1>1, <1>3, <1>7, <1>8, Unchanged DEF Carries
  <1>10. GoesOn(l, r, u) /\ Stores(l, u) /\ AgentsFine(u, agents[l])
    BY <1>1, <1>2, <1>4, <1>5, <1>6 DEF GoesOn, Stores, AgentsFine, Active, Working, Verifying
  <1> QED BY <1>2, <1>3, <1>4, <1>5, <1>9, <1>10, CarriesInv

LEMMA WorkerClosesInv ==
    ASSUME Inv, NEW l \in Loops, WorkerCloses(l)
    PROVE  Inv'
  <1> DEFINE r == IF run[l].aborted /\ LastIs(rec[l], "running") THEN SetLast(rec[l], "stopped")
                  ELSE rec[l]
             a == agents[l] \ {"worker"}
  <1>1. /\ up /\ run[l].pc = "closing" /\ ~run[l].saving /\ Calm /\ UNCHANGED <<up, stop>>
        /\ agents' = [agents EXCEPT ![l] = a]
    BY DEF WorkerCloses, At, Ready
  <1>2. /\ Good(rec[l]) /\ rec[l].status = "running" /\ Unmarked(stop[l]) /\ AgentsFine(run[l], agents[l])
        /\ LastIn(rec[l], {"running", "failed", "stopped"}) /\ running = running \cup {l}
        /\ stop[l] \in StopType /\ run[l] \in RunType /\ run[l].pc \in Active
    BY <1>1, UnderWay DEF Active
  <1>3. a = {} /\ {} \in SUBSET Kinds
    BY <1>1, <1>2 DEF AgentsFine, Working
  <1>4. Good(r) /\ r.status = "running" /\ LastIn(r, {"running", "failed", "stopped"})
    <2>1. CASE run[l].aborted /\ LastIs(rec[l], "running")
      BY <1>2, <2>1, SetLastGood DEF LastIn, Statuses, Ends
    <2> QED BY <1>2, <2>1
  <1>5. /\ stop' = [stop EXCEPT ![l] = stop[l]] /\ agents' = [agents EXCEPT ![l] = {}]
    BY <1>1, <1>3, Unchanged
  <1>6. \/ Throws(l, r, "stopped") /\ UNCHANGED running
        \/ Saves(l, Idle(Failed(r)), "next") /\ UNCHANGED running
        \/ run' = [run EXCEPT ![l].pc = "check", ![l].n = 0] /\ UNCHANGED <<rec, running, store>>
    <2>1. CASE run[l].aborted \/ ~run[l].ok
      BY <2>1 DEF WorkerCloses
    <2>2. CASE ~run[l].aborted /\ run[l].ok
      BY <2>2 DEF WorkerCloses
    <2> QED BY <2>1, <2>2
  <1> HIDE DEF r, a
  <1>7. CASE Throws(l, r, "stopped") /\ UNCHANGED running
    BY <1>1, <1>2, <1>3, <1>4, <1>5, <1>7, ThrowsInv
  <1>8. CASE Saves(l, Idle(Failed(r)), "next") /\ UNCHANGED running
    <2> DEFINE q == Idle(Failed(r))
               pc == "next"
    <2>1. Good(q) /\ q.status = "running" /\ LastIn(q, {"failed", "stopped"})
      BY <1>4, FailedGood
    <2>2. LastIn(q, {"running", "failed", "stopped"})
      BY <2>1 DEF LastIn
    <2>3. Saves(l, q, pc) /\ pc \in Active \cup {"ending"} /\ pc # "sleeping" /\ pc # "ending"
      BY <1>8 DEF Active
    <2>4. \A u \in RunType : u.pc = pc => AgentsFine(u, {})
      BY DEF AgentsFine, Working, Verifying
    <2> HIDE DEF q, pc
    <2> QED BY <1>1, <1>2, <1>3, <1>5, <1>8, <2>1, <2>2, <2>3, <2>4, SavesInv
  <1>9. CASE run' = [run EXCEPT ![l].pc = "check", ![l].n = 0] /\ UNCHANGED <<rec, running, store>>
    <2> DEFINE u == [run[l] EXCEPT !.pc = "check", !.n = 0]
    <2>1. u \in RunType /\ u.pc = "check"
      BY <1>2 DEF RunType, Pcs
    <2>2. ~u.saving
      BY <1>1, <1>2 DEF RunType
    <2>3. run' = [run EXCEPT ![l] = u]
      BY <1>9 DEF Inv, Typed, ServiceTypes
    <2> HIDE DEF u
    <2>4. Carries(l, rec[l], u, stop[l], {})
      BY <1>1, <1>5, <1>9, <2>3, Unchanged DEF Carries
    <2>5. GoesOn(l, rec[l], u) /\ Stores(l, u) /\ AgentsFine(u, {})
      BY <1>1, <1>2, <1>9, <2>1, <2>2 DEF GoesOn, Stores, AgentsFine, Active
    <2> QED BY <1>2, <1>3, <2>1, <2>4, <2>5, CarriesInv
  <1> QED BY <1>6, <1>7, <1>8, <1>9

LEMMA AtFacts ==
    ASSUME Inv, NEW l \in Loops, NEW pc \in Active, At(l, pc)
    PROVE  /\ up /\ run[l].pc = pc /\ ~run[l].saving /\ run[l] \in RunType
           /\ Good(rec[l]) /\ rec[l].status = "running" /\ running = running \cup {l}
           /\ LastIn(rec[l], {"running", "failed", "stopped"})
           /\ stop[l] \in StopType /\ Unmarked(stop[l]) /\ stop = [stop EXCEPT ![l] = stop[l]]
           /\ agents[l] \in SUBSET Kinds /\ agents = [agents EXCEPT ![l] = agents[l]]
           /\ AgentsFine(run[l], agents[l])
  <1>1. up /\ run[l].pc = pc /\ ~run[l].saving
    BY DEF At, Ready
  <1> QED BY <1>1, UnderWay, Unchanged

\* The iteration did not pass.
LEMMA NextInv ==
    ASSUME Inv, NEW l \in Loops, NEW pc \in Active, At(l, pc), Saves(l, Idle(Failed(rec[l])), "next"),
           UNCHANGED <<up, stop, running>>, Calm, agents' = [agents EXCEPT ![l] = {}]
    PROVE  Inv'
  <1> DEFINE q == Idle(Failed(rec[l]))
             to == "next"
  <1>1. Good(q) /\ q.status = "running" /\ LastIn(q, {"failed", "stopped"})
    BY AtFacts, FailedGood
  <1>2. LastIn(q, {"running", "failed", "stopped"})
    BY <1>1 DEF LastIn
  <1>3. Saves(l, q, to) /\ to \in Active \cup {"ending"} /\ to # "sleeping" /\ to # "ending"
    BY DEF Active
  <1>4. \A u \in RunType : u.pc = to => AgentsFine(u, {})
    BY DEF AgentsFine, Working, Verifying
  <1>5. /\ run[l].pc \in Active /\ ~run[l].saving /\ up /\ {} \in SUBSET Kinds
        /\ stop[l] \in StopType /\ stop' = [stop EXCEPT ![l] = stop[l]] /\ Unmarked(stop[l])
        /\ running' = running \cup {l}
    BY AtFacts
  <1> HIDE DEF q, to
  <1> QED BY <1>1, <1>2, <1>3, <1>4, <1>5, SavesInv

\* Nothing but the run itself changes.
LEMMA RunsOnInv ==
    ASSUME Inv, NEW l \in Loops, NEW pc \in Active, At(l, pc), pc # "next",
           NEW u \in RunType, run' = [run EXCEPT ![l] = u], u.pc \in Active \ {"next", "sleeping"},
           UNCHANGED <<up, rec, stop, running, agents>>, Calm,
           \/ UNCHANGED store /\ ~u.saving
           \/ Save("run", l) /\ u.saving,
           AgentsFine(u, agents[l])
    PROVE  Inv'
  <1>1. Carries(l, rec[l], u, stop[l], agents[l])
    BY AtFacts, Unchanged DEF Carries
  <1>2. GoesOn(l, rec[l], u) /\ Stores(l, u)
    BY AtFacts DEF GoesOn, Stores
  <1> QED BY AtFacts, <1>1, <1>2, CarriesInv

\* The iteration passed.
LEMMA SucceedsInv ==
    ASSUME Inv, NEW l \in Loops, NEW pc \in Active, At(l, pc), UNCHANGED <<up, stop>>, Calm,
           Leaves(l, Finished(SetLast(rec[l], "succeeded"), "succeeded")),
           agents' = [agents EXCEPT ![l] = {}]
    PROVE  Inv'
  <1> DEFINE q == Finished(SetLast(rec[l], "succeeded"), "succeeded")
  <1>1. Good(q) /\ q.status \in Ends
    BY AtFacts, SucceededGood DEF LastIn, Ends
  <1>2. run[l].pc \in Active /\ ~run[l].saving /\ up /\ {} \in SUBSET Kinds
    BY AtFacts
  <1>3. Leaves(l, q)
    OBVIOUS
  <1> HIDE DEF q
  <1> QED BY <1>1, <1>2, <1>3, LeavesInv

LEMMA ChecksInv ==
    ASSUME Inv, NEW l \in Loops, Check(l) \/ Checked(l) \/ \E passed \in BOOLEAN : CheckEnds(l, passed)
    PROVE  Inv'
  <1> DEFINE pc == run[l].pc
  <1>1. /\ pc \in {"check", "checking", "checked"} /\ pc \in Active /\ At(l, pc)
        /\ UNCHANGED <<up, stop, agents>> /\ Calm
    BY DEF Check, Checked, CheckEnds, At, Active
  <1>2. agents[l] = {} /\ agents' = [agents EXCEPT ![l] = {}]
    <2>1. AgentsFine(run[l], agents[l]) /\ agents = [agents EXCEPT ![l] = agents[l]]
      BY <1>1, AtFacts
    <2>2. agents[l] = {}
      BY <1>1, <2>1 DEF AgentsFine, Working, Verifying
    <2> QED BY <1>1, <2>1, <2>2
  <1>3. \A u \in RunType : u.pc \in {"check", "checking", "checked", "create"} => AgentsFine(u, agents[l])
    BY <1>2 DEF AgentsFine, Working, Verifying
  <1>t. run[l] \in RunType /\ ~run[l].saving /\ up
    BY <1>1, AtFacts
  <1>n. run[l].n \in Nat /\ run[l].n + 1 \in Nat /\ (run[l].n = Checks => ~(run[l].n < Checks))
    BY <1>t, LoopAssumption DEF RunType
  <1>4. ASSUME NEW to \in {"create", "checking"}, Goes(l, to), UNCHANGED running
        PROVE  Inv'
    <2> DEFINE u == [run[l] EXCEPT !.pc = to]
    <2>1. u \in RunType /\ u.pc = to
      BY <1>t DEF RunType, Pcs
    <2>2. ~u.saving
      BY <1>t DEF RunType
    <2>3. run' = [run EXCEPT ![l] = u] /\ UNCHANGED <<rec, store>>
      BY <1>4 DEF Goes, Inv, Typed, ServiceTypes
    <2>4. u.pc \in Active \ {"next", "sleeping"}
      BY <2>1 DEF Active
    <2> HIDE DEF u
    <2> QED BY <1>1, <1>3, <1>4, <2>1, <2>2, <2>3, <2>4, RunsOnInv
  <1>5. CASE Check(l)
    <2>1. CASE run[l].n = Checks /\ Verifier
      BY <1>4, <1>5, <1>n, <2>1 DEF Check
    <2>2. CASE run[l].n = Checks /\ ~Verifier
      <3>1. Leaves(l, Finished(SetLast(rec[l], "succeeded"), "succeeded"))
        BY <1>5, <1>n, <2>2 DEF Check
      <3> QED BY <1>1, <1>2, <3>1, SucceedsInv
    <2>3. CASE run[l].n # Checks /\ (run[l].n < Checks /\ run[l].aborted)
      <3>1. Throws(l, rec[l], "stopped") /\ UNCHANGED running
        BY <1>5, <2>3 DEF Check
      <3>2. /\ Good(rec[l]) /\ stop[l] \in StopType /\ Unmarked(stop[l])
            /\ stop' = [stop EXCEPT ![l] = stop[l]] /\ running' = running \cup {l}
            /\ {} \in SUBSET Kinds
        BY <1>1, <3>1, AtFacts
      <3> QED BY <1>1, <1>2, <1>t, <3>1, <3>2, ThrowsInv
    <2>4. CASE run[l].n # Checks /\ ~(run[l].n < Checks /\ run[l].aborted)
      <3>1. Goes(l, "checking") /\ UNCHANGED running
        BY <1>5, <2>4 DEF Check
      <3> QED BY <1>4, <3>1
    <2> QED BY <2>1, <2>2, <2>3, <2>4
  <1>6. ASSUME NEW passed \in BOOLEAN, CheckEnds(l, passed)
        PROVE  Inv'
    <2> DEFINE u == [run[l] EXCEPT !.pc = "checked", !.saving = TRUE, !.ok = passed]
    <2>1. u \in RunType /\ u.pc = "checked"
      BY <1>t DEF RunType, Pcs
    <2>2. u.saving
      BY <1>t DEF RunType
    <2>3. run' = [run EXCEPT ![l] = u] /\ UNCHANGED <<rec, running>> /\ Save("run", l)
      BY <1>6 DEF CheckEnds, Inv, Typed, ServiceTypes
    <2>4. u.pc \in Active \ {"next", "sleeping"}
      BY <2>1 DEF Active
    <2> HIDE DEF u
    <2> QED BY <1>1, <1>3, <2>1, <2>2, <2>3, <2>4, RunsOnInv
  <1>7. CASE Checked(l)
    <2>1. CASE run[l].ok
      <3> DEFINE k == run[l].n + 1
                 u == [run[l] EXCEPT !.pc = "check", !.n = k]
      <3>n. k \in Nat
        BY <1>n
      <3>k. run' = [run EXCEPT ![l] = u] /\ UNCHANGED <<rec, running, store>>
        BY <1>7, <2>1 DEF Checked, Inv, Typed, ServiceTypes
      <3> HIDE DEF k
      <3>1. u \in RunType /\ u.pc = "check"
        BY <1>t, <3>n DEF RunType, Pcs
      <3>2. ~u.saving
        BY <1>t DEF RunType
      <3>4. u.pc \in Active \ {"next", "sleeping"}
        BY <3>1 DEF Active
      <3> HIDE DEF u
      <3> QED BY <1>1, <1>3, <3>1, <3>2, <3>k, <3>4, RunsOnInv
    <2>2. CASE ~run[l].ok
      <3>1. Saves(l, Idle(Failed(rec[l])), "next") /\ UNCHANGED running
        BY <1>7, <2>2 DEF Checked
      <3> QED BY <1>1, <1>2, <3>1, NextInv
    <2> QED BY <2>1, <2>2
  <1> QED BY <1>5, <1>6, <1>7

LEMMA VerifierInv ==
    ASSUME Inv, NEW l \in Loops,
           VerifierStarts(l) \/ (\E verdict \in Verdicts : VerifierEnds(l, verdict)) \/ VerifierCloses(l)
    PROVE  Inv'
  <1> DEFINE pc == run[l].pc
  <1>1. /\ pc \in Verifying /\ pc \in Active /\ At(l, pc) /\ UNCHANGED up /\ Calm
    BY DEF VerifierStarts, VerifierEnds, VerifierCloses, At, Active, Verifying
  <1>2. /\ run[l] \in RunType /\ ~run[l].saving /\ up /\ AgentsFine(run[l], agents[l])
        /\ Good(rec[l]) /\ rec[l].status = "running" /\ running = running \cup {l}
        /\ LastIn(rec[l], {"running", "failed", "stopped"})
        /\ stop[l] \in StopType /\ Unmarked(stop[l]) /\ stop = [stop EXCEPT ![l] = stop[l]]
        /\ agents[l] \in SUBSET Kinds /\ agents = [agents EXCEPT ![l] = agents[l]]
    BY <1>1, AtFacts
  <1>3. \A u \in RunType : u.pc \in Verifying => AgentsFine(u, agents[l])
    BY <1>1, <1>2 DEF AgentsFine, Working, Verifying
  <1>n. run[l].n \in Nat /\ run[l].n + 1 \in Nat
    BY <1>2 DEF RunType
  <1>4. CASE VerifierStarts(l)
    <2> DEFINE u == [run[l] EXCEPT !.pc = "verifying", !.n = 0]
    <2>1. u \in RunType /\ u.pc = "verifying"
      BY <1>2 DEF RunType, Pcs
    <2>2. ~u.saving
      BY <1>2 DEF RunType
    <2>3. run' = [run EXCEPT ![l] = u] /\ UNCHANGED <<rec, stop, running, agents, store>>
      BY <1>4 DEF VerifierStarts, Inv, Typed, ServiceTypes
    <2>4. u.pc \in Active \ {"next", "sleeping"} /\ AgentsFine(u, agents[l]) /\ pc # "next"
      BY <1>1, <1>3, <2>1 DEF Active, Verifying
    <2> HIDE DEF u
    <2> QED BY <1>1, <2>1, <2>2, <2>3, <2>4, RunsOnInv
  <1>5. ASSUME NEW verdict \in Verdicts, VerifierEnds(l, verdict)
        PROVE  Inv'
    <2>1. PICK t \in StopType : stop' = [stop EXCEPT ![l] = t] /\ Unmarked(t)
      BY <1>2, <1>5, ReleasedStop DEF VerifierEnds
    <2>2. UNCHANGED <<running, agents>> /\ pc = "verifying"
      BY <1>5 DEF VerifierEnds, At
    <2>3. CASE verdict = "unclear" /\ run[l].n < Retries
      <3> DEFINE k == run[l].n + 1
                 u == [run[l] EXCEPT !.n = k]
      <3>1. run' = [run EXCEPT ![l] = u] /\ UNCHANGED <<rec, store>>
        BY <1>5, <2>3 DEF VerifierEnds, Inv, Typed, ServiceTypes
      <3>2. k \in Nat
        BY <1>n
      <3> HIDE DEF k
      <3>3. u \in RunType /\ u.pc = "verifying"
        BY <1>2, <2>2, <3>2 DEF RunType
      <3>4. ~u.saving
        BY <1>2 DEF RunType
      <3> HIDE DEF u
      <3>5. Carries(l, rec[l], u, t, agents[l])
        BY <1>1, <1>2, <2>1, <2>2, <3>1, Unchanged DEF Carries
      <3>6. GoesOn(l, rec[l], u) /\ Stores(l, u) /\ AgentsFine(u, agents[l])
        BY <1>2, <1>3, <2>2, <3>1, <3>3, <3>4 DEF GoesOn, Stores, Active, Verifying
      <3> QED BY <1>2, <2>1, <3>3, <3>5, <3>6, CarriesInv
    <2>4. CASE ~(verdict = "unclear" /\ run[l].n < Retries)
      <3> DEFINE r == [rec[l] EXCEPT !.agent = "none"]
                 n == IF verdict \in {"unclear", "error"} THEN 1 ELSE 0
                 u == [run[l] EXCEPT !.pc = "verdict", !.saving = TRUE, !.ok = (verdict = "passed"), !.n = n]
      <3>1. rec' = [rec EXCEPT ![l] = r] /\ Save("run", l)
        BY <1>5, <2>4 DEF VerifierEnds
      <3>2. run' = [run EXCEPT ![l] = u]
        BY <1>5, <2>4 DEF VerifierEnds, Inv, Typed, ServiceTypes
      <3>3. n \in Nat /\ Good(r) /\ r.status = "running" /\ LastIn(r, {"running", "failed", "stopped"})
        BY <1>2, AgentGood DEF LastIn
      <3> HIDE DEF n, r
      <3>4. u \in RunType /\ u.pc = "verdict"
        BY <1>2, <3>3 DEF RunType, Pcs
      <3>5. u.saving
        BY <1>2 DEF RunType
      <3> HIDE DEF u
      <3>6. Carries(l, r, u, t, agents[l])
        BY <1>1, <1>2, <2>1, <2>2, <3>1, <3>2 DEF Carries
      <3>7. GoesOn(l, r, u) /\ Stores(l, u) /\ AgentsFine(u, agents[l])
        BY <1>2, <1>3, <2>2, <3>1, <3>3, <3>4, <3>5 DEF GoesOn, Stores, Active, Verifying
      <3> QED BY <1>2, <2>1, <3>3, <3>4, <3>6, <3>7, CarriesInv
    <2> QED BY <2>3, <2>4
  <1>6. CASE VerifierCloses(l)
    <2>1. agents' = [agents EXCEPT ![l] = {}] /\ UNCHANGED stop
      <3>1. agents[l] \ {"verifier"} = {}
        BY <1>1, <1>2 DEF AgentsFine, Verifying
      <3> QED BY <1>6, <3>1 DEF VerifierCloses
    <2>2. CASE run[l].n = 1
      <3>1. Throws(l, rec[l], "failed") /\ UNCHANGED running
        BY <1>6, <2>2 DEF VerifierCloses
      <3>2. {} \in SUBSET Kinds /\ stop' = [stop EXCEPT ![l] = stop[l]] /\ running' = running \cup {l}
        BY <1>2, <2>1, <3>1
      <3> QED BY <1>1, <1>2, <2>1, <3>1, <3>2, ThrowsInv
    <2>3. CASE run[l].n # 1 /\ run[l].ok
      <3>1. Leaves(l, Finished(SetLast(rec[l], "succeeded"), "succeeded"))
        BY <1>6, <2>3 DEF VerifierCloses
      <3> QED BY <1>1, <2>1, <3>1, SucceedsInv
    <2>4. CASE run[l].n # 1 /\ ~run[l].ok
      <3>1. Saves(l, Idle(Failed(rec[l])), "next") /\ UNCHANGED running
        BY <1>6, <2>4 DEF VerifierCloses
      <3> QED BY <1>1, <2>1, <3>1, NextInv
    <2> QED BY <2>2, <2>3, <2>4
  <1> QED BY <1>4, <1>5, <1>6

LEMMA LoopEndsInv ==
    ASSUME Inv, NEW l \in Loops, LoopEnds(l)
    PROVE  Inv'
  <1> DEFINE u == [run[l] EXCEPT !.pc = "done"]
  <1>1. /\ up /\ run[l].pc = "ending" /\ ~run[l].saving /\ LoopFine(l) /\ Calm
        /\ UNCHANGED <<up, stop, agents>> /\ Leaves(l, rec[l])
    BY DEF LoopEnds, At, Ready, Inv, LoopsFine
  <1>2. /\ Good(rec[l]) /\ run[l] \in RunType /\ stop[l] \in StopType /\ agents[l] \in SUBSET Kinds
    BY UnderWay
  <1>3. u \in RunType /\ u.pc = "done"
    BY <1>2 DEF RunType, Pcs
  <1>4. ~u.saving
    BY <1>1, <1>2 DEF RunType
  <1>5. run' = [run EXCEPT ![l] = u] /\ running' = running \ {l} /\ UNCHANGED <<rec, store>>
    BY <1>1, Unchanged DEF Leaves, Inv, Typed, ServiceTypes
  <1> HIDE DEF u
  <1>6. Becomes(l, rec[l], u, stop[l], agents[l], FALSE) /\ Stores(l, u)
    BY <1>1, <1>4, <1>5, Unchanged DEF Becomes, Stores
  <1>7. RunFine(rec[l], u, FALSE)
    BY <1>1, <1>3, <1>4 DEF LoopFine, RunFine, Active
  <1>8. StopFine(rec[l], u, stop[l]) /\ AgentsFine(u, agents[l])
    BY <1>1, <1>3 DEF LoopFine, StopFine, AgentsFine, Begun, Working, Verifying
  <1> QED BY <1>2, <1>3, <1>6, <1>7, <1>8, BecomesInv

-----------------------------------------------------------------------------
(* The actions of stopLoop *)
LEMMA StopOnlyInv ==
    ASSUME Inv, NEW l \in Loops, up, UNCHANGED <<up, rec, run, running, agents>>, Calm,
           NEW t \in StopType, stop' = [stop EXCEPT ![l] = t], StopFine(rec[l], run[l], t),
           UNCHANGED store \/ Save("stop", l)
    PROVE  Inv'
  <1> DEFINE mapped == l \in running
  <1>1. /\ Good(rec[l]) /\ run[l] \in RunType /\ agents[l] \in SUBSET Kinds /\ LoopFine(l)
    BY UnderWay DEF Inv, LoopsFine
  <1>2. RunFine(rec[l], run[l], mapped) /\ AgentsFine(run[l], agents[l]) /\ mapped \in BOOLEAN
    BY <1>1 DEF LoopFine
  <1>3. running' = IF mapped THEN running \cup {l} ELSE running \ {l}
    OBVIOUS
  <1> HIDE DEF mapped
  <1>4. Becomes(l, rec[l], run[l], t, agents[l], mapped) /\ Stores(l, run[l])
    BY <1>3, Unchanged DEF Becomes, Stores
  <1> QED BY <1>1, <1>2, <1>4, BecomesInv

LEMMA StopInv ==
    ASSUME ~EarlyStop, Inv, NEW l \in Loops, Stop(l)
    PROVE  Inv'
  <1> DEFINE t == [pc |-> "asked", saving |-> TRUE, found |-> l \in running]
  <1>1. /\ up /\ rec[l].status = "running" /\ run[l].pc # "start" /\ LoopFine(l)
        /\ stop' = [stop EXCEPT ![l] = t] /\ Save("stop", l) /\ Calm
        /\ UNCHANGED <<up, rec, run, running, agents>>
    BY DEF Stop, Ready, Inv, LoopsFine
  <1>2. t \in StopType /\ t.pc = "asked"
    BY DEF StopType
  <1>3. t.found <=> l \in running
    OBVIOUS
  <1>4. run[l].pc \in Active \cup {"refused"} /\ (l \in running <=> run[l].pc \in Active)
    <2>1. run[l].pc \in Pcs /\ LoopFine(l)
      BY <1>1, UnderWay DEF RunType
    <2> QED BY <1>1, <2>1 DEF LoopFine, RunFine, Pcs, Active, Ends
  <1> HIDE DEF t
  <1>5. StopFine(rec[l], run[l], t)
    BY <1>1, <1>2, <1>3, <1>4 DEF StopFine, Begun, Active
  <1> QED BY <1>1, <1>2, <1>5, StopOnlyInv

LEMMA StopReturnsInv ==
    ASSUME Inv, NEW l \in Loops, StopReturns(l)
    PROVE  Inv'
  <1> DEFINE t == [stop[l] EXCEPT !.pc = "done"]
  <1>1. /\ up /\ LoopFine(l) /\ stop[l] \in StopType /\ Calm
        /\ stop[l].pc = "marked" \/ (stop[l].pc = "awaiting" /\ run[l].pc = "done")
        /\ UNCHANGED <<up, rec, run, running, agents, store>>
    BY UnderWay DEF StopReturns, StopAt, Ready, Inv, LoopsFine
  <1>2. t \in StopType /\ t.pc = "done"
    BY <1>1 DEF StopType
  <1>3. t.found <=> stop[l].found
    BY <1>1 DEF StopType
  <1>4. stop' = [stop EXCEPT ![l] = t]
    BY DEF StopReturns, Inv, Typed, ServiceTypes
  <1> HIDE DEF t
  <1>5. StopFine(rec[l], run[l], t)
    BY <1>1, <1>2, <1>3 DEF LoopFine, StopFine, Begun, Active
  <1> QED BY <1>1, <1>2, <1>4, <1>5, StopOnlyInv

LEMMA StopMarksInv ==
    ASSUME Inv, NEW l \in Loops, StopMarks(l)
    PROVE  Inv'
  <1> DEFINE t == [stop[l] EXCEPT !.pc = "marked", !.saving = TRUE]
             r == [rec[l] EXCEPT !.status = "stopped"]
  <1>1. /\ up /\ LoopFine(l) /\ stop[l] \in StopType /\ Calm /\ Save("stop", l)
        /\ stop[l].pc = "asked" /\ ~stop[l].found /\ UNCHANGED <<up, run, running, agents>>
    BY UnderWay DEF StopMarks, StopAt, Ready, Inv, LoopsFine
  <1>2. Good(rec[l]) /\ run[l] \in RunType /\ agents[l] \in SUBSET Kinds
    BY UnderWay
  <1>3. t \in StopType /\ t.pc = "marked"
    BY <1>1 DEF StopType
  <1>4. ~t.found
    BY <1>1 DEF StopType
  <1>5. stop' = [stop EXCEPT ![l] = t] /\ rec' = [rec EXCEPT ![l] = r]
    BY DEF StopMarks, Inv, Typed, ServiceTypes
  <1>6. Good(r) /\ r.status = "stopped"
    BY <1>2 DEF Good, Record, Sound, LastIs, Statuses, Ends
  <1> HIDE DEF t, r
  <1>7. run[l].pc = "refused"
    <2>1. run[l].pc \in Pcs
      BY <1>2 DEF RunType
    <2> QED BY <1>1, <2>1 DEF LoopFine, StopFine, Begun, Active, Pcs
  <1>8. RunFine(r, run[l], FALSE) /\ StopFine(r, run[l], t) /\ AgentsFine(run[l], agents[l])
        /\ l \notin running
    BY <1>1, <1>3, <1>4, <1>6, <1>7 DEF LoopFine, RunFine, StopFine, Begun, Active
  <1>9. Becomes(l, r, run[l], t, agents[l], FALSE) /\ Stores(l, run[l])
    BY <1>1, <1>5, <1>8, Unchanged DEF Becomes, Stores
  <1> QED BY <1>2, <1>3, <1>6, <1>8, <1>9, BecomesInv

LEMMA StopAbortsInv ==
    ASSUME Inv, NEW l \in Loops, StopAborts(l)
    PROVE  Inv'
  <1> DEFINE to == IF run[l].pc \in {"working", "verifying"} THEN "cancel" ELSE "awaiting"
             t == [stop[l] EXCEPT !.pc = to]
  <1>1. /\ up /\ LoopFine(l) /\ stop[l] \in StopType /\ Calm /\ stop[l].pc = "asked" /\ stop[l].found
        /\ UNCHANGED <<up, running, agents>>
    BY UnderWay DEF StopAborts, StopAt, Ready, Inv, LoopsFine
  <1>2. Good(rec[l]) /\ run[l] \in RunType /\ agents[l] \in SUBSET Kinds /\ AgentsFine(run[l], agents[l])
    BY UnderWay
  <1>3. stop' = [stop EXCEPT ![l] = t]
    BY DEF StopAborts, Inv, Typed, ServiceTypes
  <1>4. to \in {"cancel", "awaiting"}
    OBVIOUS
  <1> HIDE DEF to
  <1>5. t \in StopType /\ t.pc \in {"cancel", "awaiting"}
    BY <1>1, <1>4 DEF StopType
  <1>6. t.found
    BY <1>1 DEF StopType
  <1> HIDE DEF t
  <1>7. Unmarked(t)
    BY <1>5, <1>6 DEF Unmarked
  <1>8. run[l].pc \in Begun
    <2>1. run[l].pc \in Pcs
      BY <1>2 DEF RunType
    <2> QED BY <1>1, <2>1 DEF LoopFine, StopFine, Begun, Active, Pcs
  <1>9. CASE run[l].pc = "sleeping"
    <2>1. Throws(l, rec[l], "stopped")
      BY <1>9 DEF StopAborts
    <2>2. ~run[l].saving /\ agents[l] = {} /\ run[l].pc \in Active
      BY <1>1, <1>9 DEF LoopFine, RunFine, AgentsFine, Active, Working, Verifying
    <2>3. running' = running \cup {l} /\ agents' = [agents EXCEPT ![l] = {}] /\ {} \in SUBSET Kinds
      BY <1>1, <2>2, UnderWay, Unchanged
    <2> QED BY <1>1, <1>2, <1>3, <1>5, <1>7, <2>1, <2>2, <2>3, ThrowsInv
  <1>10. CASE run[l].pc # "sleeping"
    <2> DEFINE u == [run[l] EXCEPT !.aborted = TRUE]
               mapped == l \in running
    <2>1. run' = [run EXCEPT ![l] = u] /\ UNCHANGED <<rec, store>>
      BY <1>10 DEF StopAborts, Inv, Typed, ServiceTypes
    <2>2. u \in RunType /\ u.pc = run[l].pc
      BY <1>2 DEF RunType
    <2>3. u.saving <=> run[l].saving
      BY <1>2 DEF RunType
    <2>4. mapped \in BOOLEAN /\ running' = IF mapped THEN running \cup {l} ELSE running \ {l}
      BY <1>1
    <2>5. RunFine(rec[l], run[l], mapped)
      BY <1>1 DEF LoopFine
    <2> HIDE DEF u, mapped
    <2>6. RunFine(rec[l], u, mapped)
      BY <2>2, <2>3, <2>5 DEF RunFine
    <2>7. StopFine(rec[l], u, t) /\ AgentsFine(u, agents[l])
      BY <1>2, <1>5, <1>6, <1>8, <2>2 DEF StopFine, AgentsFine, Begun, Active
    <2>8. Becomes(l, rec[l], u, t, agents[l], mapped) /\ Stores(l, u)
      BY <1>1, <1>3, <2>1, <2>3, <2>4, Unchanged DEF Becomes, Stores
    <2> QED BY <1>2, <1>5, <2>2, <2>4, <2>6, <2>7, <2>8, BecomesInv
  <1> QED BY <1>9, <1>10

-----------------------------------------------------------------------------
(* The file, crashes and restarts *)
LEMMA RecoveredGood ==
    ASSUME NEW r, Good(r)
    PROVE  Good(Recovered(r)) /\ Recovered(r).status \in {"none"} \cup Ends
  <1>1. r.status \in {"none", "running"} \cup Ends
    BY DEF Good, Record, Statuses
  <1>2. CASE r.status # "running"
    BY <1>1, <1>2 DEF Recovered
  <1>3. CASE r.status = "running"
    <2> DEFINE q == Finished(r, "stopped")
    <2>1. Good(q) /\ q.status = "stopped"
      BY FinishedGood
    <2>2. Recovered(r) = IF LastIs(q, "running") THEN SetLast(q, "stopped") ELSE q
      BY <1>3 DEF Recovered
    <2> HIDE DEF q
    <2>3. CASE LastIs(q, "running")
      <3>1. Good(SetLast(q, "stopped")) /\ SetLast(q, "stopped").status = "stopped"
        BY <2>1, <2>3, SetLastGood DEF LastIs, Statuses, Ends
      <3> QED BY <2>2, <2>3, <3>1 DEF Ends
    <2>4. CASE ~LastIs(q, "running")
      BY <2>1, <2>2, <2>4 DEF Ends
    <2> QED BY <2>3, <2>4
  <1> QED BY <1>2, <1>3

\* The first write leaves the queue; its caller may wait no longer.
LEMMA TailQueue ==
    ASSUME QueueTypes, queue # <<>>, queue' = Tail(queue),
           \A m \in Loops : run[m].saving /\ Head(queue) # Write("run", m) => run'[m].saving
    PROVE  QueueTypes'
  <1> DEFINE k == Len(queue)
  <1>1. queue \in Seq(Writes) /\ k \in Nat /\ k > 0 /\ DOMAIN queue = 1..k
    BY EmptySeq DEF QueueTypes
  <1>2. /\ queue' \in Seq(Writes) /\ Len(queue') = k - 1 /\ Head(queue) = queue[1]
        /\ \A i \in 1..(k - 1) : queue'[i] = queue[i + 1]
    BY <1>1, HeadTailProperties
  <1>3. DOMAIN queue' = 1..(k - 1)
    BY <1>1, <1>2
  <1>4. \A i \in 1..k : queue[i] \in Writes
    BY <1>1, ElementOfSeq
  <1> HIDE DEF k
  <1>5. \A i \in 1..k : queue[i].who = "run" =>
          /\ queue[i].of \in Loops /\ run[queue[i].of].saving /\ \A j \in 1..k : queue[j] = queue[i] => j = i
          /\ queue[i] = Write("run", queue[i].of)
    BY SMTT(30), <1>1, <1>4 DEF QueueTypes, Awaited, Writes, Write
  <1>6. ASSUME NEW i \in 1..(k - 1), queue'[i].who = "run"
        PROVE  run'[queue'[i].of].saving /\ \A j \in 1..(k - 1) : queue'[j] = queue'[i] => j = i
    <2>1. i + 1 \in 1..k /\ 1 \in 1..k /\ i + 1 # 1
      BY <1>1
    <2>2. queue'[i] = queue[i + 1]
      BY <1>2
    <2>3. queue[i + 1].who = "run" /\ queue[i + 1] # queue[1]
      BY <1>5, <1>6, <2>1, <2>2
    <2>4. run'[queue'[i].of].saving
      BY <1>2, <1>5, <2>1, <2>2, <2>3
    <2>5. ASSUME NEW j \in 1..(k - 1), queue'[j] = queue'[i]
          PROVE  j = i
      <3>1. j + 1 \in 1..k /\ queue'[j] = queue[j + 1]
        BY <1>1, <1>2
      <3>2. j + 1 = i + 1
        BY <1>5, <2>1, <2>2, <2>3, <2>5, <3>1
      <3> QED BY <3>2
    <2> QED BY <2>4, <2>5
  <1> QED BY <1>2, <1>3, <1>6 DEF QueueTypes, Awaited

\* It goes to the end of the queue.
LEMMA RequeueQueue ==
    ASSUME QueueTypes, queue # <<>>, queue' = Append(Tail(queue), Head(queue)),
           \A m \in Loops : run[m].saving => run'[m].saving
    PROVE  QueueTypes' /\ queue' # <<>>
  <1> DEFINE k == Len(queue)
             b == Tail(queue)
             w == Head(queue)
  <1>1. queue \in Seq(Writes) /\ k \in Nat /\ k > 0 /\ DOMAIN queue = 1..k
    BY EmptySeq DEF QueueTypes
  <1>2. /\ b \in Seq(Writes) /\ Len(b) = k - 1 /\ w = queue[1] /\ w \in Writes
        /\ \A i \in 1..(k - 1) : b[i] = queue[i + 1]
    BY <1>1, HeadTailProperties
  <1>3. queue' = Append(b, w)
    OBVIOUS
  <1> HIDE DEF b, w
  <1>a. /\ queue' \in Seq(Writes) /\ queue' # <<>> /\ Len(queue') = Len(b) + 1
        /\ queue'[Len(b) + 1] = w /\ \A i \in 1..Len(b) : queue'[i] = b[i]
    <2>1. b \in Seq(Writes) /\ w \in Writes
      BY <1>2
    <2>2. /\ Append(b, w) \in Seq(Writes) /\ Append(b, w) # <<>> /\ Len(Append(b, w)) = Len(b) + 1
          /\ Append(b, w)[Len(b) + 1] = w /\ \A i \in 1..Len(b) : Append(b, w)[i] = b[i]
      BY <2>1, AppendProperties
    <2> QED BY <1>3, <2>2
  <1>4. /\ queue' \in Seq(Writes) /\ queue' # <<>> /\ Len(queue') = k
        /\ queue'[k] = w /\ \A i \in 1..(k - 1) : queue'[i] = b[i]
    BY <1>1, <1>2, <1>a
  <1>5. DOMAIN queue' = 1..k /\ queue'[k] = queue[1] /\ \A i \in 1..(k - 1) : queue'[i] = queue[i + 1]
    BY <1>1, <1>2, <1>4
  <1>6. \A i \in 1..k : queue[i] \in Writes
    BY <1>1, ElementOfSeq
  <1> HIDE DEF k
  <1>7. \A i \in 1..k : queue[i].who = "run" =>
          queue[i].of \in Loops /\ run[queue[i].of].saving /\ \A j \in 1..k : queue[j] = queue[i] => j = i
    BY SMTT(30), <1>1, <1>6 DEF QueueTypes, Awaited, Writes, Write
  <1> DEFINE p(i) == IF i = k THEN 1 ELSE i + 1
  <1>8. \A i \in 1..k : p(i) \in 1..k /\ queue'[i] = queue[p(i)] /\ \A j \in 1..k : p(j) = p(i) => j = i
    BY <1>1, <1>5
  <1> HIDE DEF p
  <1>9. ASSUME NEW i \in 1..k, queue'[i].who = "run"
        PROVE  run'[queue'[i].of].saving /\ \A j \in 1..k : queue'[j] = queue'[i] => j = i
    <2>1. p(i) \in 1..k /\ queue'[i] = queue[p(i)]
      BY <1>8
    <2>2. /\ queue[p(i)].of \in Loops /\ run[queue[p(i)].of].saving
          /\ \A j \in 1..k : queue[j] = queue[p(i)] => j = p(i)
      BY <1>7, <1>9, <2>1
    <2>3. ASSUME NEW j \in 1..k, queue'[j] = queue'[i]
          PROVE  j = i
      <3>1. p(j) \in 1..k /\ queue'[j] = queue[p(j)]
        BY <1>8
      <3>2. p(j) = p(i)
        BY <2>1, <2>2, <2>3, <3>1
      <3> QED BY <1>8, <3>2
    <2> QED BY <2>1, <2>2, <2>3
  <1> QED BY <1>4, <1>5, <1>9 DEF QueueTypes, Awaited

LEMMA DiesInv ==
    ASSUME Inv, Dies, disk' \in {disk, Torn}, CountTypes'
    PROVE  Inv'
  <1>1. NoRecord \in Record /\ NoRecord.status = "none" /\ NoRecord.iters = <<>>
    BY DEF NoRecord, Record
  <1>2. Sound(NoRecord)
    BY <1>1, Lengths DEF Sound
  <1>3. NoRun \in RunType /\ NoStop \in StopType /\ NoRun.pc = "none" /\ NoStop.pc = "none"
    BY DEF NoRun, NoStop, RunType, StopType, Pcs
  <1>4. ~NoRun.saving
    BY DEF NoRun
  <1>5. ServiceTypes'
    BY <1>1, <1>2, <1>3 DEF Dies, ServiceTypes, Empty
  <1>6. QueueTypes'
    BY DEF Dies, QueueTypes, Awaited
  <1>7. FileTypes'
    BY DEF Dies, FileTypes, Inv, Typed
  <1>8. ASSUME NEW m \in Loops
        PROVE  LoopFine(m)'
    <2>1. /\ rec'[m] = NoRecord /\ run'[m] = NoRun /\ stop'[m] = NoStop /\ agents'[m] = {}
          /\ m \notin running'
      BY DEF Dies, Empty
    <2>2. RunFine(rec[m], run[m], m \in running)'
      BY <1>1, <1>3, <1>4, <2>1 DEF RunFine, Active
    <2>3. StopFine(rec[m], run[m], stop[m])' /\ AgentsFine(run[m], agents[m])'
      BY <1>3, <2>1 DEF StopFine, AgentsFine, Begun, Active, Working, Verifying
    <2> QED BY <2>2, <2>3 DEF LoopFine
  <1>9. Down'
    BY <1>3 DEF Dies, Down
  <1> QED BY <1>5, <1>6, <1>7, <1>8, <1>9 DEF Inv, Typed, LoopsFine

LEMMA CrashInv == ASSUME Inv, Crash PROVE Inv'
  <1>1. CountTypes'
    BY Lengths DEF Crash, Inv, Typed, CountTypes
  <1>2. disk' \in {disk, Torn} /\ Dies
    BY DEF Crash
  <1> QED BY <1>1, <1>2, DiesInv

LEMMA RestartInv == ASSUME Inv, Restart PROVE Inv'
  <1>1. /\ up' = TRUE /\ queue' = <<Write("init", NoLoop)>>
        /\ UNCHANGED <<run, stop, running, agents, snap, disk, failures, crashes>>
        /\ \A l \in Loops : run[l].pc = "none"
    BY DEF Restart, Calm, Inv, Down
  <1>2. NoRecord \in Record /\ NoRecord.status = "none" /\ NoRecord.iters = <<>>
    BY DEF NoRecord, Record
  <1>3. Good(NoRecord)
    BY <1>2, Lengths DEF Good, Sound
  <1>4. /\ rec' \in [Loops -> Record]
        /\ \A l \in Loops : Sound(rec'[l]) /\ rec'[l].status \in {"none"} \cup Ends
    <2>1. CASE disk = Torn
      BY <1>2, <1>3, <2>1 DEF Restart, Empty, Good
    <2>2. CASE disk # Torn
      <3>1. rec' = [l \in Loops |-> Recovered(disk[l])]
        BY <2>2 DEF Restart
      <3>2. \A l \in Loops : Good(disk[l])
        BY <2>2 DEF Inv, Typed, FileTypes, Good
      <3>3. \A l \in Loops : Good(Recovered(disk[l])) /\ Recovered(disk[l]).status \in {"none"} \cup Ends
        BY <3>2, RecoveredGood
      <3> QED BY <3>1, <3>3 DEF Good
    <2> QED BY <2>1, <2>2
  <1>5. ServiceTypes'
    BY <1>1, <1>4 DEF ServiceTypes, Inv, Typed
  <1>6. QueueTypes'
    <2> DEFINE w == Write("init", NoLoop)
    <2>1. w \in Writes /\ w.who # "run"
      BY DEF Writes, Write
    <2> HIDE DEF w
    <2>2. queue' = <<w>>
      BY <1>1 DEF w
    <2> QED BY <2>1, <2>2 DEF QueueTypes, Awaited
  <1>7. FileTypes'
    BY <1>1 DEF FileTypes, Inv, Typed
  <1>8. ASSUME NEW m \in Loops
        PROVE  LoopFine(m)'
    <2>1. LoopFine(m) /\ run[m].pc = "none"
      BY <1>1 DEF Inv, LoopsFine
    <2>2. RunFine(rec[m], run[m], m \in running)'
      BY <1>1, <1>4, <2>1 DEF RunFine, LoopFine, Active
    <2>3. StopFine(rec[m], run[m], stop[m])' /\ AgentsFine(run[m], agents[m])'
      BY <1>1, <2>1 DEF StopFine, AgentsFine, LoopFine, Begun, Active
    <2> QED BY <2>2, <2>3 DEF LoopFine
  <1>9. CountTypes' /\ Down'
    BY <1>1 DEF Inv, Typed, CountTypes, Down
  <1> QED BY <1>5, <1>6, <1>7, <1>8, <1>9 DEF Inv, Typed, LoopsFine

LEMMA WriteStartsInv == ASSUME Inv, WriteStarts PROVE Inv'
  <1>1. /\ UNCHANGED <<up, rec, run, stop, running, agents, queue, disk, failures, crashes>>
        /\ snap' = rec /\ queue # <<>>
    BY DEF WriteStarts, service, Calm
  <1>2. ServiceTypes' /\ CountTypes' /\ Down'
    BY <1>1 DEF Inv, Typed, ServiceTypes, CountTypes, Down
  <1>3. QueueTypes'
    BY <1>1 DEF Inv, Typed, QueueTypes, Awaited
  <1>4. FileTypes'
    BY <1>1 DEF Inv, Typed, FileTypes, ServiceTypes
  <1>5. ASSUME NEW m \in Loops
        PROVE  LoopFine(m)'
    <2>1. LoopFine(m)
      BY DEF Inv, LoopsFine
    <2> QED BY <1>1, <2>1 DEF LoopFine, RunFine, StopFine, AgentsFine
  <1> QED BY <1>2, <1>3, <1>4, <1>5 DEF Inv, Typed, LoopsFine

\* The file after a write, and the counters.
LEMMA Written ==
    ASSUME Inv, snap' = NoWrite, disk' \in {disk, snap, Torn}, snap # NoWrite
    PROVE  FileTypes'
  BY DEF Inv, Typed, FileTypes

LEMMA WriteEndsInv == ASSUME Inv, WriteEnds PROVE Inv'
  <1> DEFINE w == Head(queue)
  <1>1. /\ snap # NoWrite /\ disk' = snap /\ snap' = NoWrite /\ queue' = Tail(queue)
        /\ UNCHANGED <<up, rec, running, agents, failures, crashes>> /\ up
        /\ run' = IF w.who = "run" THEN [run EXCEPT ![w.of].saving = FALSE] ELSE run
        /\ stop' = IF w.who = "stop" THEN [stop EXCEPT ![w.of].saving = FALSE] ELSE stop
    BY DEF WriteEnds, Calm
  <1>2. queue # <<>>
    BY <1>1 DEF Inv, Typed, FileTypes
  <1>3. w \in Writes
    BY <1>2, HeadTailProperties DEF Inv, Typed, QueueTypes
  <1> HIDE DEF w
  <1>4. /\ w.who = "run" => w.of \in Loops /\ w = Write("run", w.of)
        /\ w.who = "stop" => w.of \in Loops
    BY <1>3 DEF Writes, Write
  <1>5. FileTypes'
    BY <1>1, Written
  <1>6. /\ run \in [Loops -> RunType] /\ stop \in [Loops -> StopType]
    BY DEF Inv, Typed, ServiceTypes
  <1>7. run' \in [Loops -> RunType] /\ \A m \in Loops : run'[m].pc = run[m].pc
    BY <1>1, <1>4, <1>6 DEF RunType
  <1>8. \A m \in Loops : run'[m].saving => run[m].saving
    BY <1>1, <1>4, <1>6 DEF RunType
  <1>9. \A m \in Loops : run[m].saving /\ w # Write("run", m) => run'[m].saving
    BY <1>1, <1>4, <1>6 DEF RunType
  <1>10. stop' \in [Loops -> StopType] /\ \A m \in Loops : stop'[m].pc = stop[m].pc
    BY <1>1, <1>4, <1>6 DEF StopType
  <1>11. \A m \in Loops : stop'[m].found <=> stop[m].found
    BY <1>1, <1>4, <1>6 DEF StopType
  <1>12. QueueTypes'
    BY <1>1, <1>2, <1>9, TailQueue DEF Inv, Typed, w
  <1>13. ASSUME NEW m \in Loops
         PROVE  LoopFine(m)'
    <2>1. LoopFine(m)
      BY DEF Inv, LoopsFine
    <2>2. RunFine(rec[m], run[m], m \in running)'
      BY <1>1, <1>7, <1>8, <2>1 DEF RunFine, LoopFine
    <2>3. StopFine(rec[m], run[m], stop[m])'
      BY <1>1, <1>7, <1>10, <1>11, <2>1 DEF StopFine, LoopFine
    <2>4. AgentsFine(run[m], agents[m])'
      BY <1>1, <1>7, <2>1 DEF AgentsFine, LoopFine
    <2> QED BY <2>2, <2>3, <2>4 DEF LoopFine
  <1>14. ServiceTypes' /\ CountTypes' /\ Down'
    BY <1>1, <1>7, <1>10 DEF Inv, Typed, ServiceTypes, CountTypes, Down
  <1> QED BY <1>5, <1>12, <1>13, <1>14 DEF Inv, Typed, LoopsFine

\* The error of a write reaches its caller.
LEMMA WriteFailsInv == ASSUME Inv, WriteFails PROVE Inv'
  <1> DEFINE w == Head(queue)
             l == w.of
  <1>1. /\ up /\ snap # NoWrite /\ failures < MaxFailures /\ failures' = failures + 1
        /\ UNCHANGED crashes /\ disk' \in {disk, Torn}
    BY DEF WriteFails
  <1>2. queue # <<>> /\ CountTypes'
    BY <1>1, Lengths DEF Inv, Typed, FileTypes, CountTypes
  <1>3. w \in Writes
    BY <1>2, HeadTailProperties DEF Inv, Typed, QueueTypes
  <1>4. /\ w.who = "run" => l \in Loops /\ w = Write("run", l) /\ run[l].saving
        /\ w.who = "stop" => l \in Loops
    <2>1. /\ w.who = "run" => l \in Loops /\ w = Write("run", l)
          /\ w.who = "stop" => l \in Loops
      BY <1>3 DEF Writes, Write
    <2>2. w = queue[1] /\ 1 \in DOMAIN queue
      BY <1>2, HeadTailProperties, EmptySeq DEF Inv, Typed, QueueTypes
    <2>3. w.who = "run" => run[l].saving
      BY <2>2 DEF Inv, Typed, QueueTypes, Awaited
    <2> QED BY <2>1, <2>3
  <1>5. \/ Dies
        \/ /\ snap' = NoWrite /\ UNCHANGED <<up, agents>>
           /\ \/ /\ w.who = "run" /\ run[l].pc = "start"
                 /\ run' = [run EXCEPT ![l].pc = "refused", ![l].saving = FALSE]
                 /\ queue' = Tail(queue) /\ UNCHANGED <<rec, stop, running>>
              \/ /\ w.who = "run" /\ run[l].pc \notin {"start", "ending"}
                 /\ rec' = [rec EXCEPT ![l] = Finished(@, "failed")]
                 /\ run' = [run EXCEPT ![l].pc = "ending"]
                 /\ queue' = Append(Tail(queue), w) /\ UNCHANGED <<stop, running>>
              \/ /\ w.who = "run" /\ run[l].pc = "ending" /\ stop[l].pc = "awaiting"
                 /\ run' = [run EXCEPT ![l].pc = "done", ![l].saving = FALSE]
                 /\ running' = running \ {l}
                 /\ queue' = Tail(queue) /\ UNCHANGED <<rec, stop>>
              \/ /\ w.who = "stop" /\ stop' = [stop EXCEPT ![l] = NoStop]
                 /\ queue' = Tail(queue) /\ UNCHANGED <<rec, run, running>>
    BY DEF WriteFails
  <1> HIDE DEF w, l
  <1>6. CASE Dies
    BY <1>1, <1>2, <1>6, DiesInv
  <1>7. ASSUME snap' = NoWrite, UNCHANGED <<up, agents>>, l \in Loops,
               NEW r, Good(r), NEW u \in RunType, NEW t \in StopType, NEW mapped \in BOOLEAN,
               rec' = [rec EXCEPT ![l] = r], run' = [run EXCEPT ![l] = u],
               stop' = [stop EXCEPT ![l] = t],
               running' = IF mapped THEN running \cup {l} ELSE running \ {l},
               RunFine(r, u, mapped), StopFine(r, u, t), AgentsFine(u, agents[l]),
               \/ queue' = Tail(queue) /\ (w = Write("run", l) \/ u = run[l])
               \/ queue' = Append(Tail(queue), w) /\ (run[l].saving => u.saving)
        PROVE  Inv'
    <2>1. agents' = [agents EXCEPT ![l] = agents[l]] /\ agents[l] \in SUBSET Kinds
      BY <1>7, UnderWay, Unchanged
    <2>2. ServiceTypes' /\ LoopsFine' /\ run'[l] = u /\ \A m \in Loops : m # l => run'[m] = run[m]
      BY <1>7, <2>1, LoopAlone
    <2>3. QueueTypes'
      <3>1. CASE queue' = Tail(queue) /\ (w = Write("run", l) \/ u = run[l])
        <4>1. \A m \in Loops : run[m].saving /\ w # Write("run", m) => run'[m].saving
          BY <2>2, <3>1
        <4> QED BY <1>2, <3>1, <4>1, TailQueue DEF Inv, Typed, w
      <3>2. CASE queue' = Append(Tail(queue), w) /\ (run[l].saving => u.saving)
        <4>1. \A m \in Loops : run[m].saving => run'[m].saving
          BY <2>2, <3>2
        <4> QED BY <1>2, <3>2, <4>1, RequeueQueue DEF Inv, Typed, w
      <3> QED BY <1>7, <3>1, <3>2
    <2>4. FileTypes'
      BY <1>1, <1>7, Written
    <2>5. Down'
      BY <1>1, <1>7 DEF Down
    <2> QED BY <1>2, <2>2, <2>3, <2>4, <2>5 DEF Inv, Typed
  <1>8. l \in Loops => /\ LoopFine(l) /\ Good(rec[l]) /\ run[l] \in RunType /\ stop[l] \in StopType
                       /\ rec = [rec EXCEPT ![l] = rec[l]] /\ run = [run EXCEPT ![l] = run[l]]
                       /\ stop = [stop EXCEPT ![l] = stop[l]]
    BY UnderWay, Unchanged DEF Inv, LoopsFine
  <1>9. l \in Loops => RunFine(rec[l], run[l], l \in running) /\ AgentsFine(run[l], agents[l])
    BY <1>8 DEF LoopFine
  <1>10. CASE /\ snap' = NoWrite /\ UNCHANGED <<up, agents>>
              /\ w.who = "run" /\ run[l].pc = "start"
              /\ run' = [run EXCEPT ![l].pc = "refused", ![l].saving = FALSE]
              /\ queue' = Tail(queue) /\ UNCHANGED <<rec, stop, running>>
    <2> DEFINE u == [run[l] EXCEPT !.pc = "refused", !.saving = FALSE]
    <2>1. u \in RunType /\ u.pc = "refused"
      BY <1>4, <1>8, <1>10 DEF RunType, Pcs
    <2>2. ~u.saving
      BY <1>4, <1>8, <1>10 DEF RunType
    <2>3. run' = [run EXCEPT ![l] = u]
      BY <1>4, <1>10 DEF Inv, Typed, ServiceTypes
    <2> HIDE DEF u
    <2>4. RunFine(rec[l], u, FALSE) /\ l \notin running
      BY <1>4, <1>9, <1>10, <2>1, <2>2 DEF RunFine, Active
    <2>5. StopFine(rec[l], u, stop[l]) /\ AgentsFine(u, agents[l])
      BY <1>4, <1>8, <1>9, <1>10, <2>1 DEF LoopFine, StopFine, AgentsFine, Begun, Active, Working, Verifying
    <2>6. running' = running \ {l}
      BY <1>10, <2>4
    <2> QED BY <1>4, <1>7, <1>8, <1>10, <2>1, <2>3, <2>4, <2>5, <2>6
  <1>11. CASE /\ snap' = NoWrite /\ UNCHANGED <<up, agents>>
              /\ w.who = "run" /\ run[l].pc \notin {"start", "ending"}
              /\ rec' = [rec EXCEPT ![l] = Finished(@, "failed")]
              /\ run' = [run EXCEPT ![l].pc = "ending"]
              /\ queue' = Append(Tail(queue), w) /\ UNCHANGED <<stop, running>>
    <2> DEFINE u == [run[l] EXCEPT !.pc = "ending"]
               r == Finished(rec[l], "failed")
    <2>1. u \in RunType /\ u.pc = "ending"
      BY <1>4, <1>8, <1>11 DEF RunType, Pcs
    <2>2. u.saving <=> run[l].saving
      BY <1>4, <1>8, <1>11 DEF RunType
    <2>3. run' = [run EXCEPT ![l] = u] /\ rec' = [rec EXCEPT ![l] = r]
      BY <1>4, <1>11 DEF Inv, Typed, ServiceTypes
    <2>4. Good(r) /\ r.status \in Ends
      BY <1>4, <1>8, <1>11, FinishedGood DEF Ends
    <2> HIDE DEF u, r
    <2>5. run[l].pc \in Active
      <3>1. run[l].pc \in Pcs /\ run[l].saving
        BY <1>4, <1>8, <1>11 DEF RunType
      <3> QED BY <1>4, <1>9, <1>11, <3>1 DEF RunFine, Pcs, Active
    <2>6. l \in running
      BY <1>4, <1>9, <1>11, <2>5 DEF RunFine
    <2>7. RunFine(r, u, TRUE)
      BY <2>1, <2>4 DEF RunFine, Active
    <2>8. StopFine(r, u, stop[l]) /\ AgentsFine(u, agents[l])
      BY <1>4, <1>8, <1>9, <1>11, <2>1, <2>5 DEF LoopFine, StopFine, AgentsFine, Begun, Active, Working, Verifying
    <2>9. running' = running \cup {l}
      BY <1>11, <2>6
    <2> QED BY <1>4, <1>7, <1>8, <1>11, <2>1, <2>2, <2>3, <2>4, <2>7, <2>8, <2>9
  <1>12. CASE /\ snap' = NoWrite /\ UNCHANGED <<up, agents>>
              /\ w.who = "run" /\ run[l].pc = "ending" /\ stop[l].pc = "awaiting"
              /\ run' = [run EXCEPT ![l].pc = "done", ![l].saving = FALSE]
              /\ running' = running \ {l}
              /\ queue' = Tail(queue) /\ UNCHANGED <<rec, stop>>
    <2> DEFINE u == [run[l] EXCEPT !.pc = "done", !.saving = FALSE]
    <2>1. u \in RunType /\ u.pc = "done"
      BY <1>4, <1>8, <1>12 DEF RunType, Pcs
    <2>2. ~u.saving
      BY <1>4, <1>8, <1>12 DEF RunType
    <2>3. run' = [run EXCEPT ![l] = u]
      BY <1>4, <1>12 DEF Inv, Typed, ServiceTypes
    <2> HIDE DEF u
    <2>4. RunFine(rec[l], u, FALSE)
      BY <1>4, <1>9, <1>12, <2>1, <2>2 DEF RunFine, Active
    <2>5. StopFine(rec[l], u, stop[l]) /\ AgentsFine(u, agents[l])
      BY <1>4, <1>8, <1>9, <1>12, <2>1 DEF LoopFine, StopFine, AgentsFine, Begun, Active, Working, Verifying
    <2> QED BY <1>4, <1>7, <1>8, <1>12, <2>1, <2>3, <2>4, <2>5
  <1>13. CASE /\ snap' = NoWrite /\ UNCHANGED <<up, agents>>
              /\ w.who = "stop" /\ stop' = [stop EXCEPT ![l] = NoStop]
              /\ queue' = Tail(queue) /\ UNCHANGED <<rec, run, running>>
    <2> DEFINE mapped == l \in running
    <2>1. NoStop \in StopType /\ NoStop.pc = "none"
      BY DEF NoStop, StopType
    <2>2. StopFine(rec[l], run[l], NoStop)
      BY <2>1 DEF StopFine
    <2>3. /\ mapped \in BOOLEAN /\ running' = IF mapped THEN running \cup {l} ELSE running \ {l}
          /\ RunFine(rec[l], run[l], mapped)
      BY <1>4, <1>9, <1>13
    <2> HIDE DEF mapped
    <2>4. rec' = [rec EXCEPT ![l] = rec[l]] /\ run' = [run EXCEPT ![l] = run[l]] /\ l \in Loops
      BY <1>4, <1>8, <1>13
    <2> QED BY <1>7, <1>8, <1>9, <1>13, <2>1, <2>2, <2>3, <2>4
  <1> QED BY <1>5, <1>6, <1>10, <1>11, <1>12, <1>13

LEMMA StepInv == ASSUME ~EarlyStop PROVE Inv /\ [Next]_vars => Inv'
  <1> SUFFICES ASSUME Inv, [Next]_vars PROVE Inv'
    OBVIOUS
  <1>1. CASE UNCHANGED vars
    <2>1. /\ UNCHANGED <<up, rec, run, stop, running, agents, queue, snap, disk, failures, crashes>>
      BY <1>1 DEF vars, service, store
    <2>2. Typed' /\ Down'
      BY <2>1 DEF Inv, Typed, ServiceTypes, QueueTypes, Awaited, FileTypes, CountTypes, Down
    <2>3. ASSUME NEW m \in Loops PROVE LoopFine(m)'
      <3>1. LoopFine(m)
        BY DEF Inv, LoopsFine
      <3> QED BY <2>1, <3>1 DEF LoopFine, RunFine, StopFine, AgentsFine
    <2> QED BY <2>2, <2>3 DEF Inv, LoopsFine
  <1>2. ASSUME NEW l \in Loops, Executes(l) \/ Create(l) \/ Wakes(l)
        PROVE  Inv'
    BY <1>2, CreateInv, BeginsInv, CallsInv, CreatedInv, WorkerClosesInv, ChecksInv, VerifierInv,
       LoopEndsInv DEF Executes
  <1>3. ASSUME NEW l \in Loops, Stop(l) \/ Stops(l)
        PROVE  Inv'
    BY <1>3, StopInv, StopAbortsInv, StopMarksInv, StopReturnsInv DEF Stops
  <1>4. ASSUME NEW l \in Loops,
               \/ \E result \in Results : WorkerEnds(l, result)
               \/ \E passed \in BOOLEAN : CheckEnds(l, passed)
               \/ \E verdict \in Verdicts : VerifierEnds(l, verdict)
        PROVE  Inv'
    BY <1>4, WorkerEndsInv, ChecksInv, VerifierInv
  <1>5. CASE WriteStarts \/ WriteEnds \/ WriteFails \/ Crash \/ Restart
    BY <1>5, WriteStartsInv, WriteEndsInv, WriteFailsInv, CrashInv, RestartInv
  <1> QED BY <1>1, <1>2, <1>3, <1>4, <1>5 DEF Next

LEMMA LoopsInv == ASSUME ~EarlyStop PROVE Spec => []Inv
  <1>1. Init => Inv
    BY InitInv
  <1>2. Inv /\ [Next]_vars => Inv'
    BY StepInv
  <1> QED BY <1>1, <1>2, PTL DEF Spec

-----------------------------------------------------------------------------
(* The theorems *)
\* Every variable of the service keeps its type, and no loop has more iterations than its
\* limit, whatever writes fail and however often the daemon restarts.
THEOREM LoopsTypeOK == ASSUME ~EarlyStop PROVE Spec => []TypeOK
  <1>1. Inv => TypeOK
    <2> SUFFICES ASSUME Inv PROVE TypeOK
      OBVIOUS
    <2>1. rec \in [Loops -> Record] /\ \A l \in Loops : Len(rec[l].iters) <= MaxIterations
      BY DEF Inv, Typed, ServiceTypes, Sound
    <2> QED BY <2>1 DEF TypeOK, Inv, Typed, ServiceTypes, QueueTypes, FileTypes, CountTypes,
                       RunType, StopType, Kinds, Writes
  <1> QED BY <1>1, LoopsInv, PTL

\* A loop that shows as running, and whose runLoop has returned, has its runner: no write
\* that fails and no stop leaves a loop that nothing will finish (executeLoop).
THEOREM RunningLoopsRun == ASSUME ~EarlyStop PROVE Spec => []RunningHasRunner
  <1>1. Inv => RunningHasRunner
    BY DEF Inv, LoopsFine, LoopFine, RunFine, RunningHasRunner, Ends
  <1> QED BY <1>1, LoopsInv, PTL

\* When a stop has returned, its loop is over and nothing of it runs (stopLoop).
THEOREM StopsAreDone == ASSUME ~EarlyStop PROVE Spec => []StopIsDone
  <1>1. ASSUME Inv, NEW l \in Loops, stop[l].pc = "done"
        PROVE  rec[l].status \in Ends /\ run[l].pc \in {"done", "refused"}
    <2>1. LoopFine(l) /\ run[l].pc \in Pcs
      BY <1>1 DEF Inv, LoopsFine, Typed, ServiceTypes, RunType
    <2>2. run[l].pc \in Begun \cup {"refused"}
      BY <1>1, <2>1 DEF LoopFine, StopFine, Begun, Active, Pcs
    <2> QED BY <1>1, <2>1, <2>2 DEF LoopFine, StopFine, RunFine, Ends
  <1>2. Inv => StopIsDone
    BY <1>1 DEF StopIsDone
  <1> QED BY <1>2, LoopsInv, PTL

\* A success is the last iteration's, and the ones before it did not pass (executeLoop).
THEOREM SuccessesAreLast == ASSUME ~EarlyStop PROVE Spec => []SuccessIsLast
  <1>1. Inv => SuccessIsLast
    BY DEF Inv, Typed, ServiceTypes, Sound, SuccessIsLast
  <1> QED BY <1>1, LoopsInv, PTL

\* A loop never has its worker and its verifier at once, nor those of two iterations
\* (runWorkerIteration, runVerification).
THEOREM AgentsTakeTurns == ASSUME ~EarlyStop PROVE Spec => []OneAgentAtATime
  <1>1. ASSUME Inv, NEW l \in Loops
        PROVE  Cardinality(agents[l]) <= 1
    <2>1. agents[l] \subseteq {"worker"} \/ agents[l] \subseteq {"verifier"}
      BY <1>1 DEF Inv, LoopsFine, LoopFine, AgentsFine
    <2>2. agents[l] \in {{}, {"worker"}, {"verifier"}}
      BY <2>1
    <2>3. Cardinality({}) = 0 /\ Cardinality({"worker"}) = 1 /\ Cardinality({"verifier"}) = 1
      BY FS_EmptySet, FS_Singleton, Zenon
    <2> QED BY <2>2, <2>3
  <1>2. Inv => OneAgentAtATime
    BY <1>1 DEF OneAgentAtATime
  <1> QED BY <1>2, LoopsInv, PTL

\* A step that changes the record of a loop changes one that is not over.
Touches(l) ==
    \/ UNCHANGED rec
    \/ rec[l].status \notin Ends /\ \E r : rec' = [rec EXCEPT ![l] = r]
LEMMA TouchKeeps ==
    ASSUME Inv, NEW l \in Loops, Touches(l)
    PROVE  \A m \in Loops : rec[m].status \in Ends => rec'[m].status = rec[m].status
  BY DEF Touches, Inv, Typed, ServiceTypes

\* A loop that is under way is not over.
LEMMA UnderWayRuns ==
    ASSUME Inv, NEW l \in Loops, run[l].pc \in Active \cup {"start"}
    PROVE  rec[l].status \notin Ends
  BY UnderWay DEF Ends

LEMMA RunTouches ==
    ASSUME Inv, NEW l \in Loops, Executes(l) \/ Create(l) \/ Wakes(l)
    PROVE  Touches(l)
  <1>1. CASE Create(l)
    BY <1>1 DEF Create, Saves, Touches, Ends
  <1>2. CASE Begin(l) \/ Wakes(l)
    <2>1. rec[l].status \notin Ends
      BY <1>2, UnderWayRuns DEF Begin, Wakes, At, Active
    <2> QED BY <1>2, <2>1 DEF Begin, Wakes, Iterate, Throws, Saves, Touches
  <1>3. CASE CallWorker(l) \/ CallVerifier(l) \/ WorkerStarts(l) \/ VerifierStarts(l) \/ Wraps(l)
    BY <1>3 DEF CallWorker, CallVerifier, WorkerStarts, VerifierStarts, Wraps, Calls, Goes, Touches
  <1>4. CASE WorkerCreated(l) \/ VerifierCreated(l)
    <2>1. rec[l].status \notin Ends
      BY <1>4, UnderWayRuns DEF WorkerCreated, VerifierCreated, Created, At, Active
    <2> QED BY <1>4, <2>1 DEF WorkerCreated, VerifierCreated, Created, Throws, Saves, Touches
  <1>5. CASE WorkerCloses(l)
    <2>1. rec[l].status \notin Ends
      BY <1>5, UnderWayRuns DEF WorkerCloses, At, Active
    <2>2. CASE run[l].aborted
      BY <1>5, <2>1, <2>2 DEF WorkerCloses, Throws, Saves, Touches
    <2>3. CASE ~run[l].aborted /\ ~run[l].ok
      BY <1>5, <2>1, <2>3 DEF WorkerCloses, Saves, Touches
    <2>4. CASE ~run[l].aborted /\ run[l].ok
      BY <1>5, <2>1, <2>4 DEF WorkerCloses, Touches
    <2> QED BY <2>2, <2>3, <2>4
  <1>6. CASE Check(l)
    <2>1. rec[l].status \notin Ends
      BY <1>6, UnderWayRuns DEF Check, At, Active
    <2>2. \E r : rec' = [rec EXCEPT ![l] = r] \/ UNCHANGED rec
      BY <1>6 DEF Check, Goes, Leaves, Throws, Saves
    <2> QED BY <2>1, <2>2 DEF Touches
  <1>7. CASE Checked(l)
    <2>1. rec[l].status \notin Ends
      BY <1>7, UnderWayRuns DEF Checked, At, Active
    <2> QED BY <1>7, <2>1 DEF Checked, Saves, Touches
  <1>8. CASE VerifierCloses(l)
    <2>1. rec[l].status \notin Ends
      BY <1>8, UnderWayRuns DEF VerifierCloses, At, Active
    <2>2. CASE run[l].n = 1
      BY <1>8, <2>1, <2>2 DEF VerifierCloses, Throws, Saves, Touches
    <2>3. CASE run[l].n # 1 /\ run[l].ok
      BY <1>8, <2>1, <2>3 DEF VerifierCloses, Leaves, Touches
    <2>4. CASE run[l].n # 1 /\ ~run[l].ok
      BY <1>8, <2>1, <2>4 DEF VerifierCloses, Saves, Touches
    <2> QED BY <2>2, <2>3, <2>4
  <1>9. CASE LoopEnds(l)
    BY <1>9 DEF LoopEnds, Leaves, Touches, Inv, Typed, ServiceTypes
  <1> QED BY <1>1, <1>2, <1>3, <1>4, <1>5, <1>6, <1>7, <1>8, <1>9 DEF Executes

LEMMA TurnTouches ==
    ASSUME Inv, NEW l \in Loops,
           \/ \E result \in Results : WorkerEnds(l, result)
           \/ \E passed \in BOOLEAN : CheckEnds(l, passed)
           \/ \E verdict \in Verdicts : VerifierEnds(l, verdict)
    PROVE  Touches(l)
  <1>1. rec[l].status \notin Ends
    BY UnderWayRuns DEF WorkerEnds, CheckEnds, VerifierEnds, At, Active
  <1>2. CASE \E result \in Results : WorkerEnds(l, result)
    BY <1>1, <1>2 DEF WorkerEnds, Touches
  <1>3. CASE \E passed \in BOOLEAN : CheckEnds(l, passed)
    BY <1>3 DEF CheckEnds, Touches
  <1>4. CASE \E verdict \in Verdicts : VerifierEnds(l, verdict)
    BY <1>1, <1>4 DEF VerifierEnds, Touches
  <1> QED BY <1>2, <1>3, <1>4

LEMMA StopTouches ==
    ASSUME Inv, NEW l \in Loops, Stop(l) \/ Stops(l)
    PROVE  Touches(l)
  <1>1. CASE Stop(l) \/ StopReturns(l)
    BY <1>1 DEF Stop, StopReturns, Touches
  <1>2. CASE StopAborts(l)
    <2>1. CASE run[l].pc = "sleeping"
      <3>1. rec[l].status \notin Ends
        BY <2>1, UnderWayRuns DEF Active
      <3> QED BY <1>2, <2>1, <3>1 DEF StopAborts, Throws, Saves, Touches
    <2>2. CASE run[l].pc # "sleeping"
      BY <1>2, <2>2 DEF StopAborts, Touches
    <2> QED BY <2>1, <2>2
  <1>3. CASE StopMarks(l)
    <2>1. stop[l].pc = "asked" /\ ~stop[l].found /\ LoopFine(l) /\ run[l].pc \in Pcs
      BY <1>3 DEF StopMarks, StopAt, Inv, LoopsFine, Typed, ServiceTypes, RunType
    <2>2. run[l].pc = "refused"
      BY <2>1 DEF LoopFine, StopFine, Begun, Active, Pcs
    <2>3. rec[l].status = "running"
      BY <2>1, <2>2 DEF LoopFine, StopFine
    <2>4. rec' = [rec EXCEPT ![l] = [rec[l] EXCEPT !.status = "stopped"]]
      BY <1>3 DEF StopMarks, Inv, Typed, ServiceTypes
    <2> QED BY <2>3, <2>4 DEF Touches, Ends
  <1> QED BY <1>1, <1>2, <1>3 DEF Stops

LEMMA FileTouches ==
    ASSUME Inv, up, up', WriteStarts \/ WriteEnds \/ WriteFails \/ Crash \/ Restart
    PROVE  UNCHANGED rec \/ \E l \in Loops : Touches(l)
  <1>1. CASE WriteStarts \/ WriteEnds
    BY <1>1 DEF WriteStarts, WriteEnds, service
  <1>2. CASE Crash \/ Restart
    BY <1>2 DEF Crash, Dies, Restart
  <1>3. CASE WriteFails
    <2> DEFINE w == Head(queue)
               l == w.of
    <2>1. snap # NoWrite /\ queue # <<>> /\ queue \in Seq(Writes)
      BY <1>3 DEF WriteFails, Inv, Typed, FileTypes, QueueTypes
    <2>2. w = queue[1] /\ 1 \in DOMAIN queue /\ w \in Writes
      BY <2>1, EmptySeq
    <2> HIDE DEF w
    <2>3. CASE w.who = "run" /\ run[l].pc \notin {"start", "ending"} /\ rec' = [rec EXCEPT ![l] = Finished(@, "failed")]
      <3>1. l \in Loops
        BY <2>2, <2>3 DEF Writes, Write
      <3>2. run[l].saving /\ LoopFine(l) /\ run[l].pc \in Pcs
        BY <2>2, <2>3, <3>1 DEF Inv, LoopsFine, Typed, QueueTypes, Awaited, ServiceTypes, RunType
      <3>3. run[l].pc \in Active
        BY <2>3, <3>2 DEF LoopFine, RunFine, Active, Pcs
      <3>4. rec[l].status \notin Ends /\ rec' = [rec EXCEPT ![l] = Finished(rec[l], "failed")]
        BY <2>3, <3>1, <3>3, UnderWayRuns
      <3> QED BY <3>1, <3>4 DEF Touches
    <2>4. UNCHANGED rec \/ (w.who = "run" /\ run[l].pc \notin {"start", "ending"}
                            /\ rec' = [rec EXCEPT ![l] = Finished(@, "failed")])
      BY <1>3 DEF WriteFails, Dies, w
    <2> QED BY <2>3, <2>4
  <1> QED BY <1>1, <1>2, <1>3

\* A loop is over once: nothing changes how it ended while the daemon runs (finishLoop).
THEOREM EndsAreFinal == ASSUME ~EarlyStop PROVE Spec => EndIsFinal
  <1>1. Inv /\ [Next]_vars =>
          [\A l \in Loops : up /\ up' /\ rec[l].status \in Ends => rec'[l].status = rec[l].status]_vars
    <2> SUFFICES ASSUME Inv, Next, up, up', NEW m \in Loops, rec[m].status \in Ends
                 PROVE  rec'[m].status = rec[m].status
      OBVIOUS
    <2>1. UNCHANGED rec \/ \E l \in Loops : Touches(l)
      BY RunTouches, TurnTouches, StopTouches, FileTouches DEF Next
    <2> QED BY <2>1, TouchKeeps
  <1> QED BY <1>1, LoopsInv, PTL DEF Spec, EndIsFinal

=============================================================================
