---------------------------- MODULE DictationProofs ----------------------------
(***************************************************************************)
(* What is proved of Dictation, for every number of streams, chunks,         *)
(* recordings and events: the types; that every text the composer is given   *)
(* is in the order it was said; that a cancelled recording gives the confirm *)
(* no text; and, when nothing is recorded while a retry that was cancelled   *)
(* is awaited, that a stream gets its chunks in order and without a gap.     *)
(***************************************************************************)
EXTENDS Dictation, FiniteSetTheorems, SequenceTheorems, TLAPS

-----------------------------------------------------------------------------
(* The invariants *)
\* Final transcripts are of committed segments, and so are those still owed.
Settled(s, t) ==
    /\ s.final \subseteq Range(s.committed)
    /\ \A o \in t.owed : o.seg \in Range(s.committed)
FinalsCommitted == \A i \in Ids : Settled(stream[i], stt[i])

Ascends(q) == \A j, k \in DOMAIN q : j < k => q[j] < q[k]
\* Chunk a was, or will be, said to be of segment g.
Belongs(s, t, g, a) ==
    \/ g \in DOMAIN s.texts /\ a \in Range(s.texts[g])
    \/ \E o \in t.owed : o.seg = g /\ a \in Range(o.text)
    \/ g = t.cur /\ a \in Range(t.buf)
Appends(t, k) == k \in DOMAIN t.todo /\ t.todo[k].op = "append"
\* What was committed is what came before the current segment, as it came.
Shape(s, t) ==
    /\ Ascends(s.committed)
    /\ \A g \in Range(s.committed) : g < t.cur
    /\ \A g \in DOMAIN s.texts : g <= t.cur /\ Ascends(s.texts[g])
    /\ \A o \in t.owed : Ascends(o.text)
    /\ Ascends(t.buf)
\* The segments of a stream are told apart by time, and so is what is on its way.
Apart(s, t) ==
    /\ \A g, h, a, b \in Nat : g < h /\ Belongs(s, t, g, a) /\ Belongs(s, t, h, b) => a < b
    /\ \A g, a \in Nat : Belongs(s, t, g, a) =>
         a < s.next /\ \A k \in Nat : Appends(t, k) => a < t.todo[k].seq
    /\ \A k \in Nat : Appends(t, k) => t.todo[k].seq < s.next
    /\ \A j, k \in Nat : j < k /\ Appends(t, j) /\ Appends(t, k) => t.todo[j].seq < t.todo[k].seq
Spoken(s, t) == Shape(s, t) /\ Apart(s, t)
StreamsSpoken == \A i \in Ids : Spoken(stream[i], stt[i])
ToldInOrder(msgs) == \A k \in DOMAIN msgs : msgs[k].type \in {"partial", "final"} => InOrder(msgs[k].text)
TextsInOrder == StreamsSpoken /\ ToldInOrder(down) /\ InOrder(partial) /\ TextInOrder

\* A confirm that is still wanted is of a recording that was not cancelled.
WantedNotDropped == finish["confirm"].current => finish["confirm"].of \notin dropped

\* Streams are numbered as they are started; each is started once.
StartsOnce(u) ==
    \A p, r \in DOMAIN u : u[p].type = "start" /\ u[r].type = "start" /\ u[p].id = u[r].id => p = r
Numbered ==
    /\ sender.id <= started
    /\ \A m \in Range(up) : m.id <= started /\ (m.type = "start" => phase[m.id] = "none")
    /\ \A m \in Range(down) : m.id <= started
    /\ \A i \in Ids : i > started => phase[i] = "none"
    /\ StartsOnce(up)
\* Nothing is sent on a stream before its start was acknowledged.
Started(i) == phase[i] \notin {"none", "connecting"}
NotYet(i) == stream[i].next = 0 /\ \A m \in Range(up) : m.type = "chunk" => m.id # i
StartFirst ==
    /\ \A i \in Ids : ~Started(i) => NotYet(i)
    /\ sender.ready => Started(sender.id)
    /\ \A m \in Range(down) : m.type = "ack" => Started(m.id)
    /\ ~sender.ready => sender.sent = 0 /\ (sender.id # 0 => NotYet(sender.id))
\* The chunks under way are the next ones.
ChunksAscend(u) ==
    \A p, r \in DOMAIN u : u[p].type = "chunk" /\ u[r].type = "chunk" /\ u[p].id = u[r].id /\ p < r =>
      u[p].seq < u[r].seq
Under(i, k) == \E m \in Range(up) : m.type = "chunk" /\ m.id = i /\ m.seq = k
AllUnder(i, n) == \A k \in Nat : stream[i].next <= k /\ k < n => Under(i, k)
InStep ==
    /\ ChunksAscend(up)
    /\ \A m \in Range(up) : m.type = "chunk" /\ phase[m.id] = "open" =>
         stream[m.id].next <= m.seq /\ AllUnder(m.id, m.seq)
    /\ sender.ready =>
         /\ \A m \in Range(up) : m.type = "chunk" /\ m.id = sender.id => m.seq < sender.sent
         /\ phase[sender.id] = "open" => stream[sender.id].next <= sender.sent
Wire == Numbered /\ StartFirst /\ InStep
\* The sender's stream misses nothing, or nobody will send on it what comes after a gap.
Whole ==
    /\ sender.sent = Len(segs)
    /\ phase[sender.id] = "open" => AllUnder(sender.id, sender.sent)
Resting(f) == f.pc \notin {"restart", "start", "check", "go"}
Stopping == finish["confirm"].pc = "stopping" /\ finish["confirm"].current
Spent ==
    /\ ~mic
    /\ \/ sender.sent = Len(segs)
       \/ ~recording /\ opener = 0 /\ (\A o \in {"confirm", "retry"} : Resting(finish[o])) /\ ~Stopping
NoGap == connected /\ sender.ready => Whole \/ Spent
\* What the recording flag says of the microphone and of those who end a recording.
Recording ==
    /\ mic => recording
    /\ finish["confirm"].pc \notin {"none", "stopping"} => ~recording
    /\ finish["retry"].pc # "none" => ~recording
    /\ ~connected => opener \in {0, -1} /\ \A o \in {"confirm", "retry"} : Resting(finish[o])
    /\ sender.ready /\ opener = -1 => sender.sent = Len(segs)
    /\ sender.ready /\ ~recording /\ Stopping => sender.sent = Len(segs)
Sending == Wire /\ NoGap /\ Recording

-----------------------------------------------------------------------------
(* Types *)
FinishType ==
    [pc: {"none", "stopping", "restart", "start", "check", "go", "result", "error"},
     id: 0..MaxStarts, last: 0..MaxChunks, current: BOOLEAN, of: 0..MaxRecordings]
SenderType == [id: 0..MaxStarts, sent: 0..MaxChunks, ready: BOOLEAN]

\* TypeOK, by who keeps what.
HookTypes ==
    /\ {recording, processing, failed, mic, cancelling} \subseteq BOOLEAN
    /\ opener \in -1..MaxStarts
    /\ finish \in [{"confirm", "retry"} -> FinishType]
    /\ take \in 0..MaxRecordings
    /\ dropped \subseteq 0..MaxRecordings
TextTypes ==
    /\ partial \in Texts
    /\ \A g \in given : g \in [by: {"confirm", "retry"}, of: 0..MaxRecordings, text: Texts]
SegsType == segs \in Seq(BOOLEAN) /\ Len(segs) <= MaxChunks
SenderTypes ==
    /\ sender \in SenderType
    /\ sender.sent <= Len(segs) /\ (sender.ready => sender.id # 0)
    /\ up \in Seq(UpMessages) /\ started \in 0..MaxStarts
LinkTypes == connected \in BOOLEAN /\ rare \in 0..MaxEvents /\ down \in Seq(DownMessages)
ServerTypes ==
    /\ phase \in [Ids -> {"none", "connecting", "open", "gone"}]
    /\ stream = [i \in Ids |-> stream[i]] /\ stt = [i \in Ids |-> stt[i]]
    /\ \A i \in Ids : StreamTypeOK(stream[i]) /\ SttTypeOK(stt[i]) /\ Settled(stream[i], stt[i])
Types == HookTypes /\ TextTypes /\ SegsType /\ SenderTypes /\ LinkTypes /\ ServerTypes

LEMMA TypesOK == Types <=> TypeOK /\ FinalsCommitted
  BY DEF Types, HookTypes, TextTypes, SegsType, SenderTypes, LinkTypes, ServerTypes, TypeOK,
         FinalsCommitted, FinishType, SenderType

LEMMA Bounds ==
    /\ {MaxStarts, MaxChunks, MaxRecordings, MaxEvents} \subseteq Nat
    /\ 0 \in 0..MaxStarts /\ 0 \in 0..MaxChunks /\ 0 \in 0..MaxRecordings /\ 0 \in 0..MaxEvents
    /\ -1 \in -1..MaxStarts /\ 0 \in -1..MaxStarts /\ Ids \subseteq 0..MaxStarts
    /\ 0..MaxStarts \subseteq -1..MaxStarts
  BY DictationAssumption DEF Ids

\* The sender's steps keep its types.
LEMMA FlushTypes ==
    ASSUME NEW s \in SenderType, s.id # 0, NEW all \in Seq(BOOLEAN), Len(all) <= MaxChunks,
           s.sent <= Len(all), up \in Seq(UpMessages), started \in 0..MaxStarts,
           NEW more \in Seq(UpMessages), Flush(s, all, more)
    PROVE  /\ sender' = [s EXCEPT !.sent = Len(all)]
           /\ sender' \in SenderType /\ sender'.sent = Len(all) /\ sender'.id = s.id
           /\ sender'.ready = s.ready
           /\ up' \in Seq(UpMessages) /\ started' \in 0..MaxStarts
  <1> DEFINE n == Len(all) - s.sent
             new == [i \in 1..n |->
                      [type |-> "chunk", id |-> s.id, seq |-> s.sent + i - 1, loud |-> all[s.sent + i]]]
  <1>1. sender' = [s EXCEPT !.sent = Len(all)] /\ up' = up \o new \o more /\ started' = started
    BY DEF Flush
  <1>2. s.id \in Ids /\ s.sent \in Nat /\ Len(all) \in Nat /\ MaxChunks \in Nat
    BY DictationAssumption DEF SenderType, Ids
  <1>3. n \in Nat
    BY <1>2
  <1>4. \A i \in 1..n : [type |-> "chunk", id |-> s.id, seq |-> s.sent + i - 1, loud |-> all[s.sent + i]]
                          \in UpMessages
    <2> SUFFICES ASSUME NEW i \in 1..n
                 PROVE [type |-> "chunk", id |-> s.id, seq |-> s.sent + i - 1, loud |-> all[s.sent + i]]
                          \in UpMessages
      OBVIOUS
    <2>1. s.sent + i \in 1..Len(all) /\ s.sent + i - 1 \in 0..(MaxChunks - 1)
      BY SMTT(30), <1>2, <1>3
    <2>2. all[s.sent + i] \in BOOLEAN
      BY <2>1
    <2> QED BY <2>1, <2>2, <1>2 DEF UpMessages
  <1>5. new \in Seq(UpMessages)
    <2>1. new \in [1..n -> UpMessages]
      BY <1>4
    <2> HIDE DEF new, n
    <2> QED BY <2>1, <1>3, SeqDef
  <1> HIDE DEF new, n
  <1>6. up' \in Seq(UpMessages)
    BY <1>1, <1>5
  <1>7. sender' \in SenderType /\ sender'.sent = Len(all) /\ sender'.id = s.id /\ sender'.ready = s.ready
    <2>1. Len(all) \in 0..MaxChunks
      BY <1>2
    <2> QED BY ONLY <1>1, <2>1, s \in SenderType DEF SenderType
  <1> QED BY <1>1, <1>6, <1>7

LEMMA RestartTypes ==
    ASSUME up \in Seq(UpMessages), started \in 0..MaxStarts, Restart
    PROVE  /\ sender' \in SenderType /\ sender'.sent = 0 /\ sender'.ready = FALSE
           /\ sender'.id = started + 1 /\ started' = started + 1 /\ started' \in 0..MaxStarts
           /\ up' \in Seq(UpMessages) /\ up' = Append(up, [type |-> "start", id |-> started + 1])
  <1>1. started + 1 \in Ids /\ started + 1 \in 0..MaxStarts /\ 0 \in 0..MaxChunks
    BY DictationAssumption DEF Restart, Ids
  <1>2. [type |-> "start", id |-> started + 1] \in UpMessages
    BY <1>1 DEF UpMessages
  <1> QED BY <1>1, <1>2 DEF Restart, SenderType

LEMMA NoSenderType ==
    NoSender \in SenderType /\ NoSender.sent = 0 /\ NoSender.ready = FALSE /\ NoSender.id = 0
  BY DictationAssumption DEF NoSender, SenderType

LEMMA NoFinishType == NoFinish \in FinishType
  BY DictationAssumption DEF NoFinish, FinishType

LEMMA EmptyTypes == <<>> \in Texts /\ <<>> \in Text /\ <<>> \in Seq(BOOLEAN)
  BY DEF Texts, Text

LEMMA FailedType ==
    ASSUME NEW f \in FinishType
    PROVE  [f EXCEPT !.pc = "error", !.id = 0] \in FinishType
  BY Bounds DEF FinishType

LEMMA AtType ==
    ASSUME finish \in [{"confirm", "retry"} -> FinishType], NEW o \in {"confirm", "retry"},
           NEW i \in 0..MaxStarts, NEW pc \in {"start", "result", "error"}, At(o, pc, i)
    PROVE  finish' \in [{"confirm", "retry"} -> FinishType]
  <1>1. [finish[o] EXCEPT !.pc = pc, !.id = i] \in FinishType
    BY DEF FinishType
  <1>2. finish' = [finish EXCEPT ![o] = [finish[o] EXCEPT !.pc = pc, !.id = i]]
    BY DEF At
  <1> QED BY <1>1, <1>2

\* finish(): what it sends and where it goes on.
LEMMA SendFinishTypes ==
    ASSUME SenderTypes, SegsType, HookTypes, NEW o \in {"confirm", "retry"}, SendFinish(o),
           UNCHANGED segs
    PROVE  SenderTypes' /\ finish' \in [{"confirm", "retry"} -> FinishType]
  <1>0. finish \in [{"confirm", "retry"} -> FinishType]
    BY DEF HookTypes
  <1>1. CASE connected /\ sender.ready
    <2> DEFINE more == <<[type |-> "finish", id |-> sender.id, last |-> finish[o].last]>>
    <2>1. sender.id \in Ids
      BY <1>1 DEF SenderTypes, SenderType, Ids
    <2>2. finish[o].last \in 0..MaxChunks
      BY DEF HookTypes, FinishType
    <2>3. more \in Seq(UpMessages)
      BY <2>1, <2>2 DEF UpMessages
    <2>4. Flush(sender, segs, more) /\ At(o, "result", sender.id)
      BY <1>1 DEF SendFinish
    <2> HIDE DEF more
    <2>5. SenderTypes'
      BY <2>3, <2>4, FlushTypes, <1>1 DEF SenderTypes, SegsType
    <2>6. finish' \in [{"confirm", "retry"} -> FinishType]
      <3>2. sender.id \in 0..MaxStarts
        BY DEF SenderTypes, SenderType
      <3>3. At(o, "result", sender.id)
        BY <2>4
      <3> QED BY <1>0, <3>2, <3>3, AtType
    <2> QED BY <2>5, <2>6
  <1>2. CASE ~(connected /\ sender.ready)
    <2>1. At(o, "error", 0) /\ KeepSender
      BY <1>2 DEF SendFinish
    <2>2. finish' \in [{"confirm", "retry"} -> FinishType]
      BY <1>0, <2>1, AtType, Bounds
    <2> QED BY <2>1, <2>2 DEF KeepSender, SenderTypes
  <1> QED BY <1>1, <1>2

LEMMA RejectedTypes ==
    ASSUME HookTypes, SenderTypes, SegsType, NEW i \in Ids, Rejected(i),
           UNCHANGED <<segs, up, started>>
    PROVE  /\ SenderTypes' /\ opener' \in -1..MaxStarts
           /\ finish' \in [{"confirm", "retry"} -> FinishType]
  <1>1. SenderTypes'
    <2>1. sender' = sender \/ (~sender.ready /\ sender' = [sender EXCEPT !.id = 0])
      BY DEF Rejected
    <2> QED BY <2>1, DictationAssumption DEF SenderTypes, SenderType
  <1>2. opener' \in -1..MaxStarts
    <2>1. opener' = opener \/ opener' = -1
      BY DEF Rejected
    <2> QED BY <2>1, DictationAssumption DEF HookTypes
  <1>3. finish' \in [{"confirm", "retry"} -> FinishType]
    <2> DEFINE told(o) == Awaits(o, i) \/ (finish[o].pc = "result" /\ finish[o].id = i)
    <2>1. finish' = [o \in {"confirm", "retry"} |->
             IF told(o) THEN [finish[o] EXCEPT !.pc = "error", !.id = 0] ELSE finish[o]]
      BY DEF Rejected, HookTypes
    <2> HIDE DEF told
    <2>2. \A o \in {"confirm", "retry"} : [finish[o] EXCEPT !.pc = "error", !.id = 0] \in FinishType
      BY FailedType DEF HookTypes
    <2> QED BY <2>1, <2>2 DEF HookTypes
  <1> QED BY <1>1, <1>2, <1>3

-----------------------------------------------------------------------------
(* The manager's streams *)
StreamOK(s, t) == StreamTypeOK(s) /\ SttTypeOK(t) /\ Settled(s, t)
With(t, commands) == [t EXCEPT !.todo = @ \o commands]

LEMMA NoStreamOK == StreamOK(NoStream, NoStt)
  <1>1. StreamTypeOK(NoStream)
    <2>1. <<>> \in Seq(Nat) /\ <<>> \in [DOMAIN <<>> -> Text] /\ DOMAIN <<>> \subseteq Nat
      OBVIOUS
    <2> QED BY <2>1, Bounds DEF StreamTypeOK, NoStream
  <1>2. SttTypeOK(NoStt)
    BY EmptyTypes DEF SttTypeOK, NoStt
  <1>3. Settled(NoStream, NoStt)
    BY DEF Settled, NoStream, NoStt
  <1> QED BY <1>1, <1>2, <1>3 DEF StreamOK

LEMMA RangeIn == ASSUME NEW S, NEW q \in Seq(S) PROVE Range(q) \subseteq S
  BY DEF Range

LEMMA SealCommandsType ==
    ASSUME NEW s, StreamTypeOK(s)
    PROVE  SealCommands(s) \in Seq(Commands)
  <1>1. [op |-> IF s.loud THEN "commit" ELSE "clear"] \in Commands
    BY DEF Commands
  <1> QED BY <1>1 DEF SealCommands

LEMMA WithTypeOK ==
    ASSUME NEW t, SttTypeOK(t), NEW commands \in Seq(Commands)
    PROVE  SttTypeOK(With(t, commands)) /\ With(t, commands).owed = t.owed
  <1> DEFINE u == With(t, commands)
  <1>1. t \in [todo: Seq(Commands), buf: Text, cur: Nat, owed: {t.owed}]
    BY DEF SttTypeOK
  <1>2. t.todo \o commands \in Seq(Commands)
    BY <1>1
  <1>3. u = [t EXCEPT !.todo = t.todo \o commands]
    BY DEF With
  <1> HIDE DEF u
  <1>4. u \in [todo: Seq(Commands), buf: Text, cur: Nat, owed: {t.owed}] /\ u.owed = t.owed
    BY <1>1, <1>2, <1>3
  <1> QED BY <1>4 DEF SttTypeOK, u

LEMMA SealedTypeOK ==
    ASSUME NEW s, StreamTypeOK(s)
    PROVE  /\ StreamTypeOK(Sealed(s))
           /\ Sealed(s).committed = s.committed /\ Sealed(s).final = s.final
           /\ Sealed(s).next = s.next /\ Sealed(s).last = s.last
           /\ DOMAIN Sealed(s).texts \subseteq DOMAIN s.texts
           /\ \A g \in DOMAIN Sealed(s).texts : Sealed(s).texts[g] = s.texts[g]
  <1> DEFINE kept == Restrict(s.texts, DOMAIN s.texts \cap (s.final \cup Range(s.committed)))
  <1>1. CASE Sealed(s) = s
    BY <1>1
  <1>2. CASE Sealed(s) = [s EXCEPT !.awaiting = TRUE, !.sealed = TRUE]
    BY <1>2 DEF StreamTypeOK
  <1>3. CASE Sealed(s) = [s EXCEPT !.awaiting = FALSE, !.sealed = TRUE]
    BY <1>3 DEF StreamTypeOK
  <1>4. CASE Sealed(s) = [s EXCEPT !.awaiting = FALSE, !.sealed = TRUE, !.bytes = 0, !.texts = kept]
    <2>1. /\ kept \in [DOMAIN kept -> Text] /\ DOMAIN kept \subseteq DOMAIN s.texts
          /\ DOMAIN kept \subseteq Nat /\ \A g \in DOMAIN kept : kept[g] = s.texts[g]
      BY DEF StreamTypeOK, Restrict
    <2> HIDE DEF kept
    <2>2. s.next \in Nat /\ 0 \in 0..MaxChunks
      BY Bounds DEF StreamTypeOK
    <2> DEFINE r == Sealed(s)
    <2>3. s \in [next: 0..MaxChunks, held: BOOLEAN, bytes: 0..MaxChunks, loud: BOOLEAN,
                committed: Seq(Nat), texts: {s.texts}, final: {s.final},
                awaiting: BOOLEAN, last: 0..MaxChunks, sealed: BOOLEAN]
          /\ s.final \subseteq Nat
      BY DEF StreamTypeOK
    <2>4. r \in [next: 0..MaxChunks, held: BOOLEAN, bytes: 0..MaxChunks, loud: BOOLEAN,
                committed: Seq(Nat), texts: {kept}, final: {s.final},
                awaiting: BOOLEAN, last: 0..MaxChunks, sealed: BOOLEAN]
          /\ r.texts = kept /\ r.final = s.final /\ r.next = s.next /\ r.bytes = 0
          /\ r.last = s.last /\ r.committed = s.committed
      BY <1>4, <2>2, <2>3
    <2> HIDE DEF r
    <2>5. r.bytes <= r.next
      BY <2>2, <2>4
    <2>6. StreamTypeOK(r)
      BY <2>1, <2>3, <2>4, <2>5 DEF StreamTypeOK
    <2> QED BY <2>1, <2>4, <2>6 DEF r
  <1> QED BY <1>1, <1>2, <1>3, <1>4 DEF Sealed

LEMMA SealedOK ==
    ASSUME NEW s, NEW t, StreamOK(s, t)
    PROVE  StreamOK(Sealed(s), With(t, SealCommands(s)))
  BY SealedTypeOK, WithTypeOK, SealCommandsType DEF StreamOK, Settled

LEMMA SaidType ==
    ASSUME NEW s, StreamTypeOK(s), NEW order \in Seq(Nat)
    PROVE  Said(s, order) \in Texts
  <1>1. \A g : TextOf(s, g) \in Text
    BY EmptyTypes DEF TextOf, StreamTypeOK
  <1>2. Said(s, order) \in [1..Len(order) -> Text]
    BY <1>1 DEF Said
  <1> QED BY <1>2, SeqDef DEF Texts

\* Once all that is known is final, it is committed: nothing else is to be put in order.
LEMMA OrderedWhenDone ==
    ASSUME NEW s, StreamTypeOK(s), s.final \subseteq Range(s.committed), Done(s)
    PROVE  Ordered(s) = s.committed
  <1> DEFINE others == DOMAIN s.texts \ Range(s.committed)
             order == CHOOSE q \in [1..Cardinality(others) -> others] :
                        \A j, k \in DOMAIN q : j < k => q[j] < q[k]
  <1>1. others = {}
    BY DEF Done
  <1>2. Cardinality(others) = 0
    BY <1>1, FS_EmptySet
  <1>3. <<>> \in [1..0 -> {}] /\ DOMAIN <<>> = {}
    <2>1. [x \in {} |-> x] \in [1..0 -> {}] /\ 1..0 = {}
      OBVIOUS
    <2>2. <<>> \in Seq({}) /\ Len(<<>>) = 0
      OBVIOUS
    <2>3. <<>> \in [1..Len(<<>>) -> {}]
      BY <2>2
    <2> QED BY <2>2, <2>3
  <1>4. order \in [1..0 -> {}]
    <2>1. order = CHOOSE q \in [1..0 -> {}] : \A j, k \in DOMAIN q : j < k => q[j] < q[k]
      BY <1>1, <1>2
    <2>2. \A j, k \in DOMAIN <<>> : j < k => <<>>[j] < <<>>[k]
      BY <1>3
    <2> HIDE DEF order
    <2> QED BY <1>3, <2>1, <2>2
  <1> HIDE DEF order
  <1>5. order \in Seq(Nat) /\ Len(order) = 0
    BY <1>4
  <1>6. order = <<>>
    BY <1>5
  <1>7. Ordered(s) = s.committed \o order
    BY DEF Ordered, order
  <1> QED BY <1>6, <1>7 DEF StreamTypeOK

LEMMA ForgetTypes ==
    ASSUME ServerTypes, NEW i \in Ids, down \in Seq(DownMessages), NEW msgs \in Seq(DownMessages),
           Forget(i, msgs)
    PROVE  ServerTypes' /\ down' \in Seq(DownMessages)
  <1>1. ServerTypes'
    BY NoStreamOK DEF Forget, ServerTypes, StreamOK
  <1>2. down' \in Seq(DownMessages)
    BY DEF Forget, Say
  <1> QED BY <1>1, <1>2

LEMMA FailType == ASSUME NEW i \in Ids PROVE Fail(i) \in Seq(DownMessages)
  BY DEF Fail, DownMessages

\* The stream goes on as it was made, or ends with its text.
LEMMA ConcludeTypes ==
    ASSUME ServerTypes, NEW i \in Ids, down \in Seq(DownMessages), NEW s, NEW commands, NEW service,
           NEW msgs \in Seq(DownMessages), StreamOK(s, With(service, commands)),
           Conclude(i, s, commands, service, msgs)
    PROVE  ServerTypes' /\ down' \in Seq(DownMessages)
  <1>1. CASE Done(s)
    <2>1. WholeText(s) \in Texts
      BY <1>1, OrderedWhenDone, SaidType DEF WholeText, StreamOK, Settled, StreamTypeOK
    <2>2. <<[type |-> "final", id |-> i, text |-> WholeText(s)]>> \in Seq(DownMessages)
      BY <2>1 DEF DownMessages
    <2>3. Forget(i, msgs \o <<[type |-> "final", id |-> i, text |-> WholeText(s)]>>)
      BY <1>1 DEF Conclude
    <2>4. msgs \o <<[type |-> "final", id |-> i, text |-> WholeText(s)]>> \in Seq(DownMessages)
      BY <2>2
    <2> QED BY <2>3, <2>4, ForgetTypes
  <1>2. CASE ~Done(s)
    <2>1. /\ stream' = [stream EXCEPT ![i] = s]
          /\ stt' = [stt EXCEPT ![i] = With(service, commands)]
          /\ Say(msgs) /\ phase' = phase
      BY <1>2 DEF Conclude, With
    <2>2. ServerTypes'
      BY <2>1 DEF ServerTypes, StreamOK
    <2>3. down' \in Seq(DownMessages)
      BY <2>1 DEF Say
    <2> QED BY <2>2, <2>3
  <1> QED BY <1>1, <1>2

\* What a handler of the daemon takes from the connection, and leaves alone.
LEMMA HandleTypes ==
    ASSUME Types, NEW type, Handle(type)
    PROVE  /\ up # <<>> /\ Head(up) \in UpMessages /\ Head(up).type = type /\ Head(up).id \in Ids
           /\ up' = Tail(up) /\ up' \in Seq(UpMessages)
           /\ HookTypes' /\ TextTypes' /\ SegsType' /\ SenderTypes' /\ connected' = connected
  <1>1. up # <<>> /\ Head(up) \in UpMessages /\ up' = Tail(up) /\ up' \in Seq(UpMessages)
    BY DEF Handle, Types, SenderTypes
  <1>2. Head(up).id \in Ids
    BY <1>1 DEF UpMessages
  <1>3. UNCHANGED <<hook, segs, sender, started, connected>> /\ Head(up).type = type
    BY DEF Handle
  <1>4. HookTypes' /\ TextTypes'
    BY <1>3 DEF hook, HookTypes, TextTypes, Types
  <1>5. SegsType' /\ SenderTypes'
    BY <1>1, <1>3 DEF SegsType, SenderTypes, Types
  <1> QED BY <1>1, <1>2, <1>3, <1>4, <1>5

LEMMA RareType == ASSUME LinkTypes, Rare \/ Calm PROVE rare' \in 0..MaxEvents
  BY DictationAssumption DEF Rare, Calm, LinkTypes

LEMMA StreamOKOf == ASSUME ServerTypes, NEW i \in Ids PROVE StreamOK(stream[i], stt[i])
  BY DEF ServerTypes, StreamOK

LEMMA WithNothing ==
    ASSUME NEW t, SttTypeOK(t)
    PROVE  With(t, <<>>) = t
  <1>1. t.todo \o <<>> = t.todo
    BY DEF SttTypeOK
  <1> QED BY <1>1 DEF With, SttTypeOK

\* A chunk that is forwarded.
ForwardNext(m, s) ==
    LET bytes == s.bytes + 1
        loud == s.loud \/ m.loud
        auto == s.last = 0 /\ bytes >= AutoCommit
    IN  [s EXCEPT !.next = @ + 1, !.bytes = IF auto THEN 0 ELSE bytes, !.loud = ~auto /\ loud]
ForwardCommands(m, s) ==
    LET bytes == s.bytes + 1
        loud == s.loud \/ m.loud
        auto == s.last = 0 /\ bytes >= AutoCommit
    IN  <<[op |-> "append", seq |-> m.seq]>>
        \o IF auto THEN <<[op |-> IF loud THEN "commit" ELSE "clear"]>> ELSE <<>>

LEMMA ForwardMeans ==
    ASSUME NEW m, NEW s
    PROVE  Forward(m, s) <=>
             Conclude(m.id, Sealed(ForwardNext(m, s)), ForwardCommands(m, s) \o SealCommands(ForwardNext(m, s)),
                      stt[m.id], <<>>)
  BY DEF Forward, ForwardNext, ForwardCommands

LEMMA ForwardTypeOK ==
    ASSUME NEW s, StreamTypeOK(s), NEW m \in UpMessages, m.type = "chunk", m.seq = s.next
    PROVE  /\ StreamTypeOK(ForwardNext(m, s)) /\ ForwardCommands(m, s) \in Seq(Commands)
           /\ ForwardNext(m, s).committed = s.committed /\ ForwardNext(m, s).final = s.final
           /\ ForwardNext(m, s).texts = s.texts /\ ForwardNext(m, s).next = s.next + 1
           /\ ForwardNext(m, s).last = s.last
  <1> DEFINE auto == s.last = 0 /\ s.bytes + 1 >= AutoCommit
             loud == s.loud \/ m.loud
             b == IF auto THEN 0 ELSE s.bytes + 1
             l == ~auto /\ loud
             r == ForwardNext(m, s)
  <1>1. m.seq \in 0..(MaxChunks - 1) /\ m.loud \in BOOLEAN
    BY DEF UpMessages
  <1>2. s \in [next: 0..MaxChunks, held: BOOLEAN, bytes: 0..MaxChunks, loud: BOOLEAN,
               committed: Seq(Nat), texts: {s.texts}, final: {s.final},
               awaiting: BOOLEAN, last: 0..MaxChunks, sealed: BOOLEAN]
        /\ s.bytes <= s.next
    BY DEF StreamTypeOK
  <1>3. s.next + 1 \in 0..MaxChunks /\ b \in 0..MaxChunks /\ b <= s.next + 1 /\ l \in BOOLEAN
    BY <1>1, <1>2, Bounds
  <1>4. r = [s EXCEPT !.next = s.next + 1, !.bytes = b, !.loud = l]
    BY DEF ForwardNext
  <1> HIDE DEF b, l, r
  <1>5. r \in [next: 0..MaxChunks, held: BOOLEAN, bytes: 0..MaxChunks, loud: BOOLEAN,
               committed: Seq(Nat), texts: {s.texts}, final: {s.final},
               awaiting: BOOLEAN, last: 0..MaxChunks, sealed: BOOLEAN]
        /\ r.bytes = b /\ r.next = s.next + 1 /\ r.committed = s.committed /\ r.final = s.final
        /\ r.texts = s.texts /\ r.last = s.last
    BY <1>2, <1>3, <1>4
  <1>6. StreamTypeOK(r)
    BY <1>3, <1>5 DEF StreamTypeOK
  <1>7. ForwardCommands(m, s) \in Seq(Commands)
    <2>1. [op |-> "append", seq |-> m.seq] \in Commands
      BY <1>1 DEF Commands
    <2>2. [op |-> "commit"] \in Commands /\ [op |-> "clear"] \in Commands
      BY DEF Commands
    <2> QED BY <2>1, <2>2 DEF ForwardCommands
  <1> QED BY <1>5, <1>6, <1>7 DEF r

LEMMA ConcatCommands ==
    ASSUME NEW t, SttTypeOK(t), NEW c \in Seq(Commands), NEW d \in Seq(Commands)
    PROVE  With(t, c \o d) = With(With(t, c), d)
  <1> DEFINE u == t.todo
  <1>1. u \in Seq(Commands)
    BY DEF SttTypeOK
  <1>2. With(t, c) = [t EXCEPT !.todo = u \o c]
    BY DEF With
  <1>3. With(t, c).todo = u \o c
    BY <1>2 DEF SttTypeOK
  <1>4. With(With(t, c), d) = [t EXCEPT !.todo = (u \o c) \o d]
    BY <1>2, <1>3 DEF With
  <1>5. With(t, c \o d) = [t EXCEPT !.todo = u \o (c \o d)]
    BY DEF With
  <1> HIDE DEF u
  <1>6. u \o (c \o d) = (u \o c) \o d
    BY <1>1
  <1> QED BY <1>4, <1>5, <1>6

\* The stream's fields that the manager changes one at a time.
LEMMA SetTypeOK ==
    ASSUME NEW s, StreamTypeOK(s)
    PROVE  /\ StreamTypeOK([s EXCEPT !.held = TRUE])
           /\ \A n \in 0..MaxChunks : StreamTypeOK([s EXCEPT !.last = n])
           /\ StreamTypeOK([s EXCEPT !.awaiting = FALSE])
           /\ \A g \in Nat : StreamTypeOK([s EXCEPT !.committed = Append(@, g), !.bytes = 0, !.loud = FALSE])
  <1>1. StreamTypeOK([s EXCEPT !.held = TRUE])
    BY DEF StreamTypeOK
  <1>2. \A n \in 0..MaxChunks : StreamTypeOK([s EXCEPT !.last = n])
    BY DEF StreamTypeOK
  <1>3. StreamTypeOK([s EXCEPT !.awaiting = FALSE])
    BY DEF StreamTypeOK
  <1>4. ASSUME NEW g \in Nat
        PROVE StreamTypeOK([s EXCEPT !.committed = Append(@, g), !.bytes = 0, !.loud = FALSE])
    <2>1. Append(s.committed, g) \in Seq(Nat) /\ 0 \in 0..MaxChunks /\ s.next \in Nat
      BY Bounds DEF StreamTypeOK
    <2> DEFINE q == Append(s.committed, g)
               r == [s EXCEPT !.committed = q, !.bytes = 0, !.loud = FALSE]
    <2>2. s \in [next: 0..MaxChunks, held: BOOLEAN, bytes: 0..MaxChunks, loud: BOOLEAN,
                 committed: Seq(Nat), texts: {s.texts}, final: {s.final},
                 awaiting: BOOLEAN, last: 0..MaxChunks, sealed: BOOLEAN]
      BY DEF StreamTypeOK
    <2> HIDE DEF q
    <2>3. r \in [next: 0..MaxChunks, held: BOOLEAN, bytes: 0..MaxChunks, loud: BOOLEAN,
                 committed: Seq(Nat), texts: {s.texts}, final: {s.final},
                 awaiting: BOOLEAN, last: 0..MaxChunks, sealed: BOOLEAN]
          /\ r.texts = s.texts /\ r.final = s.final /\ r.bytes = 0 /\ r.next = s.next
      BY <2>1, <2>2 DEF q
    <2> HIDE DEF r
    <2>4. StreamTypeOK(r)
      BY <2>1, <2>3 DEF StreamTypeOK
    <2> QED BY <2>4 DEF r, q
  <1> QED BY <1>1, <1>2, <1>3, <1>4

SttRecord(owed) == [todo: Seq(Commands), buf: Text, cur: Nat, owed: {owed}]

LEMMA SttRecordOK ==
    ASSUME NEW t, NEW owed
    PROVE  /\ SttTypeOK(t) => t \in SttRecord(t.owed)
           /\ t \in SttRecord(owed) /\ (\A o \in owed : o \in [seg: Nat, text: Text]) =>
                SttTypeOK(t) /\ t.owed = owed
  BY DEF SttTypeOK, SttRecord

\* "transcript": the text of a segment that is committed or still open.
LEMMA HeardTypeOK ==
    ASSUME NEW s, StreamTypeOK(s), NEW g \in Nat, NEW text \in Text, NEW final \in SUBSET Nat
    PROVE  /\ StreamTypeOK(Heard(s, g, text, final))
           /\ Heard(s, g, text, final).committed = s.committed /\ Heard(s, g, text, final).next = s.next
           /\ Heard(s, g, text, final).final = s.final \cup final
           /\ DOMAIN Heard(s, g, text, final).texts = DOMAIN s.texts \cup {g}
           /\ Heard(s, g, text, final).texts[g] = text
           /\ \A h \in DOMAIN s.texts : h # g => Heard(s, g, text, final).texts[h] = s.texts[h]
           /\ Heard(s, g, text, final).last = s.last
  <1> DEFINE texts == [h \in DOMAIN s.texts \cup {g} |-> IF h = g THEN text ELSE s.texts[h]]
             finals == s.final \cup final
             wait == s.awaiting /\ ~(s.last > 0 /\ final # {})
             r == Heard(s, g, text, final)
  <1>1. s \in [next: 0..MaxChunks, held: BOOLEAN, bytes: 0..MaxChunks, loud: BOOLEAN,
               committed: Seq(Nat), texts: {s.texts}, final: {s.final},
               awaiting: BOOLEAN, last: 0..MaxChunks, sealed: BOOLEAN]
        /\ s.bytes <= s.next
    BY DEF StreamTypeOK
  <1>2. texts \in [DOMAIN texts -> Text] /\ DOMAIN texts \subseteq Nat /\ finals \subseteq Nat /\ wait \in BOOLEAN
    BY DEF StreamTypeOK
  <1>3. r = [s EXCEPT !.texts = texts, !.final = finals, !.awaiting = wait]
    BY DEF Heard
  <1> HIDE DEF texts, finals, wait, r
  <1>4. r \in [next: 0..MaxChunks, held: BOOLEAN, bytes: 0..MaxChunks, loud: BOOLEAN,
               committed: Seq(Nat), texts: {texts}, final: {finals},
               awaiting: BOOLEAN, last: 0..MaxChunks, sealed: BOOLEAN]
        /\ r.texts = texts /\ r.final = finals /\ r.bytes = s.bytes /\ r.next = s.next
        /\ r.committed = s.committed /\ r.last = s.last
    BY <1>1, <1>2, <1>3
  <1>5. StreamTypeOK(r)
    BY <1>1, <1>2, <1>4 DEF StreamTypeOK
  <1> QED BY <1>4, <1>5 DEF r, texts, finals

LEMMA HearTypes ==
    ASSUME ServerTypes, NEW i \in Ids, down \in Seq(DownMessages), NEW g \in Nat, NEW text \in Text,
           NEW final \in SUBSET Nat, final \subseteq Range(stream[i].committed),
           NEW service, SttTypeOK(service), service.owed \subseteq stt[i].owed,
           Hear(i, g, text, final, service)
    PROVE  ServerTypes' /\ down' \in Seq(DownMessages)
  <1> DEFINE s == Heard(stream[i], g, text, final)
             shown == Said(s, IF g \in Range(s.committed) THEN s.committed ELSE Append(s.committed, g))
             msgs == <<[type |-> "partial", id |-> i, text |-> shown]>>
  <1>0. StreamOK(stream[i], stt[i])
    BY StreamOKOf
  <1>1. /\ StreamTypeOK(s) /\ s.committed = stream[i].committed
        /\ s.final = stream[i].final \cup final
    <2>1. StreamTypeOK(stream[i])
      BY <1>0 DEF StreamOK
    <2> QED BY <2>1, HeardTypeOK
  <1>2. Conclude(i, Sealed(s), SealCommands(s), service, msgs)
    BY DEF Hear
  <1> HIDE DEF s
  <1>3. Settled(s, service)
    BY <1>0, <1>1 DEF Settled, StreamOK
  <1>4. StreamOK(Sealed(s), With(service, SealCommands(s)))
    BY <1>1, <1>3, SealedOK DEF StreamOK
  <1>5. (IF g \in Range(s.committed) THEN s.committed ELSE Append(s.committed, g)) \in Seq(Nat)
    BY <1>1 DEF StreamTypeOK
  <1>6. shown \in Texts
    BY <1>1, <1>5, SaidType
  <1> HIDE DEF shown
  <1>7. msgs \in Seq(DownMessages)
    BY <1>6 DEF DownMessages
  <1> HIDE DEF msgs
  <1> QED BY <1>2, <1>4, <1>7, ConcludeTypes

LEMMA TranscriptTypes ==
    ASSUME Types, NEW i \in Ids, Transcript(i)
    PROVE  ServerTypes' /\ down' \in Seq(DownMessages)
  <1>0. StreamTypeOK(stream[i]) /\ SttTypeOK(stt[i]) /\ Settled(stream[i], stt[i]) /\ ServerTypes
        /\ down \in Seq(DownMessages)
    BY DEF Types, ServerTypes, LinkTypes
  <1>1. CASE \E o \in stt[i].owed : Hear(i, o.seg, o.text, {o.seg}, [stt[i] EXCEPT !.owed = @ \ {o}])
    <2>1. PICK o \in stt[i].owed : Hear(i, o.seg, o.text, {o.seg}, [stt[i] EXCEPT !.owed = @ \ {o}])
      BY <1>1
    <2> DEFINE t == [stt[i] EXCEPT !.owed = @ \ {o}]
    <2>2. SttTypeOK(t) /\ t.owed \subseteq stt[i].owed
      BY <1>0 DEF SttTypeOK
    <2>3. o.seg \in Nat /\ o.text \in Text /\ o.seg \in Range(stream[i].committed)
      BY <1>0 DEF SttTypeOK, Settled
    <2> HIDE DEF t
    <2> QED BY <1>0, <2>1, <2>2, <2>3, HearTypes DEF t
  <1>2. CASE stt[i].buf # <<>> /\ Hear(i, stt[i].cur, stt[i].buf, {}, stt[i])
    <2>1. stt[i].cur \in Nat /\ stt[i].buf \in Text
      BY <1>0 DEF SttTypeOK
    <2> QED BY <1>0, <1>2, <2>1, HearTypes
  <1> QED BY <1>1, <1>2 DEF Transcript

LEMMA ServeTypes ==
    ASSUME Types, NEW i \in Ids, Serve(i)
    PROVE  ServerTypes' /\ down' \in Seq(DownMessages)
  <1> DEFINE t == [stt[i] EXCEPT !.todo = Tail(@)]
             s == stream[i]
             head == Head(stt[i].todo)
             calm == IF s.last > 0 THEN [s EXCEPT !.awaiting = FALSE] ELSE s
             closed == [calm EXCEPT !.committed = Append(@, t.cur), !.bytes = 0, !.loud = FALSE]
             owes == [t EXCEPT !.buf = <<>>, !.cur = @ + 1, !.owed = @ \cup {[seg |-> t.cur, text |-> t.buf]}]
  <1>0. StreamTypeOK(s) /\ SttTypeOK(stt[i]) /\ Settled(s, stt[i]) /\ ServerTypes /\ down \in Seq(DownMessages)
    BY DEF Types, ServerTypes, LinkTypes
  <1>1. /\ stt[i].todo \in Seq(Commands) /\ stt[i].todo # <<>> /\ head \in Commands
    BY <1>0 DEF Serve, SttTypeOK
  <1>2. SttTypeOK(t) /\ t.owed = stt[i].owed
    <2>1. Tail(stt[i].todo) \in Seq(Commands)
      BY <1>1
    <2> DEFINE q == Tail(stt[i].todo)
    <2>2. t = [stt[i] EXCEPT !.todo = q] /\ stt[i] \in SttRecord(stt[i].owed)
      BY <1>0, SttRecordOK
    <2> HIDE DEF q, t
    <2>3. t \in SttRecord(stt[i].owed)
      BY <2>1, <2>2 DEF SttRecord, q
    <2> QED BY <1>0, <2>3, SttRecordOK DEF SttTypeOK
  <1>3. StreamTypeOK(calm) /\ calm.committed = s.committed /\ calm.final = s.final
    BY <1>0, SetTypeOK DEF StreamTypeOK
  <1> HIDE DEF t
  <1>4. CASE head.op = "append"
    <2> DEFINE u == [t EXCEPT !.buf = Append(@, head.seq)]
    <2>1. stt' = [stt EXCEPT ![i] = u] /\ UNCHANGED <<phase, stream, down>>
      BY <1>4 DEF Serve, t
    <2>2. head.seq \in 0..MaxChunks
      BY <1>1, <1>4, Bounds DEF Commands
    <2>3. SttTypeOK(u) /\ u.owed = t.owed
      <3>1. Append(t.buf, head.seq) \in Text
        BY <1>2, <2>2 DEF SttTypeOK, Text
      <3> DEFINE q == Append(t.buf, head.seq)
      <3>2. u = [t EXCEPT !.buf = q] /\ t \in SttRecord(t.owed)
        BY <1>2, SttRecordOK
      <3> HIDE DEF q, u
      <3>3. u \in SttRecord(t.owed)
        BY <3>1, <3>2 DEF SttRecord, q
      <3> QED BY <1>2, <3>3, SttRecordOK DEF SttTypeOK
    <2> HIDE DEF u
    <2> QED BY <1>0, <1>2, <2>1, <2>3 DEF ServerTypes, Settled
  <1>5. CASE head.op = "clear"
    <2> DEFINE u == [t EXCEPT !.buf = <<>>, !.cur = @ + 1]
    <2>1. stt' = [stt EXCEPT ![i] = u] /\ UNCHANGED <<phase, stream, down>>
      BY <1>5 DEF Serve, t
    <2>3. SttTypeOK(u) /\ u.owed = t.owed
      <3>1. t.cur + 1 \in Nat
        BY <1>2 DEF SttTypeOK
      <3>2. u = [t EXCEPT !.buf = <<>>, !.cur = t.cur + 1] /\ t \in SttRecord(t.owed)
        BY <1>2, SttRecordOK
      <3> HIDE DEF u
      <3>3. u \in SttRecord(t.owed)
        BY <3>1, <3>2, EmptyTypes DEF SttRecord
      <3> QED BY <1>2, <3>3, SttRecordOK DEF SttTypeOK
    <2> HIDE DEF u
    <2> QED BY <1>0, <1>2, <2>1, <2>3 DEF ServerTypes, Settled
  <1>6. CASE Conclude(i, closed, <<>>, owes, <<>>)
    <2>1. t.cur \in Nat /\ t.buf \in Text
      BY <1>2 DEF SttTypeOK
    <2>2. StreamTypeOK(closed) /\ closed.committed = Append(s.committed, t.cur) /\ closed.final = s.final
      <3>1. \A g \in Nat : StreamTypeOK([calm EXCEPT !.committed = Append(@, g), !.bytes = 0, !.loud = FALSE])
        BY <1>3, SetTypeOK
      <3> HIDE DEF calm
      <3> QED BY <1>3, <2>1, <3>1 DEF StreamTypeOK
    <2>3. SttTypeOK(owes) /\ owes.owed = t.owed \cup {[seg |-> t.cur, text |-> t.buf]}
      <3> DEFINE debt == t.owed \cup {[seg |-> t.cur, text |-> t.buf]}
      <3>1. t.cur + 1 \in Nat
        BY <2>1
      <3>2. \A o \in debt : o \in [seg: Nat, text: Text]
        BY <1>2, <2>1 DEF SttTypeOK
      <3> HIDE DEF debt
      <3>3. owes = [t EXCEPT !.buf = <<>>, !.cur = t.cur + 1, !.owed = debt] /\ t \in SttRecord(t.owed)
        BY <1>2, SttRecordOK DEF debt
      <3> HIDE DEF owes
      <3>4. owes \in SttRecord(debt)
        BY <3>1, <3>3, EmptyTypes DEF SttRecord
      <3>5. SttTypeOK(owes) /\ owes.owed = debt
        BY <3>2, <3>4, SttRecordOK
      <3> QED BY <3>5 DEF debt
    <2> HIDE DEF calm, closed, owes
    <2>4. Range(closed.committed) = Range(s.committed) \cup {t.cur}
      <3>1. s.committed \in Seq(Nat)
        BY <1>0 DEF StreamTypeOK
      <3>2. \A q \in Seq(Nat), g \in Nat : Range(Append(q, g)) = Range(q) \cup {g}
        <4> SUFFICES ASSUME NEW q \in Seq(Nat), NEW g \in Nat PROVE Range(Append(q, g)) = Range(q) \cup {g}
          OBVIOUS
        <4>1. /\ Append(q, g) \in Seq(Nat) /\ DOMAIN Append(q, g) = DOMAIN q \cup {Len(q) + 1}
              /\ \A k \in DOMAIN q : Append(q, g)[k] = q[k]
              /\ Append(q, g)[Len(q) + 1] = g
          OBVIOUS
        <4> QED BY ONLY <4>1 DEF Range
      <3> QED BY <2>2, <3>1, <3>2, <2>1
    <2>5. Settled(closed, owes)
      BY <1>0, <1>2, <2>2, <2>3, <2>4 DEF Settled
    <2>6. StreamOK(closed, With(owes, <<>>))
      BY <2>2, <2>3, <2>5, WithNothing DEF StreamOK
    <2>7. <<>> \in Seq(DownMessages)
      OBVIOUS
    <2> QED BY <1>0, <1>6, <2>6, <2>7, ConcludeTypes
  <1>7. CASE Conclude(i, calm, <<>>, t, <<>>)
    <2>1. StreamOK(calm, With(t, <<>>))
      BY <1>0, <1>2, <1>3, WithNothing DEF StreamOK, Settled
    <2>2. <<>> \in Seq(DownMessages)
      OBVIOUS
    <2> HIDE DEF calm
    <2> QED BY <1>0, <1>7, <2>1, <2>2, ConcludeTypes
  <1>8. CASE Forget(i, Fail(i))
    BY <1>0, <1>8, ForgetTypes, FailType
  <1> QED BY <1>1, <1>4, <1>5, <1>6, <1>7, <1>8 DEF Serve, t

-----------------------------------------------------------------------------
(* Every step keeps the types *)
LEMMA ServerKept == ASSUME ServerTypes, UNCHANGED server PROVE ServerTypes'
  BY DEF ServerTypes, server

\* A handler of the daemon, once the server and what it says are known to be typed.
LEMMA ServerStepTypes ==
    ASSUME Types, ServerTypes', down' \in Seq(DownMessages), Rare \/ Calm, UNCHANGED connected,
           HookTypes', TextTypes', SegsType', SenderTypes'
    PROVE  Types'
  BY RareType DEF Types, LinkTypes

LEMMA AppKeptTypes ==
    ASSUME Types, UNCHANGED <<app, up>>
    PROVE  HookTypes' /\ TextTypes' /\ SegsType' /\ SenderTypes'
  BY DEF app, hook, Types, HookTypes, TextTypes, SegsType, SenderTypes

LEMMA HandleStartTypes == ASSUME Types, HandleStart PROVE Types'
  <1> DEFINE i == Head(up).id
  <1>1. /\ Handle("start")
        /\ \/ phase' = [phase EXCEPT ![i] = "connecting"] /\ UNCHANGED <<stream, stt, down, rare>>
           \/ Rare /\ Forget(i, Fail(i))
    BY DEF HandleStart
  <1>2. i \in Ids /\ HookTypes' /\ TextTypes' /\ SegsType' /\ SenderTypes' /\ connected' = connected
    BY <1>1, HandleTypes
  <1>0. ServerTypes /\ down \in Seq(DownMessages)
    BY DEF Types, LinkTypes
  <1> HIDE DEF i
  <1>3. ServerTypes' /\ down' \in Seq(DownMessages) /\ (Rare \/ Calm)
    <2>1. CASE phase' = [phase EXCEPT ![i] = "connecting"] /\ UNCHANGED <<stream, stt, down, rare>>
      BY <1>0, <1>2, <2>1 DEF ServerTypes, Calm
    <2>2. CASE Rare /\ Forget(i, Fail(i))
      BY <1>0, <1>2, <2>2, FailType, ForgetTypes
    <2> QED BY <1>1, <2>1, <2>2
  <1> QED BY <1>2, <1>3, ServerStepTypes

LEMMA SttConnectsTypes == ASSUME Types, NEW i \in Ids, SttConnects(i) PROVE Types'
  <1>0. ServerTypes /\ down \in Seq(DownMessages)
    BY DEF Types, LinkTypes
  <1>1. HookTypes' /\ TextTypes' /\ SegsType' /\ SenderTypes' /\ connected' = connected
    BY AppKeptTypes DEF SttConnects
  <1>2. ServerTypes' /\ down' \in Seq(DownMessages) /\ (Rare \/ Calm)
    <2>1. CASE /\ phase' = [phase EXCEPT ![i] = "open"]
               /\ Say(<<[type |-> "ack", id |-> i]>>) /\ UNCHANGED <<stream, stt, rare>>
      <3>1. <<[type |-> "ack", id |-> i]>> \in Seq(DownMessages)
        BY DEF DownMessages
      <3>2. down' \in Seq(DownMessages)
        BY <1>0, <2>1, <3>1 DEF Say
      <3> QED BY <1>0, <2>1, <3>2 DEF ServerTypes, Calm
    <2>2. CASE Rare /\ Forget(i, Fail(i))
      BY <1>0, <2>2, FailType, ForgetTypes
    <2> QED BY <2>1, <2>2 DEF SttConnects
  <1> QED BY <1>1, <1>2, ServerStepTypes

LEMMA HandleChunkTypes == ASSUME Types, HandleChunk PROVE Types'
  <1> DEFINE m == Head(up)
             s == [stream[m.id] EXCEPT !.held = TRUE]
  <1>1. Handle("chunk") /\ Calm
    BY DEF HandleChunk
  <1>2. /\ m \in UpMessages /\ m.type = "chunk" /\ m.id \in Ids
        /\ HookTypes' /\ TextTypes' /\ SegsType' /\ SenderTypes' /\ connected' = connected
    BY <1>1, HandleTypes
  <1>0. ServerTypes /\ down \in Seq(DownMessages) /\ StreamTypeOK(stream[m.id]) /\ SttTypeOK(stt[m.id])
        /\ Settled(stream[m.id], stt[m.id])
    BY <1>2 DEF Types, LinkTypes, ServerTypes
  <1>3. ServerTypes' /\ down' \in Seq(DownMessages)
    <2>1. CASE phase[m.id] # "open"
      <3>1. Say(Fail(m.id)) /\ UNCHANGED server
        BY <2>1 DEF HandleChunk
      <3> QED BY <1>0, <1>2, <3>1, FailType, ServerKept DEF Say
    <2>2. CASE phase[m.id] = "open" /\ m.seq = s.next
      <3> DEFINE n == ForwardNext(m, stream[m.id])
                 c == ForwardCommands(m, stream[m.id])
      <3>1. Forward(m, stream[m.id]) /\ m.seq = stream[m.id].next
        BY <1>0, <2>2 DEF HandleChunk, StreamTypeOK
      <3>2. Conclude(m.id, Sealed(n), c \o SealCommands(n), stt[m.id], <<>>)
        BY <3>1, ForwardMeans
      <3>3. /\ StreamTypeOK(n) /\ c \in Seq(Commands)
            /\ n.committed = stream[m.id].committed /\ n.final = stream[m.id].final
        BY <1>0, <1>2, <3>1, ForwardTypeOK
      <3> HIDE DEF n, c, m
      <3>4. StreamOK(n, With(stt[m.id], c))
        BY <1>0, <3>3, WithTypeOK DEF StreamOK, Settled
      <3>5. StreamOK(Sealed(n), With(With(stt[m.id], c), SealCommands(n)))
        BY <3>4, SealedOK
      <3>6. SealCommands(n) \in Seq(Commands)
        BY <3>3, SealCommandsType
      <3>7. StreamOK(Sealed(n), With(stt[m.id], c \o SealCommands(n)))
        BY <1>0, <3>3, <3>5, <3>6, ConcatCommands
      <3>8. <<>> \in Seq(DownMessages)
        OBVIOUS
      <3> QED BY <1>0, <1>2, <3>2, <3>7, <3>8, ConcludeTypes
    <2>3. CASE phase[m.id] = "open" /\ m.seq > s.next
      <3>1. Conclude(m.id, Sealed(s), SealCommands(s), stt[m.id], <<>>)
        BY <2>3 DEF HandleChunk
      <3>2. StreamTypeOK(s) /\ s.committed = stream[m.id].committed /\ s.final = stream[m.id].final
        BY <1>0, SetTypeOK DEF StreamTypeOK
      <3> HIDE DEF s, m
      <3>3. StreamOK(Sealed(s), With(stt[m.id], SealCommands(s)))
        BY <1>0, <3>2, SealedOK DEF StreamOK, Settled
      <3>4. <<>> \in Seq(DownMessages)
        OBVIOUS
      <3> QED BY <1>0, <1>2, <3>1, <3>3, <3>4, ConcludeTypes
    <2>4. CASE UNCHANGED <<server, down>>
      BY <1>0, <2>4, ServerKept
    <2> QED BY <2>1, <2>2, <2>3, <2>4 DEF HandleChunk
  <1> QED BY <1>1, <1>2, <1>3, ServerStepTypes

LEMMA HandleFinishTypes == ASSUME Types, HandleFinish PROVE Types'
  <1> DEFINE m == Head(up)
             s == [stream[m.id] EXCEPT !.last = m.last]
  <1>1. Handle("finish") /\ Calm
    BY DEF HandleFinish
  <1>2. /\ m \in UpMessages /\ m.type = "finish" /\ m.id \in Ids
        /\ HookTypes' /\ TextTypes' /\ SegsType' /\ SenderTypes' /\ connected' = connected
    BY <1>1, HandleTypes
  <1>0. ServerTypes /\ down \in Seq(DownMessages) /\ StreamTypeOK(stream[m.id]) /\ SttTypeOK(stt[m.id])
        /\ Settled(stream[m.id], stt[m.id])
    BY <1>2 DEF Types, LinkTypes, ServerTypes
  <1>3. ServerTypes' /\ down' \in Seq(DownMessages)
    <2>1. CASE Say(Fail(m.id)) /\ UNCHANGED server
      BY <1>0, <1>2, <2>1, FailType, ServerKept DEF Say
    <2>2. CASE Forget(m.id, Fail(m.id))
      BY <1>0, <1>2, <2>2, FailType, ForgetTypes
    <2>3. CASE Conclude(m.id, Sealed(s), SealCommands(s), stt[m.id], <<>>)
      <3>1. m.last \in 0..MaxChunks
        BY <1>2 DEF UpMessages
      <3>2. StreamTypeOK(s) /\ s.committed = stream[m.id].committed /\ s.final = stream[m.id].final
        BY <1>0, <3>1, SetTypeOK DEF StreamTypeOK
      <3> HIDE DEF s, m
      <3>3. StreamOK(Sealed(s), With(stt[m.id], SealCommands(s)))
        BY <1>0, <3>2, SealedOK DEF StreamOK, Settled
      <3>4. <<>> \in Seq(DownMessages)
        OBVIOUS
      <3> QED BY <1>0, <1>2, <2>3, <3>3, <3>4, ConcludeTypes
    <2> QED BY <2>1, <2>2, <2>3 DEF HandleFinish
  <1> QED BY <1>1, <1>2, <1>3, ServerStepTypes

LEMMA HandleCancelTypes == ASSUME Types, HandleCancel PROVE Types'
  <1>1. Handle("cancel") /\ Calm
    BY DEF HandleCancel
  <1>2. Head(up).id \in Ids /\ HookTypes' /\ TextTypes' /\ SegsType' /\ SenderTypes' /\ connected' = connected
    BY <1>1, HandleTypes
  <1>0. ServerTypes /\ down \in Seq(DownMessages) /\ <<>> \in Seq(DownMessages)
    BY DEF Types, LinkTypes
  <1>3. ServerTypes' /\ down' \in Seq(DownMessages)
    <2>1. CASE Forget(Head(up).id, <<>>)
      BY <1>0, <1>2, <2>1, ForgetTypes
    <2>2. CASE UNCHANGED <<server, down>>
      BY <1>0, <2>2, ServerKept
    <2> QED BY <2>1, <2>2 DEF HandleCancel
  <1> QED BY <1>1, <1>2, <1>3, ServerStepTypes

LEMMA ServiceTypes ==
    ASSUME Types, NEW i \in Ids, FinalTimeout(i) \/ Serve(i) \/ Transcript(i) \/ SttFails(i)
    PROVE  Types'
  <1>0. ServerTypes /\ down \in Seq(DownMessages)
    BY DEF Types, LinkTypes
  <1>1. UNCHANGED <<app, connected, up>> /\ (Rare \/ Calm)
    BY DEF FinalTimeout, Serve, Transcript, SttFails, Serving
  <1>2. HookTypes' /\ TextTypes' /\ SegsType' /\ SenderTypes' /\ connected' = connected
    BY <1>1, AppKeptTypes
  <1>3. ServerTypes' /\ down' \in Seq(DownMessages)
    <2>1. CASE FinalTimeout(i) \/ SttFails(i)
      BY <1>0, <2>1, FailType, ForgetTypes DEF FinalTimeout, SttFails
    <2> QED BY <2>1, ServeTypes, TranscriptTypes
  <1> QED BY <1>1, <1>2, <1>3, ServerStepTypes

\* What the app's own steps leave alone: the server and, but for the counted faults, the link.
LEMMA HookStepTypes ==
    ASSUME Types, UNCHANGED server, LinkTypes', HookTypes', TextTypes', SegsType', SenderTypes'
    PROVE  Types'
  BY ServerKept DEF Types

LEMMA AppFacts ==
    ASSUME Types
    PROVE  /\ HookTypes /\ TextTypes /\ SegsType /\ SenderTypes /\ LinkTypes
           /\ finish \in [{"confirm", "retry"} -> FinishType]
           /\ sender \in SenderType /\ up \in Seq(UpMessages) /\ started \in 0..MaxStarts
           /\ segs \in Seq(BOOLEAN) /\ Len(segs) <= MaxChunks /\ Len(segs) \in 0..MaxChunks
           /\ sender.sent <= Len(segs) /\ take \in 0..MaxRecordings
  <1>1. MaxChunks \in Nat
    BY Bounds
  <1> QED BY <1>1 DEF Types, HookTypes, SegsType, SenderTypes

LEMMA ClearAllTypes ==
    ASSUME Types, ClearAll, UNCHANGED <<up, started, given>>
    PROVE  SegsType' /\ SenderTypes' /\ TextTypes'
  BY NoSenderType, EmptyTypes, Bounds DEF ClearAll, Types, SegsType, SenderTypes, TextTypes

LEMMA RestartSenderTypes ==
    ASSUME Types, Restart, segs' = segs \/ segs' = <<>> \/ \E loud \in BOOLEAN : segs' = Append(segs, loud)
    PROVE  SenderTypes'
  <1>1. Len(segs') \in Nat
    BY AppFacts
  <1> QED BY <1>1, AppFacts, RestartTypes DEF SenderTypes

LEMMA LinkKept == ASSUME LinkTypes, UNCHANGED link PROVE LinkTypes'
  BY DEF LinkTypes, link

LEMMA LinkSame == ASSUME LinkTypes, UNCHANGED <<connected, down, rare>> PROVE LinkTypes'
  BY DEF LinkTypes

LEMMA StartDictationTypes == ASSUME Types, StartDictation PROVE Types'
  <1>0. UNCHANGED <<processing, finish, cancelling, given, dropped, connected, down, rare, server>>
        /\ recording' = TRUE /\ mic' = TRUE /\ failed' = FALSE /\ segs' = <<>> /\ partial' = <<>>
        /\ take < MaxRecordings /\ take' = take + 1
    BY DEF StartDictation
  <1>1. take' \in 0..MaxRecordings
    BY <1>0, AppFacts, Bounds
  <1>2. SegsType' /\ TextTypes' /\ LinkTypes'
    BY <1>0, AppFacts, EmptyTypes, Bounds, LinkSame DEF SegsType, TextTypes
  <1>3. SenderTypes' /\ opener' \in -1..MaxStarts
    <2>1. CASE Restart /\ opener' = started'
      BY <1>0, <2>1, AppFacts, RestartTypes, RestartSenderTypes, Bounds
    <2>2. CASE sender' = NoSender /\ UNCHANGED <<up, started, opener>>
      BY <1>0, <2>2, AppFacts, NoSenderType DEF SenderTypes, HookTypes
    <2> QED BY <2>1, <2>2 DEF StartDictation
  <1>4. HookTypes'
    BY <1>0, <1>1, <1>3, AppFacts DEF HookTypes
  <1> QED BY <1>0, <1>2, <1>3, <1>4, HookStepTypes

LEMMA KeepSenderTypes == ASSUME Types, KeepSender, segs' = segs PROVE SenderTypes'
  BY AppFacts DEF SenderTypes, KeepSender

LEMMA HookKept == ASSUME HookTypes, TextTypes, UNCHANGED hook PROVE HookTypes' /\ TextTypes'
  BY DEF HookTypes, TextTypes, hook

LEMMA SpeakTypes == ASSUME Types, NEW loud \in BOOLEAN, Speak(loud) PROVE Types'
  <1>0. UNCHANGED <<hook, connected, down, rare, server>> /\ segs' = Append(segs, loud) /\ Len(segs) < MaxChunks
    BY DEF Speak
  <1>1. segs' \in Seq(BOOLEAN) /\ Len(segs') = Len(segs) + 1 /\ Len(segs') <= MaxChunks
    BY <1>0, AppFacts, Bounds
  <1>2. SegsType'
    BY <1>1 DEF SegsType
  <1>3. SenderTypes'
    <2>1. CASE KeepSender
      <3>1. sender.sent \in Nat /\ Len(segs) \in Nat
        BY AppFacts, Bounds DEF SenderType
      <3>2. sender.sent <= Len(segs')
        BY <1>1, <3>1, AppFacts
      <3> QED BY <2>1, <3>2, AppFacts DEF KeepSender, SenderTypes
    <2>2. CASE Restart
      BY <1>0, <2>2, RestartSenderTypes
    <2>3. CASE sender.ready /\ Flush(sender, segs', <<>>)
      <3>1. /\ sender.id # 0 /\ sender.sent <= Len(segs') /\ <<>> \in Seq(UpMessages)
        BY <1>1, <2>3, AppFacts DEF SenderTypes, SenderType
      <3>2. /\ sender' \in SenderType /\ sender'.sent = Len(segs') /\ sender'.id = sender.id
            /\ up' \in Seq(UpMessages) /\ started' \in 0..MaxStarts
        BY <1>1, <2>3, <3>1, AppFacts, FlushTypes
      <3> QED BY <1>1, <3>1, <3>2 DEF SenderTypes
    <2> QED BY <2>1, <2>2, <2>3 DEF Speak
  <1> QED BY <1>0, <1>2, <1>3, AppFacts, HookKept, LinkSame, HookStepTypes

LEMMA ConfirmTypes == ASSUME Types, Confirm PROVE Types'
  <1>0. /\ UNCHANGED <<recording, failed, mic, opener, cancelling, partial, take, given, segs, sender,
                       started, link, server>>
        /\ processing' = TRUE /\ dropped' = dropped \ {take}
        /\ finish' = [finish EXCEPT !["confirm"] =
                        [NoFinish EXCEPT !.pc = "stopping", !.current = TRUE, !.of = take]]
    BY DEF Confirm
  <1>1. [NoFinish EXCEPT !.pc = "stopping", !.current = TRUE, !.of = take] \in FinishType
    BY AppFacts, Bounds DEF NoFinish, FinishType
  <1>2. finish' \in [{"confirm", "retry"} -> FinishType]
    BY <1>0, <1>1, AppFacts
  <1>3. HookTypes'
    BY <1>0, <1>2, AppFacts DEF HookTypes
  <1>4. TextTypes' /\ SegsType' /\ SenderTypes'
    BY <1>0, AppFacts DEF TextTypes, SegsType, SenderTypes, link
  <1> QED BY <1>0, <1>3, <1>4, AppFacts, LinkKept, HookStepTypes

LEMMA MicStopsTypes == ASSUME Types, MicStops PROVE Types'
  <1> DEFINE f == finish["confirm"]
             pc == IF ~connected THEN "error" ELSE IF sender.id = 0 THEN "restart"
                   ELSE IF sender.ready THEN "go" ELSE "start"
  <1>0. /\ UNCHANGED <<opener, cancelling, take, given, dropped, connected, down, rare, server>>
        /\ mic' = FALSE
    BY DEF MicStops
  <1>1. CASE /\ finish' = [finish EXCEPT !["confirm"] = NoFinish]
             /\ UNCHANGED <<recording, processing, failed, partial, segs>> /\ KeepSender
    <2>1. finish' \in [{"confirm", "retry"} -> FinishType]
      BY <1>1, AppFacts, NoFinishType
    <2>2. HookTypes' /\ TextTypes' /\ SegsType'
      BY <1>0, <1>1, <2>1, AppFacts DEF HookTypes, TextTypes, SegsType
    <2> QED BY <1>0, <1>1, <2>2, AppFacts, KeepSenderTypes, LinkSame, HookStepTypes
  <1>2. CASE /\ recording' = FALSE /\ processing' = FALSE /\ failed' = FALSE
             /\ finish' = [finish EXCEPT !["confirm"] = NoFinish]
             /\ ClearAll /\ UNCHANGED <<up, started>>
    <2>1. finish' \in [{"confirm", "retry"} -> FinishType]
      BY <1>2, AppFacts, NoFinishType
    <2>2. HookTypes'
      BY <1>0, <1>2, <2>1, AppFacts DEF HookTypes
    <2> QED BY <1>0, <1>2, <2>2, AppFacts, ClearAllTypes, LinkSame, HookStepTypes
  <1>3. CASE /\ recording' = FALSE
             /\ finish' = [finish EXCEPT !["confirm"] =
                  [@ EXCEPT !.last = Len(segs), !.pc = pc,
                            !.id = IF pc = "restart" THEN started + 1 ELSE sender.id]]
             /\ IF pc = "restart" THEN Restart ELSE KeepSender
             /\ UNCHANGED <<processing, failed, partial, segs>>
    <2> DEFINE n == IF pc = "restart" THEN started + 1 ELSE sender.id
    <2>1. SenderTypes' /\ n \in 0..MaxStarts
      <3>1. CASE pc = "restart"
        BY <1>3, <3>1, AppFacts, RestartTypes, RestartSenderTypes
      <3>2. CASE pc # "restart"
        BY <1>3, <3>2, AppFacts, KeepSenderTypes DEF SenderType
      <3> QED BY <3>1, <3>2
    <2>2. pc \in {"error", "restart", "go", "start"}
      OBVIOUS
    <2> HIDE DEF pc, n
    <2>3. [f EXCEPT !.last = Len(segs), !.pc = pc, !.id = n] \in FinishType
      BY <2>1, <2>2, AppFacts DEF FinishType
    <2>4. finish' = [finish EXCEPT !["confirm"] = [f EXCEPT !.last = Len(segs), !.pc = pc, !.id = n]]
      BY <1>3 DEF n
    <2>5. finish' \in [{"confirm", "retry"} -> FinishType]
      BY <2>3, <2>4, AppFacts
    <2>6. HookTypes' /\ TextTypes' /\ SegsType'
      BY <1>0, <1>3, <2>5, AppFacts DEF HookTypes, TextTypes, SegsType
    <2> QED BY <1>0, <2>1, <2>6, AppFacts, LinkSame, HookStepTypes
  <1> QED BY <1>1, <1>2, <1>3 DEF MicStops

LEMMA CancelTypes == ASSUME Types, Cancel PROVE Types'
  <1>0. /\ UNCHANGED <<recording, processing, failed, mic, opener, partial, take, given, segs,
                       started, connected, down, rare, server>>
        /\ cancelling' = TRUE /\ dropped' = dropped \cup {take} /\ sender' = NoSender
        /\ finish' = [finish EXCEPT !["confirm"].current = FALSE]
        /\ up' = IF connected /\ sender.id # 0 THEN Append(up, [type |-> "cancel", id |-> sender.id]) ELSE up
    BY DEF Cancel
  <1>1. finish' \in [{"confirm", "retry"} -> FinishType]
    <2>1. [finish["confirm"] EXCEPT !.current = FALSE] \in FinishType
      BY AppFacts DEF FinishType
    <2> QED BY <1>0, <2>1, AppFacts
  <1>2. up' \in Seq(UpMessages)
    <2>1. sender.id # 0 => [type |-> "cancel", id |-> sender.id] \in UpMessages
      BY AppFacts DEF SenderType, UpMessages, Ids
    <2> QED BY <1>0, <2>1, AppFacts
  <1>3. HookTypes' /\ TextTypes' /\ SegsType'
    BY <1>0, <1>1, AppFacts DEF HookTypes, TextTypes, SegsType
  <1>4. SenderTypes'
    BY <1>0, <1>2, AppFacts, NoSenderType DEF SenderTypes
  <1> QED BY <1>0, <1>3, <1>4, AppFacts, LinkSame, HookStepTypes

\* A step that leaves the sender, what was recorded, and the connection's messages to the
\* daemon alone, and one that also leaves what is said to the app alone.
LEMMA FinishMapTypes ==
    ASSUME NEW f \in [{"confirm", "retry"} -> FinishType], NEW told \in SUBSET {"confirm", "retry"},
           finish' = [o \in {"confirm", "retry"} |-> IF o \in told THEN [f[o] EXCEPT !.pc = "error", !.id = 0] ELSE f[o]]
    PROVE  finish' \in [{"confirm", "retry"} -> FinishType]
  <1>1. \A o \in {"confirm", "retry"} : [f[o] EXCEPT !.pc = "error", !.id = 0] \in FinishType
    BY FailedType
  <1> QED BY <1>1

LEMMA CancelEndsTypes == ASSUME Types, CancelEnds PROVE Types'
  <1>0. /\ cancelling' = FALSE /\ mic' = FALSE /\ recording' = FALSE /\ processing' = FALSE /\ failed' = FALSE
        /\ ClearAll /\ UNCHANGED <<opener, finish, take, given, dropped, started, link, server>>
    BY DEF CancelEnds
  <1>1. HookTypes'
    BY <1>0, AppFacts DEF HookTypes
  <1> QED BY <1>0, <1>1, AppFacts, ClearAllTypes, LinkKept, HookStepTypes DEF link

LEMMA HideTypes == ASSUME Types, Hide PROVE Types'
  <1>0. /\ Rare /\ finish' = [finish EXCEPT !["confirm"].current = FALSE]
        /\ processing' = FALSE /\ failed' = (segs # <<>>)
        /\ ClearAll \/ UNCHANGED <<segs, sender, partial>>
        /\ UNCHANGED <<recording, mic, opener, cancelling, take, given, dropped, started,
                       connected, up, down, server>>
    BY DEF Hide
  <1>1. finish' \in [{"confirm", "retry"} -> FinishType]
    <2>1. [finish["confirm"] EXCEPT !.current = FALSE] \in FinishType
      BY AppFacts DEF FinishType
    <2> QED BY <1>0, <2>1, AppFacts
  <1>2. HookTypes'
    BY <1>0, <1>1, AppFacts DEF HookTypes
  <1>3. TextTypes' /\ SegsType' /\ SenderTypes'
    <2>1. CASE ClearAll
      BY <1>0, <2>1, ClearAllTypes
    <2>2. CASE UNCHANGED <<segs, sender, partial>>
      BY <1>0, <2>2, AppFacts DEF TextTypes, SegsType, SenderTypes
    <2> QED BY <1>0, <2>1, <2>2
  <1>4. LinkTypes'
    BY <1>0, AppFacts, RareType DEF LinkTypes
  <1> QED BY <1>0, <1>2, <1>3, <1>4, HookStepTypes

LEMMA RetryTypes == ASSUME Types, Retry PROVE Types'
  <1> DEFINE new == [pc |-> IF connected THEN "restart" ELSE "error", id |-> IF connected THEN started + 1 ELSE 0,
                     last |-> Len(segs), current |-> TRUE, of |-> take]
  <1>0. /\ failed' = FALSE /\ processing' = TRUE /\ finish' = [finish EXCEPT !["retry"] = new]
        /\ IF connected THEN Restart ELSE KeepSender
        /\ UNCHANGED <<recording, mic, opener, cancelling, partial, take, given, dropped, segs,
                       connected, down, rare, server>>
    BY DEF Retry
  <1>1. SenderTypes' /\ (IF connected THEN started + 1 ELSE 0) \in 0..MaxStarts
    <2>1. CASE connected
      BY <1>0, <2>1, AppFacts, RestartTypes, RestartSenderTypes
    <2>2. CASE ~connected
      BY <1>0, <2>2, AppFacts, KeepSenderTypes, Bounds
    <2> QED BY <2>1, <2>2
  <1>2. new \in FinishType
    BY <1>1, AppFacts DEF FinishType
  <1> HIDE DEF new
  <1>3. finish' \in [{"confirm", "retry"} -> FinishType]
    BY <1>0, <1>2, AppFacts
  <1>4. HookTypes' /\ TextTypes' /\ SegsType'
    BY <1>0, <1>3, AppFacts DEF HookTypes, TextTypes, SegsType
  <1> QED BY <1>0, <1>1, <1>4, AppFacts, LinkSame, HookStepTypes

LEMMA DiscardTypes == ASSUME Types, Discard PROVE Types'
  <1>0. /\ failed' = FALSE /\ ClearAll
        /\ UNCHANGED <<recording, processing, mic, opener, finish, cancelling, take, given, dropped,
                       started, link, server>>
    BY DEF Discard
  <1>1. HookTypes'
    BY <1>0, AppFacts DEF HookTypes
  <1> QED BY <1>0, <1>1, AppFacts, ClearAllTypes, LinkKept, HookStepTypes DEF link

LEMMA FinishContinuesTypes ==
    ASSUME Types, NEW o \in {"confirm", "retry"}, FinishContinues(o)
    PROVE  Types'
  <1>0. UNCHANGED <<recording, processing, failed, mic, opener, cancelling, partial, take, given,
                    dropped, segs, connected, down, rare, server>>
    BY DEF FinishContinues
  <1>1. SenderTypes' /\ finish' \in [{"confirm", "retry"} -> FinishType]
    <2>1. CASE At(o, "start", sender.id) /\ KeepSender
      <3>1. sender.id \in 0..MaxStarts
        BY AppFacts DEF SenderType
      <3> QED BY <1>0, <2>1, <3>1, AppFacts, AtType, KeepSenderTypes
    <2>2. CASE SendFinish(o)
      BY <1>0, <2>2, AppFacts, SendFinishTypes
    <2> QED BY <2>1, <2>2 DEF FinishContinues
  <1>2. HookTypes' /\ TextTypes' /\ SegsType'
    BY <1>0, <1>1, AppFacts DEF HookTypes, TextTypes, SegsType
  <1> QED BY <1>0, <1>1, <1>2, AppFacts, LinkSame, HookStepTypes

LEMMA FinishFailsTypes ==
    ASSUME Types, NEW o \in {"confirm", "retry"}, FinishFails(o)
    PROVE  Types'
  <1>0. /\ finish' = [finish EXCEPT ![o] = NoFinish]
        /\ UNCHANGED <<mic, opener, cancelling, partial, take, given, dropped,
                       segs, sender, started, link, server>>
        /\ {recording', processing', failed'} \subseteq BOOLEAN
    BY AppFacts DEF FinishFails, HookTypes
  <1>1. finish' \in [{"confirm", "retry"} -> FinishType]
    BY <1>0, AppFacts, NoFinishType
  <1>2. HookTypes' /\ TextTypes' /\ SegsType' /\ SenderTypes'
    BY <1>0, <1>1, AppFacts DEF HookTypes, TextTypes, SegsType, SenderTypes, link
  <1> QED BY <1>0, <1>2, AppFacts, LinkKept, HookStepTypes

LEMMA OpenFailsTypes == ASSUME Types, OpenFails PROVE Types'
  <1>0. /\ opener' = 0 /\ mic' = FALSE /\ recording' = FALSE /\ failed' = FALSE
        /\ UNCHANGED <<processing, finish, cancelling, partial, take, given, dropped,
                       segs, sender, started, link, server>>
    BY DEF OpenFails
  <1>1. HookTypes' /\ TextTypes' /\ SegsType' /\ SenderTypes'
    BY <1>0, AppFacts, Bounds DEF HookTypes, TextTypes, SegsType, SenderTypes, link
  <1> QED BY <1>0, <1>1, AppFacts, LinkKept, HookStepTypes

LEMMA WaitTimesOutTypes == ASSUME Types, NEW i \in Ids, WaitTimesOut(i) PROVE Types'
  <1>0. /\ Rejected(i) /\ (Rare \/ Calm)
        /\ UNCHANGED <<recording, processing, failed, mic, cancelling, partial, take, given, dropped,
                       segs, started, connected, up, down, server>>
    BY DEF WaitTimesOut
  <1>1. SenderTypes' /\ opener' \in -1..MaxStarts /\ finish' \in [{"confirm", "retry"} -> FinishType]
    BY <1>0, AppFacts, RejectedTypes
  <1>2. HookTypes' /\ TextTypes' /\ SegsType' /\ LinkTypes'
    BY <1>0, <1>1, AppFacts, RareType DEF HookTypes, TextTypes, SegsType, LinkTypes
  <1> QED BY <1>0, <1>1, <1>2, HookStepTypes

\* What the client takes from the connection.
LEMMA ReceiveTypes ==
    ASSUME Types, NEW type, Receive(type), UNCHANGED <<connected, rare>>
    PROVE  /\ down # <<>> /\ Head(down) \in DownMessages /\ Head(down).type = type
           /\ Head(down).id \in Ids /\ down' = Tail(down) /\ LinkTypes'
           /\ type \in {"partial", "final"} => Head(down).text \in Texts
  <1>1. down # <<>> /\ Head(down) \in DownMessages /\ down' = Tail(down) /\ down' \in Seq(DownMessages)
    BY AppFacts DEF Receive, LinkTypes
  <1> QED BY <1>1, AppFacts DEF Receive, LinkTypes, DownMessages

LEMMA AckArrivesTypes == ASSUME Types, AckArrives PROVE Types'
  <1> DEFINE i == Head(down).id
             s == [sender EXCEPT !.ready = TRUE]
  <1>0. /\ Receive("ack") /\ UNCHANGED <<partial, given, segs>>
        /\ UNCHANGED <<recording, processing, failed, mic, cancelling, take, dropped, connected, rare, server>>
        /\ opener' = IF opener = i THEN 0 ELSE opener
        /\ finish' = [o \in DOMAIN finish |->
             IF Awaits(o, i) THEN [finish[o] EXCEPT !.pc = IF @ = "restart" THEN "check" ELSE "go"] ELSE finish[o]]
        /\ \/ sender.id = i /\ Flush(s, segs, <<>>)
           \/ KeepSender
    BY DEF AckArrives, KeepHook
  <1>1. LinkTypes' /\ i \in Ids
    BY <1>0, ReceiveTypes
  <1>2. SenderTypes'
    <2>1. CASE sender.id = i /\ Flush(s, segs, <<>>)
      <3>1. s \in SenderType /\ s.id # 0 /\ s.sent <= Len(segs) /\ <<>> \in Seq(UpMessages)
        <4>1. sender \in SenderType /\ sender.sent <= Len(segs) /\ i # 0
          BY <1>1, AppFacts DEF Ids
        <4>2. s \in SenderType /\ s.id = sender.id /\ s.sent = sender.sent
          BY ONLY <4>1 DEF SenderType
        <4> QED BY <2>1, <4>1, <4>2
      <3>2. Flush(s, segs, <<>>)
        BY <2>1
      <3> HIDE DEF s
      <3>3. /\ sender' \in SenderType /\ sender'.sent = Len(segs) /\ sender'.id = s.id
            /\ up' \in Seq(UpMessages) /\ started' \in 0..MaxStarts
        BY <3>1, <3>2, AppFacts, FlushTypes
      <3> QED BY <1>0, <3>1, <3>3, AppFacts DEF SenderTypes
    <2>2. CASE KeepSender
      BY <1>0, <2>2, KeepSenderTypes
    <2> QED BY <1>0, <2>1, <2>2
  <1>3. finish' \in [{"confirm", "retry"} -> FinishType]
    <2>1. \A f \in FinishType : [f EXCEPT !.pc = IF @ = "restart" THEN "check" ELSE "go"] \in FinishType
      BY DEF FinishType
    <2>2. DOMAIN finish = {"confirm", "retry"}
      BY AppFacts
    <2> DEFINE new == [o \in {"confirm", "retry"} |->
             IF Awaits(o, i) THEN [finish[o] EXCEPT !.pc = IF @ = "restart" THEN "check" ELSE "go"] ELSE finish[o]]
    <2>3. new \in [{"confirm", "retry"} -> FinishType]
      BY <2>1, AppFacts
    <2>4. finish' = new
      BY <1>0, <2>2
    <2> QED BY <2>3, <2>4
  <1>4. opener' \in -1..MaxStarts
    BY <1>0, AppFacts, Bounds DEF HookTypes
  <1>5. HookTypes' /\ TextTypes' /\ SegsType'
    BY <1>0, <1>3, <1>4, AppFacts DEF HookTypes, TextTypes, SegsType
  <1> QED BY <1>0, <1>1, <1>2, <1>5, HookStepTypes

LEMMA ErrorArrivesTypes == ASSUME Types, ErrorArrives PROVE Types'
  <1>0. /\ Receive("error") /\ Rejected(Head(down).id) /\ UNCHANGED <<partial, given, segs, up, started>>
        /\ UNCHANGED <<recording, processing, failed, mic, cancelling, take, dropped, connected, rare, server>>
    BY DEF ErrorArrives, KeepHook
  <1>1. LinkTypes' /\ Head(down).id \in Ids
    BY <1>0, ReceiveTypes
  <1>2. SenderTypes' /\ opener' \in -1..MaxStarts /\ finish' \in [{"confirm", "retry"} -> FinishType]
    BY <1>0, <1>1, AppFacts, RejectedTypes
  <1>3. HookTypes' /\ TextTypes' /\ SegsType'
    BY <1>0, <1>2, AppFacts DEF HookTypes, TextTypes, SegsType
  <1> QED BY <1>0, <1>1, <1>2, <1>3, HookStepTypes

LEMMA PartialArrivesTypes == ASSUME Types, PartialArrives PROVE Types'
  <1>0. /\ Receive("partial")
        /\ partial' = IF sender.id = Head(down).id THEN Head(down).text ELSE partial
        /\ UNCHANGED <<opener, finish, given, segs, sender, up, started>>
        /\ UNCHANGED <<recording, processing, failed, mic, cancelling, take, dropped, connected, rare, server>>
    BY DEF PartialArrives, KeepHook
  <1>1. LinkTypes' /\ Head(down).text \in Texts
    BY <1>0, ReceiveTypes
  <1>2. HookTypes' /\ TextTypes' /\ SegsType' /\ SenderTypes'
    BY <1>0, <1>1, AppFacts DEF HookTypes, TextTypes, SegsType, SenderTypes
  <1> QED BY <1>0, <1>1, <1>2, HookStepTypes

LEMMA FinalArrivesTypes == ASSUME Types, FinalArrives PROVE Types'
  <1> DEFINE waits == {o \in DOMAIN finish : finish[o].pc = "result" /\ finish[o].id = Head(down).id}
             w == CHOOSE o \in waits : finish[o].current
             text == IF ~Blank(Head(down).text) THEN Head(down).text ELSE partial
  <1>0. /\ Receive("final")
        /\ finish' = [o \in DOMAIN finish |-> IF o \in waits THEN NoFinish ELSE finish[o]]
        /\ UNCHANGED <<recording, mic, opener, cancelling, take, dropped, up, started, connected, rare, server>>
        /\ \/ /\ \E o \in waits : finish[o].current
              /\ given' = IF ~Blank(text) THEN given \cup {[by |-> w, of |-> finish[w].of, text |-> text]} ELSE given
              /\ processing' = FALSE /\ failed' = FALSE /\ ClearAll
           \/ UNCHANGED <<given, processing, failed, segs, sender, partial>>
    BY DEF FinalArrives
  <1>1. LinkTypes' /\ Head(down).text \in Texts
    BY <1>0, ReceiveTypes
  <1>2. finish' \in [{"confirm", "retry"} -> FinishType]
    BY <1>0, AppFacts, NoFinishType
  <1>3. HookTypes' /\ TextTypes' /\ SegsType' /\ SenderTypes'
    <2>1. CASE UNCHANGED <<given, processing, failed, segs, sender, partial>>
      BY <1>0, <1>2, <2>1, AppFacts DEF HookTypes, TextTypes, SegsType, SenderTypes
    <2>2. CASE /\ \E o \in waits : finish[o].current
               /\ given' = IF ~Blank(text) THEN given \cup {[by |-> w, of |-> finish[w].of, text |-> text]} ELSE given
               /\ processing' = FALSE /\ failed' = FALSE /\ ClearAll
      <3>1. w \in waits
        BY <2>2
      <3>2. w \in {"confirm", "retry"} /\ finish[w].of \in 0..MaxRecordings
        BY <3>1, AppFacts DEF FinishType
      <3>3. text \in Texts
        BY <1>1, AppFacts DEF TextTypes
      <3> HIDE DEF w, text
      <3>4. [by |-> w, of |-> finish[w].of, text |-> text] \in
              [by: {"confirm", "retry"}, of: 0..MaxRecordings, text: Texts]
        BY <3>2, <3>3
      <3>5. TextTypes'
        BY <2>2, <3>4, AppFacts, EmptyTypes DEF TextTypes, ClearAll
      <3>6. HookTypes'
        BY <1>0, <1>2, <2>2, AppFacts DEF HookTypes
      <3>7. SegsType' /\ SenderTypes'
        BY <1>0, <2>2, AppFacts, NoSenderType, EmptyTypes, Bounds DEF ClearAll, SegsType, SenderTypes
      <3> QED BY <3>5, <3>6, <3>7
    <2> QED BY <1>0, <2>1, <2>2
  <1> QED BY <1>0, <1>1, <1>3, HookStepTypes

LEMMA DropTypes == ASSUME Types, Drop PROVE Types'
  <1> DEFINE told == {o \in {"confirm", "retry"} : finish[o].pc \in {"restart", "start", "result"}}
  <1>0. /\ Rare /\ connected' = FALSE /\ up' = <<>> /\ down' = <<>>
        /\ sender' = IF sender.ready THEN sender ELSE [sender EXCEPT !.id = 0]
        /\ opener' = IF opener # 0 THEN -1 ELSE 0
        /\ finish' = [o \in {"confirm", "retry"} |->
             IF o \in told THEN [finish[o] EXCEPT !.pc = "error", !.id = 0] ELSE finish[o]]
        /\ UNCHANGED <<recording, processing, failed, mic, cancelling, partial, take, given, dropped,
                       segs, started, server>>
    BY AppFacts DEF Drop
  <1>1. finish' \in [{"confirm", "retry"} -> FinishType]
    <2> HIDE DEF told
    <2>1. told \subseteq {"confirm", "retry"}
      BY DEF told
    <2> QED BY <1>0, <2>1, AppFacts, FinishMapTypes
  <1>2. sender' \in SenderType /\ sender'.sent = sender.sent /\ (sender'.ready => sender'.id # 0)
    BY <1>0, AppFacts, Bounds DEF SenderType, SenderTypes
  <1>3. SenderTypes' /\ SegsType' /\ TextTypes'
    BY <1>0, <1>2, AppFacts DEF SenderTypes, SegsType, TextTypes
  <1>4. HookTypes'
    BY <1>0, <1>1, AppFacts, Bounds DEF HookTypes
  <1>5. LinkTypes'
    <2>1. rare' \in 0..MaxEvents
      BY <1>0, AppFacts, RareType
    <2>2. connected' = FALSE /\ down' = <<>>
      BY <1>0
    <2>3. <<>> \in Seq(DownMessages)
      OBVIOUS
    <2>4. connected' \in BOOLEAN
      BY <2>2
    <2> QED BY <2>1, <2>2, <2>3, <2>4 DEF LinkTypes
  <1> QED BY <1>0, <1>3, <1>4, <1>5, HookStepTypes

LEMMA ReconnectTypes == ASSUME Types, Reconnect PROVE Types'
  <1>0. /\ connected' = TRUE /\ (Restart \/ KeepSender)
        /\ UNCHANGED <<hook, segs, down, rare, server>>
    BY DEF Reconnect
  <1>1. SenderTypes' /\ SegsType'
    BY <1>0, AppFacts, RestartSenderTypes, KeepSenderTypes DEF SegsType
  <1>2. LinkTypes'
    BY <1>0, AppFacts DEF LinkTypes
  <1> QED BY <1>0, <1>1, <1>2, AppFacts, HookKept, HookStepTypes

-----------------------------------------------------------------------------
LEMMA InitTypes == ASSUME Init PROVE Types
  <1>1. HookTypes /\ TextTypes /\ SegsType /\ SenderTypes /\ LinkTypes
    <2>1. HookTypes
      <3>1. finish \in [{"confirm", "retry"} -> FinishType]
        BY NoFinishType DEF Init
      <3> QED BY <3>1, Bounds DEF Init, HookTypes
    <2>2. TextTypes /\ SegsType
      BY EmptyTypes, Bounds DEF Init, TextTypes, SegsType
    <2>3. SenderTypes /\ LinkTypes
      BY NoSenderType, Bounds, EmptyTypes DEF Init, SenderTypes, LinkTypes, SegsType
    <2> QED BY <2>1, <2>2, <2>3
  <1>2. ServerTypes
    <2>1. \A i \in Ids : StreamOK(NoStream, NoStt)
      BY NoStreamOK
    <2> QED BY <2>1 DEF Init, ServerTypes, StreamOK
  <1> QED BY <1>1, <1>2 DEF Types

LEMMA StutterTypes == ASSUME Types, UNCHANGED vars PROVE Types'
  BY AppFacts, HookKept, LinkKept, HookStepTypes
     DEF vars, app, Types, SegsType, SenderTypes, link

LEMMA NextTypes == ASSUME Types, [Next]_vars PROVE Types'
  <1>0. DOMAIN finish = {"confirm", "retry"}
    BY AppFacts
  <1>1. ASSUME StartDictation \/ Confirm \/ MicStops \/ Cancel \/ CancelEnds \/ Hide \/ Retry \/ Discard
        PROVE  Types'
    BY <1>1, StartDictationTypes, ConfirmTypes, MicStopsTypes, CancelTypes, CancelEndsTypes, HideTypes,
       RetryTypes, DiscardTypes
  <1>2. ASSUME \E loud \in BOOLEAN : Speak(loud)
        PROVE  Types'
    BY <1>2, SpeakTypes
  <1>3. ASSUME Awaiting
        PROVE  Types'
    BY <1>0, <1>3, OpenFailsTypes, FinishContinuesTypes, FinishFailsTypes DEF Awaiting
  <1>4. ASSUME Arrives \/ Handles \/ Drop \/ Reconnect
        PROVE  Types'
    BY <1>4, AckArrivesTypes, ErrorArrivesTypes, PartialArrivesTypes, FinalArrivesTypes, HandleStartTypes,
       HandleChunkTypes, HandleFinishTypes, HandleCancelTypes, DropTypes, ReconnectTypes DEF Arrives, Handles
  <1>5. ASSUME NEW i \in Ids, WaitTimesOut(i) \/ SttConnects(i) \/ FinalTimeout(i) \/ Serve(i)
                               \/ Transcript(i) \/ SttFails(i)
        PROVE  Types'
    BY <1>5, WaitTimesOutTypes, SttConnectsTypes, ServiceTypes
  <1> QED BY <1>1, <1>2, <1>3, <1>4, <1>5, StutterTypes DEF Next

\* Every part keeps its types, and the service gives its last text of a segment only
\* when that segment was committed (emitFinal), so that a text that is complete is
\* made of committed segments alone.
THEOREM TypesHold == Spec => [](TypeOK /\ FinalsCommitted)
  <1>1. Types <=> TypeOK /\ FinalsCommitted
    BY TypesOK
  <1>2. Init => Types
    BY InitTypes
  <1>3. Types /\ [Next]_vars => Types'
    BY NextTypes
  <1> QED BY <1>1, <1>2, <1>3, PTL DEF Spec

-----------------------------------------------------------------------------
(* The order of what is said *)
\* What is typed is a number.
LEMMA Numbers ==
    ASSUME NEW s, NEW t, StreamOK(s, t)
    PROVE  /\ s.next \in Nat /\ t.cur \in Nat /\ s.committed \in Seq(Nat) /\ t.buf \in Seq(Nat)
           /\ t.todo \in Seq(Commands) /\ DOMAIN s.texts \subseteq Nat
           /\ \A g \in DOMAIN s.texts : s.texts[g] \in Seq(Nat)
           /\ \A o \in t.owed : o.seg \in Nat /\ o.text \in Seq(Nat) /\ o.seg \in Range(s.committed)
           /\ \A k \in Nat : Appends(t, k) => t.todo[k].seq \in Nat
  <1>0. MaxChunks \in Nat /\ 0..MaxChunks \subseteq Nat
    BY Bounds
  <1>1. \A q \in Text : q \in Seq(Nat)
    BY <1>0 DEF Text
  <1>2. s.next \in Nat /\ s.committed \in Seq(Nat) /\ DOMAIN s.texts \subseteq Nat
        /\ \A g \in DOMAIN s.texts : s.texts[g] \in Seq(Nat)
    BY <1>0, <1>1 DEF StreamOK, StreamTypeOK
  <1>3. t.cur \in Nat /\ t.buf \in Seq(Nat) /\ t.todo \in Seq(Commands)
        /\ \A o \in t.owed : o.seg \in Nat /\ o.text \in Seq(Nat)
    BY <1>0, <1>1 DEF StreamOK, SttTypeOK
  <1>4. \A o \in t.owed : o.seg \in Range(s.committed)
    BY DEF StreamOK, Settled
  <1>5. \A k \in Nat : Appends(t, k) => t.todo[k].seq \in Nat
    <2> SUFFICES ASSUME NEW k \in Nat, Appends(t, k) PROVE t.todo[k].seq \in Nat
      OBVIOUS
    <2>1. t.todo[k] \in Commands /\ t.todo[k].op = "append"
      BY <1>3 DEF Appends
    <2> QED BY <1>0, <2>1 DEF Commands
  <1> QED BY <1>2, <1>3, <1>4, <1>5

\* What leaves chunks with their segments, and in the queue, leaves them apart.
Within(u, v, s, t) == \A g, a \in Nat : Belongs(u, v, g, a) => Belongs(s, t, g, a)
Follows(v, t) ==
    \E d \in {0, 1} : \A k \in Nat : Appends(v, k) => Appends(t, k + d) /\ t.todo[k + d] = v.todo[k]
LEMMA Narrowed ==
    ASSUME NEW s, NEW t, NEW u, NEW v, StreamOK(s, t), Apart(s, t), u.next = s.next,
           Within(u, v, s, t), Follows(v, t)
    PROVE  Apart(u, v)
  <1>0. PICK d \in {0, 1} : \A k \in Nat : Appends(v, k) => Appends(t, k + d) /\ t.todo[k + d] = v.todo[k]
    BY DEF Follows
  <1>1. \A g, h, a, b \in Nat : g < h /\ Belongs(u, v, g, a) /\ Belongs(u, v, h, b) => a < b
    BY DEF Apart, Within
  <1>2. \A g, a \in Nat : Belongs(u, v, g, a) =>
          a < u.next /\ \A k \in Nat : Appends(v, k) => a < v.todo[k].seq
    BY <1>0 DEF Apart, Within
  <1>3. \A k \in Nat : Appends(v, k) => v.todo[k].seq < u.next
    BY <1>0 DEF Apart
  <1>4. \A j, k \in Nat : j < k /\ Appends(v, j) /\ Appends(v, k) => v.todo[j].seq < v.todo[k].seq
    <2> SUFFICES ASSUME NEW j \in Nat, NEW k \in Nat, j < k, Appends(v, j), Appends(v, k)
                 PROVE v.todo[j].seq < v.todo[k].seq
      OBVIOUS
    <2>1. j + d \in Nat /\ k + d \in Nat /\ j + d < k + d
      OBVIOUS
    <2> QED BY <1>0, <2>1 DEF Apart
  <1> QED BY <1>1, <1>2, <1>3, <1>4 DEF Apart

LEMMA SaidInOrder ==
    ASSUME NEW s, NEW t, StreamOK(s, t), Spoken(s, t), NEW order \in Seq(Nat), Ascends(order)
    PROVE  InOrder(Said(s, order))
  <1> DEFINE text == Said(s, order)
  <1>1. DOMAIN text = 1..Len(order) /\ \A k \in 1..Len(order) : text[k] = TextOf(s, order[k])
    BY DEF Said
  <1> HIDE DEF text
  <1>2. \A k \in 1..Len(order) : \A a \in DOMAIN text[k] :
          /\ order[k] \in Nat /\ order[k] \in DOMAIN s.texts /\ text[k] = s.texts[order[k]]
          /\ text[k][a] \in Nat /\ Belongs(s, t, order[k], text[k][a]) /\ Ascends(text[k])
    <2> SUFFICES ASSUME NEW k \in 1..Len(order), NEW a \in DOMAIN text[k]
                 PROVE  /\ order[k] \in Nat /\ order[k] \in DOMAIN s.texts /\ text[k] = s.texts[order[k]]
                        /\ text[k][a] \in Nat /\ Belongs(s, t, order[k], text[k][a]) /\ Ascends(text[k])
      OBVIOUS
    <2>1. order[k] \in DOMAIN s.texts /\ text[k] = s.texts[order[k]]
      BY <1>1 DEF TextOf
    <2>2. s.texts[order[k]] \in Seq(Nat)
      BY <2>1, Numbers
    <2>3. text[k][a] \in Nat /\ text[k][a] \in Range(s.texts[order[k]])
      BY <2>1, <2>2 DEF Range
    <2> QED BY <2>1, <2>3 DEF Belongs, Spoken, Shape
  <1>3. SUFFICES ASSUME NEW k \in DOMAIN text, NEW l \in DOMAIN text, NEW a \in DOMAIN text[k],
                        NEW b \in DOMAIN text[l], k < l \/ (k = l /\ a < b)
                 PROVE  text[k][a] < text[l][b]
    BY DEF InOrder, text
  <1>4. k \in 1..Len(order) /\ l \in 1..Len(order)
    BY <1>1
  <1>5. CASE k = l /\ a < b
    BY <1>2, <1>4, <1>5 DEF Ascends
  <1>6. CASE k < l
    <2>1. order[k] < order[l]
      BY <1>4, <1>6 DEF Ascends
    <2> QED BY <1>2, <1>4, <2>1 DEF Spoken, Apart
  <1> QED BY <1>3, <1>5, <1>6

-----------------------------------------------------------------------------
(* The manager and the order *)
LEMMA NoStreamSpoken == Spoken(NoStream, NoStt)
  <1>1. NoStream.committed = <<>> /\ NoStream.texts = <<>> /\ NoStt.todo = <<>> /\ NoStt.buf = <<>>
        /\ NoStt.owed = {}
    BY DEF NoStream, NoStt
  <1>2. DOMAIN <<>> = {} /\ Range(<<>>) = {}
    BY DEF Range
  <1>3. Shape(NoStream, NoStt)
    BY <1>1, <1>2 DEF Shape, Ascends
  <1>4. \A g, a \in Nat : ~Belongs(NoStream, NoStt, g, a)
    BY <1>1, <1>2 DEF Belongs
  <1>5. \A k \in Nat : ~Appends(NoStt, k)
    BY <1>1, <1>2 DEF Appends
  <1> QED BY <1>3, <1>4, <1>5 DEF Spoken, Apart

\* Commands that append nothing.
NoAppends(commands) == \A k \in DOMAIN commands : commands[k].op # "append"
LEMMA WithAppends ==
    ASSUME NEW t, SttTypeOK(t), NEW commands \in Seq(Commands), NoAppends(commands)
    PROVE  Follows(With(t, commands), t)
  <1> DEFINE u == t.todo
  <1>1. u \in Seq(Commands)
    BY DEF SttTypeOK
  <1>2. With(t, commands).todo = u \o commands
    BY DEF With, SttTypeOK
  <1> SUFFICES ASSUME NEW k \in Nat, Appends(With(t, commands), k)
               PROVE  Appends(t, k + 0) /\ t.todo[k + 0] = With(t, commands).todo[k]
    BY DEF Follows
  <1>3. k \in DOMAIN (u \o commands) /\ (u \o commands)[k].op = "append"
    BY <1>2 DEF Appends
  <1>4. k \in 1..Len(u)
    <2> HIDE DEF u
    <2>1. SUFFICES ASSUME k > Len(u) PROVE FALSE
      BY <1>1, <1>3
    <2>2. (k - Len(u)) \in DOMAIN commands /\ (u \o commands)[k] = commands[k - Len(u)]
      BY <1>1, <1>3, <2>1
    <2> QED BY <1>3, <2>2 DEF NoAppends
  <1>5. k \in DOMAIN u /\ (u \o commands)[k] = u[k] /\ k + 0 = k
    <2> HIDE DEF u
    <2> QED BY <1>1, <1>4
  <1> QED BY <1>2, <1>3, <1>5 DEF Appends

LEMMA WithKeeps ==
    ASSUME NEW t, SttTypeOK(t), NEW commands
    PROVE  With(t, commands).cur = t.cur /\ With(t, commands).buf = t.buf /\ With(t, commands).owed = t.owed
  BY DEF With, SttTypeOK

\* A stream whose committed segments and chunks are as they were, with fewer texts.
LEMMA SpokenKept ==
    ASSUME NEW s, NEW t, NEW u, StreamOK(s, t), Spoken(s, t), u.next = s.next, u.committed = s.committed,
           DOMAIN u.texts \subseteq DOMAIN s.texts, \A g \in DOMAIN u.texts : u.texts[g] = s.texts[g],
           NEW commands \in Seq(Commands), NoAppends(commands)
    PROVE  Spoken(u, With(t, commands))
  <1> DEFINE v == With(t, commands)
  <1>1. v.cur = t.cur /\ v.buf = t.buf /\ v.owed = t.owed
    BY WithKeeps DEF StreamOK
  <1>2. Follows(v, t)
    BY WithAppends DEF StreamOK
  <1> HIDE DEF v
  <1>3. Shape(u, v)
    BY <1>1 DEF Spoken, Shape
  <1>4. Within(u, v, s, t)
    BY <1>1 DEF Within, Belongs
  <1>5. Apart(u, v)
    BY <1>2, <1>4, Narrowed DEF Spoken
  <1> QED BY <1>3, <1>5 DEF Spoken, v

LEMMA SealNoAppends == ASSUME NEW s PROVE NoAppends(SealCommands(s))
  BY DEF NoAppends, SealCommands

LEMMA SealedSpoken ==
    ASSUME NEW s, NEW t, StreamOK(s, t), Spoken(s, t)
    PROVE  Spoken(Sealed(s), With(t, SealCommands(s)))
  BY SealedTypeOK, SealCommandsType, SealNoAppends, SpokenKept DEF StreamOK

LEMMA ToldConcat ==
    ASSUME NEW p \in Seq(DownMessages), NEW q \in Seq(DownMessages), ToldInOrder(p), ToldInOrder(q)
    PROVE  ToldInOrder(p \o q)
  <1> SUFFICES ASSUME NEW k \in DOMAIN (p \o q), (p \o q)[k].type \in {"partial", "final"}
               PROVE  InOrder((p \o q)[k].text)
    BY DEF ToldInOrder
  <1>1. CASE k \in DOMAIN p
    <2>1. (p \o q)[k] = p[k]
      BY <1>1
    <2> QED BY <1>1, <2>1 DEF ToldInOrder
  <1>2. CASE k \notin DOMAIN p
    <2>1. (k - Len(p)) \in DOMAIN q /\ (p \o q)[k] = q[k - Len(p)]
      BY <1>2
    <2> QED BY <2>1 DEF ToldInOrder
  <1> QED BY <1>1, <1>2

LEMMA ToldNothing == ToldInOrder(<<>>) /\ \A i : ToldInOrder(Fail(i))
  BY DEF ToldInOrder, Fail

LEMMA SayInOrder ==
    ASSUME down \in Seq(DownMessages), ToldInOrder(down), NEW msgs \in Seq(DownMessages), ToldInOrder(msgs),
           Say(msgs)
    PROVE  ToldInOrder(down')
  BY ToldConcat DEF Say

LEMMA ForgetSpoken ==
    ASSUME ServerTypes, StreamsSpoken, NEW i \in Ids, down \in Seq(DownMessages), ToldInOrder(down),
           NEW msgs \in Seq(DownMessages), ToldInOrder(msgs), Forget(i, msgs)
    PROVE  StreamsSpoken' /\ ToldInOrder(down')
  <1>1. ToldInOrder(down')
    BY SayInOrder DEF Forget
  <1>2. StreamsSpoken'
    BY NoStreamSpoken DEF Forget, ServerTypes, StreamsSpoken
  <1> QED BY <1>1, <1>2

LEMMA ConcludeSpoken ==
    ASSUME ServerTypes, StreamsSpoken, NEW i \in Ids, down \in Seq(DownMessages), ToldInOrder(down),
           NEW s, NEW commands, NEW service, NEW msgs \in Seq(DownMessages), ToldInOrder(msgs),
           StreamOK(s, With(service, commands)), Spoken(s, With(service, commands)),
           Conclude(i, s, commands, service, msgs)
    PROVE  StreamsSpoken' /\ ToldInOrder(down')
  <1>1. CASE Done(s)
    <2> DEFINE last == <<[type |-> "final", id |-> i, text |-> WholeText(s)]>>
    <2>1. WholeText(s) \in Texts /\ WholeText(s) = Said(s, s.committed) /\ s.committed \in Seq(Nat)
      BY <1>1, OrderedWhenDone, SaidType DEF WholeText, StreamOK, Settled, StreamTypeOK
    <2>2. InOrder(WholeText(s))
      BY <2>1, SaidInOrder DEF Spoken, Shape
    <2>3. last \in Seq(DownMessages)
      BY <2>1 DEF DownMessages
    <2>4. ToldInOrder(last)
      BY <2>2 DEF ToldInOrder
    <2>5. Forget(i, msgs \o last)
      BY <1>1 DEF Conclude
    <2> HIDE DEF last
    <2>6. msgs \o last \in Seq(DownMessages) /\ ToldInOrder(msgs \o last)
      BY <2>3, <2>4, ToldConcat
    <2> QED BY <2>5, <2>6, ForgetSpoken
  <1>2. CASE ~Done(s)
    <2>1. /\ stream' = [stream EXCEPT ![i] = s]
          /\ stt' = [stt EXCEPT ![i] = With(service, commands)] /\ Say(msgs)
      BY <1>2 DEF Conclude, With
    <2>2. StreamsSpoken'
      BY <2>1 DEF ServerTypes, StreamsSpoken
    <2>3. ToldInOrder(down')
      BY <2>1, SayInOrder
    <2> QED BY <2>2, <2>3
  <1> QED BY <1>1, <1>2

LEMMA PairConcat ==
    ASSUME NEW x, NEW y
    PROVE  Len(<<x>> \o <<y>>) = 2 /\ (<<x>> \o <<y>>)[1] = x /\ (<<x>> \o <<y>>)[2] = y
  OBVIOUS

\* The next chunk is later than all that came before it.
LEMMA ForwardSpoken ==
    ASSUME NEW s, NEW t, StreamOK(s, t), Spoken(s, t), NEW m \in UpMessages, m.type = "chunk", m.seq = s.next
    PROVE  Spoken(ForwardNext(m, s), With(t, ForwardCommands(m, s)))
  <1> DEFINE u == ForwardNext(m, s)
             c == ForwardCommands(m, s)
             v == With(t, c)
             q == t.todo
  <1>1. u.next = s.next + 1 /\ u.committed = s.committed /\ u.texts = s.texts
    BY ForwardTypeOK DEF StreamOK
  <1>2. v.cur = t.cur /\ v.buf = t.buf /\ v.owed = t.owed
    BY WithKeeps DEF StreamOK
  <1>3. \A g, a \in Nat : Belongs(u, v, g, a) <=> Belongs(s, t, g, a)
    BY <1>1, <1>2 DEF Belongs
  <1>4. Shape(u, v)
    BY <1>1, <1>2 DEF Spoken, Shape
  <1>5. q \in Seq(Commands) /\ s.next \in Nat
    BY Numbers
  <1>6. v.todo = q \o c
    BY DEF With, StreamOK, SttTypeOK
  <1>7. c \in Seq(Commands) /\ Len(c) \in {1, 2} /\ c[1] = [op |-> "append", seq |-> m.seq]
        /\ (Len(c) = 2 => c[2].op # "append")
    <2>1. c \in Seq(Commands)
      BY ForwardTypeOK DEF StreamOK
    <2> DEFINE one == <<[op |-> "append", seq |-> m.seq]>>
               auto == s.last = 0 /\ s.bytes + 1 >= AutoCommit
               loud == s.loud \/ m.loud
    <2>2. c = one \o <<>> \/ \E op \in {"commit", "clear"} : c = one \o <<[op |-> op]>>
      BY DEF ForwardCommands
    <2>3. CASE c = one \o <<>>
      <3>1. one \o <<>> = one
        OBVIOUS
      <3>2. Len(one) = 1 /\ one[1] = [op |-> "append", seq |-> m.seq]
        OBVIOUS
      <3> HIDE DEF c, one
      <3> QED BY <2>1, <2>3, <3>1, <3>2
    <2>4. ASSUME NEW op \in {"commit", "clear"}, c = one \o <<[op |-> op]>>
          PROVE  Len(c) = 2 /\ c[1] = [op |-> "append", seq |-> m.seq] /\ c[2].op # "append"
      <3> DEFINE x == [op |-> "append", seq |-> m.seq]
                 y == [op |-> op]
      <3>1. c = <<x>> \o <<y>> /\ y.op # "append"
        BY <2>4
      <3> HIDE DEF c, x, y
      <3>2. Len(c) = 2 /\ c[1] = x /\ c[2] = y
        BY <3>1, PairConcat
      <3> QED BY <3>1, <3>2 DEF x
    <2> HIDE DEF c, one
    <2> QED BY <2>1, <2>2, <2>3, <2>4
  <1> DEFINE new == Len(q) + 1
  <1>8. \A k \in Nat : Appends(v, k) => \/ Appends(t, k) /\ v.todo[k] = t.todo[k] /\ k < new
                                        \/ k = new /\ v.todo[k].seq = s.next
    <2> SUFFICES ASSUME NEW k \in Nat, Appends(v, k)
                 PROVE  \/ Appends(t, k) /\ v.todo[k] = t.todo[k] /\ k < new
                        \/ k = new /\ v.todo[k].seq = s.next
      OBVIOUS
    <2> HIDE DEF u, c, v
    <2>1. k \in DOMAIN (q \o c) /\ (q \o c)[k].op = "append"
      BY <1>6 DEF Appends
    <2>2. CASE k \in DOMAIN q
      <3> HIDE DEF q
      <3>1. (q \o c)[k] = q[k] /\ k < new
        BY <1>5, <1>7, <2>2
      <3> QED BY <1>6, <2>1, <2>2, <3>1 DEF Appends, q
    <2>3. CASE k \notin DOMAIN q
      <3> HIDE DEF q
      <3>1. (k - Len(q)) \in DOMAIN c /\ (q \o c)[k] = c[k - Len(q)]
        BY <1>5, <1>7, <2>1, <2>3
      <3>2. k - Len(q) = 1 \/ (k - Len(q) = 2 /\ Len(c) = 2)
        BY <1>5, <1>7, <3>1
      <3>3. k = new
        BY <1>5, <1>7, <2>1, <3>1, <3>2
      <3>4. k - Len(q) = 1
        BY <1>5, <3>3
      <3> QED BY <1>6, <1>7, <3>1, <3>3, <3>4
    <2> QED BY <2>2, <2>3
  <1> HIDE DEF u, c, v, q
  <1>9. Apart(u, v)
    <2>1. \A g, h, a, b \in Nat : g < h /\ Belongs(u, v, g, a) /\ Belongs(u, v, h, b) => a < b
      BY <1>3 DEF Spoken, Apart
    <2>2. \A g, a \in Nat : Belongs(u, v, g, a) =>
            a < u.next /\ \A k \in Nat : Appends(v, k) => a < v.todo[k].seq
      BY <1>1, <1>3, <1>5, <1>8 DEF Spoken, Apart
    <2>3. \A k \in Nat : Appends(v, k) => v.todo[k].seq < u.next
      <3> SUFFICES ASSUME NEW k \in Nat, Appends(v, k) PROVE v.todo[k].seq < s.next + 1
        BY <1>1
      <3>1. Appends(t, k) => t.todo[k].seq \in Nat /\ t.todo[k].seq < s.next
        BY Numbers DEF Spoken, Apart
      <3> QED BY <1>5, <1>8, <3>1
    <2>4. \A j, k \in Nat : j < k /\ Appends(v, j) /\ Appends(v, k) => v.todo[j].seq < v.todo[k].seq
      <3> SUFFICES ASSUME NEW j \in Nat, NEW k \in Nat, j < k, Appends(v, j), Appends(v, k)
                   PROVE  v.todo[j].seq < v.todo[k].seq
        OBVIOUS
      <3>1. new \in Nat
        BY <1>5
      <3>2. Appends(t, j) /\ v.todo[j] = t.todo[j]
        BY <1>8, <3>1
      <3>3. t.todo[j].seq < s.next
        BY <3>2 DEF Spoken, Apart
      <3> QED BY <1>8, <3>2, <3>3 DEF Spoken, Apart
    <2> QED BY <2>1, <2>2, <2>3, <2>4 DEF Apart
  <1> QED BY <1>4, <1>9 DEF Spoken, u, c, v

\* The service's head command is done.
Served(t) == [t EXCEPT !.todo = Tail(@)]
LEMMA ServedKeeps ==
    ASSUME NEW t, SttTypeOK(t), t.todo # <<>>
    PROVE  /\ Served(t).todo = Tail(t.todo) /\ Served(t).todo \in Seq(Commands)
           /\ Served(t).cur = t.cur /\ Served(t).buf = t.buf /\ Served(t).owed = t.owed
           /\ \A v : v.todo = Tail(t.todo) => Follows(v, t)
  <1> DEFINE q == t.todo
  <1>1. q \in Seq(Commands) /\ q # <<>>
    BY DEF SttTypeOK
  <1>2. Served(t).todo = Tail(q) /\ Served(t).cur = t.cur /\ Served(t).buf = t.buf /\ Served(t).owed = t.owed
    BY DEF Served, SttTypeOK
  <1>3. \A k \in DOMAIN Tail(q) : k \in Nat /\ k + 1 \in DOMAIN q /\ q[k + 1] = Tail(q)[k]
    <2> HIDE DEF q
    <2> QED BY <1>1
  <1>4. Tail(q) \in Seq(Commands)
    <2> HIDE DEF q
    <2> QED BY <1>1
  <1> QED BY <1>2, <1>3, <1>4 DEF Appends, Follows

LEMMA AppendAscends ==
    ASSUME NEW q \in Seq(Nat), NEW g \in Nat, Ascends(q), \A k \in DOMAIN q : q[k] < g
    PROVE  Ascends(Append(q, g))
  <1> SUFFICES ASSUME NEW j \in DOMAIN Append(q, g), NEW k \in DOMAIN Append(q, g), j < k
               PROVE  Append(q, g)[j] < Append(q, g)[k]
    BY DEF Ascends
  <1>1. /\ j \in DOMAIN q /\ Append(q, g)[j] = q[j]
        /\ (k \in DOMAIN q => Append(q, g)[k] = q[k]) /\ (k \notin DOMAIN q => Append(q, g)[k] = g)
    OBVIOUS
  <1> QED BY <1>1 DEF Ascends

LEMMA AppendServed ==
    ASSUME NEW s, NEW t, StreamOK(s, t), Spoken(s, t), t.todo # <<>>, Head(t.todo).op = "append",
           NEW v, v.todo = Tail(t.todo), v.cur = t.cur, v.owed = t.owed, v.buf = Append(t.buf, Head(t.todo).seq)
    PROVE  Spoken(s, v)
  <1> DEFINE n == Head(t.todo).seq
  <1>1. t.buf \in Seq(Nat) /\ t.cur \in Nat /\ s.next \in Nat
    BY Numbers
  <1>2. Appends(t, 1) /\ n = t.todo[1].seq /\ n \in Nat
    <2>1. t.todo \in Seq(Commands)
      BY Numbers
    <2>2. Head(t.todo) = t.todo[1] /\ 1 \in DOMAIN t.todo
      BY <2>1
    <2>3. Appends(t, 1)
      BY <2>2 DEF Appends
    <2> QED BY <2>2, <2>3, Numbers
  <1>3. \A k \in Nat : Appends(v, k) => k + 1 \in Nat /\ 1 < k + 1 /\ Appends(t, k + 1) /\ t.todo[k + 1] = v.todo[k]
    <2> SUFFICES ASSUME NEW k \in Nat, Appends(v, k)
                 PROVE  k + 1 \in Nat /\ 1 < k + 1 /\ Appends(t, k + 1) /\ t.todo[k + 1] = v.todo[k]
      OBVIOUS
    <2> DEFINE q == t.todo
    <2>1. q \in Seq(Commands) /\ k \in DOMAIN Tail(q) /\ v.todo = Tail(q) /\ q # <<>>
      BY Numbers DEF Appends
    <2>2. v.todo[k].op = "append"
      BY DEF Appends
    <2> HIDE DEF q
    <2>3. k + 1 \in Nat /\ 1 < k + 1 /\ k + 1 \in DOMAIN q /\ q[k + 1] = Tail(q)[k]
      <3>1. k \in 1..Len(Tail(q)) /\ Len(Tail(q)) = Len(q) - 1
        BY <2>1
      <3> QED BY <2>1, <3>1
    <2> QED BY <2>1, <2>2, <2>3 DEF Appends, q
  <1>4. Range(v.buf) = Range(t.buf) \cup {n} /\ \A j \in DOMAIN t.buf : t.buf[j] \in Range(t.buf)
    <2> DEFINE q == t.buf
    <2> HIDE DEF n
    <2>1. q \in Seq(Nat) /\ n \in Nat
      BY <1>1, <1>2
    <2> HIDE DEF q
    <2>2. /\ Append(q, n) \in Seq(Nat) /\ DOMAIN Append(q, n) = DOMAIN q \cup {Len(q) + 1}
          /\ \A k \in DOMAIN q : Append(q, n)[k] = q[k]
          /\ Append(q, n)[Len(q) + 1] = n
      BY <2>1
    <2>3. Range(Append(q, n)) = Range(q) \cup {n}
      BY ONLY <2>2 DEF Range
    <2> QED BY <2>3 DEF Range, q, n
  <1>5. \A a \in Range(t.buf) : a \in Nat /\ a < n
    <2> SUFFICES ASSUME NEW a \in Range(t.buf) PROVE a \in Nat /\ a < n
      OBVIOUS
    <2>1. a \in Nat
      BY <1>1, RangeIn
    <2>2. Belongs(s, t, t.cur, a)
      BY DEF Belongs
    <2> QED BY <1>1, <1>2, <2>1, <2>2 DEF Spoken, Apart
  <1> HIDE DEF n
  <1>6. Ascends(v.buf)
    <2> DEFINE q == t.buf
    <2>1. v.buf = Append(q, n) /\ q \in Seq(Nat) /\ n \in Nat
      BY <1>1, <1>2 DEF n
    <2>2. \A l \in DOMAIN q : q[l] < n
      BY <1>5 DEF Range
    <2>3. Ascends(q)
      BY DEF Spoken, Shape
    <2> HIDE DEF q
    <2> QED BY <2>1, <2>2, <2>3, AppendAscends
  <1>7. Shape(s, v)
    BY <1>6 DEF Spoken, Shape
  <1>8. \A g, a \in Nat : Belongs(s, v, g, a) => Belongs(s, t, g, a) \/ (g = t.cur /\ a = n)
    BY <1>4 DEF Belongs
  <1>9. \A g, a \in Nat : Belongs(s, t, g, a) => g <= t.cur /\ a < n
    <2> SUFFICES ASSUME NEW g \in Nat, NEW a \in Nat, Belongs(s, t, g, a) PROVE g <= t.cur /\ a < n
      OBVIOUS
    <2>1. a < n
      BY <1>2 DEF Spoken, Apart
    <2>2. g <= t.cur
      <3>1. \A o \in t.owed : o.seg \in Range(s.committed) /\ o.seg < t.cur
        BY Numbers DEF Spoken, Shape
      <3> QED BY <1>1, <3>1 DEF Belongs, Spoken, Shape
    <2> QED BY <2>1, <2>2
  <1>10. Apart(s, v)
    <2>1. \A g, h, a, b \in Nat : g < h /\ Belongs(s, v, g, a) /\ Belongs(s, v, h, b) => a < b
      <3> SUFFICES ASSUME NEW g \in Nat, NEW h \in Nat, NEW a \in Nat, NEW b \in Nat, g < h,
                          Belongs(s, v, g, a), Belongs(s, v, h, b)
                   PROVE  a < b
        OBVIOUS
      <3>1. g # t.cur \/ h # t.cur
        OBVIOUS
      <3>2. h <= t.cur
        BY <1>1, <1>8, <1>9
      <3>3. Belongs(s, t, g, a)
        BY <1>1, <1>8, <3>2
      <3>4. Belongs(s, t, h, b) => a < b
        BY <3>3 DEF Spoken, Apart
      <3> QED BY <1>8, <1>9, <3>3, <3>4
    <2>2. \A g, a \in Nat : Belongs(s, v, g, a) =>
            a < s.next /\ \A k \in Nat : Appends(v, k) => a < v.todo[k].seq
      <3> SUFFICES ASSUME NEW g \in Nat, NEW a \in Nat, Belongs(s, v, g, a)
                   PROVE  a < s.next /\ \A k \in Nat : Appends(v, k) => a < v.todo[k].seq
        OBVIOUS
      <3>1. CASE Belongs(s, t, g, a)
        <4>1. a < s.next /\ \A k \in Nat : Appends(t, k) => a < t.todo[k].seq
          BY <3>1 DEF Spoken, Apart
        <4>2. ASSUME NEW k \in Nat, Appends(v, k) PROVE a < v.todo[k].seq
          <5>1. k + 1 \in Nat /\ Appends(t, k + 1) /\ t.todo[k + 1] = v.todo[k]
            BY <1>3, <4>2
          <5> QED BY <4>1, <5>1
        <4> QED BY <4>1, <4>2
      <3>2. CASE a = n
        <4>1. n < s.next
          BY <1>2 DEF Spoken, Apart
        <4>2. ASSUME NEW k \in Nat, Appends(v, k) PROVE n < v.todo[k].seq
          <5>1. k + 1 \in Nat /\ 1 < k + 1 /\ Appends(t, k + 1) /\ t.todo[k + 1] = v.todo[k]
            BY <1>3, <4>2
          <5>2. t.todo[1].seq < t.todo[k + 1].seq
            BY <1>2, <5>1 DEF Spoken, Apart
          <5> QED BY <1>2, <5>1, <5>2
        <4> QED BY <3>2, <4>1, <4>2
      <3> QED BY <1>8, <3>1, <3>2
    <2>3. \A k \in Nat : Appends(v, k) => v.todo[k].seq < s.next
      <3> SUFFICES ASSUME NEW k \in Nat, Appends(v, k) PROVE v.todo[k].seq < s.next
        OBVIOUS
      <3>1. k + 1 \in Nat /\ Appends(t, k + 1) /\ t.todo[k + 1] = v.todo[k]
        BY <1>3
      <3> QED BY <3>1 DEF Spoken, Apart
    <2>4. \A j, k \in Nat : j < k /\ Appends(v, j) /\ Appends(v, k) => v.todo[j].seq < v.todo[k].seq
      <3> SUFFICES ASSUME NEW j \in Nat, NEW k \in Nat, j < k, Appends(v, j), Appends(v, k)
                   PROVE  v.todo[j].seq < v.todo[k].seq
        OBVIOUS
      <3>1. j + 1 \in Nat /\ k + 1 \in Nat /\ j + 1 < k + 1
        OBVIOUS
      <3> QED BY <1>3, <3>1 DEF Spoken, Apart
    <2> QED BY <2>1, <2>2, <2>3, <2>4 DEF Apart
  <1> QED BY <1>7, <1>10 DEF Spoken

\* "clear", and a commit that was refused: less is known, of a later segment.
LEMMA ClearServed ==
    ASSUME NEW s, NEW t, StreamOK(s, t), Spoken(s, t), t.todo # <<>>,
           NEW u, u.next = s.next, u.committed = s.committed, u.texts = s.texts,
           NEW v, v.todo = Tail(t.todo), v.owed = t.owed,
           \/ v.buf = t.buf /\ v.cur = t.cur
           \/ v.buf = <<>> /\ v.cur = t.cur + 1
    PROVE  Spoken(u, v)
  <1>1. t.cur \in Nat /\ s.committed \in Seq(Nat) /\ DOMAIN s.texts \subseteq Nat
        /\ Range(s.committed) \subseteq Nat
    BY Numbers, RangeIn
  <1>2. Ascends(v.buf) /\ ((v.buf = t.buf /\ v.cur = t.cur) \/ Range(v.buf) = {})
    BY DEF Spoken, Shape, Ascends, Range
  <1>3. Shape(u, v)
    <2>1. Ascends(v.buf)
      BY <1>2
    <2>2. v.cur \in Nat /\ t.cur <= v.cur
      BY <1>1
    <2>3. \A g \in Range(u.committed) : g < v.cur
      BY <1>1, <2>2 DEF Spoken, Shape
    <2>4. \A g \in DOMAIN u.texts : g <= v.cur /\ Ascends(u.texts[g])
      BY <1>1, <2>2 DEF Spoken, Shape
    <2> QED BY <2>1, <2>3, <2>4 DEF Spoken, Shape
  <1>4. Within(u, v, s, t)
    BY <1>2 DEF Within, Belongs
  <1>5. Follows(v, t)
    BY ServedKeeps DEF StreamOK
  <1>6. Apart(u, v)
    BY <1>4, <1>5, Narrowed DEF Spoken
  <1> QED BY <1>3, <1>6 DEF Spoken

\* "committed": the current segment is the last of the committed, and its text is owed.
LEMMA CommitServed ==
    ASSUME NEW s, NEW t, StreamOK(s, t), Spoken(s, t), t.todo # <<>>,
           NEW u, u.next = s.next, u.committed = Append(s.committed, t.cur), u.texts = s.texts,
           NEW v, v.todo = Tail(t.todo), v.owed = t.owed \cup {[seg |-> t.cur, text |-> t.buf]},
           v.buf = <<>>, v.cur = t.cur + 1
    PROVE  Spoken(u, v)
  <1>1. t.cur \in Nat /\ s.committed \in Seq(Nat) /\ DOMAIN s.texts \subseteq Nat
        /\ Range(s.committed) \subseteq Nat
    BY Numbers, RangeIn
  <1> DEFINE q == s.committed
             n == t.cur
  <1>2. /\ DOMAIN Append(q, n) = DOMAIN q \cup {Len(q) + 1}
        /\ \A k \in DOMAIN q : Append(q, n)[k] = q[k] /\ q[k] \in Range(q)
        /\ Append(q, n)[Len(q) + 1] = n /\ DOMAIN q = 1..Len(q) /\ Len(q) \in Nat
    <2>1. q \in Seq(Nat) /\ n \in Nat
      BY <1>1
    <2> HIDE DEF q, n
    <2> QED BY <2>1 DEF Range
  <1>3. Shape(u, v)
    <2>1. Ascends(v.buf) /\ Range(v.buf) = {}
      BY DEF Ascends, Range
    <2>2. \A g \in Range(q) : g \in Nat /\ g < n
      BY <1>1 DEF Spoken, Shape
    <2>3. Range(u.committed) = Range(q) \cup {n}
      <3> HIDE DEF q, n
      <3>1. u.committed = Append(q, n)
        BY DEF q, n
      <3> QED BY <1>2, <3>1 DEF Range
    <2>4. Ascends(u.committed)
      <3>1. Ascends(q)
        BY DEF Spoken, Shape
      <3>2. u.committed = Append(q, n)
        OBVIOUS
      <3>3. q \in Seq(Nat) /\ n \in Nat
        BY <1>1
      <3> HIDE DEF q, n
      <3>4. \A k \in DOMAIN q : q[k] < n
        BY <1>2, <2>2
      <3> QED BY <3>1, <3>2, <3>3, <3>4, AppendAscends
    <2>5. \A g \in Range(u.committed) : g < v.cur
      BY <1>1, <2>2, <2>3
    <2>6. \A g \in DOMAIN u.texts : g <= v.cur /\ Ascends(u.texts[g])
      BY <1>1 DEF Spoken, Shape
    <2>7. \A o \in v.owed : Ascends(o.text)
      BY DEF Spoken, Shape
    <2> QED BY <2>1, <2>4, <2>5, <2>6, <2>7 DEF Shape
  <1>4. Within(u, v, s, t)
    <2>1. Range(v.buf) = {}
      BY DEF Range
    <2> QED BY <2>1 DEF Within, Belongs
  <1>5. Follows(v, t)
    BY ServedKeeps DEF StreamOK
  <1>6. Apart(u, v)
    BY <1>4, <1>5, Narrowed DEF Spoken
  <1> QED BY <1>3, <1>6 DEF Spoken

\* "transcript": what is heard of a segment was already its own.
LEMMA HeardSpoken ==
    ASSUME NEW s, NEW t, StreamOK(s, t), Spoken(s, t), NEW g \in Nat, NEW text \in Text,
           NEW final \in SUBSET Nat, g <= t.cur, Ascends(text), \A a \in Range(text) : Belongs(s, t, g, a),
           NEW v, v.todo = t.todo, v.buf = t.buf, v.cur = t.cur, v.owed \subseteq t.owed
    PROVE  Spoken(Heard(s, g, text, final), v)
  <1> DEFINE u == Heard(s, g, text, final)
  <1>1. /\ u.committed = s.committed /\ u.next = s.next
        /\ DOMAIN u.texts = DOMAIN s.texts \cup {g} /\ u.texts[g] = text
        /\ \A h \in DOMAIN s.texts : h # g => u.texts[h] = s.texts[h]
    <2>1. StreamTypeOK(s)
      BY DEF StreamOK
    <2> QED BY ONLY <2>1, g \in Nat, text \in Text, final \in SUBSET Nat, HeardTypeOK, SMTT(30)
  <1> HIDE DEF u
  <1>2. Shape(u, v)
    BY <1>1 DEF Spoken, Shape
  <1>3. Within(u, v, s, t)
    BY <1>1 DEF Within, Belongs
  <1>4. Follows(v, t)
    <2>1. \A k \in Nat : k + 0 = k
      OBVIOUS
    <2> QED BY <2>1 DEF Appends, Follows
  <1>5. Apart(u, v)
    BY <1>1, <1>3, <1>4, Narrowed DEF Spoken
  <1> QED BY <1>2, <1>5 DEF Spoken, u

LEMMA HearSpoken ==
    ASSUME ServerTypes, StreamsSpoken, NEW i \in Ids, down \in Seq(DownMessages), ToldInOrder(down),
           NEW g \in Nat, NEW text \in Text, NEW final \in SUBSET Nat, final \subseteq Range(stream[i].committed),
           g \in Range(stream[i].committed) \/ g = stt[i].cur,
           Ascends(text), \A a \in Range(text) : Belongs(stream[i], stt[i], g, a),
           NEW service, SttTypeOK(service), service.owed \subseteq stt[i].owed,
           service.todo = stt[i].todo, service.buf = stt[i].buf, service.cur = stt[i].cur,
           Hear(i, g, text, final, service)
    PROVE  StreamsSpoken' /\ ToldInOrder(down')
  <1> DEFINE s == Heard(stream[i], g, text, final)
             order == IF g \in Range(s.committed) THEN s.committed ELSE Append(s.committed, g)
             shown == Said(s, order)
             msgs == <<[type |-> "partial", id |-> i, text |-> shown]>>
  <1>0. StreamOK(stream[i], stt[i]) /\ Spoken(stream[i], stt[i])
    BY StreamOKOf DEF StreamsSpoken
  <1>1. /\ StreamTypeOK(s) /\ s.committed = stream[i].committed
        /\ s.final = stream[i].final \cup final
    <2>1. StreamTypeOK(stream[i])
      BY <1>0 DEF StreamOK
    <2> QED BY <2>1, HeardTypeOK
  <1>2. Conclude(i, Sealed(s), SealCommands(s), service, msgs)
    BY DEF Hear
  <1>3. g <= stt[i].cur
    <2>1. stt[i].cur \in Nat /\ (g \in Range(stream[i].committed) => g < stt[i].cur)
      BY <1>0, Numbers DEF Spoken, Shape
    <2> QED BY <2>1
  <1>4. Spoken(s, service)
    BY <1>0, <1>3, HeardSpoken
  <1> HIDE DEF s
  <1>5. StreamOK(s, service)
    BY <1>0, <1>1 DEF Settled, StreamOK
  <1>6. StreamOK(Sealed(s), With(service, SealCommands(s))) /\ Spoken(Sealed(s), With(service, SealCommands(s)))
    BY <1>4, <1>5, SealedOK, SealedSpoken
  <1>7. order \in Seq(Nat) /\ Ascends(order)
    <2>1. s.committed \in Seq(Nat) /\ Ascends(s.committed)
      BY <1>1, <1>4 DEF StreamTypeOK, Spoken, Shape
    <2>2. CASE g \in Range(s.committed)
      BY <2>1, <2>2
    <2>3. CASE g \notin Range(s.committed)
      <3>1. \A k \in DOMAIN s.committed : s.committed[k] \in Range(s.committed)
        BY DEF Range
      <3>2. \A k \in DOMAIN s.committed : s.committed[k] < g
        BY <1>1, <1>4, <2>3, <3>1 DEF Spoken, Shape
      <3> DEFINE q == s.committed
      <3>3. q \in Seq(Nat) /\ Ascends(q) /\ \A k \in DOMAIN q : q[k] < g
        BY <2>1, <3>2
      <3>4. order = Append(q, g)
        BY <2>3
      <3> HIDE DEF q, order
      <3>5. Ascends(Append(q, g))
        BY <3>3, AppendAscends
      <3>6. Append(q, g) \in Seq(Nat)
        BY <3>3
      <3> QED BY <3>4, <3>5, <3>6
    <2> QED BY <2>2, <2>3
  <1> HIDE DEF order
  <1>8. InOrder(shown) /\ shown \in Texts
    BY <1>1, <1>4, <1>5, <1>7, SaidInOrder, SaidType
  <1> HIDE DEF shown
  <1>9. msgs \in Seq(DownMessages) /\ ToldInOrder(msgs)
    BY <1>8 DEF DownMessages, ToldInOrder
  <1> HIDE DEF msgs
  <1> QED BY <1>2, <1>6, <1>9, ConcludeSpoken

LEMMA ServeSpoken ==
    ASSUME Types, StreamsSpoken, ToldInOrder(down), NEW i \in Ids, Serve(i)
    PROVE  StreamsSpoken' /\ ToldInOrder(down')
  <1> DEFINE t == stt[i]
             r == Served(t)
             s == stream[i]
             head == Head(t.todo)
             calm == IF s.last > 0 THEN [s EXCEPT !.awaiting = FALSE] ELSE s
             closed == [calm EXCEPT !.committed = Append(@, r.cur), !.bytes = 0, !.loud = FALSE]
             owes == [r EXCEPT !.buf = <<>>, !.cur = @ + 1, !.owed = @ \cup {[seg |-> r.cur, text |-> r.buf]}]
  <1>0. StreamTypeOK(s) /\ SttTypeOK(t) /\ StreamOK(s, t) /\ Spoken(s, t) /\ ServerTypes
        /\ down \in Seq(DownMessages) /\ ServerTypes'
    BY StreamOKOf, ServeTypes DEF Types, ServerTypes, LinkTypes, StreamsSpoken, StreamOK
  <1>1. t.todo # <<>> /\ r.todo = Tail(t.todo) /\ r.cur = t.cur /\ r.buf = t.buf /\ r.owed = t.owed
    BY <1>0, ServedKeeps DEF Serve
  <1>2. t \in SttRecord(t.owed) /\ r \in SttRecord(t.owed)
    <2>1. Tail(t.todo) \in Seq(Commands)
      BY <1>0, <1>1 DEF SttTypeOK
    <2>2. r = [t EXCEPT !.todo = Tail(t.todo)] /\ t \in SttRecord(t.owed)
      BY <1>0, SttRecordOK DEF Served
    <2> DEFINE q == Tail(t.todo)
    <2> HIDE DEF r, q, t
    <2> QED BY <2>1, <2>2 DEF SttRecord, q
  <1>3. calm.next = s.next /\ calm.committed = s.committed /\ calm.texts = s.texts /\ calm.final = s.final
        /\ StreamTypeOK(calm)
    BY <1>0, SetTypeOK DEF StreamTypeOK
  <1> HIDE DEF r
  <1>4. CASE head.op = "append"
    <2> DEFINE u == [r EXCEPT !.buf = Append(@, head.seq)]
    <2>1. stt' = [stt EXCEPT ![i] = u] /\ UNCHANGED <<stream, down>>
      BY <1>4 DEF Serve, Served, r
    <2>2. u.todo = Tail(t.todo) /\ u.cur = t.cur /\ u.owed = t.owed /\ u.buf = Append(t.buf, head.seq)
      <3> HIDE DEF t
      <3> QED BY <1>1, <1>2 DEF SttRecord
    <2> HIDE DEF u
    <2>3. Spoken(s, u)
      BY <1>0, <1>1, <1>4, <2>2, AppendServed
    <2> QED BY <1>0, <2>1, <2>3 DEF ServerTypes, StreamsSpoken
  <1>5. CASE head.op = "clear"
    <2> DEFINE u == [r EXCEPT !.buf = <<>>, !.cur = @ + 1]
    <2>1. stt' = [stt EXCEPT ![i] = u] /\ UNCHANGED <<stream, down>>
      BY <1>5 DEF Serve, Served, r
    <2>2. u.todo = Tail(t.todo) /\ u.cur = t.cur + 1 /\ u.owed = t.owed /\ u.buf = <<>>
      <3> HIDE DEF t
      <3> QED BY <1>1, <1>2 DEF SttRecord
    <2> HIDE DEF u
    <2>3. Spoken(s, u)
      BY <1>0, <1>1, <2>2, ClearServed
    <2> QED BY <1>0, <2>1, <2>3 DEF ServerTypes, StreamsSpoken
  <1>6. CASE Conclude(i, closed, <<>>, owes, <<>>)
    <2>1. /\ closed.committed = Append(s.committed, t.cur) /\ closed.texts = s.texts /\ closed.final = s.final
          /\ closed.next = s.next /\ StreamTypeOK(closed)
      <3>1. \A g \in Nat : StreamTypeOK([calm EXCEPT !.committed = Append(@, g), !.bytes = 0, !.loud = FALSE])
        BY <1>3, SetTypeOK
      <3>2. t.cur \in Nat
        BY <1>0 DEF SttTypeOK
      <3> HIDE DEF calm
      <3> QED BY <1>1, <1>3, <3>1, <3>2 DEF StreamTypeOK
    <2> DEFINE debt == t.owed \cup {[seg |-> t.cur, text |-> t.buf]}
    <2>2. owes.todo = Tail(t.todo) /\ owes.cur = t.cur + 1 /\ owes.buf = <<>> /\ owes.owed = debt
          /\ owes \in SttRecord(debt)
      <3>1. t.cur + 1 \in Nat
        BY <1>0 DEF SttTypeOK
      <3>2. owes = [r EXCEPT !.buf = <<>>, !.cur = t.cur + 1, !.owed = debt]
        BY <1>1
      <3> HIDE DEF owes, t, debt
      <3> QED BY <1>1, <1>2, <3>1, <3>2, EmptyTypes DEF SttRecord
    <2>3. \A o \in debt : o \in [seg: Nat, text: Text]
      BY <1>0 DEF SttTypeOK
    <2> HIDE DEF owes, closed, calm
    <2>4. SttTypeOK(owes)
      BY <2>2, <2>3, SttRecordOK
    <2>5. Spoken(closed, owes)
      BY <1>0, <1>1, <2>1, <2>2, CommitServed
    <2>6. Settled(closed, owes)
      <3>1. s.committed \in Seq(Nat) /\ t.cur \in Nat
        BY <1>0, Numbers
      <3>2. Range(Append(s.committed, t.cur)) = Range(s.committed) \cup {t.cur}
        <4> DEFINE q == s.committed
                   g == t.cur
        <4>1. q \in Seq(Nat) /\ g \in Nat
          BY <3>1
        <4> HIDE DEF q, g
        <4>2. /\ Append(q, g) \in Seq(Nat) /\ DOMAIN Append(q, g) = DOMAIN q \cup {Len(q) + 1}
              /\ \A k \in DOMAIN q : Append(q, g)[k] = q[k]
              /\ Append(q, g)[Len(q) + 1] = g
          BY <4>1
        <4>3. Range(Append(q, g)) = Range(q) \cup {g}
          BY ONLY <4>2 DEF Range
        <4> QED BY <4>3 DEF q, g
      <3> QED BY <1>0, <2>1, <2>2, <3>2 DEF StreamOK, Settled
    <2>7. StreamOK(closed, With(owes, <<>>)) /\ Spoken(closed, With(owes, <<>>))
      BY <2>1, <2>4, <2>5, <2>6, WithNothing DEF StreamOK
    <2>8. <<>> \in Seq(DownMessages)
      OBVIOUS
    <2> QED BY <1>0, <1>6, <2>7, <2>8, ConcludeSpoken, ToldNothing
  <1>7. CASE Conclude(i, calm, <<>>, r, <<>>)
    <2> HIDE DEF calm
    <2>1. SttTypeOK(r) /\ Settled(calm, r)
      BY <1>0, <1>1, <1>2, <1>3, SttRecordOK DEF SttTypeOK, StreamOK, Settled
    <2>2. Spoken(calm, r)
      BY <1>0, <1>1, <1>3, ClearServed
    <2>3. StreamOK(calm, With(r, <<>>)) /\ Spoken(calm, With(r, <<>>))
      BY <1>3, <2>1, <2>2, WithNothing DEF StreamOK
    <2>4. <<>> \in Seq(DownMessages)
      OBVIOUS
    <2> QED BY <1>0, <1>7, <2>3, <2>4, ConcludeSpoken, ToldNothing
  <1>8. CASE Forget(i, Fail(i))
    BY <1>0, <1>8, ForgetSpoken, FailType, ToldNothing
  <1> QED BY <1>4, <1>5, <1>6, <1>7, <1>8 DEF Serve, Served, r

LEMMA TranscriptSpoken ==
    ASSUME Types, StreamsSpoken, ToldInOrder(down), NEW i \in Ids, Transcript(i)
    PROVE  StreamsSpoken' /\ ToldInOrder(down')
  <1>0. StreamOK(stream[i], stt[i]) /\ Spoken(stream[i], stt[i]) /\ ServerTypes /\ SttTypeOK(stt[i])
        /\ down \in Seq(DownMessages) /\ ServerTypes' /\ Settled(stream[i], stt[i])
    BY StreamOKOf, TranscriptTypes DEF Types, LinkTypes, StreamsSpoken, StreamOK
  <1>1. CASE \E o \in stt[i].owed : Hear(i, o.seg, o.text, {o.seg}, [stt[i] EXCEPT !.owed = @ \ {o}])
    <2>1. PICK o \in stt[i].owed : Hear(i, o.seg, o.text, {o.seg}, [stt[i] EXCEPT !.owed = @ \ {o}])
      BY <1>1
    <2> DEFINE t == [stt[i] EXCEPT !.owed = @ \ {o}]
    <2>2. SttTypeOK(t) /\ t.owed \subseteq stt[i].owed
          /\ t.todo = stt[i].todo /\ t.buf = stt[i].buf /\ t.cur = stt[i].cur
      BY <1>0 DEF SttTypeOK
    <2>3. o.seg \in Nat /\ o.text \in Text /\ o.seg \in Range(stream[i].committed) /\ Ascends(o.text)
      BY <1>0 DEF SttTypeOK, Settled, Spoken, Shape
    <2>4. \A a \in Range(o.text) : Belongs(stream[i], stt[i], o.seg, a)
      BY DEF Belongs
    <2>5. Hear(i, o.seg, o.text, {o.seg}, t)
      BY <2>1
    <2> HIDE DEF t
    <2> QED BY <1>0, <2>2, <2>3, <2>4, <2>5, HearSpoken
  <1>2. CASE stt[i].buf # <<>> /\ Hear(i, stt[i].cur, stt[i].buf, {}, stt[i])
    <2>1. stt[i].cur \in Nat /\ stt[i].buf \in Text /\ Ascends(stt[i].buf)
      BY <1>0 DEF SttTypeOK, Spoken, Shape
    <2>2. \A a \in Range(stt[i].buf) : Belongs(stream[i], stt[i], stt[i].cur, a)
      BY DEF Belongs
    <2> QED BY <1>0, <1>2, <2>1, <2>2, HearSpoken
  <1> QED BY <1>1, <1>2 DEF Transcript

LEMMA HandleChunkSpoken ==
    ASSUME Types, StreamsSpoken, ToldInOrder(down), HandleChunk
    PROVE  StreamsSpoken' /\ ToldInOrder(down')
  <1> DEFINE m == Head(up)
             s == [stream[m.id] EXCEPT !.held = TRUE]
  <1>1. m \in UpMessages /\ m.type = "chunk" /\ m.id \in Ids
    BY HandleTypes DEF HandleChunk
  <1>0. ServerTypes /\ down \in Seq(DownMessages) /\ StreamTypeOK(stream[m.id]) /\ SttTypeOK(stt[m.id])
        /\ StreamOK(stream[m.id], stt[m.id]) /\ Spoken(stream[m.id], stt[m.id])
        /\ <<>> \in Seq(DownMessages) /\ ToldInOrder(<<>>) /\ <<>> \in Seq(Commands) /\ NoAppends(<<>>)
    BY <1>1, ToldNothing DEF Types, LinkTypes, ServerTypes, StreamsSpoken, StreamOK, NoAppends
  <1>2. CASE Say(Fail(m.id)) /\ UNCHANGED server
    BY <1>0, <1>1, <1>2, FailType, ToldNothing, SayInOrder DEF StreamsSpoken, server
  <1>3. CASE phase[m.id] = "open" /\ m.seq = s.next
    <2> DEFINE old == stream[m.id]
               n == ForwardNext(m, old)
               c == ForwardCommands(m, old)
    <2>1. Forward(m, old) /\ m.seq = old.next
      BY <1>0, <1>3 DEF HandleChunk, StreamTypeOK
    <2>2. Conclude(m.id, Sealed(n), c \o SealCommands(n), stt[m.id], <<>>)
      BY <2>1, ForwardMeans
    <2>3. StreamTypeOK(n) /\ c \in Seq(Commands) /\ n.committed = old.committed /\ n.final = old.final
      BY <1>0, <1>1, <2>1, ForwardTypeOK
    <2>4. Spoken(n, With(stt[m.id], c))
      BY <1>0, <1>1, <2>1, ForwardSpoken
    <2> HIDE DEF n, c, m
    <2>5. StreamOK(n, With(stt[m.id], c))
      BY <1>0, <2>3, WithTypeOK DEF StreamOK, Settled
    <2>6. /\ StreamOK(Sealed(n), With(With(stt[m.id], c), SealCommands(n)))
          /\ Spoken(Sealed(n), With(With(stt[m.id], c), SealCommands(n)))
      BY <2>4, <2>5, SealedOK, SealedSpoken
    <2>7. SealCommands(n) \in Seq(Commands)
      BY <2>3, SealCommandsType
    <2>8. /\ StreamOK(Sealed(n), With(stt[m.id], c \o SealCommands(n)))
          /\ Spoken(Sealed(n), With(stt[m.id], c \o SealCommands(n)))
      BY <1>0, <2>3, <2>6, <2>7, ConcatCommands
    <2> QED BY <1>0, <1>1, <2>2, <2>8, ConcludeSpoken
  <1>4. CASE Conclude(m.id, Sealed(s), SealCommands(s), stt[m.id], <<>>)
    <2>1. /\ StreamTypeOK(s) /\ s.committed = stream[m.id].committed /\ s.final = stream[m.id].final
          /\ s.next = stream[m.id].next /\ s.texts = stream[m.id].texts
      BY <1>0, SetTypeOK DEF StreamTypeOK
    <2> HIDE DEF s, m
    <2>2. StreamOK(s, stt[m.id])
      BY <1>0, <2>1 DEF StreamOK, Settled
    <2>3. Spoken(s, stt[m.id])
      <3>1. With(stt[m.id], <<>>) = stt[m.id]
        BY <1>0, WithNothing
      <3>2. Spoken(s, With(stt[m.id], <<>>))
        BY <1>0, <2>1, SpokenKept
      <3> QED BY <3>1, <3>2
    <2>4. StreamOK(Sealed(s), With(stt[m.id], SealCommands(s))) /\ Spoken(Sealed(s), With(stt[m.id], SealCommands(s)))
      BY <2>2, <2>3, SealedOK, SealedSpoken
    <2> QED BY <1>0, <1>1, <1>4, <2>4, ConcludeSpoken
  <1>5. CASE UNCHANGED <<server, down>>
    BY <1>5 DEF StreamsSpoken, server
  <1> QED BY <1>2, <1>3, <1>4, <1>5 DEF HandleChunk

LEMMA HandleFinishSpoken ==
    ASSUME Types, StreamsSpoken, ToldInOrder(down), HandleFinish
    PROVE  StreamsSpoken' /\ ToldInOrder(down')
  <1> DEFINE m == Head(up)
             s == [stream[m.id] EXCEPT !.last = m.last]
  <1>1. m \in UpMessages /\ m.type = "finish" /\ m.id \in Ids /\ m.last \in 0..MaxChunks
    BY HandleTypes DEF HandleFinish, UpMessages
  <1>0. ServerTypes /\ down \in Seq(DownMessages) /\ StreamTypeOK(stream[m.id]) /\ SttTypeOK(stt[m.id])
        /\ StreamOK(stream[m.id], stt[m.id]) /\ Spoken(stream[m.id], stt[m.id])
        /\ <<>> \in Seq(DownMessages) /\ ToldInOrder(<<>>) /\ <<>> \in Seq(Commands) /\ NoAppends(<<>>)
    BY <1>1, ToldNothing DEF Types, LinkTypes, ServerTypes, StreamsSpoken, StreamOK, NoAppends
  <1>2. CASE Say(Fail(m.id)) /\ UNCHANGED server
    BY <1>0, <1>1, <1>2, FailType, ToldNothing, SayInOrder DEF StreamsSpoken, server
  <1>3. CASE Forget(m.id, Fail(m.id))
    BY <1>0, <1>1, <1>3, FailType, ToldNothing, ForgetSpoken
  <1>4. CASE Conclude(m.id, Sealed(s), SealCommands(s), stt[m.id], <<>>)
    <2>1. /\ StreamTypeOK(s) /\ s.committed = stream[m.id].committed /\ s.final = stream[m.id].final
          /\ s.next = stream[m.id].next /\ s.texts = stream[m.id].texts
      BY <1>0, <1>1, SetTypeOK DEF StreamTypeOK
    <2> HIDE DEF s, m
    <2>2. StreamOK(s, stt[m.id])
      BY <1>0, <2>1 DEF StreamOK, Settled
    <2>3. Spoken(s, stt[m.id])
      <3>1. With(stt[m.id], <<>>) = stt[m.id]
        BY <1>0, WithNothing
      <3>2. Spoken(s, With(stt[m.id], <<>>))
        BY <1>0, <2>1, SpokenKept
      <3> QED BY <3>1, <3>2
    <2>4. StreamOK(Sealed(s), With(stt[m.id], SealCommands(s))) /\ Spoken(Sealed(s), With(stt[m.id], SealCommands(s)))
      BY <2>2, <2>3, SealedOK, SealedSpoken
    <2> QED BY <1>0, <1>1, <1>4, <2>4, ConcludeSpoken
  <1> QED BY <1>2, <1>3, <1>4 DEF HandleFinish

LEMMA ToldTail ==
    ASSUME down \in Seq(DownMessages), down # <<>>, ToldInOrder(down)
    PROVE  /\ ToldInOrder(Tail(down))
           /\ Head(down).type \in {"partial", "final"} => InOrder(Head(down).text)
  <1> DEFINE q == down
  <1>1. q \in Seq(DownMessages) /\ q # <<>>
    OBVIOUS
  <1>2. Head(q) = q[1] /\ 1 \in DOMAIN q /\ \A k \in DOMAIN Tail(q) : k + 1 \in DOMAIN q /\ Tail(q)[k] = q[k + 1]
    <2> HIDE DEF q
    <2> QED BY <1>1
  <1> QED BY <1>2 DEF ToldInOrder

\* The daemon's steps tell the app nothing that is out of order.
LEMMA DaemonInOrder ==
    ASSUME Types, TextsInOrder,
           \/ HandleStart \/ HandleChunk \/ HandleFinish \/ HandleCancel
           \/ \E i \in Ids : SttConnects(i) \/ FinalTimeout(i) \/ Serve(i) \/ Transcript(i) \/ SttFails(i)
    PROVE  TextsInOrder'
  <1>0. ServerTypes /\ down \in Seq(DownMessages) /\ StreamsSpoken /\ ToldInOrder(down)
        /\ <<>> \in Seq(DownMessages)
    BY DEF Types, LinkTypes, TextsInOrder
  <1>1. UNCHANGED <<partial, given>>
    BY DEF HandleStart, HandleChunk, HandleFinish, HandleCancel, Handle, SttConnects, FinalTimeout, Serve,
           Transcript, SttFails, Serving, app, hook
  <1>2. StreamsSpoken' /\ ToldInOrder(down')
    <2>1. CASE HandleStart
      <3>1. Head(up).id \in Ids
        BY <2>1, HandleTypes DEF HandleStart
      <3> QED BY <1>0, <2>1, <3>1, FailType, ToldNothing, ForgetSpoken DEF HandleStart, StreamsSpoken
    <2>2. CASE HandleCancel
      <3>1. Head(up).id \in Ids
        BY <2>2, HandleTypes DEF HandleCancel
      <3> QED BY <1>0, <2>2, <3>1, ToldNothing, ForgetSpoken DEF HandleCancel, StreamsSpoken, server
    <2>3. ASSUME NEW i \in Ids, SttConnects(i)
          PROVE  StreamsSpoken' /\ ToldInOrder(down')
      <3>1. CASE Say(<<[type |-> "ack", id |-> i]>>) /\ UNCHANGED <<stream, stt>>
        <4> DEFINE msgs == <<[type |-> "ack", id |-> i]>>
        <4>1. msgs \in Seq(DownMessages) /\ ToldInOrder(msgs)
          BY DEF DownMessages, ToldInOrder
        <4> HIDE DEF msgs
        <4>2. Say(msgs)
          BY <3>1 DEF msgs
        <4> QED BY <1>0, <3>1, <4>1, <4>2, SayInOrder DEF StreamsSpoken
      <3>2. CASE Forget(i, Fail(i))
        BY <1>0, <3>2, FailType, ToldNothing, ForgetSpoken
      <3> QED BY <2>3, <3>1, <3>2 DEF SttConnects
    <2>4. ASSUME NEW i \in Ids, FinalTimeout(i) \/ SttFails(i)
          PROVE  StreamsSpoken' /\ ToldInOrder(down')
      <3>1. Forget(i, Fail(i))
        BY <2>4 DEF FinalTimeout, SttFails
      <3> QED BY <1>0, <3>1, FailType, ToldNothing, ForgetSpoken
    <2> QED BY <1>0, <2>1, <2>2, <2>3, <2>4, HandleChunkSpoken, HandleFinishSpoken, ServeSpoken, TranscriptSpoken
  <1> QED BY <1>1, <1>2 DEF TextsInOrder, TextInOrder

\* A step of the app that gives nothing to the composer.
LEMMA AppInOrder ==
    ASSUME Types, TextsInOrder, UNCHANGED <<given, server>>,
           \/ down' = down \/ down' = <<>>
           \/ down # <<>> /\ down' = Tail(down),
           \/ partial' = partial \/ partial' = <<>>
           \/ down # <<>> /\ Head(down).type = "partial" /\ partial' = Head(down).text
    PROVE  TextsInOrder'
  <1>1. StreamsSpoken'
    BY DEF TextsInOrder, StreamsSpoken, server
  <1>2. ToldInOrder(down')
    BY ToldTail, ToldNothing DEF TextsInOrder, Types, LinkTypes
  <1>3. InOrder(partial')
    <2>1. InOrder(<<>>)
      BY DEF InOrder
    <2> QED BY <2>1, ToldTail DEF TextsInOrder, Types, LinkTypes
  <1> QED BY <1>1, <1>2, <1>3 DEF TextsInOrder, TextInOrder

LEMMA FinalInOrder == ASSUME Types, TextsInOrder, FinalArrives PROVE TextsInOrder'
  <1> DEFINE waits == {o \in DOMAIN finish : finish[o].pc = "result" /\ finish[o].id = Head(down).id}
             w == CHOOSE o \in waits : finish[o].current
             text == IF ~Blank(Head(down).text) THEN Head(down).text ELSE partial
  <1>0. /\ down # <<>> /\ Head(down).type = "final" /\ down' = Tail(down) /\ UNCHANGED server
        /\ partial' = partial \/ partial' = <<>>
        /\ given' = given \/ given' = given \cup {[by |-> w, of |-> finish[w].of, text |-> text]}
    BY DEF FinalArrives, Receive, ClearAll
  <1>1. InOrder(text)
    BY <1>0, ToldTail DEF TextsInOrder, Types, LinkTypes
  <1> HIDE DEF text, w
  <1>2. TextInOrder'
    BY <1>0, <1>1 DEF TextsInOrder, TextInOrder
  <1>3. StreamsSpoken' /\ ToldInOrder(down')
    BY <1>0, ToldTail DEF TextsInOrder, StreamsSpoken, server, Types, LinkTypes
  <1>4. InOrder(partial')
    <2>1. InOrder(<<>>)
      BY DEF InOrder
    <2> QED BY <1>0, <2>1 DEF TextsInOrder
  <1> QED BY <1>2, <1>3, <1>4 DEF TextsInOrder

LEMMA NextInOrder == ASSUME Types, TextsInOrder, [Next]_vars PROVE TextsInOrder'
  <1>1. ASSUME \/ StartDictation \/ Confirm \/ MicStops \/ Cancel \/ CancelEnds \/ Hide \/ Retry \/ Discard
               \/ (\E loud \in BOOLEAN : Speak(loud)) \/ Drop \/ Reconnect \/ OpenFails
               \/ \E o \in DOMAIN finish : FinishContinues(o) \/ FinishFails(o)
               \/ \E i \in Ids : WaitTimesOut(i)
        PROVE  TextsInOrder'
    <2>1. /\ UNCHANGED <<given, server>> /\ (down' = down \/ down' = <<>>)
          /\ (partial' = partial \/ partial' = <<>>)
      BY <1>1 DEF StartDictation, Confirm, MicStops, Cancel, CancelEnds, Hide, Retry, Discard, Speak, Drop,
         Reconnect, OpenFails, FinishContinues, FinishFails, WaitTimesOut, ClearAll, link, hook
    <2> QED BY <2>1, AppInOrder
  <1>2. ASSUME AckArrives \/ ErrorArrives \/ PartialArrives
        PROVE  TextsInOrder'
    <2>1. UNCHANGED <<given, server>> /\ down # <<>> /\ down' = Tail(down)
      BY <1>2 DEF AckArrives, ErrorArrives, PartialArrives, Receive, KeepHook
    <2>2. partial' = partial \/ (Head(down).type = "partial" /\ partial' = Head(down).text)
      BY <1>2 DEF AckArrives, ErrorArrives, PartialArrives, Receive
    <2> QED BY <2>1, <2>2, AppInOrder
  <1>3. ASSUME UNCHANGED vars
        PROVE  TextsInOrder'
    BY <1>3, AppInOrder DEF vars, app, hook, link
  <1> QED BY <1>1, <1>2, <1>3, FinalInOrder, DaemonInOrder DEF Next, Awaiting, Arrives, Handles

\* The composer is given what was said in the order it was said, and nothing twice:
\* whatever segments, replays, interim and late transcripts there were, with retries
\* and overlapping recordings too (onTranscriptFinal, maybeFinalizeDictationStream).
THEOREM GivenInOrder == Spec => []TextInOrder
  <1> DEFINE Inv == Types /\ TextsInOrder
  <1>1. Init => Inv
    <2> SUFFICES ASSUME Init PROVE Inv
      OBVIOUS
    <2>1. StreamsSpoken
      BY NoStreamSpoken DEF Init, StreamsSpoken
    <2>2. ToldInOrder(down) /\ InOrder(partial) /\ TextInOrder
      BY DEF Init, ToldInOrder, InOrder, TextInOrder
    <2> QED BY <2>1, <2>2, InitTypes DEF TextsInOrder
  <1>2. Inv /\ [Next]_vars => Inv'
    BY NextTypes, NextInOrder
  <1>3. Inv => TextInOrder
    BY DEF TextsInOrder
  <1> QED BY <1>1, <1>2, <1>3, PTL DEF Spec

-----------------------------------------------------------------------------
(* What was cancelled *)
LEMMA AtKeeps ==
    ASSUME finish \in [{"confirm", "retry"} -> FinishType], NEW o \in {"confirm", "retry"}, NEW pc, NEW i,
           At(o, pc, i)
    PROVE  /\ finish'["confirm"].current = finish["confirm"].current
           /\ finish'["confirm"].of = finish["confirm"].of
  <1>1. finish'["confirm"] = finish["confirm"] \/ finish'["confirm"] = [finish["confirm"] EXCEPT !.pc = pc, !.id = i]
    BY DEF At
  <1> QED BY <1>1 DEF FinishType

LEMMA NextWanted == ASSUME Types, WantedNotDropped, [Next]_vars PROVE WantedNotDropped'
  <1>0. finish \in [{"confirm", "retry"} -> FinishType]
    BY AppFacts
  <1>1. ASSUME finish'["confirm"].current => finish["confirm"].current,
               finish'["confirm"].of = finish["confirm"].of \/ ~finish'["confirm"].current,
               dropped' = dropped
        PROVE  WantedNotDropped'
    BY <1>1 DEF WantedNotDropped
  <1>2. CASE Confirm
    <2>1. finish'["confirm"] = [NoFinish EXCEPT !.pc = "stopping", !.current = TRUE, !.of = take]
          /\ dropped' = dropped \ {take}
      BY <1>0, <1>2 DEF Confirm
    <2>2. finish'["confirm"].of = take
      BY <2>1 DEF NoFinish
    <2> QED BY <2>1, <2>2 DEF WantedNotDropped
  <1>3. CASE Cancel
    <2>1. finish'["confirm"] = [finish["confirm"] EXCEPT !.current = FALSE]
      BY <1>0, <1>3 DEF Cancel
    <2>2. finish["confirm"] \in FinishType
      BY <1>0
    <2>3. ~finish'["confirm"].current
      BY <2>1, <2>2 DEF FinishType
    <2> QED BY <2>3 DEF WantedNotDropped
  <1>4. CASE Hide
    <2>1. finish'["confirm"] = [finish["confirm"] EXCEPT !.current = FALSE]
      BY <1>0, <1>4 DEF Hide
    <2>2. finish["confirm"] \in FinishType
      BY <1>0
    <2>3. ~finish'["confirm"].current
      BY <2>1, <2>2 DEF FinishType
    <2> QED BY <2>3 DEF WantedNotDropped
  <1>5. CASE MicStops
    <2>1. finish["confirm"] \in FinishType /\ dropped' = dropped
      BY <1>0, <1>5 DEF MicStops
    <2>2. CASE finish' = [finish EXCEPT !["confirm"] = NoFinish]
      <3>1. ~finish'["confirm"].current
        BY <1>0, <2>2 DEF NoFinish
      <3> QED BY <3>1 DEF WantedNotDropped
    <2>3. ASSUME NEW n, NEW pc, NEW i,
                 finish' = [finish EXCEPT !["confirm"] = [@ EXCEPT !.last = n, !.pc = pc, !.id = i]]
          PROVE  WantedNotDropped'
      <3>1. finish'["confirm"].current = finish["confirm"].current /\ finish'["confirm"].of = finish["confirm"].of
        BY <1>0, <2>1, <2>3 DEF FinishType
      <3> QED BY <1>1, <2>1, <3>1
    <2> DEFINE pc == IF ~connected THEN "error" ELSE IF sender.id = 0 THEN "restart"
                     ELSE IF sender.ready THEN "go" ELSE "start"
               i == IF pc = "restart" THEN started + 1 ELSE sender.id
    <2>4. \/ finish' = [finish EXCEPT !["confirm"] = NoFinish]
          \/ finish' = [finish EXCEPT !["confirm"] = [@ EXCEPT !.last = Len(segs), !.pc = pc, !.id = i]]
      BY <1>5 DEF MicStops
    <2> HIDE DEF pc, i
    <2> QED BY <2>2, <2>3, <2>4
  <1>6. CASE Retry
    <2>1. finish'["confirm"] = finish["confirm"] /\ dropped' = dropped
      BY <1>0, <1>6 DEF Retry
    <2> QED BY <1>1, <2>1
  <1>7. ASSUME NEW o \in DOMAIN finish, FinishContinues(o) \/ FinishFails(o)
        PROVE  WantedNotDropped'
    <2>1. o \in {"confirm", "retry"} /\ dropped' = dropped
      BY <1>0, <1>7 DEF FinishContinues, FinishFails
    <2>2. CASE finish' = [finish EXCEPT ![o] = NoFinish]
      <3>1. ~finish'["confirm"].current \/ finish'["confirm"] = finish["confirm"]
        BY <1>0, <2>1, <2>2 DEF NoFinish
      <3> QED BY <1>1, <2>1, <3>1 DEF WantedNotDropped
    <2>3. CASE \E pc, i : At(o, pc, i)
      BY <1>0, <1>1, <2>1, <2>3, AtKeeps
    <2> QED BY <1>7, <2>2, <2>3 DEF FinishContinues, FinishFails, SendFinish
  <1>8. ASSUME AckArrives \/ ErrorArrives \/ FinalArrives \/ Drop \/ \E i \in Ids : WaitTimesOut(i)
        PROVE  WantedNotDropped'
    <2>1. dropped' = dropped
      BY <1>8 DEF AckArrives, ErrorArrives, FinalArrives, Drop, WaitTimesOut, KeepHook
    <2>2. ASSUME NEW i, Rejected(i)
          PROVE  finish'["confirm"].current = finish["confirm"].current /\ finish'["confirm"].of = finish["confirm"].of
      <3>1. finish'["confirm"] = finish["confirm"] \/ finish'["confirm"] = [finish["confirm"] EXCEPT !.pc = "error", !.id = 0]
        BY <1>0, <2>2 DEF Rejected
      <3> QED BY <1>0, <3>1 DEF FinishType
    <2>3. CASE Drop
      <3>1. finish'["confirm"] = finish["confirm"] \/ finish'["confirm"] = [finish["confirm"] EXCEPT !.pc = "error", !.id = 0]
        BY <1>0, <2>3 DEF Drop
      <3>2. finish'["confirm"].current = finish["confirm"].current /\ finish'["confirm"].of = finish["confirm"].of
        BY <1>0, <3>1 DEF FinishType
      <3> QED BY <1>1, <2>1, <3>2
    <2>4. CASE AckArrives
      <3>1. finish'["confirm"] = finish["confirm"] \/
              finish'["confirm"] = [finish["confirm"] EXCEPT !.pc = IF @ = "restart" THEN "check" ELSE "go"]
        BY <1>0, <2>4 DEF AckArrives
      <3>2. finish'["confirm"].current = finish["confirm"].current /\ finish'["confirm"].of = finish["confirm"].of
        BY <1>0, <3>1 DEF FinishType
      <3> QED BY <1>1, <2>1, <3>2
    <2>5. CASE FinalArrives
      <3>1. finish'["confirm"] = finish["confirm"] \/ finish'["confirm"] = NoFinish
        BY <1>0, <2>5 DEF FinalArrives
      <3> QED BY <1>1, <2>1, <3>1 DEF WantedNotDropped, NoFinish
    <2> QED BY <1>1, <1>8, <2>1, <2>2, <2>3, <2>4, <2>5 DEF ErrorArrives, WaitTimesOut
  <1>9. ASSUME UNCHANGED <<finish, dropped>>
        PROVE  WantedNotDropped'
    BY <1>9 DEF WantedNotDropped
  <1>10. ASSUME \/ StartDictation \/ CancelEnds \/ Discard \/ (\E loud \in BOOLEAN : Speak(loud))
                \/ Reconnect \/ OpenFails \/ PartialArrives \/ Handles \/ UNCHANGED vars
                \/ \E i \in Ids : SttConnects(i) \/ FinalTimeout(i) \/ Serve(i) \/ Transcript(i) \/ SttFails(i)
         PROVE  UNCHANGED <<finish, dropped>>
    BY <1>10 DEF StartDictation, CancelEnds, Discard, Speak, Reconnect, OpenFails, PartialArrives, Handles,
       KeepHook, HandleStart, HandleChunk, HandleFinish, HandleCancel, Handle, SttConnects, FinalTimeout,
       Serve, Transcript, SttFails, Serving, vars, app, hook
  <1> QED BY <1>2, <1>3, <1>4, <1>5, <1>6, <1>7, <1>8, <1>9, <1>10 DEF Next, Awaiting, Arrives

\* A recording that was cancelled gives no text to the confirm that was under way,
\* whatever answers come after the cancel (AttemptGuard, confirmDictation).
THEOREM CancelledGivesNothing == Spec => NothingAfterCancel
  <1> DEFINE Inv == Types /\ WantedNotDropped
  <1>1. Init => Inv
    BY InitTypes DEF Init, WantedNotDropped, NoFinish
  <1>2. Inv /\ [Next]_vars => Inv'
    BY NextTypes, NextWanted
  <1>3. Inv /\ [Next]_vars => [\A g \in given' \ given : g.by = "confirm" => g.of \notin dropped]_vars
    <2> SUFFICES ASSUME Inv, Next, NEW g \in given' \ given, g.by = "confirm"
                 PROVE  g.of \notin dropped
      OBVIOUS
    <2> DEFINE waits == {o \in DOMAIN finish : finish[o].pc = "result" /\ finish[o].id = Head(down).id}
               w == CHOOSE o \in waits : finish[o].current
               text == IF ~Blank(Head(down).text) THEN Head(down).text ELSE partial
    <2>1. FinalArrives
      BY DEF Next, Awaiting, Arrives, Handles, StartDictation, Confirm, MicStops, Cancel, CancelEnds, Hide, Retry,
         Discard, Speak, Drop, Reconnect, OpenFails, FinishContinues, FinishFails, WaitTimesOut, AckArrives,
         ErrorArrives, PartialArrives, HandleStart, HandleChunk, HandleFinish, HandleCancel, Handle, SttConnects,
         FinalTimeout, Serve, Transcript, SttFails, Serving, app, hook
    <2>2. /\ \E o \in waits : finish[o].current
          /\ given' = given \cup {[by |-> w, of |-> finish[w].of, text |-> text]}
      BY <2>1 DEF FinalArrives
    <2>3. w \in waits /\ finish[w].current
      BY <2>2
    <2> HIDE DEF w, text
    <2>4. w = "confirm" /\ g.of = finish["confirm"].of
      BY <2>2
    <2> QED BY <2>3, <2>4 DEF WantedNotDropped
  <1> QED BY <1>1, <1>2, <1>3, PTL DEF Spec, NothingAfterCancel

-----------------------------------------------------------------------------
(* The wire: what the app's messages are and stay in order *)
LEMMA TailRange ==
    ASSUME NEW S, NEW u \in Seq(S), u # <<>>
    PROVE  /\ Head(u) \in Range(u) /\ Range(Tail(u)) \subseteq Range(u)
           /\ \A m \in Range(u) : m = Head(u) \/ m \in Range(Tail(u))
           /\ \A p \in DOMAIN Tail(u) : p + 1 \in DOMAIN u /\ Tail(u)[p] = u[p + 1]
           /\ 1 \in DOMAIN u /\ Head(u) = u[1]
  <1>1. Head(u) = u[1] /\ 1 \in DOMAIN u
    OBVIOUS
  <1>2. \A p \in DOMAIN Tail(u) : p + 1 \in DOMAIN u /\ Tail(u)[p] = u[p + 1]
    OBVIOUS
  <1>3. \A p \in DOMAIN u : p # 1 => p - 1 \in DOMAIN Tail(u) /\ Tail(u)[p - 1] = u[p]
    OBVIOUS
  <1>4. \A m \in Range(u) : m = Head(u) \/ m \in Range(Tail(u))
    <2> SUFFICES ASSUME NEW p \in DOMAIN u PROVE u[p] = Head(u) \/ u[p] \in Range(Tail(u))
      BY DEF Range
    <2> QED BY <1>1, <1>3 DEF Range
  <1> QED BY <1>1, <1>2, <1>4 DEF Range

LEMMA ConcatRange ==
    ASSUME NEW S, NEW u \in Seq(S), NEW w \in Seq(S)
    PROVE  /\ Range(u \o w) = Range(u) \cup Range(w)
           /\ \A p \in DOMAIN (u \o w) :
                \/ p \in DOMAIN u /\ (u \o w)[p] = u[p]
                \/ p > Len(u) /\ (p - Len(u)) \in DOMAIN w /\ (u \o w)[p] = w[p - Len(u)]
  <1>1. \A p \in DOMAIN (u \o w) :
          \/ p \in DOMAIN u /\ (u \o w)[p] = u[p]
          \/ p > Len(u) /\ (p - Len(u)) \in DOMAIN w /\ (u \o w)[p] = w[p - Len(u)]
    OBVIOUS
  <1>2. \A p \in DOMAIN u : p \in DOMAIN (u \o w) /\ (u \o w)[p] = u[p]
    OBVIOUS
  <1>3. \A p \in DOMAIN w : p + Len(u) \in DOMAIN (u \o w) /\ (u \o w)[p + Len(u)] = w[p]
    OBVIOUS
  <1>4. Range(u \o w) \subseteq Range(u) \cup Range(w)
    BY <1>1 DEF Range
  <1>5. Range(u) \cup Range(w) \subseteq Range(u \o w)
    BY <1>2, <1>3 DEF Range
  <1> QED BY <1>1, <1>4, <1>5

LEMMA TailAscends ==
    ASSUME NEW u \in Seq(UpMessages), u # <<>>, ChunksAscend(u)
    PROVE  /\ ChunksAscend(Tail(u))
           /\ Head(u).type = "chunk" =>
                \A m \in Range(Tail(u)) : m.type = "chunk" /\ m.id = Head(u).id => Head(u).seq < m.seq
  <1>1. /\ \A p \in DOMAIN Tail(u) : p + 1 \in DOMAIN u /\ Tail(u)[p] = u[p + 1]
        /\ 1 \in DOMAIN u /\ Head(u) = u[1]
    BY TailRange
  <1>2. \A p \in DOMAIN Tail(u) : p \in Nat /\ p >= 1
    OBVIOUS
  <1>3. ChunksAscend(Tail(u))
    <2> SUFFICES ASSUME NEW p \in DOMAIN Tail(u), NEW r \in DOMAIN Tail(u), Tail(u)[p].type = "chunk",
                        Tail(u)[r].type = "chunk", Tail(u)[p].id = Tail(u)[r].id, p < r
                 PROVE  Tail(u)[p].seq < Tail(u)[r].seq
      BY DEF ChunksAscend
    <2>1. p + 1 < r + 1
      BY <1>2
    <2> QED BY <1>1, <2>1 DEF ChunksAscend
  <1>4. ASSUME Head(u).type = "chunk", NEW p \in DOMAIN Tail(u), Tail(u)[p].type = "chunk",
               Tail(u)[p].id = Head(u).id
        PROVE  Head(u).seq < Tail(u)[p].seq
    <2>1. 1 < p + 1
      BY <1>2
    <2> QED BY <1>1, <1>4, <2>1 DEF ChunksAscend
  <1>5. \A m \in Range(Tail(u)) : \E p \in DOMAIN Tail(u) : m = Tail(u)[p]
    BY DEF Range
  <1> QED BY <1>3, <1>4, <1>5

LEMMA TailStartsOnce ==
    ASSUME NEW u \in Seq(UpMessages), u # <<>>, StartsOnce(u)
    PROVE  /\ StartsOnce(Tail(u))
           /\ Head(u).type = "start" =>
                \A m \in Range(Tail(u)) : m.type = "start" => m.id # Head(u).id
  <1>1. /\ \A p \in DOMAIN Tail(u) : p + 1 \in DOMAIN u /\ Tail(u)[p] = u[p + 1]
        /\ 1 \in DOMAIN u /\ Head(u) = u[1]
    BY TailRange
  <1>2. \A p \in DOMAIN Tail(u) : p \in Nat /\ p >= 1
    OBVIOUS
  <1>3. StartsOnce(Tail(u))
    <2> SUFFICES ASSUME NEW p \in DOMAIN Tail(u), NEW r \in DOMAIN Tail(u), Tail(u)[p].type = "start",
                        Tail(u)[r].type = "start", Tail(u)[p].id = Tail(u)[r].id
                 PROVE  p = r
      BY DEF StartsOnce
    <2>1. p + 1 = r + 1
      BY <1>1 DEF StartsOnce
    <2> QED BY <1>2, <2>1
  <1>4. ASSUME Head(u).type = "start", NEW p \in DOMAIN Tail(u), Tail(u)[p].type = "start",
               Tail(u)[p].id = Head(u).id
        PROVE  FALSE
    <2>1. 1 = p + 1
      BY <1>1, <1>4 DEF StartsOnce
    <2> QED BY <1>2, <2>1
  <1>5. \A m \in Range(Tail(u)) : \E p \in DOMAIN Tail(u) : m = Tail(u)[p]
    BY DEF Range
  <1> QED BY <1>3, <1>4, <1>5

LEMMA ConcatAscends ==
    ASSUME NEW u \in Seq(UpMessages), NEW w \in Seq(UpMessages), ChunksAscend(u), ChunksAscend(w),
           \A m \in Range(u), n \in Range(w) : m.type = "chunk" /\ n.type = "chunk" /\ m.id = n.id => m.seq < n.seq
    PROVE  ChunksAscend(u \o w)
  <1> DEFINE v == u \o w
  <1>1. /\ \A p \in DOMAIN v :
             \/ p \in DOMAIN u /\ v[p] = u[p]
             \/ p > Len(u) /\ (p - Len(u)) \in DOMAIN w /\ v[p] = w[p - Len(u)]
        /\ \A p \in DOMAIN v : p \in Nat
        /\ \A p \in DOMAIN u : p <= Len(u) /\ u[p] \in Range(u)
        /\ \A p \in DOMAIN w : w[p] \in Range(w)
        /\ Len(u) \in Nat
    BY ConcatRange DEF Range
  <1> SUFFICES ASSUME NEW p \in DOMAIN v, NEW r \in DOMAIN v, v[p].type = "chunk", v[r].type = "chunk",
                      v[p].id = v[r].id, p < r
               PROVE  v[p].seq < v[r].seq
    BY DEF ChunksAscend
  <1> HIDE DEF v
  <1>2. CASE p \in DOMAIN u /\ v[p] = u[p] /\ r \in DOMAIN u /\ v[r] = u[r]
    BY <1>2 DEF ChunksAscend
  <1>3. CASE /\ p > Len(u) /\ (p - Len(u)) \in DOMAIN w /\ v[p] = w[p - Len(u)]
             /\ r > Len(u) /\ (r - Len(u)) \in DOMAIN w /\ v[r] = w[r - Len(u)]
    <2>1. p - Len(u) < r - Len(u)
      BY <1>1
    <2> QED BY <1>3, <2>1 DEF ChunksAscend
  <1>4. CASE /\ p \in DOMAIN u /\ v[p] = u[p]
             /\ r > Len(u) /\ (r - Len(u)) \in DOMAIN w /\ v[r] = w[r - Len(u)]
    BY <1>1, <1>4
  <1>5. CASE r \in DOMAIN u /\ p > Len(u)
    BY <1>1, <1>5
  <1> QED BY <1>1, <1>2, <1>3, <1>4, <1>5

LEMMA ConcatStartsOnce ==
    ASSUME NEW u \in Seq(UpMessages), NEW w \in Seq(UpMessages), StartsOnce(u),
           \A n \in Range(w) : n.type # "start"
    PROVE  StartsOnce(u \o w)
  <1> DEFINE v == u \o w
  <1>1. /\ \A p \in DOMAIN v :
             \/ p \in DOMAIN u /\ v[p] = u[p]
             \/ p > Len(u) /\ (p - Len(u)) \in DOMAIN w /\ v[p] = w[p - Len(u)]
        /\ \A p \in DOMAIN w : w[p] \in Range(w)
    BY ConcatRange DEF Range
  <1> HIDE DEF v
  <1> QED BY <1>1 DEF StartsOnce, v

\* One message more.
LEMMA AppendUp ==
    ASSUME NEW u \in Seq(UpMessages), NEW n \in UpMessages
    PROVE  /\ Range(Append(u, n)) = Range(u) \cup {n}
           /\ ChunksAscend(u) /\ n.type # "chunk" => ChunksAscend(Append(u, n))
           /\ StartsOnce(u) /\ (n.type = "start" => \A m \in Range(u) : m.type = "start" => m.id # n.id) =>
                StartsOnce(Append(u, n))
  <1> DEFINE v == Append(u, n)
  <1>1. /\ DOMAIN v = DOMAIN u \cup {Len(u) + 1} /\ \A p \in DOMAIN u : v[p] = u[p]
        /\ v[Len(u) + 1] = n /\ DOMAIN u = 1..Len(u) /\ Len(u) \in Nat
    OBVIOUS
  <1> HIDE DEF v
  <1>2. Range(v) = Range(u) \cup {n}
    BY <1>1 DEF Range
  <1>3. ASSUME ChunksAscend(u), n.type # "chunk"
        PROVE  ChunksAscend(v)
    BY <1>1, <1>3 DEF ChunksAscend
  <1>4. ASSUME StartsOnce(u), n.type = "start" => \A m \in Range(u) : m.type = "start" => m.id # n.id
        PROVE  StartsOnce(v)
    <2>1. \A p \in DOMAIN u : u[p] \in Range(u)
      BY DEF Range
    <2> SUFFICES ASSUME NEW p \in DOMAIN v, NEW r \in DOMAIN v, v[p].type = "start", v[r].type = "start",
                        v[p].id = v[r].id
                 PROVE  p = r
      BY DEF StartsOnce
    <2>2. CASE p \in DOMAIN u /\ r \in DOMAIN u
      BY <1>1, <1>4, <2>2 DEF StartsOnce
    <2>3. CASE p \in DOMAIN u /\ r \notin DOMAIN u
      BY <1>1, <1>4, <2>1, <2>3
    <2>4. CASE p \notin DOMAIN u /\ r \in DOMAIN u
      BY <1>1, <1>4, <2>1, <2>4
    <2>5. CASE p \notin DOMAIN u /\ r \notin DOMAIN u
      BY <1>1, <2>5
    <2> QED BY <2>2, <2>3, <2>4, <2>5
  <1> QED BY <1>2, <1>3, <1>4 DEF v

-----------------------------------------------------------------------------
(* Chunks in order: what the app puts on the wire *)
LEMMA UpFacts ==
    ASSUME Types
    PROVE  /\ up \in Seq(UpMessages)
           /\ \A m \in Range(up) : m \in UpMessages /\ m.id \in Ids /\ (m.type = "chunk" => m.seq \in Nat)
           /\ \A i \in Ids : stream[i].next \in Nat
           /\ started \in Nat /\ sender.id \in Nat /\ sender.sent \in Nat
           /\ (sender.id # 0 => sender.id \in Ids)
  <1>1. up \in Seq(UpMessages) /\ started \in 0..MaxStarts /\ sender \in SenderType
    BY DEF Types, SenderTypes
  <1>2. \A m \in UpMessages : m.id \in Ids /\ (m.type = "chunk" => m.seq \in Nat)
    BY Bounds DEF UpMessages
  <1>3. Range(up) \subseteq UpMessages
    BY <1>1, RangeIn
  <1>4. \A i \in Ids : stream[i].next \in Nat
    BY DEF Types, ServerTypes, StreamTypeOK
  <1>5. sender.id \in 0..MaxStarts /\ sender.sent \in 0..MaxChunks
    BY <1>1 DEF SenderType
  <1> QED BY <1>1, <1>2, <1>3, <1>4, <1>5, Bounds DEF Ids

\* Chunks that are numbered upwards and miss none are the next ones.
LEMMA WireInOrder == ASSUME Types, Wire PROVE ChunksInOrder
  <1> SUFFICES ASSUME up # <<>>, Head(up).type = "chunk", phase[Head(up).id] = "open"
               PROVE  Head(up).seq = stream[Head(up).id].next
    BY DEF ChunksInOrder
  <1> DEFINE m == Head(up)
             n == stream[m.id].next
  <1>1. m \in Range(up) /\ \A k \in Range(up) : k = m \/ k \in Range(Tail(up))
    BY UpFacts, TailRange
  <1>2. \A k \in Range(Tail(up)) : k.type = "chunk" /\ k.id = m.id => m.seq < k.seq
    BY UpFacts, TailAscends DEF Wire, InStep
  <1>3. m.type = "chunk" /\ phase[m.id] = "open"
    OBVIOUS
  <1>4. m.seq \in Nat /\ n \in Nat
    BY <1>1, <1>3, UpFacts
  <1> HIDE DEF m
  <1>5. n <= m.seq /\ AllUnder(m.id, m.seq)
    BY <1>1, <1>3 DEF Wire, InStep
  <1>6. ASSUME n < m.seq
        PROVE  FALSE
    <2>1. PICK k \in Range(up) : k.type = "chunk" /\ k.id = m.id /\ k.seq = n
      BY <1>4, <1>5, <1>6 DEF AllUnder, Under
    <2> QED BY <1>1, <1>2, <1>4, <1>6, <2>1
  <1>7. n = m.seq
    BY <1>4, <1>5, <1>6
  <1> QED BY <1>7 DEF m

\* The app's steps that send no chunk and start no stream.
Loosened(s) == ~s.ready /\ s.sent = 0 /\ s.id = 0
LEMMA WireKept ==
    ASSUME Types, Wire, UNCHANGED <<server, started>>, Range(down') \subseteq Range(down),
           StartsOnce(up'), ChunksAscend(up'),
           \A m \in Range(up') : m \in Range(up) \/ (m.type \notin {"start", "chunk"} /\ m.id <= started),
           Range(up) \subseteq Range(up') \/ Range(up') = {},
           sender' = sender \/ Loosened(sender')
    PROVE  Wire'
  <1>1. phase' = phase /\ stream' = stream /\ started' = started
    BY DEF server
  <1>2. Numbered'
    BY <1>1, UpFacts DEF Wire, Numbered, Loosened
  <1>3. StartFirst'
    BY <1>1 DEF Wire, StartFirst, Started, NotYet, Loosened
  <1>4. InStep'
    BY <1>1 DEF Wire, InStep, AllUnder, Under, Loosened
  <1> QED BY <1>2, <1>3, <1>4 DEF Wire

\* A new stream.
LEMMA WireRestarts ==
    ASSUME Types, Wire, UNCHANGED server, Range(down') \subseteq Range(down), Restart
    PROVE  Wire'
  <1> DEFINE n == [type |-> "start", id |-> started + 1]
  <1>1. /\ phase' = phase /\ stream' = stream /\ started' = started + 1
        /\ sender' = [id |-> started + 1, sent |-> 0, ready |-> FALSE] /\ up' = Append(up, n)
    BY DEF server, Restart
  <1>2. started + 1 \in Ids /\ started \in Nat
    BY UpFacts, DictationAssumption DEF Restart, Ids
  <1>3. n \in UpMessages /\ n.type = "start" /\ n.id = started + 1
    BY <1>2 DEF UpMessages
  <1> HIDE DEF n
  <1>4. \A m \in Range(up) : m.id <= started /\ m.id \in Nat
    BY UpFacts DEF Wire, Numbered, Ids
  <1>5. Range(up') = Range(up) \cup {n} /\ ChunksAscend(up') /\ StartsOnce(up')
    <2>1. ChunksAscend(up) /\ StartsOnce(up) /\ \A m \in Range(up) : m.id # n.id
      BY <1>2, <1>3, <1>4 DEF Wire, Numbered, InStep
    <2> QED BY <1>1, <1>3, <2>1, AppendUp, UpFacts
  <1>6. phase[started + 1] = "none"
    BY <1>2 DEF Wire, Numbered
  <1>7. Numbered'
    <2>1. \A m \in Range(down) : m.id <= started /\ m.id \in Nat
      <3>1. Range(down) \subseteq DownMessages
        BY RangeIn DEF Types, LinkTypes
      <3> QED BY <3>1 DEF Wire, Numbered, DownMessages, Ids
    <2>2. \A i \in Ids : i \in Nat
      BY DEF Ids
    <2> QED BY <1>1, <1>2, <1>3, <1>4, <1>5, <1>6, <2>1, <2>2 DEF Wire, Numbered
  <1>8. StartFirst'
    <2>1. NotYet(started + 1)
      BY <1>2, <1>6 DEF Wire, StartFirst, Started
    <2>2. \A i \in Ids : NotYet(i) => NotYet(i)'
      BY <1>1, <1>3, <1>5 DEF NotYet
    <2> QED BY <1>1, <1>2, <2>1, <2>2 DEF Wire, StartFirst, Started
  <1>9. InStep'
    BY <1>1, <1>3, <1>5 DEF Wire, InStep, AllUnder, Under
  <1> QED BY <1>7, <1>8, <1>9 DEF Wire

\* flush: the chunks it adds are the next of its stream, up to the last recorded.
LEMMA FlushSends ==
    ASSUME NEW s \in SenderType, s.id # 0, NEW all \in Seq(BOOLEAN), Len(all) <= MaxChunks,
           s.sent <= Len(all), up \in Seq(UpMessages),
           NEW more \in Seq(UpMessages), \A m \in Range(more) : m.type = "finish" /\ m.id = s.id,
           Flush(s, all, more), StartsOnce(up), ChunksAscend(up),
           \A m \in Range(up) : m.type = "chunk" /\ m.id = s.id => m.seq < s.sent
    PROVE  /\ StartsOnce(up') /\ ChunksAscend(up') /\ Range(up) \subseteq Range(up')
           /\ \A m \in Range(up') :
                \/ m \in Range(up)
                \/ m.type = "finish" /\ m.id = s.id
                \/ m.type = "chunk" /\ m.id = s.id /\ s.sent <= m.seq /\ m.seq < Len(all)
           /\ \A k \in Nat : s.sent <= k /\ k < Len(all) =>
                \E m \in Range(up') : m.type = "chunk" /\ m.id = s.id /\ m.seq = k
  <1> DEFINE n == Len(all) - s.sent
             new == [i \in 1..n |->
                      [type |-> "chunk", id |-> s.id, seq |-> s.sent + i - 1, loud |-> all[s.sent + i]]]
  <1>1. up' = (up \o new) \o more
    BY DEF Flush
  <1>2. s.id \in Ids /\ s.sent \in Nat /\ Len(all) \in Nat /\ MaxChunks \in Nat
    BY DictationAssumption DEF SenderType, Ids
  <1>3. n \in Nat
    BY <1>2
  <1>4. \A i \in 1..n : new[i] \in UpMessages
    <2> SUFFICES ASSUME NEW i \in 1..n
                 PROVE [type |-> "chunk", id |-> s.id, seq |-> s.sent + i - 1, loud |-> all[s.sent + i]]
                          \in UpMessages
      OBVIOUS
    <2>1. s.sent + i \in 1..Len(all) /\ s.sent + i - 1 \in 0..(MaxChunks - 1)
      BY SMTT(30), <1>2, <1>3
    <2>2. all[s.sent + i] \in BOOLEAN
      BY <2>1
    <2> QED BY <2>1, <2>2, <1>2 DEF UpMessages
  <1>5. /\ DOMAIN new = 1..n
        /\ \A i \in 1..n : new[i].type = "chunk" /\ new[i].id = s.id /\ new[i].seq = s.sent + i - 1
    OBVIOUS
  <1>6. new \in Seq(UpMessages)
    <2>1. new \in [1..n -> UpMessages]
      BY <1>4
    <2> HIDE DEF new, n
    <2> QED BY <2>1, <1>3, SeqDef
  <1>7. n = Len(all) - s.sent
    OBVIOUS
  <1> HIDE DEF new, n
  <1>8. \A m \in Range(new) : m.type = "chunk" /\ m.id = s.id /\ s.sent <= m.seq /\ m.seq < Len(all)
    BY <1>2, <1>3, <1>5, <1>7 DEF Range
  <1>9. ChunksAscend(new)
    BY SMTT(30), <1>2, <1>3, <1>5 DEF ChunksAscend
  <1>10. ASSUME NEW k \in Nat, s.sent <= k, k < Len(all)
         PROVE  \E m \in Range(new) : m.type = "chunk" /\ m.id = s.id /\ m.seq = k
    <2>1. k - s.sent + 1 \in 1..n /\ s.sent + (k - s.sent + 1) - 1 = k
      BY <1>2, <1>7, <1>10
    <2>2. new[k - s.sent + 1] \in Range(new)
      BY <1>5, <2>1 DEF Range
    <2> QED BY <1>5, <2>1, <2>2
  <1> DEFINE w == up \o new
  <1>11. w \in Seq(UpMessages) /\ Range(w) = Range(up) \cup Range(new)
    BY <1>6, ConcatRange
  <1>12. ChunksAscend(w)
    <2>1. \A m \in Range(up), r \in Range(new) : m.type = "chunk" /\ r.type = "chunk" /\ m.id = r.id => m.seq < r.seq
      <3>1. \A m \in Range(up) : m.type = "chunk" => m.seq \in Int
        <4>1. Range(up) \subseteq UpMessages
          BY RangeIn
        <4> QED BY <4>1 DEF UpMessages
      <3>2. \A r \in Range(new) : r.seq \in Int
        BY <1>2, <1>5, <1>3 DEF Range
      <3> QED BY <1>2, <1>8, <3>1, <3>2
    <2> QED BY <1>6, <1>9, <2>1, ConcatAscends
  <1>13. StartsOnce(w)
    BY <1>6, <1>8, ConcatStartsOnce
  <1> HIDE DEF w
  <1>14. up' = w \o more
    BY <1>1 DEF w
  <1>15. Range(up') = Range(w) \cup Range(more)
    BY <1>11, <1>14, ConcatRange
  <1>16. ChunksAscend(more) /\ \A r \in Range(more) : r.type # "chunk" /\ r.type # "start"
    <2>1. \A r \in Range(more) : r.type # "chunk" /\ r.type # "start"
      OBVIOUS
    <2> QED BY <2>1 DEF ChunksAscend, Range
  <1>17. ChunksAscend(up')
    BY <1>11, <1>12, <1>14, <1>16, ConcatAscends
  <1>18. StartsOnce(up')
    BY <1>11, <1>13, <1>14, <1>16, ConcatStartsOnce
  <1> QED BY <1>8, <1>10, <1>11, <1>15, <1>17, <1>18

\* It keeps the wire in order when nothing is missing before what it sends.
LEMMA WireFlushes ==
    ASSUME Types, Wire, UNCHANGED server, Range(down') \subseteq Range(down),
           NEW s, s = sender \/ (s = [sender EXCEPT !.ready = TRUE] /\ ~sender.ready), s.ready, s.id # 0,
           Started(s.id),
           NEW all \in Seq(BOOLEAN), Len(all) <= MaxChunks, s.sent <= Len(all),
           NEW more \in Seq(UpMessages), \A m \in Range(more) : m.type = "finish" /\ m.id = s.id,
           Flush(s, all, more),
           s.sent = Len(all) \/ (phase[s.id] = "open" => AllUnder(s.id, s.sent))
    PROVE  /\ Wire' /\ sender'.sent = Len(all) /\ sender'.id = s.id /\ sender'.ready
           /\ phase[s.id] = "open" /\ AllUnder(s.id, s.sent) => AllUnder(sender.id, sender.sent)'
  <1>0. sender \in SenderType /\ up \in Seq(UpMessages) /\ started \in 0..MaxStarts
    BY DEF Types, SenderTypes
  <1>1. s \in SenderType /\ s.id = sender.id /\ s.sent = sender.sent
    BY <1>0 DEF SenderType
  <1>2. /\ sender' = [s EXCEPT !.sent = Len(all)] /\ sender'.sent = Len(all) /\ sender'.id = s.id
        /\ sender'.ready = s.ready
    BY <1>0, <1>1, FlushTypes
  <1>3. phase' = phase /\ stream' = stream /\ started' = started
    BY DEF server, Flush
  <1>4. \A m \in Range(up) : m.type = "chunk" /\ m.id = s.id => m.seq < s.sent
    <2>1. CASE sender.ready
      BY <1>1, <2>1 DEF Wire, InStep
    <2>2. CASE ~sender.ready
      <3>1. NotYet(sender.id)
        BY <1>1, <2>2 DEF Wire, StartFirst
      <3> QED BY <1>1, <3>1 DEF NotYet
    <2> QED BY <2>1, <2>2
  <1>5. /\ StartsOnce(up') /\ ChunksAscend(up') /\ Range(up) \subseteq Range(up')
        /\ \A m \in Range(up') :
             \/ m \in Range(up)
             \/ m.type = "finish" /\ m.id = s.id
             \/ m.type = "chunk" /\ m.id = s.id /\ s.sent <= m.seq /\ m.seq < Len(all)
        /\ \A k \in Nat : s.sent <= k /\ k < Len(all) =>
             \E m \in Range(up') : m.type = "chunk" /\ m.id = s.id /\ m.seq = k
    BY <1>0, <1>1, <1>4, FlushSends DEF Wire, Numbered, InStep
  <1>6. s.id \in Ids /\ s.sent \in Nat /\ Len(all) \in Nat /\ stream[s.id].next \in Nat
    BY <1>1, UpFacts
  <1>7. phase[s.id] = "open" => stream[s.id].next <= s.sent
    <2>1. CASE sender.ready
      BY <1>1, <2>1 DEF Wire, InStep
    <2>2. CASE ~sender.ready
      <3>1. NotYet(sender.id)
        BY <1>1, <2>2 DEF Wire, StartFirst
      <3> QED BY <1>1, <1>6, <3>1 DEF NotYet
    <2> QED BY <2>1, <2>2
  <1>8. \A m \in Range(up') : m.type = "chunk" => m.seq \in Nat
    <2>1. up' \in Seq(UpMessages)
      BY <1>0, <1>1, FlushTypes
    <2>2. Range(up') \subseteq UpMessages
      BY <2>1, RangeIn
    <2> QED BY <2>2, Bounds DEF UpMessages
  <1>9. \A i \in Ids, k \in Nat : AllUnder(i, k) => AllUnder(i, k)'
    BY <1>3, <1>5 DEF AllUnder, Under
  <1>10. ASSUME phase[s.id] = "open", AllUnder(s.id, s.sent), NEW k \in Nat, k <= Len(all)
         PROVE  AllUnder(s.id, k)'
    <2>1. \A d \in Nat : d < s.sent /\ stream[s.id].next <= d => Under(s.id, d)
      BY <1>10 DEF AllUnder
    <2>2. \A d \in Nat : Under(s.id, d) => Under(s.id, d)'
      BY <1>5 DEF Under
    <2>3. \A d \in Nat : s.sent <= d /\ d < Len(all) => Under(s.id, d)'
      BY <1>5 DEF Under
    <2>4. \A d \in Nat : stream[s.id].next <= d /\ d < k => Under(s.id, d)'
      BY <1>6, <1>10, <2>1, <2>2, <2>3
    <2> QED BY <1>3, <2>4 DEF AllUnder
  <1>11. Numbered'
    <2>1. sender.id <= started
      BY DEF Wire, Numbered
    <2> QED BY <1>1, <1>2, <1>3, <1>5, <2>1 DEF Wire, Numbered
  <1>12. StartFirst'
    <2>1. \A i \in Ids : ~Started(i) => NotYet(i)'
      BY <1>3, <1>5 DEF Wire, StartFirst, NotYet
    <2> QED BY <1>2, <1>3, <2>1 DEF Wire, StartFirst, Started
  <1>13. InStep'
    <2>1. ASSUME NEW m \in Range(up'), m.type = "chunk", phase[m.id] = "open"
          PROVE  stream[m.id].next <= m.seq /\ AllUnder(m.id, m.seq)'
      <3>1. CASE m \in Range(up)
        BY <1>8, <1>9, <2>1, <3>1, UpFacts DEF Wire, InStep
      <3>2. CASE m.id = s.id /\ s.sent <= m.seq /\ m.seq < Len(all)
        <4>1. phase[s.id] = "open" /\ AllUnder(s.id, s.sent)
          BY <1>6, <1>8, <2>1, <3>2
        <4> QED BY <1>6, <1>7, <1>8, <1>10, <2>1, <3>2, <4>1
      <3> QED BY <1>5, <2>1, <3>1, <3>2
    <2>2. ASSUME NEW m \in Range(up'), m.type = "chunk", m.id = s.id
          PROVE  m.seq < Len(all)
      BY <1>4, <1>5, <1>6, <1>8, <2>2
    <2> QED BY <1>2, <1>3, <1>5, <1>6, <1>7, <2>1, <2>2 DEF InStep
  <1>14. phase[s.id] = "open" /\ AllUnder(s.id, s.sent) => AllUnder(sender.id, sender.sent)'
    <2>1. phase[s.id] = "open" /\ AllUnder(s.id, s.sent) => AllUnder(s.id, Len(all))'
      BY <1>6, <1>10
    <2> QED BY <1>2, <2>1 DEF AllUnder, Under
  <1> QED BY <1>2, <1>11, <1>12, <1>13, <1>14 DEF Wire

-----------------------------------------------------------------------------
(* Chunks in order: what the daemon takes from the wire *)
\* A stream that is open after the step, and what is under way for it.
KeepsUnder(i) == phase[i]' = "open" => \A n \in Nat : AllUnder(i, n) => AllUnder(i, n)'
Opens(i) == Started(i) /\ phase[i]' = "open" => phase[i] = "open"
LEMMA WireServes ==
    ASSUME Types, Wire, UNCHANGED <<sender, started>>, NEW i \in Ids, i <= started,
           \A j \in Ids \ {i} : phase'[j] = phase[j] /\ stream'[j].next = stream[j].next,
           phase'[i] = "none" => phase[i] = "none",
           Started(i) => Started(i)', ~Started(i)' => stream'[i].next = stream[i].next,
           StartsOnce(up'), ChunksAscend(up'), Range(up') \subseteq Range(up),
           \A m \in Range(up) : m.type = "chunk" /\ m.id # i => m \in Range(up'),
           \A m \in Range(up') : m.type = "start" /\ m.id = i => phase'[i] = "none",
           stream'[i].next \in {0, stream[i].next} \/ Under(i, stream[i].next),
           \A m \in Range(up') : m.type = "chunk" /\ m.id = i /\ phase'[i] = "open" => stream'[i].next <= m.seq,
           sender.ready /\ sender.id = i /\ phase'[i] = "open" => stream'[i].next <= sender.sent,
           KeepsUnder(i), Opens(i),
           \A m \in Range(down') : m \in Range(down) \/ (m.id = i /\ (m.type = "ack" => Started(i)'))
    PROVE  Wire' /\ \A j \in Ids : KeepsUnder(j) /\ Opens(j)
  <1>1. \A j \in Ids : KeepsUnder(j) /\ Opens(j)
    <2>1. ASSUME NEW j \in Ids \ {i}
          PROVE  KeepsUnder(j) /\ Opens(j)
      BY <2>1 DEF KeepsUnder, Opens, AllUnder, Under
    <2> QED BY <2>1
  <1>2. \A j \in Ids : Started(j) => Started(j)'
    BY DEF Started
  <1>3. Numbered'
    <2>1. \A j \in Ids : j > started => phase'[j] = "none"
      BY UpFacts DEF Wire, Numbered, Ids
    <2> QED BY <2>1, UpFacts DEF Wire, Numbered
  <1>4. \A j \in Ids : NotYet(j) => NotYet(j)' \/ (j = i /\ Under(i, stream[i].next))
    BY DEF NotYet
  <1>5. ASSUME NEW j \in Ids, NotYet(j)
        PROVE  NotYet(j)'
    <2>1. ~Under(j, stream[j].next)
      BY <1>5 DEF NotYet, Under
    <2> QED BY <1>4, <1>5, <2>1
  <1>6. StartFirst'
    <2>1. \A j \in Ids : ~Started(j)' => NotYet(j)'
      BY <1>2, <1>5 DEF Wire, StartFirst
    <2>2. sender.ready => Started(sender.id)'
      <3>1. sender.ready => sender.id \in Ids
        BY UpFacts DEF Types, SenderTypes
      <3> QED BY <1>2, <3>1 DEF Wire, StartFirst
    <2>3. \A m \in Range(down') : m.type = "ack" => Started(m.id)'
      <3>1. \A m \in Range(down) : m.id \in Ids
        <4>1. Range(down) \subseteq DownMessages
          BY RangeIn DEF Types, LinkTypes
        <4> QED BY <4>1 DEF DownMessages
      <3> QED BY <1>2, <3>1 DEF Wire, StartFirst
    <2>4. ~sender.ready => sender.sent = 0 /\ (sender.id # 0 => NotYet(sender.id)')
      BY <1>5, UpFacts DEF Wire, StartFirst
    <2> QED BY <2>1, <2>2, <2>3, <2>4 DEF StartFirst, Started, NotYet
  <1>7. InStep'
    <2>1. ASSUME NEW m \in Range(up'), m.type = "chunk", phase'[m.id] = "open"
          PROVE  stream'[m.id].next <= m.seq /\ AllUnder(m.id, m.seq)'
      <3>1. m \in Range(up) /\ m.id \in Ids /\ m.seq \in Nat
        BY <2>1, UpFacts
      <3>2. Started(m.id)
        BY <2>1, <3>1 DEF Wire, StartFirst, NotYet
      <3>3. phase[m.id] = "open"
        BY <1>1, <2>1, <3>1, <3>2 DEF Opens
      <3>4. AllUnder(m.id, m.seq)'
        BY <1>1, <2>1, <3>1, <3>3 DEF Wire, InStep, KeepsUnder
      <3>5. stream'[m.id].next <= m.seq
        BY <2>1, <3>1, <3>3 DEF Wire, InStep
      <3> QED BY <3>4, <3>5
    <2>2. ASSUME sender.ready
          PROVE  phase'[sender.id] = "open" => stream'[sender.id].next <= sender.sent
      <3>1. sender.id \in Ids /\ Started(sender.id)
        BY <2>2, UpFacts DEF Types, SenderTypes, Wire, StartFirst
      <3> QED BY <1>1, <2>2, <3>1 DEF Wire, InStep, Opens
    <2> QED BY <2>1, <2>2 DEF Wire, InStep
  <1> QED BY <1>1, <1>3, <1>6, <1>7 DEF Wire

\* What is said to the app, by range.
LEMMA SayRange ==
    ASSUME NEW S, down \in Seq(S), NEW msgs \in Seq(S), Say(msgs)
    PROVE  Range(down') \subseteq Range(down) \cup Range(msgs)
  <1>1. Range(down \o msgs) = Range(down) \cup Range(msgs)
    BY ConcatRange
  <1> QED BY <1>1 DEF Say

\* Steps after which stream i is over.
LEMMA WireForgets ==
    ASSUME Types, Wire, UNCHANGED <<sender, started>>, NEW i \in Ids, i <= started,
           StartsOnce(up'), ChunksAscend(up'), Range(up') \subseteq Range(up),
           \A m \in Range(up) : m.type = "chunk" /\ m.id # i => m \in Range(up'),
           \A m \in Range(up') : m.type = "start" => m.id # i,
           NEW S, down \in Seq(S), NEW msgs \in Seq(S), \A m \in Range(msgs) : m.id = i /\ m.type # "ack",
           Forget(i, msgs)
    PROVE  Wire' /\ \A j \in Ids : KeepsUnder(j) /\ Opens(j)
  <1>1. /\ phase' = [phase EXCEPT ![i] = "gone"] /\ stream' = [stream EXCEPT ![i] = NoStream] /\ Say(msgs)
        /\ phase \in [Ids -> {"none", "connecting", "open", "gone"}]
    BY DEF Forget, Types, ServerTypes
  <1>2. phase'[i] = "gone" /\ stream'[i].next = 0
    BY <1>1 DEF NoStream, Types, ServerTypes
  <1>3. \A j \in Ids \ {i} : phase'[j] = phase[j] /\ stream'[j].next = stream[j].next
    BY <1>1 DEF Types, ServerTypes
  <1>4. Started(i)'
    BY <1>2 DEF Started
  <1>5. KeepsUnder(i) /\ Opens(i)
    BY <1>2 DEF KeepsUnder, Opens
  <1>6. \A m \in Range(down') : m \in Range(down) \/ (m.id = i /\ (m.type = "ack" => Started(i)'))
    BY <1>1, SayRange
  <1> QED BY <1>2, <1>3, <1>4, <1>5, <1>6, WireServes

\* What a handler takes from the wire, or nothing.
Takes(i, n) ==
    \/ up' = up /\ n = stream[i].next
    \/ up # <<>> /\ up' = Tail(up) /\ Head(up).type # "chunk" /\ n = stream[i].next
    \/ /\ up # <<>> /\ up' = Tail(up) /\ Head(up).type = "chunk" /\ Head(up).id = i
       /\ phase[i] = "open" /\ n = stream[i].next + 1
LEMMA TakenFacts ==
    ASSUME Types, Wire, up' = up \/ (up # <<>> /\ up' = Tail(up))
    PROVE  /\ StartsOnce(up') /\ ChunksAscend(up') /\ Range(up') \subseteq Range(up)
           /\ \A m \in Range(up) : m \in Range(up') \/ m = Head(up)
  <1>1. CASE up' = up
    BY <1>1 DEF Wire, Numbered, InStep
  <1>2. CASE up # <<>> /\ up' = Tail(up)
    BY <1>2, UpFacts, TailRange, TailAscends, TailStartsOnce DEF Wire, Numbered, InStep
  <1> QED BY <1>1, <1>2

\* A stream that was started is known to the app, and its start is not under way.
LEMMA StartedFacts ==
    ASSUME Types, Wire, NEW i \in Ids, phase[i] # "none"
    PROVE  i <= started /\ \A m \in Range(up) : m.type = "start" => m.id # i
  BY UpFacts DEF Wire, Numbered, Ids

\* An open stream that goes on.
LEMMA WireGoesOn ==
    ASSUME Types, Wire, UNCHANGED <<sender, started, phase>>, NEW i \in Ids, phase[i] = "open",
           \A j \in Ids \ {i} : stream'[j].next = stream[j].next, Takes(i, stream'[i].next),
           \A m \in Range(down') : m \in Range(down) \/ (m.id = i /\ m.type # "ack")
    PROVE  Wire' /\ \A j \in Ids : KeepsUnder(j) /\ Opens(j)
  <1>1. /\ StartsOnce(up') /\ ChunksAscend(up') /\ Range(up') \subseteq Range(up)
        /\ \A m \in Range(up) : m \in Range(up') \/ m = Head(up)
    BY TakenFacts DEF Takes
  <1>2. i <= started /\ \A m \in Range(up) : m.type = "start" => m.id # i
    BY StartedFacts
  <1>3. Started(i) /\ Started(i)'
    BY DEF Started
  <1>4. stream[i].next \in Nat /\ \A m \in Range(up) : m.type = "chunk" => m.seq \in Nat
    BY UpFacts
  <1>5. \A m \in Range(up) : m.type = "chunk" /\ m.id = i => stream[i].next <= m.seq
    BY DEF Wire, InStep
  <1>6. ASSUME up # <<>>, up' = Tail(up), Head(up).type = "chunk", Head(up).id = i
        PROVE  /\ Head(up) \in Range(up) /\ Head(up).seq = stream[i].next
               /\ \A m \in Range(up') : m.type = "chunk" /\ m.id = i => Head(up).seq < m.seq
    <2>1. ChunksInOrder
      BY WireInOrder
    <2>2. Head(up).seq = stream[i].next
      BY <1>6, <2>1 DEF ChunksInOrder
    <2>3. \A m \in Range(Tail(up)) : m.type = "chunk" /\ m.id = i => Head(up).seq < m.seq
      BY <1>6, UpFacts, TailAscends DEF Wire, InStep
    <2>4. Head(up) \in Range(up)
      BY <1>6, UpFacts, TailRange
    <2> QED BY <1>6, <2>2, <2>3, <2>4
  <1>7. \A m \in Range(up) : m.type = "chunk" /\ m.id # i => m \in Range(up')
    BY <1>1 DEF Takes
  <1>8. stream'[i].next \in {0, stream[i].next} \/ Under(i, stream[i].next)
    BY <1>6 DEF Takes, Under
  <1>9. \A m \in Range(up') : m.type = "chunk" /\ m.id = i => stream'[i].next <= m.seq
    BY <1>1, <1>4, <1>5, <1>6 DEF Takes
  <1>10. sender.ready /\ sender.id = i => stream'[i].next <= sender.sent
    <2>1. CASE stream'[i].next = stream[i].next
      BY <2>1 DEF Wire, InStep
    <2>2. CASE up # <<>> /\ up' = Tail(up) /\ Head(up).type = "chunk" /\ Head(up).id = i
               /\ stream'[i].next = stream[i].next + 1
      <3>1. Head(up) \in Range(up) /\ Head(up).seq = stream[i].next
        BY <1>6, <2>2
      <3>2. sender.ready /\ sender.id = i => Head(up).seq < sender.sent
        BY <2>2, <3>1 DEF Wire, InStep
      <3>3. sender.sent \in Nat
        BY UpFacts
      <3> QED BY <1>4, <2>2, <3>1, <3>2, <3>3
    <2> QED BY <2>1, <2>2 DEF Takes
  <1>11. KeepsUnder(i)
    <2> SUFFICES ASSUME NEW n \in Nat, AllUnder(i, n), NEW k \in Nat, stream'[i].next <= k, k < n
                 PROVE  Under(i, k)'
      BY DEF KeepsUnder, AllUnder
    <2>1. stream[i].next <= k
      BY <1>4 DEF Takes
    <2>2. PICK m \in Range(up) : m.type = "chunk" /\ m.id = i /\ m.seq = k
      BY <2>1 DEF AllUnder, Under
    <2>3. m \in Range(up')
      <3>1. CASE up' = up
        BY <2>2, <3>1
      <3>2. CASE up # <<>> /\ up' = Tail(up) /\ Head(up).type # "chunk"
        BY <1>1, <2>2, <3>2
      <3>3. CASE up # <<>> /\ up' = Tail(up) /\ Head(up).type = "chunk" /\ Head(up).id = i
                 /\ stream'[i].next = stream[i].next + 1
        <4>1. Head(up).seq = stream[i].next
          BY <1>6, <3>3
        <4> QED BY <1>1, <1>4, <2>2, <3>3, <4>1
      <3> QED BY <3>1, <3>2, <3>3 DEF Takes
    <2> QED BY <2>2, <2>3 DEF Under
  <1>12. Opens(i)
    BY DEF Opens
  <1> QED BY <1>1, <1>2, <1>3, <1>7, <1>8, <1>9, <1>10, <1>11, <1>12, WireServes

\* The manager's steps on an open stream.
LEMMA WireConcludes ==
    ASSUME Types, Wire, UNCHANGED <<sender, started>>, NEW i \in Ids, phase[i] = "open",
           NEW s, NEW commands, NEW service, NEW msgs, Takes(i, s.next),
           msgs \in Seq(DownMessages), \A m \in Range(msgs) : m.id = i /\ m.type # "ack",
           Conclude(i, s, commands, service, msgs)
    PROVE  Wire' /\ \A j \in Ids : KeepsUnder(j) /\ Opens(j)
  <1>1. CASE Done(s)
    <2> DEFINE f == [type |-> "final", id |-> i, text |-> WholeText(s)]
               S == DownMessages \cup {f}
               told == <<f>>
               all == msgs \o told
    <2>1. Forget(i, all)
      BY <1>1 DEF Conclude
    <2>2. f.type = "final" /\ f.id = i /\ f \in S
      OBVIOUS
    <2>3. down \in Seq(DownMessages)
      BY DEF Types, LinkTypes
    <2> HIDE DEF f
    <2>4. msgs \in Seq(S) /\ down \in Seq(S) /\ told \in Seq(S)
      BY <2>2, <2>3
    <2>5. Range(told) = {f}
      BY DEF Range
    <2> HIDE DEF S, told
    <2>6. all \in Seq(S) /\ Range(all) = Range(msgs) \cup {f}
      BY <2>4, <2>5, ConcatRange
    <2>7. \A m \in Range(all) : m.id = i /\ m.type # "ack"
      BY <2>2, <2>6
    <2> HIDE DEF all
    <2>8. /\ StartsOnce(up') /\ ChunksAscend(up') /\ Range(up') \subseteq Range(up)
          /\ \A m \in Range(up) : m \in Range(up') \/ m = Head(up)
      BY TakenFacts DEF Takes
    <2>9. \A m \in Range(up) : m.type = "chunk" /\ m.id # i => m \in Range(up')
      BY <2>8 DEF Takes
    <2>10. i <= started /\ \A m \in Range(up') : m.type = "start" => m.id # i
      BY <2>8, StartedFacts
    <2> QED BY <2>1, <2>4, <2>6, <2>7, <2>8, <2>9, <2>10, WireForgets
  <1>2. CASE ~Done(s)
    <2>1. stream' = [stream EXCEPT ![i] = s] /\ Say(msgs) /\ phase' = phase
      BY <1>2 DEF Conclude
    <2>2. stream'[i] = s /\ \A j \in Ids \ {i} : stream'[j] = stream[j]
      BY <2>1 DEF Types, ServerTypes
    <2>3. \A m \in Range(down') : m \in Range(down) \/ (m.id = i /\ m.type # "ack")
      BY <2>1, SayRange DEF Types, LinkTypes
    <2> QED BY <2>1, <2>2, <2>3, WireGoesOn
  <1> QED BY <1>1, <1>2

\* A message that changes no stream.
LEMMA WireRefused ==
    ASSUME Types, Wire, UNCHANGED <<sender, started, server>>, up # <<>>, up' = Tail(up),
           Head(up).type # "chunk" \/ phase[Head(up).id] # "open",
           \A m \in Range(down') : m \in Range(down) \/ (m.id = Head(up).id /\ m.type # "ack")
    PROVE  Wire' /\ \A j \in Ids : KeepsUnder(j) /\ Opens(j)
  <1>0. PICK i \in Ids : i = Head(up).id
    BY UpFacts, TailRange
  <1>1. /\ StartsOnce(up') /\ ChunksAscend(up') /\ Range(up') \subseteq Range(up)
        /\ \A m \in Range(up) : m \in Range(up') \/ m = Head(up)
    BY TakenFacts
  <1>2. i <= started
    <2>1. Head(up) \in Range(up)
      BY UpFacts, TailRange
    <2> QED BY <1>0, <2>1, UpFacts DEF Wire, Numbered
  <1>3. phase' = phase /\ stream' = stream
    BY DEF server
  <1>4. phase[i] = "open" => \A m \in Range(up) : m.type = "chunk" => m \in Range(up')
    BY <1>0, <1>1
  <1>5. KeepsUnder(i) /\ Opens(i)
    BY <1>3, <1>4 DEF KeepsUnder, Opens, AllUnder, Under
  <1>6. \A m \in Range(up) : m.type = "chunk" /\ m.id # i => m \in Range(up')
    BY <1>0, <1>1
  <1>7. \A m \in Range(up') : m.type = "start" /\ m.id = i => phase'[i] = "none"
    BY <1>1, <1>3 DEF Wire, Numbered
  <1>8. /\ \A m \in Range(up') : m.type = "chunk" /\ m.id = i /\ phase'[i] = "open" => stream'[i].next <= m.seq
        /\ sender.ready /\ sender.id = i /\ phase'[i] = "open" => stream'[i].next <= sender.sent
    BY <1>1, <1>3 DEF Wire, InStep
  <1>9. \A m \in Range(down') : m \in Range(down) \/ (m.id = i /\ (m.type = "ack" => Started(i)'))
    BY <1>0
  <1>10. (Started(i) => Started(i)') /\ (~Started(i)' => stream'[i].next = stream[i].next)
    BY <1>3 DEF Started
  <1> QED BY <1>1, <1>2, <1>3, <1>5, <1>6, <1>7, <1>8, <1>9, <1>10, WireServes

\* A stream whose service connects, or is asked to.
LEMMA WireStarts ==
    ASSUME Types, Wire, UNCHANGED <<sender, started, stream>>, NEW i \in Ids, i <= started, ~Started(i),
           up' = up \/ (up # <<>> /\ up' = Tail(up) /\ Head(up).type = "start"),
           \A m \in Range(up') : m.type = "start" => m.id # i,
           NEW p \in {"connecting", "open"}, phase' = [phase EXCEPT ![i] = p],
           \A m \in Range(down') : m \in Range(down) \/ (m.id = i /\ p = "open")
    PROVE  Wire' /\ \A j \in Ids : KeepsUnder(j) /\ Opens(j)
  <1>1. /\ StartsOnce(up') /\ ChunksAscend(up') /\ Range(up') \subseteq Range(up)
        /\ \A m \in Range(up) : m \in Range(up') \/ m = Head(up)
    BY TakenFacts
  <1>2. phase'[i] = p /\ \A j \in Ids \ {i} : phase'[j] = phase[j]
    BY DEF Types, ServerTypes
  <1>3. NotYet(i)
    BY DEF Wire, StartFirst
  <1>4. \A m \in Range(up) : m.type = "chunk" => m \in Range(up') /\ m.id # i
    BY <1>1, <1>3 DEF NotYet
  <1>5. KeepsUnder(i) /\ Opens(i)
    BY <1>4 DEF KeepsUnder, Opens, AllUnder, Under
  <1>6. sender.ready => sender.id # i
    BY DEF Wire, StartFirst
  <1>7. \A m \in Range(down') : m \in Range(down) \/ (m.id = i /\ (m.type = "ack" => Started(i)'))
    BY <1>2 DEF Started
  <1>8. \A m \in Range(up') : m.type = "chunk" => m.id # i
    BY <1>1, <1>4
  <1> QED BY <1>1, <1>2, <1>4, <1>5, <1>6, <1>7, <1>8, WireServes

LEMMA FailRange ==
    ASSUME NEW i \in Ids
    PROVE  Fail(i) \in Seq(DownMessages) /\ \A m \in Range(Fail(i)) : m.id = i /\ m.type # "ack"
  <1>1. Range(Fail(i)) = {[type |-> "error", id |-> i]}
    BY DEF Range, Fail
  <1> QED BY <1>1, FailType

\* The daemon's handlers.
LEMMA HandlesWire ==
    ASSUME Types, Wire, HandleStart \/ HandleChunk \/ HandleFinish \/ HandleCancel
    PROVE  Wire' /\ \A j \in Ids : KeepsUnder(j) /\ Opens(j)
  <1>0. down \in Seq(DownMessages) /\ <<>> \in Seq(DownMessages) /\ \A m \in Range(<<>>) : FALSE
    BY DEF Types, LinkTypes, Range
  <1>1. up # <<>> /\ up' = Tail(up) /\ UNCHANGED <<sender, started>>
    BY DEF HandleStart, HandleChunk, HandleFinish, HandleCancel, Handle
  <1>11. PICK i \in Ids : i = Head(up).id
    BY <1>1, UpFacts, TailRange
  <1>2. Head(up) \in Range(up) /\ i = Head(up).id
    BY <1>1, <1>11, UpFacts, TailRange
  <1>3. i <= started
    BY <1>2 DEF Wire, Numbered
  <1>4. /\ StartsOnce(up') /\ ChunksAscend(up') /\ Range(up') \subseteq Range(up)
        /\ \A m \in Range(up) : m \in Range(up') \/ m = Head(up)
    BY <1>1, TakenFacts
  <1>5. ASSUME Say(Fail(i))
        PROVE  \A m \in Range(down') : m \in Range(down) \/ (m.id = i /\ m.type # "ack")
    BY <1>0, <1>2, <1>5, FailRange, SayRange
  <1>6. ASSUME NEW msgs \in Seq(DownMessages), \A m \in Range(msgs) : m.id = i /\ m.type # "ack",
               Forget(i, msgs), \A m \in Range(up') : m.type = "start" => m.id # i
        PROVE  Wire' /\ \A j \in Ids : KeepsUnder(j) /\ Opens(j)
    <2>1. \A m \in Range(up) : m.type = "chunk" /\ m.id # i => m \in Range(up')
      BY <1>2, <1>4
    <2> QED BY <1>0, <1>1, <1>2, <1>3, <1>4, <1>6, <2>1, WireForgets
  <1>7. CASE HandleStart
    <2>1. Head(up).type = "start"
      BY <1>7 DEF HandleStart, Handle
    <2>2. phase[i] = "none" /\ \A m \in Range(up') : m.type = "start" => m.id # i
      BY <1>1, <1>2, <2>1, UpFacts, TailStartsOnce DEF Wire, Numbered
    <2>3. CASE phase' = [phase EXCEPT ![i] = "connecting"] /\ UNCHANGED <<stream, stt, down, rare>>
      <3>1. ~Started(i)
        BY <2>2 DEF Started
      <3> QED BY <1>1, <1>2, <1>3, <2>1, <2>2, <2>3, <3>1, WireStarts
    <2>4. CASE Forget(i, Fail(i))
      BY <1>2, <1>6, <2>2, <2>4, FailRange
    <2> QED BY <1>2, <1>7, <2>3, <2>4 DEF HandleStart
  <1>8. ASSUME phase[i] = "open"
        PROVE  \A m \in Range(up') : m.type = "start" => m.id # i
    BY <1>2, <1>4, <1>8, StartedFacts
  <1>9. CASE HandleChunk
    <2> DEFINE m == Head(up)
    <2>1. m.type = "chunk" /\ m \in UpMessages
      BY <1>2, <1>9, UpFacts DEF HandleChunk, Handle
    <2>2. CASE phase[i] # "open"
      <3>1. Say(Fail(i)) /\ UNCHANGED server
        BY <1>2, <1>9, <2>2 DEF HandleChunk
      <3> QED BY <1>1, <1>2, <1>5, <2>2, <3>1, WireRefused
    <2>3. CASE phase[i] = "open"
      <3>1. m.seq = stream[i].next
        BY <1>1, <1>2, <2>1, <2>3, WireInOrder DEF ChunksInOrder
      <3>2. Forward(m, stream[i])
        <4>1. StreamTypeOK(stream[m.id]) /\ phase[m.id] = "open" /\ m.seq = stream[m.id].next
          BY <1>2, <2>3, <3>1 DEF Types, ServerTypes
        <4>2. Forward(m, stream[m.id])
          BY <1>9, <4>1 DEF HandleChunk, StreamTypeOK
        <4> QED BY <1>2, <4>2
      <3> DEFINE s == Sealed(ForwardNext(m, stream[i]))
                 commands == ForwardCommands(m, stream[i]) \o SealCommands(ForwardNext(m, stream[i]))
      <3>3. Conclude(i, s, commands, stt[i], <<>>)
        BY <1>2, <3>2, ForwardMeans
      <3>4. s.next = stream[i].next + 1
        <4>1. StreamTypeOK(stream[i])
          BY <1>2 DEF Types, ServerTypes
        <4>2. StreamTypeOK(ForwardNext(m, stream[i])) /\ ForwardNext(m, stream[i]).next = stream[i].next + 1
          BY <2>1, <3>1, <4>1, ForwardTypeOK
        <4> QED BY <4>2, SealedTypeOK
      <3> HIDE DEF s, commands
      <3>5. Takes(i, s.next)
        BY <1>1, <1>2, <2>1, <2>3, <3>4 DEF Takes
      <3> QED BY <1>0, <1>1, <1>2, <2>3, <3>3, <3>5, WireConcludes
    <2> QED BY <2>2, <2>3
  <1>10. CASE HandleFinish
    <2>1. Head(up).type = "finish" /\ Head(up) \in UpMessages
      BY <1>2, <1>10, UpFacts DEF HandleFinish, Handle
    <2>2. CASE phase[i] # "open"
      <3>1. Say(Fail(i)) /\ UNCHANGED server
        BY <1>2, <1>10, <2>2 DEF HandleFinish
      <3> QED BY <1>1, <1>2, <1>5, <2>2, <3>1, WireRefused
    <2>3. CASE phase[i] = "open"
      <3> DEFINE s == [stream[i] EXCEPT !.last = Head(up).last]
                 r == Sealed(s)
                 commands == SealCommands(s)
      <3>1. CASE Forget(i, Fail(i))
        BY <1>2, <1>6, <1>8, <2>3, <3>1, FailRange
      <3>2. CASE Conclude(i, r, commands, stt[i], <<>>)
        <4>1. StreamTypeOK(stream[i]) /\ Head(up).last \in 0..MaxChunks
          BY <1>2, <2>1 DEF Types, ServerTypes, UpMessages
        <4>2. StreamTypeOK(s) /\ s.next = stream[i].next
          <5>1. StreamTypeOK(s)
            BY <4>1, SetTypeOK
          <5> QED BY <4>1, <5>1 DEF StreamTypeOK
        <4>3. r.next = stream[i].next
          BY <4>2, SealedTypeOK
        <4> HIDE DEF s, r, commands
        <4>4. Takes(i, r.next)
          BY <1>1, <2>1, <4>3 DEF Takes
        <4> QED BY <1>0, <1>1, <1>2, <2>3, <3>2, <4>4, WireConcludes
      <3> QED BY <1>2, <1>10, <2>3, <3>1, <3>2 DEF HandleFinish
    <2> QED BY <2>2, <2>3
  <1>12. CASE HandleCancel
    <2>1. Head(up).type = "cancel"
      BY <1>12 DEF HandleCancel, Handle
    <2>2. CASE phase[i] # "open"
      <3>1. UNCHANGED <<server, down>>
        BY <1>2, <1>12, <2>2 DEF HandleCancel
      <3> QED BY <1>1, <1>2, <2>2, <3>1, WireRefused
    <2>3. CASE phase[i] = "open"
      <3>1. Forget(i, <<>>)
        BY <1>2, <1>12, <2>3 DEF HandleCancel
      <3> QED BY <1>0, <1>6, <1>8, <2>3, <3>1
    <2> QED BY <2>2, <2>3
  <1> QED BY <1>7, <1>9, <1>10, <1>12

\* The transcription service's steps.
LEMMA ServesWire ==
    ASSUME Types, Wire, NEW i \in Ids,
           SttConnects(i) \/ FinalTimeout(i) \/ Serve(i) \/ Transcript(i) \/ SttFails(i)
    PROVE  Wire' /\ \A j \in Ids : KeepsUnder(j) /\ Opens(j)
  <1>0. down \in Seq(DownMessages) /\ <<>> \in Seq(DownMessages) /\ \A m \in Range(<<>>) : FALSE
    BY DEF Types, LinkTypes, Range
  <1>1. up' = up /\ UNCHANGED <<sender, started>>
    BY DEF SttConnects, FinalTimeout, Serve, Transcript, SttFails, Serving, app
  <1>2. phase[i] # "none"
    BY DEF SttConnects, FinalTimeout, Serve, Transcript, SttFails, Serving
  <1>3. i <= started /\ \A m \in Range(up') : m.type = "start" => m.id # i
    BY <1>1, <1>2, StartedFacts
  <1>4. StartsOnce(up') /\ ChunksAscend(up')
    BY <1>1 DEF Wire, Numbered, InStep
  <1>5. CASE Forget(i, Fail(i))
    BY <1>0, <1>1, <1>3, <1>4, <1>5, FailRange, WireForgets
  <1>6. ASSUME NEW s, NEW commands, NEW service, NEW msgs, s.next = stream[i].next, phase[i] = "open",
               msgs \in Seq(DownMessages), \A m \in Range(msgs) : m.id = i /\ m.type # "ack",
               Conclude(i, s, commands, service, msgs)
        PROVE  Wire' /\ \A j \in Ids : KeepsUnder(j) /\ Opens(j)
    <2>1. Takes(i, s.next)
      BY <1>1, <1>6 DEF Takes
    <2> QED BY <1>1, <1>6, <2>1, WireConcludes
  <1>7. StreamTypeOK(stream[i]) /\ SttTypeOK(stt[i])
    BY DEF Types, ServerTypes
  <1>8. CASE SttConnects(i)
    <2>1. CASE phase' = [phase EXCEPT ![i] = "open"] /\ Say(<<[type |-> "ack", id |-> i]>>) /\ UNCHANGED stream
      <3>1. ~Started(i)
        BY <1>8 DEF SttConnects, Started
      <3> DEFINE msgs == <<[type |-> "ack", id |-> i]>>
      <3>2. msgs \in Seq(DownMessages) /\ Range(msgs) = {[type |-> "ack", id |-> i]} /\ Say(msgs)
        BY <2>1 DEF DownMessages, Range
      <3>3. Range(down') \subseteq Range(down) \cup Range(msgs)
        <4> HIDE DEF msgs
        <4> QED BY <1>0, <3>2, SayRange
      <3>4. \A m \in Range(down') : m \in Range(down) \/ (m.id = i /\ "open" = "open")
        BY <3>2, <3>3
      <3> QED BY <1>1, <1>3, <2>1, <3>1, <3>4, WireStarts
    <2> QED BY <1>5, <1>8, <2>1 DEF SttConnects
  <1>9. CASE FinalTimeout(i) \/ SttFails(i)
    BY <1>5, <1>9 DEF FinalTimeout, SttFails
  <1>10. CASE Serve(i)
    <2> DEFINE t == [stt[i] EXCEPT !.todo = Tail(@)]
               s == stream[i]
               calm == IF s.last > 0 THEN [s EXCEPT !.awaiting = FALSE] ELSE s
               done == [calm EXCEPT !.committed = Append(@, t.cur), !.bytes = 0, !.loud = FALSE]
               kept == [t EXCEPT !.buf = <<>>, !.cur = @ + 1, !.owed = @ \cup {[seg |-> t.cur, text |-> t.buf]}]
    <2>1. phase[i] = "open"
      BY <1>10 DEF Serve, Serving
    <2>2. calm.next = s.next /\ StreamTypeOK(calm)
      <3>1. StreamTypeOK([s EXCEPT !.awaiting = FALSE]) /\ [s EXCEPT !.awaiting = FALSE].next = s.next
        BY <1>7, SetTypeOK DEF StreamTypeOK
      <3> QED BY <1>7, <3>1
    <2>3. done.next = s.next
      BY <2>2 DEF StreamTypeOK
    <2>4. \/ UNCHANGED <<phase, stream, down>>
          \/ Conclude(i, done, <<>>, kept, <<>>)
          \/ Conclude(i, calm, <<>>, t, <<>>)
          \/ Forget(i, Fail(i))
      BY <1>10 DEF Serve
    <2>5. CASE UNCHANGED <<phase, stream, down>>
      <3>1. Takes(i, stream'[i].next)
        BY <1>1, <2>5 DEF Takes
      <3> QED BY <1>1, <2>1, <2>5, <3>1, WireGoesOn
    <2> HIDE DEF s, t, calm, done, kept
    <2>6. CASE Conclude(i, done, <<>>, kept, <<>>)
      BY <1>0, <1>6, <2>1, <2>3, <2>6 DEF s
    <2>7. CASE Conclude(i, calm, <<>>, t, <<>>)
      BY <1>0, <1>6, <2>1, <2>2, <2>7 DEF s
    <2> QED BY <1>5, <2>4, <2>5, <2>6, <2>7
  <1>11. CASE Transcript(i)
    <2>1. phase[i] = "open"
      BY <1>11 DEF Transcript, Serving
    <2>2. ASSUME NEW g \in Nat, NEW text \in Text, NEW final \in SUBSET Nat, NEW service,
                 Hear(i, g, text, final, service)
          PROVE  Wire' /\ \A j \in Ids : KeepsUnder(j) /\ Opens(j)
      <3> DEFINE s == Heard(stream[i], g, text, final)
                 order == IF g \in Range(s.committed) THEN s.committed ELSE Append(s.committed, g)
                 f == [type |-> "partial", id |-> i, text |-> Said(s, order)]
                 msgs == <<f>>
                 r == Sealed(s)
                 commands == SealCommands(s)
      <3>1. StreamTypeOK(s) /\ s.next = stream[i].next
        BY <1>7, HeardTypeOK
      <3>2. Conclude(i, r, commands, service, msgs)
        BY <2>2 DEF Hear
      <3> HIDE DEF s
      <3>3. order \in Seq(Nat)
        BY <3>1 DEF StreamTypeOK
      <3>4. Said(s, order) \in Texts
        BY <3>1, <3>3, SaidType
      <3>5. r.next = stream[i].next
        BY <3>1, SealedTypeOK
      <3>6. f \in DownMessages /\ f.id = i /\ f.type = "partial"
        BY <3>4 DEF DownMessages
      <3> HIDE DEF f, r, commands
      <3>7. msgs \in Seq(DownMessages) /\ Range(msgs) = {f}
        BY <3>6 DEF Range
      <3> HIDE DEF msgs
      <3> QED BY <1>6, <2>1, <3>2, <3>5, <3>6, <3>7
    <2>3. CASE \E o \in stt[i].owed : Hear(i, o.seg, o.text, {o.seg}, [stt[i] EXCEPT !.owed = @ \ {o}])
      <3>1. PICK o \in stt[i].owed : Hear(i, o.seg, o.text, {o.seg}, [stt[i] EXCEPT !.owed = @ \ {o}])
        BY <2>3
      <3>2. o.seg \in Nat /\ o.text \in Text /\ {o.seg} \in SUBSET Nat
        BY <1>7 DEF SttTypeOK
      <3> QED BY <2>2, <3>1, <3>2
    <2>4. CASE Hear(i, stt[i].cur, stt[i].buf, {}, stt[i])
      <3>1. stt[i].cur \in Nat /\ stt[i].buf \in Text
        BY <1>7 DEF SttTypeOK
      <3> QED BY <2>2, <2>4, <3>1
    <2> QED BY <1>11, <2>3, <2>4 DEF Transcript
  <1> QED BY <1>8, <1>9, <1>10, <1>11

-----------------------------------------------------------------------------
(* Chunks in order: nothing is sent after a gap *)
LEMMA DownTaken ==
    ASSUME Types, down' = down \/ down' = <<>> \/ (down # <<>> /\ down' = Tail(down))
    PROVE  Range(down') \subseteq Range(down)
  <1>1. down \in Seq(DownMessages)
    BY DEF Types, LinkTypes
  <1>2. down # <<>> => Range(Tail(down)) \subseteq Range(down)
    BY <1>1, TailRange
  <1>3. Range(<<>>) = {}
    BY DEF Range
  <1> QED BY <1>2, <1>3

\* The app sends nothing.
LEMMA QuietWire ==
    ASSUME Types, Wire, UNCHANGED <<server, up, started>>, sender' = sender \/ Loosened(sender'),
           down' = down \/ (down # <<>> /\ down' = Tail(down))
    PROVE  Wire'
  <1>1. Range(down') \subseteq Range(down)
    BY DownTaken
  <1>2. StartsOnce(up') /\ ChunksAscend(up')
    BY DEF Wire, Numbered, InStep
  <1> QED BY <1>1, <1>2, WireKept

LEMMA ClearLoosens == ClearAll => Loosened(sender')
  BY DEF ClearAll, NoSender, Loosened

LEMMA RestartWire ==
    ASSUME Types, Wire, UNCHANGED <<server, down>>, Restart
    PROVE  Wire' /\ ~sender'.ready
  <1>1. Wire'
    BY WireRestarts
  <1> QED BY <1>1 DEF Restart

LEMMA WholeKept == ASSUME UNCHANGED <<sender, segs, up, server>>, Whole PROVE Whole'
  BY DEF Whole, AllUnder, Under, server

\* A sender that is not ready has nothing to send.
LEMMA NothingSent ==
    ASSUME Wire', ~sender'.ready,
           mic' => recording', finish'["confirm"].pc \notin {"none", "stopping"} => ~recording',
           finish'["retry"].pc # "none" => ~recording',
           ~connected' => opener' \in {0, -1} /\ \A o \in {"confirm", "retry"} : Resting(finish'[o])
    PROVE  Sending'
  BY DEF Sending, NoGap, Recording

\* One that goes on as it was, while the hook moves.
LEMMA SameSender ==
    ASSUME Types, Sending, Wire', UNCHANGED <<sender, segs, up, server>>, connected' => connected,
           mic' => recording', finish'["confirm"].pc \notin {"none", "stopping"} => ~recording',
           finish'["retry"].pc # "none" => ~recording',
           ~connected' => opener' \in {0, -1} /\ \A o \in {"confirm", "retry"} : Resting(finish'[o]),
           sender.ready /\ opener' = -1 => sender.sent = Len(segs),
           sender.ready /\ ~recording' /\ Stopping' => sender.sent = Len(segs),
           connected /\ sender.ready /\ Spent => Spent' \/ Whole
    PROVE  Sending'
  <1>1. NoGap'
    <2>1. Whole => Whole'
      BY WholeKept
    <2> QED BY <2>1 DEF Sending, NoGap
  <1> QED BY <1>1 DEF Sending, Recording

LEMMA StartDictationSends ==
    ASSUME Types, Types', Sending, ~Overlap, StartDictation
    PROVE  Sending'
  <1>0. /\ opener = 0 /\ finish["confirm"].pc = "none" /\ finish["retry"].pc = "none" /\ finish' = finish
        /\ recording' = TRUE /\ UNCHANGED <<connected, down, server>>
    BY DEF StartDictation
  <1>1. CASE connected
    <2>1. Restart /\ connected'
      BY <1>1 DEF StartDictation
    <2>2. Wire' /\ ~sender'.ready
      BY <1>0, <2>1, RestartWire DEF Sending
    <2> QED BY <1>0, <2>1, <2>2, NothingSent
  <1>2. CASE ~connected
    <2>1. sender' = NoSender /\ UNCHANGED <<up, started, opener>>
      BY <1>2 DEF StartDictation
    <2>2. Loosened(sender')
      BY <2>1 DEF Loosened, NoSender
    <2>3. Wire'
      BY <1>0, <2>1, <2>2, QuietWire DEF Sending
    <2>4. opener' \in {0, -1} /\ \A o \in {"confirm", "retry"} : Resting(finish'[o])
      BY <1>0, <1>2, <2>1 DEF Sending, Recording
    <2> QED BY <1>0, <2>2, <2>3, <2>4, NothingSent DEF Loosened
  <1> QED BY <1>1, <1>2

LEMMA ConfirmSends == ASSUME Types, Types', Sending, Confirm PROVE Sending'
  <1>0. /\ recording /\ finish["confirm"].pc = "none" /\ opener # -1
        /\ UNCHANGED <<recording, mic, opener, segs, sender, started, link, server>>
        /\ finish' = [finish EXCEPT !["confirm"] =
                        [NoFinish EXCEPT !.pc = "stopping", !.current = TRUE, !.of = take]]
    BY DEF Confirm, Quiet
  <1>1. finish'["confirm"].pc = "stopping" /\ finish'["retry"] = finish["retry"]
    BY <1>0, AppFacts DEF NoFinish
  <1>2. Wire'
    BY <1>0, QuietWire DEF Sending, link
  <1>3. UNCHANGED <<recording, mic, opener, segs, sender, up, connected, server>>
    BY <1>0 DEF link
  <1>4. ~connected' => opener' \in {0, -1} /\ \A o \in {"confirm", "retry"} : Resting(finish'[o])
    BY <1>1, <1>3 DEF Sending, Recording, Resting
  <1>5. connected /\ sender.ready /\ Spent => Spent' \/ Whole
    BY <1>0, <1>3 DEF Spent
  <1> QED BY <1>0, <1>1, <1>2, <1>3, <1>4, <1>5, SameSender DEF Sending, Recording

LEMMA MicStopsSends == ASSUME Types, Types', Sending, MicStops PROVE Sending'
  <1> DEFINE f == finish["confirm"]
             pc == IF ~connected THEN "error" ELSE IF sender.id = 0 THEN "restart"
                   ELSE IF sender.ready THEN "go" ELSE "start"
             n == IF pc = "restart" THEN started + 1 ELSE sender.id
  <1>0. /\ f.pc = "stopping" /\ mic' = FALSE /\ opener # -1
        /\ UNCHANGED <<opener, connected, down, server>>
    BY DEF MicStops, Quiet
  <1>1. CASE /\ finish' = [finish EXCEPT !["confirm"] = NoFinish]
             /\ UNCHANGED <<recording, processing, failed, partial, segs>> /\ KeepSender
    <2>1. finish'["confirm"] = NoFinish /\ finish'["retry"] = finish["retry"] /\ NoFinish.pc = "none"
      BY <1>1, AppFacts DEF NoFinish
    <2>2. UNCHANGED <<recording, segs, sender, up, started>>
      BY <1>1 DEF KeepSender
    <2>3. Wire'
      BY <1>0, <2>2, QuietWire DEF Sending
    <2>4. ~connected' => opener' \in {0, -1} /\ \A o \in {"confirm", "retry"} : Resting(finish'[o])
      BY <1>0, <2>1 DEF Sending, Recording, Resting
    <2>5. Spent => Spent'
      BY <1>0, <2>1, <2>2 DEF Spent, Resting, Stopping
    <2>6. ~Stopping'
      BY <2>1 DEF Stopping
    <2> QED BY <1>0, <2>1, <2>2, <2>3, <2>4, <2>5, <2>6, SameSender DEF Sending, Recording
  <1>2. CASE /\ recording' = FALSE /\ processing' = FALSE /\ failed' = FALSE
             /\ finish' = [finish EXCEPT !["confirm"] = NoFinish]
             /\ ClearAll /\ UNCHANGED <<up, started>>
    <2>1. finish'["confirm"] = NoFinish /\ finish'["retry"] = finish["retry"] /\ NoFinish.pc = "none"
      BY <1>2, AppFacts DEF NoFinish
    <2>2. Loosened(sender') /\ Wire'
      BY <1>0, <1>2, ClearLoosens, QuietWire DEF Sending
    <2>3. ~connected' => opener' \in {0, -1} /\ \A o \in {"confirm", "retry"} : Resting(finish'[o])
      BY <1>0, <2>1 DEF Sending, Recording, Resting
    <2> QED BY <1>0, <1>2, <2>1, <2>2, <2>3, NothingSent DEF Loosened
  <1>3. CASE /\ f.current
             /\ recording' = FALSE
             /\ finish' = [finish EXCEPT !["confirm"] = [f EXCEPT !.last = Len(segs), !.pc = pc, !.id = n]]
             /\ IF pc = "restart" THEN Restart ELSE KeepSender
             /\ UNCHANGED <<processing, failed, partial, segs>>
    <2> HIDE DEF n
    <2>1. finish'["confirm"].pc = pc /\ finish'["retry"] = finish["retry"]
      BY <1>3, AppFacts DEF FinishType
    <2>2. ~connected => pc = "error"
      OBVIOUS
    <2>3. ~connected' => opener' \in {0, -1} /\ \A o \in {"confirm", "retry"} : Resting(finish'[o])
      BY <1>0, <2>1, <2>2 DEF Sending, Recording, Resting
    <2>4. CASE pc = "restart"
      <3>1. Wire' /\ ~sender'.ready
        BY <1>0, <1>3, <2>4, RestartWire DEF Sending
      <3> QED BY <1>0, <1>3, <2>3, <3>1, NothingSent
    <2>5. CASE pc # "restart"
      <3>1. UNCHANGED <<sender, up, started, segs>>
        BY <1>3, <2>5 DEF KeepSender
      <3>2. Wire'
        BY <1>0, <3>1, QuietWire DEF Sending
      <3>3. ~Stopping'
        BY <2>1 DEF Stopping
      <3>4. Spent => Spent'
        BY <1>0, <1>3, <3>1 DEF Spent, Stopping
      <3> HIDE DEF pc
      <3> QED BY <1>0, <1>3, <2>3, <3>1, <3>2, <3>3, <3>4, SameSender
    <2> QED BY <2>4, <2>5
  <1> QED BY <1>1, <1>2, <1>3 DEF MicStops

LEMMA CancelSends == ASSUME Types, Types', Sending, Cancel PROVE Sending'
  <1>0. /\ UNCHANGED <<recording, mic, opener, segs, started, connected, down, server>> /\ sender' = NoSender
        /\ finish' = [finish EXCEPT !["confirm"].current = FALSE]
        /\ up' = IF connected /\ sender.id # 0 THEN Append(up, [type |-> "cancel", id |-> sender.id]) ELSE up
    BY DEF Cancel
  <1>1. finish'["confirm"].pc = finish["confirm"].pc /\ finish'["retry"] = finish["retry"]
    BY <1>0, AppFacts DEF FinishType
  <1>2. Loosened(sender')
    BY <1>0 DEF Loosened, NoSender
  <1>3. Wire'
    <2>1. CASE up' = up
      BY <1>0, <1>2, <2>1, QuietWire DEF Sending
    <2>2. CASE sender.id # 0 /\ up' = Append(up, [type |-> "cancel", id |-> sender.id])
      <3> DEFINE m == [type |-> "cancel", id |-> sender.id]
      <3>1. m \in UpMessages /\ m.type = "cancel" /\ m.id = sender.id
        BY <2>2, UpFacts DEF UpMessages
      <3> HIDE DEF m
      <3>2. Range(up') = Range(up) \cup {m} /\ ChunksAscend(up') /\ StartsOnce(up')
        <4>1. up' = Append(up, m)
          BY <2>2 DEF m
        <4> QED BY <3>1, <4>1, UpFacts, AppendUp DEF Sending, Wire, Numbered, InStep
      <3>3. m.id <= started
        BY <3>1 DEF Sending, Wire, Numbered
      <3> QED BY <1>0, <1>2, <3>1, <3>2, <3>3, WireKept DEF Sending
    <2> QED BY <1>0, <2>1, <2>2
  <1> QED BY <1>0, <1>1, <1>2, <1>3, NothingSent DEF Sending, Recording, Resting, Loosened

LEMMA ClearsSends ==
    ASSUME Types, Types', Sending, CancelEnds \/ Discard
    PROVE  Sending'
  <1>1. ClearAll /\ UNCHANGED <<opener, finish, started, link, server>>
        /\ ((mic' = FALSE /\ recording' = FALSE) \/ UNCHANGED <<mic, recording>>)
    BY DEF CancelEnds, Discard
  <1>2. Loosened(sender') /\ Wire'
    BY <1>1, ClearLoosens, QuietWire DEF Sending, link
  <1> QED BY <1>1, <1>2, NothingSent DEF Sending, Recording, Loosened, link

\* A sender that has just sent all there is.
LEMMA SentAll ==
    ASSUME Wire', sender'.ready, sender'.sent = Len(segs'), Whole' \/ ~mic',
           mic' => recording', finish'["confirm"].pc \notin {"none", "stopping"} => ~recording',
           finish'["retry"].pc # "none" => ~recording', connected'
    PROVE  Sending'
  BY DEF Sending, NoGap, Recording, Spent

LEMMA SpeakSends == ASSUME Types, Types', Sending, NEW loud \in BOOLEAN, Speak(loud) PROVE Sending'
  <1>0. /\ mic /\ opener # -1 /\ segs' = Append(segs, loud) /\ Len(segs) < MaxChunks
        /\ UNCHANGED <<recording, mic, opener, finish, connected, down, server>>
    BY DEF Speak, Quiet, hook
  <1>1. recording
    BY <1>0 DEF Sending, Recording
  <1>2. segs' \in Seq(BOOLEAN) /\ Len(segs') = Len(segs) + 1 /\ Len(segs') <= MaxChunks
    BY <1>0, AppFacts, Bounds
  <1>3. CASE KeepSender /\ (~connected \/ ~sender.ready)
    <2>1. UNCHANGED <<sender, up, started>>
      BY <1>3 DEF KeepSender
    <2>2. Wire'
      BY <1>0, <2>1, QuietWire DEF Sending
    <2>3. NoGap'
      BY <1>0, <1>3, <2>1 DEF NoGap
    <2> QED BY <1>0, <1>1, <2>1, <2>2, <2>3 DEF Sending, Recording
  <1>4. CASE Restart
    <2>1. Wire' /\ ~sender'.ready
      BY <1>0, <1>4, RestartWire DEF Sending
    <2> QED BY <1>0, <2>1, NothingSent DEF Sending, Recording
  <1>5. CASE connected /\ sender.ready /\ Flush(sender, segs', <<>>)
    <2>1. Whole
      BY <1>0, <1>5 DEF Sending, NoGap, Spent
    <2>2. sender.id # 0 /\ Started(sender.id) /\ sender.sent <= Len(segs')
      <3>1. sender.sent \in Nat /\ Len(segs) \in Nat
        BY AppFacts, UpFacts
      <3> QED BY <1>2, <1>5, <3>1, AppFacts DEF SenderTypes, Sending, Wire, StartFirst
    <2>3. Range(down') \subseteq Range(down)
      BY <1>0
    <2>4. <<>> \in Seq(UpMessages) /\ \A m \in Range(<<>>) : FALSE
      BY DEF Range
    <2>5. PICK all \in Seq(BOOLEAN) : all = segs'
      BY <1>2
    <2>6. Len(all) <= MaxChunks /\ sender.sent <= Len(all) /\ Flush(sender, all, <<>>)
      BY <1>2, <1>5, <2>2, <2>5
    <2>7. phase[sender.id] = "open" => AllUnder(sender.id, sender.sent)
      BY <2>1 DEF Whole
    <2>8. /\ Wire' /\ sender'.sent = Len(all) /\ sender'.id = sender.id /\ sender'.ready
          /\ phase[sender.id] = "open" /\ AllUnder(sender.id, sender.sent) => AllUnder(sender.id, sender.sent)'
      BY <1>0, <1>5, <2>2, <2>3, <2>4, <2>6, <2>7, WireFlushes DEF Sending
    <2>9. Whole'
      BY <1>0, <2>5, <2>7, <2>8 DEF Whole, server
    <2> QED BY <1>0, <1>5, <2>5, <2>8, <2>9, SentAll DEF Sending, Recording
  <1> QED BY <1>3, <1>4, <1>5 DEF Speak

LEMMA HideSends == ASSUME Types, Types', Sending, Hide PROVE Sending'
  <1>0. /\ ~recording /\ opener # -1
        /\ UNCHANGED <<recording, mic, opener, started, connected, up, down, server>>
        /\ finish' = [finish EXCEPT !["confirm"].current = FALSE]
        /\ ClearAll \/ UNCHANGED <<segs, sender, partial>>
    BY DEF Hide, Quiet
  <1>1. /\ finish'["confirm"].pc = finish["confirm"].pc /\ ~finish'["confirm"].current
        /\ finish'["retry"] = finish["retry"]
    BY <1>0, AppFacts DEF FinishType
  <1>2. ~connected' => opener' \in {0, -1} /\ \A o \in {"confirm", "retry"} : Resting(finish'[o])
    BY <1>0, <1>1 DEF Sending, Recording, Resting
  <1>3. CASE ClearAll
    <2>1. Loosened(sender') /\ Wire'
      BY <1>0, <1>3, ClearLoosens, QuietWire DEF Sending
    <2> QED BY <1>0, <1>1, <1>2, <2>1, NothingSent DEF Sending, Recording, Loosened
  <1>4. CASE UNCHANGED <<segs, sender, partial>>
    <2>1. Wire'
      BY <1>0, <1>4, QuietWire DEF Sending
    <2>2. ~Stopping' /\ (Spent => Spent')
      BY <1>0, <1>1, <1>4 DEF Spent, Resting, Stopping
    <2> QED BY <1>0, <1>1, <1>2, <1>4, <2>1, <2>2, SameSender DEF Sending, Recording
  <1> QED BY <1>0, <1>3, <1>4

LEMMA RetrySends == ASSUME Types, Types', Sending, Retry PROVE Sending'
  <1> DEFINE new == [pc |-> IF connected THEN "restart" ELSE "error", id |-> IF connected THEN started + 1 ELSE 0,
                     last |-> Len(segs), current |-> TRUE, of |-> take]
  <1>0. /\ ~recording /\ opener # -1 /\ finish' = [finish EXCEPT !["retry"] = new]
        /\ IF connected THEN Restart ELSE KeepSender
        /\ UNCHANGED <<recording, mic, opener, segs, connected, down, server>>
    BY DEF Retry, Quiet
  <1>1. /\ finish'["confirm"] = finish["confirm"]
        /\ finish'["retry"].pc = IF connected THEN "restart" ELSE "error"
    BY <1>0, AppFacts
  <1>2. ~connected' => opener' \in {0, -1} /\ \A o \in {"confirm", "retry"} : Resting(finish'[o])
    BY <1>0, <1>1 DEF Sending, Recording, Resting
  <1>3. CASE connected
    <2>1. Wire' /\ ~sender'.ready
      BY <1>0, <1>3, RestartWire DEF Sending
    <2> QED BY <1>0, <1>1, <1>2, <2>1, NothingSent DEF Sending, Recording
  <1>4. CASE ~connected
    <2>1. UNCHANGED <<sender, up, started>>
      BY <1>0, <1>4 DEF KeepSender
    <2>2. Wire'
      BY <1>0, <2>1, QuietWire DEF Sending
    <2> QED BY <1>0, <1>1, <1>2, <1>4, <2>1, <2>2, SameSender DEF Sending, Recording, Stopping
  <1> QED BY <1>3, <1>4

LEMMA OpenFailsSends == ASSUME Types, Types', Sending, OpenFails PROVE Sending'
  <1>0. /\ opener = -1 /\ opener' = 0 /\ ~mic' /\ ~recording'
        /\ UNCHANGED <<finish, segs, sender, started, link, server>>
    BY DEF OpenFails
  <1>1. Wire'
    BY <1>0, QuietWire DEF Sending, link
  <1>2. ~Spent \/ sender.sent = Len(segs)
    BY <1>0 DEF Spent
  <1>3. UNCHANGED <<finish, segs, sender, up, connected, server>>
    BY <1>0 DEF link
  <1>4. Spent => Spent'
    BY <1>0, <1>2, <1>3 DEF Spent
  <1> QED BY <1>0, <1>1, <1>3, <1>4, SameSender DEF Sending, Recording

\* Whoever ends a recording goes on only over a connection that is up, after the recording.
LEMMA FinishFacts ==
    ASSUME Sending, NEW o \in {"confirm", "retry"}, finish[o].pc \notin {"none", "stopping"}
    PROVE  ~recording /\ ~mic /\ (~Resting(finish[o]) => connected)
  BY DEF Sending, Recording

LEMMA FinishContinuesSends ==
    ASSUME Types, Types', Sending, NEW o \in {"confirm", "retry"}, FinishContinues(o)
    PROVE  Sending'
  <1>0. /\ finish[o].pc \in {"check", "go"}
        /\ UNCHANGED <<recording, mic, opener, segs, connected, down, server>>
    BY DEF FinishContinues
  <1>1. ~recording /\ ~mic /\ connected /\ ~Resting(finish[o])
    BY <1>0, FinishFacts DEF Resting
  <1>2. CASE ~sender.ready /\ KeepSender
    <2>1. UNCHANGED <<sender, up, started>>
      BY <1>2 DEF KeepSender
    <2>2. Wire'
      BY <1>0, <2>1, QuietWire DEF Sending
    <2> QED BY <1>0, <1>1, <1>2, <2>1, <2>2, NothingSent
  <1>3. CASE sender.ready /\ SendFinish(o)
    <2> DEFINE m == [type |-> "finish", id |-> sender.id, last |-> finish[o].last]
    <2>1. PICK more \in Seq(UpMessages) : more = <<m>>
      <3>1. sender.id \in Ids /\ finish[o].last \in 0..MaxChunks
        BY <1>3, AppFacts, UpFacts DEF SenderTypes, FinishType
      <3>2. <<m>> \in Seq(UpMessages)
        BY <3>1 DEF UpMessages
      <3> HIDE DEF m
      <3> QED BY <3>2
    <2>2. \A r \in Range(more) : r.type = "finish" /\ r.id = sender.id
      BY <2>1 DEF Range
    <2>3. Flush(sender, segs, more)
      BY <1>1, <1>3, <2>1 DEF SendFinish
    <2>4. sender.id # 0 /\ Started(sender.id) /\ sender.sent <= Len(segs)
      BY <1>3, AppFacts DEF SenderTypes, Sending, Wire, StartFirst
    <2>5. PICK all \in Seq(BOOLEAN) : all = segs
      BY AppFacts
    <2>6. Whole \/ sender.sent = Len(segs)
      BY <1>0, <1>1, <1>3 DEF Sending, NoGap, Spent
    <2>7. sender.sent = Len(all) \/ (phase[sender.id] = "open" => AllUnder(sender.id, sender.sent))
      BY <2>5, <2>6 DEF Whole
    <2>8. Len(all) <= MaxChunks /\ sender.sent <= Len(all) /\ Flush(sender, all, more)
      BY <2>3, <2>4, <2>5, AppFacts
    <2>9. Range(down') \subseteq Range(down)
      BY <1>0
    <2>10. Wire' /\ sender'.sent = Len(all) /\ sender'.ready
      BY <1>0, <1>3, <2>2, <2>4, <2>7, <2>8, <2>9, WireFlushes DEF Sending
    <2> QED BY <1>0, <1>1, <2>5, <2>10, SentAll
  <1>4. CASE ~sender.ready /\ SendFinish(o)
    BY <1>2, <1>4 DEF SendFinish
  <1> QED BY <1>2, <1>3, <1>4 DEF FinishContinues

LEMMA FinishFailsSends ==
    ASSUME Types, Types', Sending, NEW o \in {"confirm", "retry"}, FinishFails(o)
    PROVE  Sending'
  <1>0. /\ finish[o].pc = "error" /\ finish' = [finish EXCEPT ![o] = NoFinish]
        /\ UNCHANGED <<mic, opener, segs, sender, started, link, server>>
        /\ recording' = recording \/ recording' = FALSE
    BY DEF FinishFails
  <1>1. ~recording /\ ~mic
    BY <1>0, FinishFacts
  <1>2. /\ finish'[o].pc = "none" /\ \A p \in {"confirm", "retry"} : p # o => finish'[p] = finish[p]
    BY <1>0, AppFacts DEF NoFinish
  <1>3. Wire'
    BY <1>0, QuietWire DEF Sending, link
  <1>4. UNCHANGED <<mic, recording, opener, segs, sender, up, connected, server>>
    BY <1>0, <1>1, AppFacts DEF link, HookTypes
  <1>5. Stopping' => Stopping
    BY <1>2 DEF Stopping
  <1>6. \A p \in {"confirm", "retry"} : Resting(finish[p]) => Resting(finish'[p])
    BY <1>2 DEF Resting
  <1>7. ~connected' => opener' \in {0, -1} /\ \A p \in {"confirm", "retry"} : Resting(finish'[p])
    BY <1>4, <1>6 DEF Sending, Recording
  <1>8. Spent => Spent'
    BY <1>4, <1>5, <1>6 DEF Spent
  <1> QED BY <1>1, <1>3, <1>4, <1>5, <1>7, <1>8, SameSender DEF Sending, Recording

\* The start of a stream is rejected: whoever sent on it stops, or had sent everything.
LEMMA RejectedSends ==
    ASSUME Types, Types', Sending, NEW i \in Ids, Rejected(i),
           UNCHANGED <<recording, mic, segs, up, started, connected, server>>,
           down' = down \/ (down # <<>> /\ down' = Tail(down))
    PROVE  Sending'
  <1>0. /\ sender' = IF sender.id = i /\ ~sender.ready THEN [sender EXCEPT !.id = 0] ELSE sender
        /\ opener' = IF opener = i THEN -1 ELSE opener
    BY DEF Rejected
  <1>1. \A o \in {"confirm", "retry"} :
          \/ finish'[o] = finish[o]
          \/ finish[o].pc \in {"restart", "start", "result"} /\ finish'[o].pc = "error"
    <2> SUFFICES ASSUME NEW o \in {"confirm", "retry"}, finish'[o] # finish[o]
                 PROVE  finish[o].pc \in {"restart", "start", "result"} /\ finish'[o].pc = "error"
      OBVIOUS
    <2>1. finish[o].pc \in {"restart", "start", "result"} /\ finish'[o] = [finish[o] EXCEPT !.pc = "error", !.id = 0]
      BY AppFacts DEF Rejected, Awaits
    <2>2. finish[o] \in FinishType
      BY AppFacts
    <2> QED BY <2>1, <2>2 DEF FinishType
  <1>2. \A o \in {"confirm", "retry"} : Resting(finish[o]) => Resting(finish'[o])
    BY <1>1 DEF Resting
  <1>3. Stopping' => Stopping
    BY <1>1 DEF Stopping
  <1>4. /\ finish'["confirm"].pc \notin {"none", "stopping"} => ~recording'
        /\ finish'["retry"].pc # "none" => ~recording'
        /\ mic' => recording'
    BY <1>1 DEF Sending, Recording
  <1>5. i # 0 /\ i # -1
    BY DEF Ids
  <1>6. ~connected' => opener' = opener /\ opener' \in {0, -1} /\ \A o \in {"confirm", "retry"} : Resting(finish'[o])
    BY <1>0, <1>2, <1>5 DEF Sending, Recording
  <1>7. CASE sender' = sender
    <2>1. Wire'
      BY <1>7, QuietWire DEF Sending
    <2>2. Spent => Spent'
      BY <1>0, <1>2, <1>3, <1>5, <1>7 DEF Spent
    <2>3. sender.ready /\ opener' = -1 => sender.sent = Len(segs)
      <3>1. CASE opener = -1
        BY <3>1 DEF Sending, Recording
      <3>2. CASE opener = i /\ connected
        BY <1>5, <3>2 DEF Sending, NoGap, Whole, Spent
      <3>3. CASE opener = i /\ ~connected
        BY <1>5, <3>3 DEF Sending, Recording
      <3> QED BY <1>0, <3>1, <3>2, <3>3
    <2>4. sender.ready /\ ~recording' /\ Stopping' => sender.sent = Len(segs)
      BY <1>3 DEF Sending, Recording
    <2> QED BY <1>4, <1>6, <1>7, <2>1, <2>2, <2>3, <2>4, SameSender
  <1>8. CASE ~sender.ready /\ sender' = [sender EXCEPT !.id = 0]
    <2>1. ~sender'.ready /\ sender'.sent = sender.sent /\ sender'.id = 0
      BY <1>8, AppFacts DEF SenderType
    <2>2. Loosened(sender')
      BY <1>8, <2>1 DEF Loosened, Sending, Wire, StartFirst
    <2>3. Wire'
      BY <2>2, QuietWire DEF Sending
    <2> QED BY <1>4, <1>6, <2>1, <2>3, NothingSent
  <1> QED BY <1>0, <1>7, <1>8

LEMMA WaitTimesOutSends == ASSUME Types, Types', Sending, NEW i \in Ids, WaitTimesOut(i) PROVE Sending'
  <1>1. Rejected(i) /\ UNCHANGED <<recording, mic, segs, up, down, started, connected, server>>
    BY DEF WaitTimesOut
  <1> QED BY <1>1, RejectedSends

LEMMA ErrorArrivesSends == ASSUME Types, Types', Sending, ErrorArrives PROVE Sending'
  <1>1. /\ Receive("error") /\ Rejected(Head(down).id)
        /\ UNCHANGED <<recording, mic, segs, up, started, connected, rare, server>>
    BY DEF ErrorArrives, KeepHook
  <1>2. down # <<>> /\ down' = Tail(down) /\ Head(down).id \in Ids
    BY <1>1, ReceiveTypes
  <1>3. PICK i \in Ids : i = Head(down).id
    BY <1>2
  <1>4. Rejected(i)
    BY <1>1, <1>3
  <1> QED BY <1>1, <1>2, <1>4, RejectedSends

\* Nothing about the sender changes, nor what the hook waits for.
LEMMA PartialArrivesSends == ASSUME Types, Types', Sending, PartialArrives PROVE Sending'
  <1>1. /\ down # <<>> /\ down' = Tail(down)
        /\ UNCHANGED <<recording, mic, opener, finish, segs, sender, up, started, connected, server>>
    BY DEF PartialArrives, Receive, KeepHook
  <1>2. Wire'
    BY <1>1, QuietWire DEF Sending
  <1>3. Spent => Spent'
    BY <1>1 DEF Spent, Stopping
  <1> QED BY <1>1, <1>2, <1>3, SameSender DEF Sending, Recording, Stopping

LEMMA FinalArrivesSends == ASSUME Types, Types', Sending, FinalArrives PROVE Sending'
  <1>0. /\ down # <<>> /\ down' = Tail(down)
        /\ UNCHANGED <<recording, mic, opener, up, started, connected, server>>
        /\ ClearAll \/ UNCHANGED <<segs, sender>>
    BY DEF FinalArrives, Receive
  <1>1. \A o \in {"confirm", "retry"} :
          finish'[o] = finish[o] \/ (finish[o].pc = "result" /\ finish'[o].pc = "none")
    BY AppFacts DEF FinalArrives, NoFinish
  <1>2. \A o \in {"confirm", "retry"} : Resting(finish[o]) => Resting(finish'[o])
    BY <1>1 DEF Resting
  <1>3. Stopping' => Stopping
    BY <1>1 DEF Stopping
  <1>4. /\ finish'["confirm"].pc \notin {"none", "stopping"} => ~recording'
        /\ finish'["retry"].pc # "none" => ~recording'
        /\ mic' => recording'
        /\ ~connected' => opener' \in {0, -1} /\ \A o \in {"confirm", "retry"} : Resting(finish'[o])
    BY <1>0, <1>1, <1>2 DEF Sending, Recording
  <1>5. CASE ClearAll
    <2>1. Loosened(sender')
      BY <1>5, ClearLoosens
    <2>2. Wire'
      BY <1>0, <2>1, QuietWire DEF Sending
    <2> QED BY <1>4, <2>1, <2>2, NothingSent DEF Loosened
  <1>6. CASE UNCHANGED <<segs, sender>>
    <2>1. Wire'
      BY <1>0, <1>6, QuietWire DEF Sending
    <2>2. Spent => Spent'
      BY <1>0, <1>2, <1>3, <1>6 DEF Spent
    <2>3. /\ sender.ready /\ opener' = -1 => sender.sent = Len(segs)
          /\ sender.ready /\ ~recording' /\ Stopping' => sender.sent = Len(segs)
      BY <1>0, <1>3 DEF Sending, Recording
    <2> QED BY <1>0, <1>4, <1>6, <2>1, <2>2, <2>3, SameSender
  <1> QED BY <1>0, <1>5, <1>6

\* The start is acknowledged: what was recorded meanwhile is sent, from the first chunk.
LEMMA AckArrivesSends == ASSUME Types, Types', Sending, AckArrives PROVE Sending'
  <1>0. /\ Receive("ack") /\ opener # -1
        /\ UNCHANGED <<recording, mic, segs, connected, rare, server>>
    BY DEF AckArrives, KeepHook, Receive, Quiet
  <1>1. down # <<>> /\ down' = Tail(down) /\ Head(down).id \in Ids /\ Head(down).type = "ack"
    BY <1>0, ReceiveTypes
  <1>2. PICK i \in Ids : i = Head(down).id
    BY <1>1
  <1>3. opener' \in {0, opener} /\ (opener = 0 => opener' = 0)
    BY DEF AckArrives
  <1>4. \A o \in {"confirm", "retry"} :
          finish'[o] = finish[o] \/ (finish[o].pc \in {"restart", "start"} /\ finish'[o].pc \in {"check", "go"})
    <2> SUFFICES ASSUME NEW o \in {"confirm", "retry"}, finish'[o] # finish[o]
                 PROVE  finish[o].pc \in {"restart", "start"} /\ finish'[o].pc \in {"check", "go"}
      OBVIOUS
    <2>1. /\ finish[o].pc \in {"restart", "start"}
          /\ finish'[o] = [finish[o] EXCEPT !.pc = IF @ = "restart" THEN "check" ELSE "go"]
      BY AppFacts DEF AckArrives, Awaits
    <2>2. finish[o] \in FinishType
      BY AppFacts
    <2> QED BY <2>1, <2>2 DEF FinishType
  <1>5. \A o \in {"confirm", "retry"} : Resting(finish[o]) => finish'[o] = finish[o]
    BY <1>4 DEF Resting
  <1>6. Stopping' => Stopping
    BY <1>4 DEF Stopping
  <1>7. /\ finish'["confirm"].pc \notin {"none", "stopping"} => ~recording'
        /\ finish'["retry"].pc # "none" => ~recording'
        /\ mic' => recording'
        /\ ~connected' => opener' \in {0, -1} /\ \A o \in {"confirm", "retry"} : Resting(finish'[o])
    BY <1>0, <1>3, <1>4, <1>5 DEF Sending, Recording
  <1>8. CASE KeepSender
    <2>1. UNCHANGED <<sender, up, started>>
      BY <1>8 DEF KeepSender
    <2>2. Wire'
      BY <1>0, <1>1, <2>1, QuietWire DEF Sending
    <2>3. Spent => Spent'
      BY <1>0, <1>3, <1>5, <1>6, <2>1 DEF Spent
    <2>4. /\ opener' # -1
          /\ sender.ready /\ ~recording' /\ Stopping' => sender.sent = Len(segs)
      BY <1>0, <1>3, <1>6 DEF Sending, Recording
    <2> QED BY <1>0, <1>7, <2>1, <2>2, <2>3, <2>4, SameSender
  <1>9. CASE sender.id = i /\ ~sender.ready /\ Flush([sender EXCEPT !.ready = TRUE], segs, <<>>)
    <2>1. PICK s \in SenderType : s = [sender EXCEPT !.ready = TRUE]
      <3>1. [sender EXCEPT !.ready = TRUE] \in SenderType
        BY AppFacts DEF SenderType
      <3> QED BY <3>1
    <2>2. s.ready /\ s.id = i /\ s.sent = sender.sent /\ s.id # 0
      BY <1>9, <2>1, AppFacts DEF SenderType, Ids
    <2>3. Started(s.id)
      <3>1. Head(down) \in Range(down)
        BY <1>1, AppFacts, TailRange DEF LinkTypes
      <3> QED BY <1>1, <1>2, <2>2, <3>1 DEF Sending, Wire, StartFirst
    <2>4. s.sent = 0 /\ NotYet(s.id)
      BY <1>9, <2>2 DEF Sending, Wire, StartFirst
    <2>5. AllUnder(s.id, s.sent)
      BY <2>4 DEF AllUnder, NotYet
    <2>6. PICK all \in Seq(BOOLEAN) : all = segs
      BY AppFacts
    <2>7. PICK more \in Seq(UpMessages) : more = <<>>
      <3>1. <<>> \in Seq(UpMessages)
        OBVIOUS
      <3> QED BY <3>1
    <2>8. Len(all) <= MaxChunks /\ s.sent <= Len(all) /\ Flush(s, all, more)
      BY <1>9, <2>1, <2>2, <2>6, <2>7, AppFacts
    <2>9. Range(down') \subseteq Range(down) /\ \A m \in Range(more) : m.type = "finish" /\ m.id = s.id
      BY <1>1, <2>7, DownTaken DEF Range
    <2>10. /\ Wire' /\ sender'.sent = Len(all) /\ sender'.id = s.id /\ sender'.ready
           /\ phase[s.id] = "open" /\ AllUnder(s.id, s.sent) => AllUnder(sender.id, sender.sent)'
      BY <1>0, <1>9, <2>1, <2>2, <2>3, <2>5, <2>8, <2>9, WireFlushes DEF Sending
    <2>11. Whole'
      BY <1>0, <2>5, <2>6, <2>10 DEF Whole, server
    <2>12. NoGap'
      BY <2>11 DEF NoGap
    <2>13. Recording'
      BY <1>0, <1>3, <1>7, <2>6, <2>10 DEF Recording
    <2> QED BY <2>10, <2>12, <2>13 DEF Sending
  <1> QED BY <1>2, <1>8, <1>9 DEF AckArrives

LEMMA DropSends == ASSUME Types, Types', Sending, Drop PROVE Sending'
  <1>0. /\ Quiet /\ connected /\ ~connected' /\ up' = <<>> /\ down' = <<>>
        /\ sender' = IF sender.ready THEN sender ELSE [sender EXCEPT !.id = 0]
        /\ opener' = IF opener # 0 THEN -1 ELSE 0
        /\ UNCHANGED <<recording, mic, segs, started, server>>
    BY DEF Drop
  <1>1. opener # -1 /\ \A o \in {"confirm", "retry"} : finish[o].pc \notin {"check", "go", "error"}
    BY <1>0, AppFacts DEF Quiet
  <1>2. \A o \in {"confirm", "retry"} :
          \/ finish'[o] = finish[o] /\ finish[o].pc \notin {"restart", "start", "result"}
          \/ finish[o].pc \in {"restart", "start", "result"} /\ finish'[o].pc = "error"
    <2> SUFFICES ASSUME NEW o \in {"confirm", "retry"}
                 PROVE  \/ finish'[o] = finish[o] /\ finish[o].pc \notin {"restart", "start", "result"}
                        \/ finish[o].pc \in {"restart", "start", "result"} /\ finish'[o].pc = "error"
      OBVIOUS
    <2>1. finish'[o] = IF finish[o].pc \in {"restart", "start", "result"}
                       THEN [finish[o] EXCEPT !.pc = "error", !.id = 0] ELSE finish[o]
      BY AppFacts DEF Drop
    <2>2. finish[o] \in FinishType
      BY AppFacts
    <2> QED BY <2>1, <2>2 DEF FinishType
  <1>3. \A o \in {"confirm", "retry"} : Resting(finish'[o])
    BY <1>1, <1>2 DEF Resting
  <1>4. Stopping' => Stopping
    BY <1>2 DEF Stopping
  <1>5. sender' = sender \/ Loosened(sender')
    <2>1. CASE sender.ready
      BY <1>0, <2>1
    <2>2. CASE ~sender.ready
      <3>1. ~sender'.ready /\ sender'.sent = sender.sent /\ sender'.id = 0
        BY <1>0, <2>2, AppFacts DEF SenderType
      <3> QED BY <2>2, <3>1 DEF Loosened, Sending, Wire, StartFirst
    <2> QED BY <2>1, <2>2
  <1>6. Wire'
    <2>1. Range(up') = {} /\ Range(down') \subseteq Range(down) /\ StartsOnce(up') /\ ChunksAscend(up')
      BY <1>0, DownTaken DEF Range, StartsOnce, ChunksAscend
    <2> QED BY <1>0, <1>5, <2>1, WireKept DEF Sending
  <1>7. NoGap'
    BY <1>0 DEF NoGap
  <1>8. ASSUME sender'.ready, opener' = -1
        PROVE  sender'.sent = Len(segs)
    <2>1. sender' = sender /\ sender.ready /\ opener # 0
      BY <1>0, <1>5, <1>8 DEF Loosened
    <2> QED BY <1>0, <2>1 DEF Sending, NoGap, Whole, Spent
  <1>9. ASSUME sender'.ready, ~recording', Stopping'
        PROVE  sender'.sent = Len(segs)
    BY <1>0, <1>4, <1>5, <1>9 DEF Sending, Recording, Loosened
  <1>10. Recording'
    BY <1>0, <1>2, <1>3, <1>8, <1>9 DEF Sending, Recording
  <1> QED BY <1>6, <1>7, <1>10 DEF Sending

\* A recording starts anew; where nobody records, nobody sends after what was lost.
LEMMA ReconnectSends == ASSUME Types, Types', Sending, Reconnect PROVE Sending'
  <1>0. /\ Quiet /\ ~connected /\ connected'
        /\ UNCHANGED <<recording, mic, opener, finish, segs, down, server>>
        /\ IF recording THEN Restart ELSE KeepSender
    BY DEF Reconnect, hook
  <1>1. CASE Restart
    <2>1. Wire' /\ ~sender'.ready
      BY <1>0, <1>1, RestartWire DEF Sending
    <2> QED BY <1>0, <2>1, NothingSent DEF Sending, Recording
  <1>2. CASE ~recording /\ KeepSender
    <2>1. UNCHANGED <<sender, up, started>>
      BY <1>2 DEF KeepSender
    <2>2. Wire'
      BY <1>0, <2>1, QuietWire DEF Sending
    <2>3. ~mic /\ opener = 0 /\ \A o \in {"confirm", "retry"} : Resting(finish[o])
      BY <1>0, <1>2 DEF Sending, Recording, Quiet
    <2>4. sender.ready => Spent
      BY <1>2, <2>3 DEF Sending, Recording, Spent
    <2>5. sender'.ready => Spent'
      BY <1>0, <2>1, <2>4 DEF Spent, Stopping
    <2>6. NoGap'
      BY <2>5 DEF NoGap
    <2>7. Recording'
      BY <1>0, <2>1 DEF Sending, Recording, Stopping
    <2> QED BY <2>2, <2>6, <2>7 DEF Sending
  <1> QED BY <1>0, <1>1, <1>2

\* The daemon's steps take from the wire what is next, and put nothing on it.
LEMMA DaemonSends ==
    ASSUME Types, Types', Sending,
           \/ HandleStart \/ HandleChunk \/ HandleFinish \/ HandleCancel
           \/ \E i \in Ids : SttConnects(i) \/ FinalTimeout(i) \/ Serve(i) \/ Transcript(i) \/ SttFails(i)
    PROVE  Sending'
  <1>1. UNCHANGED <<hook, segs, sender, connected>>
    BY DEF HandleStart, HandleChunk, HandleFinish, HandleCancel, Handle, SttConnects, FinalTimeout, Serve,
           Transcript, SttFails, Serving, app
  <1>2. Wire' /\ \A j \in Ids : KeepsUnder(j) /\ Opens(j)
    BY HandlesWire, ServesWire DEF Sending
  <1>3. ASSUME sender.ready, Whole
        PROVE  Whole'
    <2>1. PICK i \in Ids : i = sender.id
      BY <1>3, UpFacts DEF Types, SenderTypes
    <2>2. Started(i)
      BY <1>3, <2>1 DEF Sending, Wire, StartFirst
    <2>3. phase'[i] = "open" => AllUnder(i, sender.sent)'
      <3>1. PICK n \in Nat : n = sender.sent
        BY UpFacts
      <3>2. phase'[i] = "open" => phase[i] = "open" /\ AllUnder(i, n)
        BY <1>2, <1>3, <2>1, <2>2, <3>1 DEF Opens, Whole
      <3>3. phase'[i] = "open" => AllUnder(i, n)'
        BY <1>2, <3>2 DEF KeepsUnder
      <3> QED BY <1>1, <3>1, <3>3
    <2> QED BY <1>1, <1>3, <2>1, <2>3 DEF Whole
  <1>4. UNCHANGED <<recording, mic, opener, finish>>
    BY <1>1 DEF hook
  <1>5. NoGap'
    BY <1>1, <1>3, <1>4 DEF Sending, NoGap, Spent, Stopping
  <1>6. Recording'
    BY <1>1, <1>4 DEF Sending, Recording, Stopping
  <1> QED BY <1>2, <1>5, <1>6 DEF Sending

LEMMA InitSends == ASSUME Init PROVE Sending
  <1>1. Range(up) = {} /\ Range(down) = {}
    BY DEF Init, Range
  <1>2. Wire
    <2>1. \A i \in Ids : phase[i] = "none" /\ stream[i].next = 0
      BY DEF Init, NoStream
    <2>2. sender.id = 0 /\ ~sender.ready /\ sender.sent = 0 /\ started = 0 /\ up = <<>>
      BY DEF Init, NoSender
    <2>3. Numbered
      BY <1>1, <2>1, <2>2 DEF Numbered, StartsOnce
    <2>4. StartFirst
      BY <1>1, <2>1, <2>2 DEF StartFirst, Started, NotYet
    <2>5. InStep
      BY <1>1, <2>2 DEF InStep, ChunksAscend
    <2> QED BY <2>3, <2>4, <2>5 DEF Wire
  <1>3. NoGap /\ Recording
    <2>1. ~sender.ready /\ connected /\ ~mic /\ ~recording
      BY DEF Init, NoSender
    <2>2. \A o \in {"confirm", "retry"} : finish[o].pc = "none"
      BY DEF Init, NoFinish
    <2> QED BY <2>1, <2>2 DEF NoGap, Recording
  <1> QED BY <1>2, <1>3 DEF Sending

LEMMA NextSends == ASSUME Types, Types', Sending, ~Overlap, [Next]_vars PROVE Sending'
  <1>0. DOMAIN finish = {"confirm", "retry"}
    BY AppFacts
  <1>1. ASSUME StartDictation \/ Confirm \/ MicStops \/ Cancel \/ CancelEnds \/ Hide \/ Retry \/ Discard
        PROVE  Sending'
    BY <1>1, StartDictationSends, ConfirmSends, MicStopsSends, CancelSends, ClearsSends, HideSends, RetrySends
  <1>2. ASSUME \E loud \in BOOLEAN : Speak(loud)
        PROVE  Sending'
    BY <1>2, SpeakSends
  <1>3. ASSUME Awaiting
        PROVE  Sending'
    BY <1>0, <1>3, OpenFailsSends, FinishContinuesSends, FinishFailsSends DEF Awaiting
  <1>4. ASSUME Arrives \/ Drop \/ Reconnect
        PROVE  Sending'
    BY <1>4, AckArrivesSends, ErrorArrivesSends, PartialArrivesSends, FinalArrivesSends, DropSends,
       ReconnectSends DEF Arrives
  <1>5. ASSUME NEW i \in Ids, WaitTimesOut(i)
        PROVE  Sending'
    BY <1>5, WaitTimesOutSends
  <1>6. ASSUME \/ Handles
               \/ \E i \in Ids : SttConnects(i) \/ FinalTimeout(i) \/ Serve(i) \/ Transcript(i) \/ SttFails(i)
        PROVE  Sending'
    BY <1>6, DaemonSends DEF Handles
  <1>7. CASE UNCHANGED vars
    <2>1. UNCHANGED <<recording, mic, opener, finish, segs, sender, up, down, started, connected, server>>
      BY <1>7 DEF vars, app, hook, link
    <2>2. Wire'
      BY <2>1, QuietWire DEF Sending
    <2>3. Spent => Spent'
      BY <2>1 DEF Spent, Stopping
    <2> QED BY <2>1, <2>2, <2>3, SameSender DEF Sending, Recording, Stopping
  <1> QED BY <1>1, <1>2, <1>3, <1>4, <1>5, <1>6, <1>7 DEF Next

\* A stream gets its chunks in order and without a gap, however often the connection is
\* lost and whoever retries, as long as no recording runs while a cancelled retry is
\* still awaited (flush, restartStream and the reconnect effect; handleChunk).
THEOREM ChunksStayInOrder == ~Overlap => (Spec => []ChunksInOrder)
  <1> SUFFICES ASSUME ~Overlap
               PROVE  Spec => []ChunksInOrder
    OBVIOUS
  <1>1. Init => Types /\ Sending
    BY InitTypes, InitSends
  <1>2. Types /\ Sending /\ [Next]_vars => (Types /\ Sending)'
    BY NextTypes, NextSends
  <1>3. Types /\ Sending => ChunksInOrder
    BY WireInOrder DEF Sending
  <1> QED BY <1>1, <1>2, <1>3, PTL DEF Spec
=============================================================================
