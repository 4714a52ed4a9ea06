------------------------------- MODULE Dictation -------------------------------
(***************************************************************************)
(* Dictation, from the microphone of the app to the transcript: the hook     *)
(* (app/src/hooks/use-dictation.ts), the sender                              *)
(* (app/src/dictation/dictation-stream-sender.ts), the client's waiters and  *)
(* the daemon's manager (dictation/dictation-stream-manager.ts), over a      *)
(* connection that may drop and a transcription service that answers late    *)
(* (speech/providers/openai/realtime-transcription-session.ts).              *)
(*                                                                         *)
(* Audio comes in chunks, loud or silent; the text of a segment is the       *)
(* chunks it is of, and what the app is told or given is the texts of the    *)
(* segments, one after the other.                                           *)
(* Left out: acknowledgements (the client ignores all but the first),        *)
(* finish_accepted (it only picks the client's timeout), audio formats,      *)
(* resampling and debug recordings.                                         *)
(***************************************************************************)
EXTENDS Integers, Sequences, FiniteSets, Functions

CONSTANTS
    MaxStarts,      \* bound: dictation streams
    MaxChunks,      \* bound: chunks of a recording
    MaxRecordings,  \* bound: recordings
    MaxEvents,      \* bound: lost connections, refusals, failures, timeouts, hidden pages
                    \* and interim transcripts, together
    AutoCommit,     \* chunks after which the manager commits a segment
    Retries,        \* the user retries failed dictations
    Overlap         \* and records again while a retry that was cancelled is still awaited

ASSUME DictationAssumption ==
    /\ {MaxStarts, MaxChunks, MaxRecordings, MaxEvents} \subseteq Nat
    /\ AutoCommit \in Nat \ {0}
    /\ {Retries, Overlap} \subseteq BOOLEAN

VARIABLES
    \* use-dictation.ts
    recording, processing, failed, mic,
    opener,     \* the start that startDictation awaits: its id, 0, or -1, failed
    finish,     \* how far the confirm and the retry are
    cancelling,
    partial,    \* latestPartialTranscriptRef
    \* dictation-stream-sender.ts
    segs, sender,
    \* the connection
    connected, up, down,
    \* dictation-stream-manager.ts and the service
    phase, stream, stt,
    \* history and bounds
    started,    \* streams started
    take,       \* recordings so far
    given,      \* the texts handed to the composer
    dropped,    \* the recordings that were cancelled
    rare      \* so far

hook == <<recording, processing, failed, mic, opener, finish, cancelling, partial, take, given, dropped>>
app == <<hook, segs, sender, started>>
link == <<connected, up, down, rare>>
server == <<phase, stream, stt>>
vars == <<app, link, server>>

Ids == 1..MaxStarts
Text == Seq(0..MaxChunks)
Texts == Seq(Text)
NoSender == [id |-> 0, sent |-> 0, ready |-> FALSE]
NoFinish == [pc |-> "none", id |-> 0, last |-> 0, current |-> FALSE, of |-> 0]
NoStream == [next |-> 0, held |-> FALSE, bytes |-> 0, loud |-> FALSE,
             committed |-> <<>>, texts |-> <<>>, final |-> {},
             awaiting |-> FALSE, last |-> 0, sealed |-> FALSE]
NoStt == [todo |-> <<>>, buf |-> <<>>, cur |-> 1, owed |-> {}]

UpMessages ==
    [type: {"start", "cancel"}, id: Ids] \cup [type: {"finish"}, id: Ids, last: 0..MaxChunks]
    \cup [type: {"chunk"}, id: Ids, seq: 0..(MaxChunks - 1), loud: BOOLEAN]
DownMessages ==
    [type: {"ack", "error"}, id: Ids] \cup [type: {"partial", "final"}, id: Ids, text: Texts]
Commands == [op: {"commit", "clear"}] \cup [op: {"append"}, seq: 0..(MaxChunks - 1)]

StreamTypeOK(s) ==
    /\ s \in [next: 0..MaxChunks, held: BOOLEAN, bytes: 0..MaxChunks, loud: BOOLEAN,
              committed: Seq(Nat), texts: {s.texts}, final: {s.final},
              awaiting: BOOLEAN, last: 0..MaxChunks, sealed: BOOLEAN]
    /\ s.bytes <= s.next
    /\ s.texts \in [DOMAIN s.texts -> Text] /\ DOMAIN s.texts \subseteq Nat /\ s.final \subseteq Nat
SttTypeOK(t) ==
    /\ t \in [todo: Seq(Commands), buf: Text, cur: Nat, owed: {t.owed}]
    /\ \A o \in t.owed : o \in [seg: Nat, text: Text]

TypeOK ==
    /\ {recording, processing, failed, mic, cancelling, connected} \subseteq BOOLEAN
    /\ opener \in -1..MaxStarts
    /\ finish \in [{"confirm", "retry"} ->
         [pc: {"none", "stopping", "restart", "start", "check", "go", "result", "error"},
          id: 0..MaxStarts, last: 0..MaxChunks, current: BOOLEAN, of: 0..MaxRecordings]]
    /\ partial \in Texts /\ segs \in Seq(BOOLEAN) /\ Len(segs) <= MaxChunks
    /\ sender \in [id: 0..MaxStarts, sent: 0..MaxChunks, ready: BOOLEAN]
    /\ sender.sent <= Len(segs) /\ (sender.ready => sender.id # 0)
    /\ up \in Seq(UpMessages) /\ down \in Seq(DownMessages)
    /\ phase \in [Ids -> {"none", "connecting", "open", "gone"}]
    /\ stream = [i \in Ids |-> stream[i]] /\ stt = [i \in Ids |-> stt[i]]
    /\ \A i \in Ids : StreamTypeOK(stream[i]) /\ SttTypeOK(stt[i])
    /\ started \in 0..MaxStarts /\ take \in 0..MaxRecordings /\ rare \in 0..MaxEvents
    /\ \A g \in given : g \in [by: {"confirm", "retry"}, of: 0..MaxRecordings, text: Texts]
    /\ dropped \subseteq 0..MaxRecordings

Init ==
    /\ recording = FALSE /\ processing = FALSE /\ failed = FALSE /\ mic = FALSE
    /\ opener = 0 /\ finish = [o \in {"confirm", "retry"} |-> NoFinish]
    /\ cancelling = FALSE /\ partial = <<>>
    /\ segs = <<>> /\ sender = NoSender
    /\ connected = TRUE /\ up = <<>> /\ down = <<>>
    /\ phase = [i \in Ids |-> "none"]
    /\ stream = [i \in Ids |-> NoStream] /\ stt = [i \in Ids |-> NoStt]
    /\ started = 0
    /\ take = 0 /\ given = {} /\ dropped = {} /\ rare = 0

-----------------------------------------------------------------------------
Rare == rare < MaxEvents /\ rare' = rare + 1
Calm == UNCHANGED rare

(* The sender *)
\* Mutant: a new stream goes on where the old one was.
RestartWhereItWas ==
    /\ started < MaxStarts
    /\ started' = started + 1
    /\ sender' = [sender EXCEPT !.id = started + 1, !.ready = FALSE]
    /\ up' = Append(up, [type |-> "start", id |-> started + 1])
\* restartStream: a new id, and its start on the way.
Restart ==
    /\ started < MaxStarts
    /\ started' = started + 1
    /\ sender' = [id |-> started + 1, sent |-> 0, ready |-> FALSE]
    /\ up' = Append(up, [type |-> "start", id |-> started + 1])

\* flush: what was recorded and not sent yet, and what follows it.
Flush(s, all, more) ==
    /\ sender' = [s EXCEPT !.sent = Len(all)]
    /\ up' = up \o [i \in 1..(Len(all) - s.sent) |->
                      [type |-> "chunk", id |-> s.id, seq |-> s.sent + i - 1, loud |-> all[s.sent + i]]]
                \o more
    /\ UNCHANGED started

KeepSender == UNCHANGED <<sender, up, started>>
ClearAll == segs' = <<>> /\ sender' = NoSender /\ partial' = <<>>

\* No promise has a continuation left to run.
Quiet == opener # -1 /\ \A o \in DOMAIN finish : finish[o].pc \notin {"check", "go", "error"}

-----------------------------------------------------------------------------
(* What the user does *)
StartDictation ==
    /\ Quiet /\ opener = 0 /\ finish["confirm"].pc = "none" /\ ~cancelling
    /\ ~recording /\ ~processing /\ (Overlap \/ finish["retry"].pc = "none")
    /\ take < MaxRecordings /\ take' = take + 1
    /\ recording' = TRUE /\ mic' = TRUE /\ failed' = FALSE
    /\ segs' = <<>> /\ partial' = <<>>
    /\ IF connected
       THEN Restart /\ opener' = started'
       ELSE sender' = NoSender /\ UNCHANGED <<up, started, opener>>
    /\ UNCHANGED <<processing, finish, cancelling, given, dropped, connected, down, rare, server>>

\* enqueueSegment: the microphone runs until it was stopped.
Speak(loud) ==
    /\ Quiet /\ mic /\ Len(segs) < MaxChunks
    /\ segs' = Append(segs, loud)
    /\ CASE ~connected -> KeepSender
         [] connected /\ sender.id = 0 -> Restart
         [] connected /\ sender.ready -> Flush(sender, segs', <<>>)
         [] OTHER -> KeepSender
    /\ UNCHANGED <<hook, connected, down, rare, server>>

Confirm ==
    /\ Quiet /\ recording /\ ~processing /\ finish["confirm"].pc = "none"
    /\ processing' = TRUE
    /\ finish' = [finish EXCEPT !["confirm"] =
                    [NoFinish EXCEPT !.pc = "stopping", !.current = TRUE, !.of = take]]
    /\ dropped' = dropped \ {take}     \* a confirm during a cancel takes it back
    /\ UNCHANGED <<recording, failed, mic, opener, cancelling, partial, take, given,
                   segs, sender, started, link, server>>

\* finish(): wait for a stream, then send what is left and the end.
At(o, pc, i) == finish' = [finish EXCEPT ![o].pc = pc, ![o].id = i]
SendFinish(o) ==
    IF connected /\ sender.ready
    THEN /\ Flush(sender, segs, <<[type |-> "finish", id |-> sender.id, last |-> finish[o].last]>>)
         /\ At(o, "result", sender.id)
    ELSE At(o, "error", 0) /\ KeepSender

\* The audio source has stopped.
MicStops ==
    /\ Quiet /\ finish["confirm"].pc = "stopping"
    /\ mic' = FALSE
    /\ LET f == finish["confirm"]
       IN  CASE ~f.current ->
                  /\ finish' = [finish EXCEPT !["confirm"] = NoFinish]
                  /\ UNCHANGED <<recording, processing, failed, partial, segs>> /\ KeepSender
             [] f.current /\ segs = <<>> ->
                  /\ recording' = FALSE /\ processing' = FALSE /\ failed' = FALSE
                  /\ finish' = [finish EXCEPT !["confirm"] = NoFinish]
                  /\ ClearAll /\ UNCHANGED <<up, started>>
             [] OTHER ->
                  /\ recording' = FALSE
                  /\ LET pc == IF ~connected THEN "error" ELSE IF sender.id = 0 THEN "restart"
                              ELSE IF sender.ready THEN "go" ELSE "start"
                     IN  /\ finish' = [finish EXCEPT !["confirm"] =
                              [@ EXCEPT !.last = Len(segs), !.pc = pc,
                                        !.id = IF pc = "restart" THEN started + 1 ELSE sender.id]]
                         /\ IF pc = "restart" THEN Restart ELSE KeepSender
                  /\ UNCHANGED <<processing, failed, partial, segs>>
    /\ UNCHANGED <<opener, cancelling, take, given, dropped, connected, down, rare, server>>

Cancel ==
    /\ Quiet /\ (recording \/ processing) /\ ~cancelling
    /\ cancelling' = TRUE /\ dropped' = dropped \cup {take}
    /\ finish' = [finish EXCEPT !["confirm"].current = FALSE]
    /\ up' = IF connected /\ sender.id # 0 THEN Append(up, [type |-> "cancel", id |-> sender.id]) ELSE up
    /\ sender' = NoSender
    /\ UNCHANGED <<recording, processing, failed, mic, opener, partial, take, given, segs,
                   started, connected, down, rare, server>>
CancelEnds ==
    /\ Quiet /\ cancelling
    /\ cancelling' = FALSE /\ mic' = FALSE
    /\ recording' = FALSE /\ processing' = FALSE /\ failed' = FALSE
    /\ ClearAll
    /\ UNCHANGED <<opener, finish, take, given, dropped, started, link, server>>

\* The page is hidden while the transcript is awaited: the recording is kept.
Hide ==
    /\ Rare /\ Quiet /\ ~recording /\ processing
    /\ finish' = [finish EXCEPT !["confirm"].current = FALSE]
    /\ processing' = FALSE /\ failed' = (segs # <<>>)
    /\ IF segs = <<>> THEN ClearAll ELSE UNCHANGED <<segs, sender, partial>>
    /\ UNCHANGED <<recording, mic, opener, cancelling, take, given, dropped, started,
                   connected, up, down, server>>

\* One retry at a time; the guard of the attempts is not asked.
Retry ==
    /\ Retries /\ Quiet /\ failed /\ ~recording /\ ~processing /\ segs # <<>>
    /\ finish["retry"].pc = "none"
    /\ failed' = FALSE /\ processing' = TRUE
    /\ finish' = [finish EXCEPT !["retry"] =
         [pc |-> IF connected THEN "restart" ELSE "error", id |-> IF connected THEN started + 1 ELSE 0,
          last |-> Len(segs), current |-> TRUE, of |-> take]]
    /\ IF connected THEN Restart ELSE KeepSender
    /\ UNCHANGED <<recording, mic, opener, cancelling, partial, take, given, dropped, segs,
                   connected, down, rare, server>>

Discard ==
    /\ Quiet /\ failed
    /\ failed' = FALSE /\ ClearAll
    /\ UNCHANGED <<recording, processing, mic, opener, finish, cancelling, take, given, dropped,
                   started, link, server>>

-----------------------------------------------------------------------------
(* Where the hook and the sender await *)
FinishContinues(o) ==
    /\ finish[o].pc \in {"check", "go"}
    /\ IF finish[o].pc = "check" /\ sender.id # 0 /\ ~sender.ready
       THEN At(o, "start", sender.id) /\ KeepSender
       ELSE SendFinish(o)
    /\ UNCHANGED <<recording, processing, failed, mic, opener, cancelling, partial, take, given,
                   dropped, segs, connected, down, rare, server>>

\* handleDictationFailure; only a confirm asks whether it is still wanted.
FinishFails(o) ==
    /\ finish[o].pc = "error"
    /\ finish' = [finish EXCEPT ![o] = NoFinish]
    /\ IF finish[o].current
       THEN processing' = FALSE /\ recording' = FALSE /\ failed' = (segs # <<>>)
       ELSE UNCHANGED <<processing, recording, failed>>
    /\ UNCHANGED <<mic, opener, cancelling, partial, take, given, dropped,
                   segs, sender, started, link, server>>

\* startDictation's stream could not be started.
OpenFails ==
    /\ opener = -1
    /\ opener' = 0 /\ mic' = FALSE /\ recording' = FALSE /\ failed' = FALSE
    /\ UNCHANGED <<processing, finish, cancelling, partial, take, given, dropped,
                   segs, sender, started, link, server>>

Awaits(o, i) == finish[o].pc \in {"restart", "start"} /\ finish[o].id = i

\* Mutant: a finish that waits for the start is not told.
RejectedAlone(i) ==
    /\ sender' = IF sender.id = i /\ ~sender.ready THEN [sender EXCEPT !.id = 0] ELSE sender
    /\ opener' = IF opener = i THEN -1 ELSE opener
    /\ finish' = [o \in DOMAIN finish |->
         IF finish[o].pc = "result" /\ finish[o].id = i
         THEN [finish[o] EXCEPT !.pc = "error", !.id = 0] ELSE finish[o]]
\* Mutant: an error forgets a stream that was started, but not that it was.
RejectedStarted(i) ==
    /\ sender' = IF sender.id = i THEN [sender EXCEPT !.id = 0] ELSE sender
    /\ opener' = IF opener = i THEN -1 ELSE opener
    /\ finish' = [o \in DOMAIN finish |->
         IF Awaits(o, i) \/ (finish[o].pc = "result" /\ finish[o].id = i)
         THEN [finish[o] EXCEPT !.pc = "error", !.id = 0] ELSE finish[o]]
\* The start of stream i rejects; so does a finish that waits for it.
Rejected(i) ==
    /\ sender' = IF sender.id = i /\ ~sender.ready THEN [sender EXCEPT !.id = 0] ELSE sender
    /\ opener' = IF opener = i THEN -1 ELSE opener
    /\ finish' = [o \in DOMAIN finish |->
         IF Awaits(o, i) \/ (finish[o].pc = "result" /\ finish[o].id = i)
         THEN [finish[o] EXCEPT !.pc = "error", !.id = 0] ELSE finish[o]]

WaitTimesOut(i) ==
    /\ Quiet
    /\ \/ Rare /\ ((sender.id = i /\ ~sender.ready) \/ opener = i \/ \E o \in DOMAIN finish : Awaits(o, i))
       \/ Calm /\ \E o \in DOMAIN finish : finish[o].pc = "result" /\ finish[o].id = i
    /\ Rejected(i)
    /\ UNCHANGED <<recording, processing, failed, mic, cancelling, partial, take, given, dropped,
                   segs, started, connected, up, down, server>>

-----------------------------------------------------------------------------
(* What the client receives *)
Receive(type) == Quiet /\ down # <<>> /\ Head(down).type = type /\ down' = Tail(down)
KeepHook == UNCHANGED <<recording, processing, failed, mic, cancelling, take, dropped, connected, rare, server>>

AckArrives ==
    /\ Receive("ack")
    /\ LET i == Head(down).id
       IN  /\ opener' = IF opener = i THEN 0 ELSE opener
           /\ finish' = [o \in DOMAIN finish |->
                IF Awaits(o, i)
                THEN [finish[o] EXCEPT !.pc = IF @ = "restart" THEN "check" ELSE "go"] ELSE finish[o]]
           /\ IF sender.id = i /\ ~sender.ready
              THEN Flush([sender EXCEPT !.ready = TRUE], segs, <<>>) ELSE KeepSender
    /\ UNCHANGED <<partial, given, segs>> /\ KeepHook

ErrorArrives ==
    /\ Receive("error")
    /\ Rejected(Head(down).id)
    /\ UNCHANGED <<partial, given, segs, up, started>> /\ KeepHook

PartialArrives ==
    /\ Receive("partial")
    /\ partial' = IF sender.id = Head(down).id THEN Head(down).text ELSE partial
    /\ UNCHANGED <<opener, finish, given, segs, sender, up, started>> /\ KeepHook

\* A text of which no segment says anything.
Blank(text) == \A k \in DOMAIN text : text[k] = <<>>

\* handleStreamingTranscriptionSuccess, for the finish that waits.
\* Mutant: the confirm does not ask whether it was cancelled.
FinalArrivesUnasked ==
    /\ Receive("final")
    /\ \E o \in DOMAIN finish :
         /\ finish[o].pc = "result" /\ finish[o].id = Head(down).id
         /\ LET text == IF ~Blank(Head(down).text) THEN Head(down).text ELSE partial
            IN  /\ given' = IF ~Blank(text) THEN given \cup {[by |-> o, of |-> finish[o].of, text |-> text]} ELSE given
                /\ finish' = [finish EXCEPT ![o] = NoFinish]
                /\ processing' = FALSE /\ failed' = FALSE /\ ClearAll
    /\ UNCHANGED <<recording, mic, opener, cancelling, take, dropped, up, started,
                   connected, rare, server>>
FinalArrives ==
    /\ Receive("final")
    /\ LET waits == {o \in DOMAIN finish : finish[o].pc = "result" /\ finish[o].id = Head(down).id}
       IN  /\ finish' = [o \in DOMAIN finish |-> IF o \in waits THEN NoFinish ELSE finish[o]]
           /\ IF \E o \in waits : finish[o].current
              THEN LET o == CHOOSE w \in waits : finish[w].current
                       text == IF ~Blank(Head(down).text) THEN Head(down).text ELSE partial
                   IN  /\ given' = IF ~Blank(text) THEN given \cup {[by |-> o, of |-> finish[o].of, text |-> text]} ELSE given
                       /\ processing' = FALSE /\ failed' = FALSE /\ ClearAll
              ELSE UNCHANGED <<given, processing, failed, segs, sender, partial>>
    /\ UNCHANGED <<recording, mic, opener, cancelling, take, dropped, up, started,
                   connected, rare, server>>

-----------------------------------------------------------------------------
(* The connection: the waiters reject when it is lost, the daemon's session stays *)
Drop ==
    /\ Quiet /\ connected /\ Rare
    /\ connected' = FALSE /\ up' = <<>> /\ down' = <<>>
    /\ sender' = IF sender.ready THEN sender ELSE [sender EXCEPT !.id = 0]
    /\ opener' = IF opener # 0 THEN -1 ELSE 0
    /\ finish' = [o \in DOMAIN finish |->
         IF finish[o].pc \in {"restart", "start", "result"}
         THEN [finish[o] EXCEPT !.pc = "error", !.id = 0] ELSE finish[o]]
    /\ UNCHANGED <<recording, processing, failed, mic, cancelling, partial, take, given, dropped,
                   segs, started, server>>

\* A recording goes on in a new stream, from its first chunk.
Reconnect ==
    /\ Quiet /\ ~connected
    /\ connected' = TRUE
    /\ IF recording THEN Restart ELSE KeepSender
    /\ UNCHANGED <<hook, segs, down, rare, server>>

-----------------------------------------------------------------------------
(* The manager.  Say: what it emits is lost while the client is away. *)
Say(msgs) == down' = IF connected THEN down \o msgs ELSE down
Fail(i) == <<[type |-> "error", id |-> i]>>
Forget(i, msgs) ==
    /\ phase' = [phase EXCEPT ![i] = "gone"]
    /\ stream' = [stream EXCEPT ![i] = NoStream] /\ stt' = [stt EXCEPT ![i] = NoStt]
    /\ Say(msgs)

\* The segments, those committed first, and the others as they were first heard of:
\* in the order of their numbers.
Ordered(s) ==
    LET others == DOMAIN s.texts \ Range(s.committed)
    IN  s.committed \o CHOOSE q \in [1..Cardinality(others) -> others] :
                         \A j, k \in DOMAIN q : j < k => q[j] < q[k]
TextOf(s, g) == IF g \in DOMAIN s.texts THEN s.texts[g] ELSE <<>>
Said(s, order) == [k \in DOMAIN order |-> TextOf(s, order[k])]
\* Mutant: a segment is put before those committed earlier.
LatestFirst(s) == [k \in DOMAIN s.committed |-> TextOf(s, s.committed[Len(s.committed) + 1 - k])]
WholeText(s) == Said(s, Ordered(s))

\* maybeSealDictationStreamFinish: the last chunk is in, commit what is left.
Sealing(s) == s.last > 0 /\ s.next >= s.last /\ ~s.sealed
Sealed(s) ==
    IF ~Sealing(s) THEN s
    ELSE IF s.bytes > 0 /\ s.loud THEN [s EXCEPT !.awaiting = TRUE, !.sealed = TRUE]
    ELSE IF s.bytes > 0
    THEN [s EXCEPT !.awaiting = FALSE, !.sealed = TRUE, !.bytes = 0,
                   !.texts = Restrict(@, DOMAIN @ \cap (s.final \cup Range(s.committed)))]
    ELSE [s EXCEPT !.awaiting = FALSE, !.sealed = TRUE]
SealCommands(s) == IF Sealing(s) /\ s.bytes > 0 THEN <<[op |-> IF s.loud THEN "commit" ELSE "clear"]>> ELSE <<>>

\* maybeFinalizeDictationStream.
Done(s) ==
    /\ s.last > 0 /\ s.next >= s.last /\ ~s.awaiting
    /\ Range(s.committed) \cup DOMAIN s.texts \subseteq s.final
Conclude(i, s, commands, service, msgs) ==
    IF Done(s)
    THEN Forget(i, msgs \o <<[type |-> "final", id |-> i, text |-> WholeText(s)]>>)
    ELSE /\ stream' = [stream EXCEPT ![i] = s]
         /\ stt' = [stt EXCEPT ![i] = [service EXCEPT !.todo = @ \o commands]]
         /\ Say(msgs) /\ UNCHANGED phase

Handle(type) == Quiet /\ up # <<>> /\ Head(up).type = type /\ up' = Tail(up)
                /\ UNCHANGED <<hook, segs, sender, started, connected>>

HandleStart ==
    /\ Handle("start")
    /\ LET i == Head(up).id
       IN  \/ phase' = [phase EXCEPT ![i] = "connecting"] /\ UNCHANGED <<stream, stt, down, rare>>
           \/ Rare /\ Forget(i, Fail(i))

\* stt.connect() has resolved, or rejected.
SttConnects(i) ==
    /\ Quiet /\ phase[i] = "connecting"
    /\ \/ /\ phase' = [phase EXCEPT ![i] = "open"]
          /\ Say(<<[type |-> "ack", id |-> i]>>) /\ UNCHANGED <<stream, stt, rare>>
       \/ Rare /\ Forget(i, Fail(i))
    /\ UNCHANGED <<app, connected, up>>

\* The next chunk is forwarded; enough of them are committed, or cleared if silent.
\* One that was forwarded is left, one after a gap is held: no sender goes back.
Forward(m, s) ==
    LET bytes == s.bytes + 1
        loud == s.loud \/ m.loud
        auto == s.last = 0 /\ bytes >= AutoCommit
        next == [s EXCEPT !.next = @ + 1, !.bytes = IF auto THEN 0 ELSE bytes, !.loud = ~auto /\ loud]
        commands == <<[op |-> "append", seq |-> m.seq]>>
                    \o IF auto THEN <<[op |-> IF loud THEN "commit" ELSE "clear"]>> ELSE <<>>
    IN  Conclude(m.id, Sealed(next), commands \o SealCommands(next), stt[m.id], <<>>)
HandleChunk ==
    /\ Handle("chunk") /\ Calm
    /\ LET m == Head(up)
           s == [stream[m.id] EXCEPT !.held = TRUE]
       IN  CASE phase[m.id] # "open" -> Say(Fail(m.id)) /\ UNCHANGED server
             [] phase[m.id] = "open" /\ m.seq = s.next -> Forward(m, stream[m.id])
             [] phase[m.id] = "open" /\ m.seq > s.next ->
                  Conclude(m.id, Sealed(s), SealCommands(s), stt[m.id], <<>>)
             [] OTHER -> UNCHANGED <<server, down>>

HandleFinish ==
    /\ Handle("finish") /\ Calm
    /\ LET m == Head(up)
           s == [stream[m.id] EXCEPT !.last = m.last]
       IN  CASE phase[m.id] # "open" -> Say(Fail(m.id)) /\ UNCHANGED server
             [] phase[m.id] = "open" /\ s.next = 0 /\ ~s.held -> Forget(m.id, Fail(m.id))
             [] OTHER -> Conclude(m.id, Sealed(s), SealCommands(s), stt[m.id], <<>>)

HandleCancel ==
    /\ Handle("cancel") /\ Calm
    /\ IF phase[Head(up).id] = "open" THEN Forget(Head(up).id, <<>>) ELSE UNCHANGED <<server, down>>

\* The budget of finish_accepted is used up.
FinalTimeout(i) ==
    /\ Rare /\ Quiet /\ phase[i] = "open" /\ stream[i].last > 0
    /\ Forget(i, Fail(i))
    /\ UNCHANGED <<app, connected, up>>

-----------------------------------------------------------------------------
(* The transcription service, in the order of its commands, and what the manager
   does with its events *)
Serving(i) == Quiet /\ phase[i] = "open" /\ UNCHANGED <<app, connected, up>>

Serve(i) ==
    /\ Serving(i) /\ Calm /\ stt[i].todo # <<>>
    /\ LET t == [stt[i] EXCEPT !.todo = Tail(@)]
           op == Head(stt[i].todo).op
           s == stream[i]
           calm == IF s.last > 0 THEN [s EXCEPT !.awaiting = FALSE] ELSE s
       IN  CASE op = "append" ->
                  /\ stt' = [stt EXCEPT ![i] = [t EXCEPT !.buf = Append(@, Head(stt[i].todo).seq)]]
                  /\ UNCHANGED <<phase, stream, down>>
             [] op = "clear" ->
                  /\ stt' = [stt EXCEPT ![i] = [t EXCEPT !.buf = <<>>, !.cur = @ + 1]]
                  /\ UNCHANGED <<phase, stream, down>>
             [] OTHER ->
                  \* "committed"
                  \/ Conclude(i, [calm EXCEPT !.committed = Append(@, t.cur), !.bytes = 0, !.loud = FALSE],
                       <<>>, [t EXCEPT !.buf = <<>>, !.cur = @ + 1,
                                       !.owed = @ \cup {[seg |-> t.cur, text |-> t.buf]}], <<>>)
                  \* "buffer too small": benign once the end was asked for
                  \/ /\ Len(t.buf) < AutoCommit
                     /\ IF s.last > 0 THEN Conclude(i, calm, <<>>, t, <<>>) ELSE Forget(i, Fail(i))

\* "transcript" of a segment; final holds it if it is the last of it.
Heard(s, seg, text, final) ==
    [s EXCEPT !.texts = [g \in DOMAIN @ \cup {seg} |-> IF g = seg THEN text ELSE @[g]],
              !.final = @ \cup final,
              !.awaiting = @ /\ ~(s.last > 0 /\ final # {})]
Hear(i, seg, text, final, service) ==
    LET s == Heard(stream[i], seg, text, final)
        shown == Said(s, IF seg \in Range(s.committed) THEN s.committed ELSE Append(s.committed, seg))
    IN  Conclude(i, Sealed(s), SealCommands(s), service,
                 <<[type |-> "partial", id |-> i, text |-> shown]>>)
Transcript(i) ==
    /\ Serving(i)
    /\ \/ Calm /\ \E o \in stt[i].owed : Hear(i, o.seg, o.text, {o.seg}, [stt[i] EXCEPT !.owed = @ \ {o}])
       \/ /\ Rare /\ stt[i].buf # <<>> /\ stt[i].cur \notin DOMAIN stream[i].texts
          /\ Hear(i, stt[i].cur, stt[i].buf, {}, stt[i])

\* The service closes the connection.
SttFails(i) ==
    /\ Rare /\ Serving(i)
    /\ Forget(i, Fail(i))

-----------------------------------------------------------------------------
Awaiting == OpenFails \/ \E o \in DOMAIN finish : FinishContinues(o) \/ FinishFails(o)
Arrives == AckArrives \/ ErrorArrives \/ PartialArrives \/ FinalArrives
Handles == HandleStart \/ HandleChunk \/ HandleFinish \/ HandleCancel
Next ==
    \/ StartDictation \/ Confirm \/ MicStops \/ Cancel \/ CancelEnds \/ Hide \/ Retry \/ Discard
    \/ \E loud \in BOOLEAN : Speak(loud)
    \/ Awaiting \/ Arrives \/ Handles \/ Drop \/ Reconnect
    \/ \E i \in Ids : WaitTimesOut(i) \/ SttConnects(i) \/ FinalTimeout(i) \/ Serve(i)
                       \/ Transcript(i) \/ SttFails(i)

\* Promises, timers and the audio source's stop; messages on a connection that is up.
Fairness ==
    /\ WF_vars(Awaiting \/ MicStops \/ CancelEnds)
    /\ WF_vars(\E i \in Ids : WaitTimesOut(i))
    /\ WF_vars(Arrives \/ Handles \/ \E i \in Ids : SttConnects(i))
Spec == Init /\ [][Next]_vars /\ Fairness

-----------------------------------------------------------------------------
(* Properties *)
\* A stream gets its chunks in order and without a gap: what was lost with a
\* connection is never followed by a later chunk (sender, handleChunk).  It asks that
\* nothing is recorded while a retry that was cancelled is still awaited (~Overlap): its
\* end ends the recording too, which then does not start anew with the connection.
ChunksInOrder ==
    up # <<>> /\ Head(up).type = "chunk" /\ phase[Head(up).id] = "open" =>
        Head(up).seq = stream[Head(up).id].next

\* The composer is given what was said, in the order it was said, nothing twice,
\* whatever segments, replays and late transcripts there were (maybeFinalize).
InOrder(text) ==
    \A k, l \in DOMAIN text : \A a \in DOMAIN text[k], b \in DOMAIN text[l] :
        (k < l \/ (k = l /\ a < b)) => text[k][a] < text[l][b]
TextInOrder == \A g \in given : InOrder(g.text)

\* A recording that was cancelled gives no text to the confirm (AttemptGuard).
NothingAfterCancel == [][\A g \in given' \ given : g.by = "confirm" => g.of \notin dropped]_vars

\* A confirm or a retry always comes to an end, and with it the gate that keeps
\* the user from recording again, however the connection, the daemon and the service
\* behave (the waiters' timeouts, actionGateRef); but for the bound on streams.
Busy == processing \/ \E o \in DOMAIN finish : finish[o].pc # "none"
OutOfStreams == started = MaxStarts /\ finish["confirm"].pc = "stopping"
ConfirmSettles == Busy ~> (~Busy \/ OutOfStreams)

\* A text has every loud chunk of its recording ("assembles final transcript in
\* segment order").
NothingLost ==
    down # <<>> /\ Head(down).type = "final" /\ Head(down).id = sender.id =>
        \A k \in DOMAIN segs : segs[k] => \E piece \in Range(Head(down).text) : k - 1 \in Range(piece)
=============================================================================
