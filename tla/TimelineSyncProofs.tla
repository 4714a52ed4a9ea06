-------------------------- MODULE TimelineSyncProofs --------------------------
(***************************************************************************)
(* Theorems about TimelineSync, for any number of rows, registrations and   *)
(* requests under way, any trimming and any limit of the first fetch.       *)
(***************************************************************************)
EXTENDS TimelineSync, SequenceTheorems, TLAPS

-----------------------------------------------------------------------------
(* Runs of rows *)

\* rows are the rows of epoch e of the log from number from on.
IsRun(l, e, from, rows) ==
    rows # <<>> =>
        /\ from \in Nat \ {0}
        /\ from + Len(rows) - 1 <= Len(l[e])
        /\ \A k \in 1..Len(rows) : rows[k] = l[e][from + k - 1]

\* The end of a sequence, element by element.
LEMMA SuffixRun ==
    ASSUME NEW S, NEW s \in Seq(S), NEW a \in Nat \ {0}
    PROVE  /\ SubSeq(s, a, Len(s)) \in Seq(S)
           /\ Len(SubSeq(s, a, Len(s))) = IF a <= Len(s) THEN Len(s) - a + 1 ELSE 0
           /\ \A k \in 1..Len(SubSeq(s, a, Len(s))) :
                 SubSeq(s, a, Len(s))[k] = s[a + k - 1]
  <1>1. \A i \in a..Len(s) : s[i] \in S
    OBVIOUS
  <1>2. Len(s) \in Int /\ a \in Int
    OBVIOUS
  <1> QED BY <1>1, <1>2, SubSeqProperties

\* fetchTimeline's first row has a number from 1 on.
LEMMA FetchFromPositive ==
    ASSUME TypeOK, NEW r \in Requests
    PROVE  FetchFrom(r) \in Nat \ {0}
  <1>1. Len(log[epoch]) \in Nat /\ r.seq \in Nat
    BY DEF TypeOK, Requests, Items
  <1>2. MaxTimelineItems \in Nat /\ TailLimit \in Nat
    BY BoundsAssumption DEF BoundsAssumption
  <1>3. FirstKept(Len(log[epoch])) \in Nat \ {0}
    BY <1>1, <1>2 DEF FirstKept, Larger
  <1> QED BY <1>1, <1>2, <1>3 DEF FetchFrom, Larger

-----------------------------------------------------------------------------
(* Type correctness *)

Fits(m) ==
    m.rows # <<>> => m.epoch \in Epochs /\ m.from \in Items /\ Last(m) \in Items

\* What keeps the numbers within their types.
Bounds ==
    /\ \A e \in Epochs : Len(log[e]) <= recorded
    /\ ~Present => epoch < MaxEpochs
    /\ \A i \in 1..Len(wire) : Fits(wire[i])
    /\ cursor = NoCursor => shown = <<>>
    /\ copied # NotReloading => life = "loaded" /\ copied <= Len(log[epoch])

TInv == TypeOK /\ Bounds

\* The initial state is well formed.
LEMMA InitTInv == Init => TInv
  <1> SUFFICES ASSUME Init PROVE TInv
    OBVIOUS
  <1>1. 1 \in Epochs /\ 0 \in 0..MaxRows
    BY BoundsAssumption DEF BoundsAssumption, Epochs
  <1>2. log \in [Epochs -> Seq(Items)]
    BY DEF Init
  <1>3. req \in [Slots -> Requests]
    BY DEF Init, NoRequest, Requests, Directions
  <1>4. wire \in Seq(Messages) /\ shown \in Seq(Items)
    BY DEF Init
  <1>5. /\ life \in {"absent", "loading", "hydrating", "loaded"} /\ epoch \in Epochs
        /\ left \in 0..MaxRows /\ recorded \in 0..MaxRows
        /\ copied \in Nat \cup {NotReloading}
    BY <1>1 DEF Init
  <1>6. /\ online \in BOOLEAN /\ focused \in BOOLEAN /\ synced \in BOOLEAN
        /\ cursor \in Cursors \cup {NoCursor} /\ init \in Directions \cup {"none"}
    BY DEF Init
  <1>7. TypeOK
    BY <1>2, <1>3, <1>4, <1>5, <1>6 DEF TypeOK
  <1>8. Bounds
    BY <1>7 DEF Init, Bounds, Present
  <1> QED BY <1>7, <1>8 DEF TInv

\* The requests the client makes are well formed.
LEMMA RequestTypes ==
    ASSUME TypeOK, NEW c \in Cursors \cup {NoCursor}, NEW b \in BOOLEAN
    PROVE  AfterRequest(c, b) \in Requests /\ TailRequest \in Requests /\ NoRequest \in Requests
  <1>1. NoRequest \in Requests
    BY DEF NoRequest, Requests, Directions
  <1>3. TailRequest \in Requests
    BY DEF TailRequest, Requests, Directions
  <1>4. c.epoch \in Epochs \cup {0} /\ c.end \in Items \cup {0}
    BY DEF Cursors, NoCursor
  <1>5. AfterRequest(c, b) \in Requests
    BY <1>4 DEF AfterRequest, Requests, Directions
  <1> QED BY <1>1, <1>3, <1>5

\* Sending a request keeps the table of requests well formed.
LEMMA SendType ==
    ASSUME NEW slots \in [Slots -> Requests], NEW r \in Requests, Send(slots, r)
    PROVE  req' \in [Slots -> Requests]
  BY DEF Send

\* Appending a message, and taking the head off, keep the wire well formed.
LEMMA WireAppend ==
    ASSUME TInv, NEW m \in Messages, Fits(m), wire' = Append(wire, m)
    PROVE  wire' \in Seq(Messages) /\ \A i \in 1..Len(wire') : Fits(wire'[i])
  <1>1. /\ wire' \in Seq(Messages) /\ Len(wire') = Len(wire) + 1
        /\ \A i \in 1..Len(wire) : wire'[i] = wire[i]
        /\ wire'[Len(wire) + 1] = m
    BY AppendProperties DEF TInv, TypeOK
  <1>2. Len(wire) \in Nat /\ \A i \in 1..Len(wire) : Fits(wire[i])
    BY DEF TInv, TypeOK, Bounds
  <1> QED BY <1>1, <1>2 DEF Fits

LEMMA WireTail ==
    ASSUME TInv, wire # <<>>
    PROVE  /\ Head(wire) \in Messages /\ Fits(Head(wire)) /\ Head(wire) = wire[1]
           /\ Tail(wire) \in Seq(Messages)
           /\ Len(Tail(wire)) = Len(wire) - 1
           /\ \A i \in 1..Len(Tail(wire)) : Tail(wire)[i] = wire[i + 1] /\ Fits(Tail(wire)[i])
  <1>1. wire \in Seq(Messages) /\ Len(wire) \in Nat /\ Len(wire) > 0
    BY DEF TInv, TypeOK
  <1>2. /\ Head(wire) \in Messages /\ Tail(wire) \in Seq(Messages)
        /\ Len(Tail(wire)) = Len(wire) - 1
        /\ \A i \in 1..Len(Tail(wire)) : Tail(wire)[i] = wire[i + 1]
    BY HeadTailProperties DEF TInv, TypeOK
  <1>3. Head(wire) = wire[1]
    BY <1>1
  <1>4. \A i \in 1..Len(wire) : Fits(wire[i])
    BY DEF TInv, Bounds
  <1> QED BY <1>1, <1>2, <1>3, <1>4

\* A step that leaves the daemon's rows and the copy alone keeps the bounds.
LEMMA BoundsKept ==
    ASSUME Bounds, UNCHANGED <<life, epoch, log, copied, recorded, wire, cursor, shown>>
    PROVE  Bounds'
  BY DEF Bounds, Present, Fits, Last

\* recordTimeline: one row more, with a number of its own.
LEMMA RecordRowType ==
    ASSUME TInv, RecordRow
    PROVE  /\ log' \in [Epochs -> Seq(Items)]
           /\ recorded' \in 0..MaxRows
           /\ \A e \in Epochs : Len(log'[e]) <= recorded'
           /\ Len(log'[epoch]) = Len(log[epoch]) + 1
           /\ log'[epoch][Len(log[epoch]) + 1] = recorded + 1
           /\ \A e \in Epochs : \A k \in 1..Len(log[e]) :
                 k <= Len(log'[e]) /\ log'[e][k] = log[e][k]
           /\ \A e \in Epochs \ {epoch} : log'[e] = log[e]
  <1>1. /\ recorded \in Nat /\ recorded + 1 \in Items /\ MaxRows \in Nat
        /\ recorded' = recorded + 1
    BY BoundsAssumption DEF BoundsAssumption, RecordRow, TInv, TypeOK, Items
  <1>2. epoch \in Epochs /\ log[epoch] \in Seq(Items) /\ Len(log[epoch]) \in Nat
    BY DEF TInv, TypeOK
  <1>3. /\ Append(log[epoch], recorded + 1) \in Seq(Items)
        /\ Len(Append(log[epoch], recorded + 1)) = Len(log[epoch]) + 1
        /\ \A i \in 1..Len(log[epoch]) : Append(log[epoch], recorded + 1)[i] = log[epoch][i]
        /\ Append(log[epoch], recorded + 1)[Len(log[epoch]) + 1] = recorded + 1
    BY <1>1, <1>2, AppendProperties
  <1>4. log' = [log EXCEPT ![epoch] = Append(log[epoch], recorded + 1)]
    BY DEF RecordRow
  <1>5. /\ log' \in [Epochs -> Seq(Items)]
        /\ log'[epoch] = Append(log[epoch], recorded + 1)
        /\ \A e \in Epochs \ {epoch} : log'[e] = log[e]
    BY <1>2, <1>3, <1>4 DEF TInv, TypeOK
  <1>6. \A e \in Epochs : Len(log[e]) <= recorded /\ Len(log[e]) \in Nat
    BY DEF TInv, TypeOK, Bounds
  <1>7. \A e \in Epochs : Len(log'[e]) <= recorded'
    BY <1>1, <1>2, <1>3, <1>5, <1>6
  <1>8. \A e \in Epochs : \A k \in 1..Len(log[e]) :
           k <= Len(log'[e]) /\ log'[e][k] = log[e][k]
    <2> SUFFICES ASSUME NEW e \in Epochs, NEW k \in 1..Len(log[e])
                 PROVE  k <= Len(log'[e]) /\ log'[e][k] = log[e][k]
      OBVIOUS
    <2>1. CASE e = epoch
      BY <2>1, <1>2, <1>3, <1>5
    <2>2. CASE e # epoch
      BY <2>2, <1>5, <1>6
    <2> QED BY <2>1, <2>2
  <1>9. recorded' \in 0..MaxRows
    BY <1>1 DEF Items
  <1> QED BY <1>2, <1>3, <1>5, <1>7, <1>8, <1>9

\* A live row is a well-formed message.
LEMMA RowMessageFits ==
    ASSUME TInv, recorded < MaxRows
    PROVE  RowMessage \in Messages /\ Fits(RowMessage)
  <1>1. /\ recorded \in Nat /\ recorded + 1 \in Items /\ MaxRows \in Nat /\ epoch \in Epochs
        /\ Len(log[epoch]) \in Nat /\ Len(log[epoch]) <= recorded
    BY BoundsAssumption DEF BoundsAssumption, TInv, TypeOK, Bounds, Items
  <1>2. <<recorded + 1>> \in Seq(Items) /\ Len(<<recorded + 1>>) = 1
    BY <1>1
  <1>3. RowMessage \in Messages
    BY <1>1, <1>2 DEF RowMessage, Messages
  <1>4. Fits(RowMessage)
    BY <1>1, <1>2 DEF RowMessage, Fits, Last, Items
  <1> QED BY <1>3, <1>4

\* An answer carries the end of the current epoch's rows.
LEMMA AnswerFits ==
    ASSUME TInv, NEW s \in Slots
    PROVE  /\ AnswerMessage(s) \in Messages /\ Fits(AnswerMessage(s))
           /\ IsRun(log, AnswerMessage(s).epoch, AnswerMessage(s).from, AnswerMessage(s).rows)
           /\ AnswerMessage(s).rows # <<>> =>
                 /\ AnswerMessage(s).epoch = epoch
                 /\ Last(AnswerMessage(s)) = Len(log[epoch])
  <1> DEFINE from == FetchFrom(req[s])
             n == Len(log[epoch])
             rows == SubSeq(log[epoch], from, n)
  <1>1. /\ epoch \in Epochs /\ log[epoch] \in Seq(Items) /\ n \in Nat
        /\ req[s] \in Requests /\ req[s].dir \in Directions
    BY DEF TInv, TypeOK, Requests
  <1>2. from \in Nat \ {0}
    BY <1>1, FetchFromPositive DEF TInv
  <1>3. /\ rows \in Seq(Items)
        /\ Len(rows) = IF from <= n THEN n - from + 1 ELSE 0
        /\ \A k \in 1..Len(rows) : rows[k] = log[epoch][from + k - 1]
    BY <1>1, <1>2, SuffixRun
  <1>4. n <= recorded /\ recorded \in 0..MaxRows /\ MaxRows \in Nat
    BY <1>1, BoundsAssumption DEF BoundsAssumption, TInv, TypeOK, Bounds
  <1>5. rows # <<>> => from <= n /\ from + Len(rows) - 1 = n
    BY <1>1, <1>2, <1>3
  <1>6. Reset(req[s]) \in BOOLEAN
    BY DEF Reset
  <1>7. CASE Present
    <2>1. AnswerMessage(s) = [kind |-> req[s].dir, epoch |-> epoch, from |-> from,
            rows |-> rows, reset |-> Reset(req[s]), slot |-> s]
      BY <1>7 DEF AnswerMessage
    <2>2. AnswerMessage(s) \in Messages
      BY <2>1, <1>1, <1>2, <1>3, <1>6 DEF Messages
    <2>3. Fits(AnswerMessage(s))
      BY SMTT(30), <2>1, <1>1, <1>2, <1>4, <1>5 DEF Fits, Last, Items
    <2>4. IsRun(log, AnswerMessage(s).epoch, AnswerMessage(s).from, AnswerMessage(s).rows)
      BY <2>1, <1>1, <1>2, <1>3, <1>5 DEF IsRun
    <2>5. rows # <<>> => Last(AnswerMessage(s)) = n
      BY <2>1, <1>1, <1>2, <1>3, <1>5 DEF Last
    <2>6. AnswerMessage(s).epoch = epoch /\ AnswerMessage(s).rows = rows
      BY <2>1, <1>1, <1>2, <1>3, <1>6
    <2> QED BY <2>2, <2>3, <2>4, <2>5, <2>6
  <1>8. CASE ~Present
    <2>1. AnswerMessage(s) = [kind |-> "error", epoch |-> 0, from |-> 0, rows |-> <<>>,
            reset |-> FALSE, slot |-> s]
      BY <1>8 DEF AnswerMessage
    <2>a. <<>> \in Seq(Items)
      OBVIOUS
    <2>2. AnswerMessage(s) \in Messages
      BY <2>1, <2>a DEF Messages
    <2> QED BY <2>1, <2>2 DEF Fits, IsRun
  <1> QED BY <1>7, <1>8

\* What a message does to the copy: nothing, a replacement, or an extension.
Replaces(m) == cursor' = Span(m) /\ shown' = m.rows
Extends(m) ==
    /\ m.rows # <<>> /\ cursor # NoCursor
    /\ m.epoch = cursor.epoch /\ m.from <= cursor.end + 1
    /\ cursor' = [cursor EXCEPT !.end = Larger(@, Last(m))]
    /\ shown' = shown \o SubSeq(m.rows, cursor.end - m.from + 2, Len(m.rows))

\* The incremental path ignores, replaces or extends.
LEMMA IncrementalEffect ==
    ASSUME TInv, NEW m \in Messages, Fits(m), NEW slots, Incremental(m, slots)
    PROVE  UNCHANGED <<cursor, shown>> \/ Replaces(m) \/ Extends(m)
  <1> DEFINE d == Classify(m.epoch, m.from)
  <1>1. CASE m.rows # <<>> /\ d = "init" /\ cursor' = Span(m) /\ shown' = shown \o m.rows
    <2>1. cursor = NoCursor
      BY <1>1 DEF Classify
    <2>2. m.rows \in Seq(Items) /\ shown = <<>>
      BY <2>1 DEF Messages, TInv, Bounds
    <2>3. shown' = m.rows
      BY <1>1, <2>2, ConcatEmptySeq
    <2> QED BY <1>1, <2>3 DEF Replaces
  <1>2. CASE /\ m.rows # <<>> /\ d \in {"accept", "drop_stale"}
             /\ cursor' = [cursor EXCEPT !.end = Larger(@, Last(m))]
             /\ shown' = shown \o SubSeq(m.rows, cursor.end - m.from + 2, Len(m.rows))
    <2>1. cursor # NoCursor /\ cursor.epoch = m.epoch
      BY <1>2 DEF Classify
    <2>2. cursor.end \in Nat /\ m.from \in Nat
      BY <2>1 DEF TInv, TypeOK, Cursors, Items, Messages
    <2>3. m.from <= cursor.end + 1
      BY <1>2, <2>1, <2>2 DEF Classify
    <2> QED BY <1>2, <2>1, <2>3 DEF Extends
  <1> QED BY <1>1, <1>2 DEF Incremental

\* A delivery takes the first message and ignores it, replaces or extends.
LEMMA DeliverEffect ==
    ASSUME TInv, Deliver
    PROVE  /\ wire # <<>> /\ wire' = Tail(wire)
           /\ UNCHANGED <<life, epoch, log, left, copied, recorded, online, focused>>
           /\ UNCHANGED <<cursor, shown>> \/ Replaces(wire[1]) \/ Extends(wire[1])
  <1>1. CASE DeliverRow
    <2>1. wire # <<>> /\ Incremental(Head(wire), req)
      BY <1>1 DEF DeliverRow
    <2>2. /\ Head(wire) \in Messages /\ Fits(Head(wire)) /\ Head(wire) = wire[1]
      BY <2>1, WireTail
    <2>3. UNCHANGED <<cursor, shown>> \/ Replaces(wire[1]) \/ Extends(wire[1])
      BY <2>1, <2>2, IncrementalEffect
    <2> QED BY <1>1, <2>3 DEF DeliverRow, daemonVars
  <1>2. CASE DeliverAnswer
    <2>1. wire # <<>>
      BY <1>2 DEF DeliverAnswer
    <2>2. /\ Head(wire) \in Messages /\ Fits(Head(wire)) /\ Head(wire) = wire[1]
      BY <2>1, WireTail
    <2> DEFINE m == Head(wire)
               slots == [req EXCEPT ![m.slot] = NoRequest]
    <2>3. \/ cursor' = Span(m) /\ shown' = m.rows
          \/ Incremental(m, slots)
      BY <1>2 DEF DeliverAnswer
    <2>4. UNCHANGED <<cursor, shown>> \/ Replaces(m) \/ Extends(m)
      BY <2>2, <2>3, IncrementalEffect DEF Replaces
    <2> QED BY <1>2, <2>2, <2>4 DEF DeliverAnswer, daemonVars
  <1>3. CASE DeliverError
    BY <1>3 DEF DeliverError, daemonVars
  <1> QED BY <1>1, <1>2, <1>3 DEF Deliver

\* The copy stays well formed.
LEMMA CopyType ==
    ASSUME TInv, NEW m \in Messages, Fits(m),
           UNCHANGED <<cursor, shown>> \/ Replaces(m) \/ Extends(m)
    PROVE  /\ cursor' \in Cursors \cup {NoCursor} /\ shown' \in Seq(Items)
           /\ cursor' = NoCursor => shown' = <<>>
  <1>1. cursor \in Cursors \cup {NoCursor} /\ shown \in Seq(Items) /\ m.rows \in Seq(Items)
        /\ MaxRows \in Nat
    BY BoundsAssumption DEF BoundsAssumption, TInv, TypeOK, Messages
  <1>2. CASE UNCHANGED <<cursor, shown>>
    BY <1>1, <1>2 DEF TInv, Bounds
  <1>3. CASE Replaces(m)
    <2>1. CASE m.rows = <<>>
      BY <1>3, <2>1, <1>1 DEF Replaces, Span
    <2>2. CASE m.rows # <<>>
      <3>1. cursor' = [epoch |-> m.epoch, start |-> m.from, end |-> Last(m)]
        BY <1>3, <2>2 DEF Replaces, Span
      <3>2. cursor' \in Cursors
        BY <3>1, <2>2 DEF Cursors, Fits
      <3> QED BY <3>2, <1>1, <1>3 DEF Replaces, Cursors, NoCursor, Epochs
    <2> QED BY <2>1, <2>2
  <1>4. CASE Extends(m)
    <2> DEFINE a == cursor.end - m.from + 2
    <2>1. cursor \in Cursors /\ m.rows # <<>> /\ m.from \in Items /\ Last(m) \in Items
      BY <1>1, <1>4 DEF Extends, Fits
    <2>2. cursor.end \in Items /\ m.from <= cursor.end + 1
      BY <1>4, <2>1 DEF Extends, Cursors
    <2>3. a \in Nat \ {0}
      BY <2>1, <2>2 DEF Items
    <2>4. SubSeq(m.rows, a, Len(m.rows)) \in Seq(Items)
      BY <1>1, <2>3, SuffixRun
    <2>5. shown' \in Seq(Items)
      BY <1>1, <1>4, <2>4, ConcatProperties DEF Extends
    <2>6. Larger(cursor.end, Last(m)) \in Items
      BY <2>1, <2>2 DEF Larger
    <2>7. cursor' \in Cursors
      BY <1>4, <2>1, <2>6 DEF Extends, Cursors
    <2> QED BY <2>5, <2>7 DEF Cursors, NoCursor, Epochs
  <1> QED BY <1>2, <1>3, <1>4

\* A run outlives the growth of the log.
Grows(l, l2) ==
    \A e \in Epochs : \A k \in 1..Len(l[e]) : k <= Len(l2[e]) /\ l2[e][k] = l[e][k]

LEMMA RunKept ==
    ASSUME NEW l \in [Epochs -> Seq(Items)], NEW l2 \in [Epochs -> Seq(Items)],
           Grows(l, l2), NEW e, NEW from, NEW rows \in Seq(Items),
           rows # <<>> => e \in Epochs, IsRun(l, e, from, rows)
    PROVE  IsRun(l2, e, from, rows)
  <1> SUFFICES ASSUME rows # <<>>
               PROVE  /\ from \in Nat \ {0}
                      /\ from + Len(rows) - 1 <= Len(l2[e])
                      /\ \A k \in 1..Len(rows) : rows[k] = l2[e][from + k - 1]
    BY DEF IsRun
  <1>1. /\ from \in Nat \ {0} /\ from + Len(rows) - 1 <= Len(l[e])
        /\ \A k \in 1..Len(rows) : rows[k] = l[e][from + k - 1]
    BY DEF IsRun
  <1>2. e \in Epochs /\ Len(rows) \in Nat \ {0} /\ Len(l[e]) \in Nat /\ Len(l2[e]) \in Nat
    OBVIOUS
  <1>3. \A k \in 1..Len(l[e]) : k <= Len(l2[e]) /\ l2[e][k] = l[e][k]
    BY <1>2 DEF Grows
  <1>4. from + Len(rows) - 1 \in 1..Len(l[e])
    BY <1>1, <1>2
  <1>5. from + Len(rows) - 1 <= Len(l2[e])
    BY <1>3, <1>4
  <1>6. \A k \in 1..Len(rows) : from + k - 1 \in 1..Len(l[e])
    BY <1>1, <1>2
  <1> QED BY <1>1, <1>3, <1>5, <1>6

-----------------------------------------------------------------------------
(* Every step keeps TInv *)

\* The requests of a handler that finds the agent there, or gives up.
LEMMA WokenType ==
    ASSUME TInv,
           req' = [s \in Slots |->
             IF req[s].st = "waiting" THEN [req[s] EXCEPT !.st = "ready"] ELSE req[s]]
    PROVE  req' \in [Slots -> Requests]
  BY ZenonT(40) DEF TInv, TypeOK, Requests

\* Record.
LEMMA RecordTInv == TInv /\ Record => TInv'
  <1> SUFFICES ASSUME TInv, Record PROVE TInv'
    OBVIOUS
  <1>1. RecordRow /\ recorded < MaxRows
    BY DEF Record, RecordRow
  <1>2. /\ wire' \in Seq(Messages) /\ \A i \in 1..Len(wire') : Fits(wire'[i])
    <2>1. CASE wire' = Append(wire, RowMessage)
      BY <1>1, <2>1, RowMessageFits, WireAppend
    <2>2. CASE UNCHANGED wire
      BY <2>2 DEF TInv, TypeOK, Bounds
    <2> QED BY <2>1, <2>2 DEF Record
  <1>3. TypeOK'
    BY <1>1, <1>2, RecordRowType DEF Record, TInv, TypeOK, clientVars
  <1>4. /\ \A e \in Epochs : Len(log'[e]) <= recorded'
        /\ epoch \in Epochs /\ epoch' = epoch /\ copied' = copied /\ life' = life
        /\ copied # NotReloading => copied \in Nat
        /\ Len(log[epoch]) \in Nat /\ Len(log'[epoch]) = Len(log[epoch]) + 1
    BY <1>1, RecordRowType DEF Record, TInv, TypeOK
  <1>5. copied' # NotReloading => life' = "loaded" /\ copied' <= Len(log'[epoch'])
    BY <1>4 DEF TInv, Bounds
  <1>6. Bounds'
    BY <1>2, <1>4, <1>5 DEF Record, TInv, Bounds, Present, Fits, Last, clientVars
  <1> QED BY <1>3, <1>6 DEF TInv

\* Hydrate.
LEMMA HydrateTInv == TInv /\ Hydrate => TInv'
  <1> SUFFICES ASSUME TInv, Hydrate PROVE TInv'
    OBVIOUS
  <1>1. CASE left > 0
    <2>1. RecordRow /\ left' = left - 1
          /\ UNCHANGED <<life, req, epoch, copied, online, wire, clientVars>>
      BY <1>1 DEF Hydrate
    <2>2. left' \in 0..MaxRows
      BY <1>1, <2>1, BoundsAssumption DEF BoundsAssumption, TInv, TypeOK
    <2>a. life = "hydrating"
      BY DEF Hydrate
    <2>b. copied = NotReloading
      BY <2>a DEF TInv, Bounds
    <2>c. \A e \in Epochs : Len(log'[e]) <= recorded'
      BY <2>1, RecordRowType
    <2>3. TypeOK'
      BY <2>1, <2>2, RecordRowType DEF TInv, TypeOK, clientVars
    <2>4. Bounds'
      BY <2>1, <2>a, <2>b, <2>c DEF TInv, Bounds, Present, Fits, Last, clientVars
    <2> QED BY <2>3, <2>4 DEF TInv
  <1>2. CASE ~(left > 0)
    <2>1. /\ life' = "loaded" /\ req' \in [Slots -> Requests]
          /\ UNCHANGED <<left, log, recorded, epoch, copied, online, wire, clientVars>>
      BY <1>2, WokenType DEF Hydrate
    <2>2. TypeOK'
      BY <2>1 DEF TInv, TypeOK, clientVars
    <2>3. Bounds'
      BY <2>1 DEF TInv, Bounds, Present, Fits, Last, clientVars
    <2> QED BY <2>2, <2>3 DEF TInv
  <1> QED BY <1>1, <1>2

\* The actions of a load and of closeAgent.
LEMMA LoadTInv ==
    ASSUME TInv,
           \/ \E s \in Slots : Arrive(s)
           \/ Register \/ RegisterFails \/ Unload
    PROVE  TInv'
  <1>1. ASSUME NEW s \in Slots, Arrive(s) PROVE TInv'
    <2> DEFINE st == IF Present THEN "ready" ELSE "waiting"
    <2>a. req \in [Slots -> Requests] /\ [req[s] EXCEPT !.st = st] \in Requests
      BY DEF TInv, TypeOK, Requests
    <2>b. req' = [req EXCEPT ![s] = [req[s] EXCEPT !.st = st]]
      BY <1>1 DEF Arrive
    <2>1. req' \in [Slots -> Requests]
      BY <2>a, <2>b
    <2>2. TypeOK'
      BY <1>1, <2>1 DEF Arrive, TInv, TypeOK, clientVars
    <2>3. Bounds'
      BY <1>1 DEF Arrive, TInv, Bounds, Present, Fits, Last, clientVars
    <2> QED BY <2>2, <2>3 DEF TInv
  <1>2. CASE Register
    <2>1. epoch < MaxEpochs /\ epoch \in Epochs /\ MaxEpochs \in Nat /\ MaxRows \in Nat
          /\ recorded \in 0..MaxRows
      BY <1>2, BoundsAssumption
         DEF BoundsAssumption, Register, TInv, TypeOK, Bounds, Present
    <2>2. epoch' \in Epochs /\ left' \in 0..MaxRows
      BY <1>2, <2>1 DEF Register, Epochs
    <2>3. TypeOK'
      BY <1>2, <2>2 DEF Register, TInv, TypeOK, clientVars
    <2>4. Bounds'
      BY <1>2 DEF Register, TInv, Bounds, Present, Fits, Last, clientVars
    <2> QED BY <2>3, <2>4 DEF TInv
  <1>3. CASE RegisterFails
    <2>1. req' \in [Slots -> Requests]
      BY <1>3, WokenType DEF RegisterFails
    <2>2. TypeOK'
      BY <1>3, <2>1 DEF RegisterFails, TInv, TypeOK, clientVars
    <2>3. Bounds'
      BY <1>3 DEF RegisterFails, TInv, Bounds, Present, Fits, Last, clientVars
    <2> QED BY <2>2, <2>3 DEF TInv
  <1>4. CASE Unload
    <2>1. req' \in [Slots -> Requests]
      BY <1>4, WokenType DEF Unload
    <2>2. 0 \in 0..MaxRows
      BY BoundsAssumption DEF BoundsAssumption
    <2>3. TypeOK'
      BY <1>4, <2>1, <2>2 DEF Unload, TInv, TypeOK, clientVars
    <2>4. Bounds'
      BY <1>4 DEF Unload, TInv, Bounds, Present, Fits, Last, clientVars
    <2> QED BY <2>3, <2>4 DEF TInv
  <1> QED BY <1>1, <1>2, <1>3, <1>4

\* The two halves of reloadAgentSession.
LEMMA ReloadTInv == TInv /\ (ReloadCopies \/ ReloadSwaps) => TInv'
  <1> SUFFICES ASSUME TInv, ReloadCopies \/ ReloadSwaps PROVE TInv'
    OBVIOUS
  <1>1. epoch \in Epochs /\ log[epoch] \in Seq(Items) /\ Len(log[epoch]) \in Nat
        /\ copied \in Nat \cup {NotReloading}
    BY DEF TInv, TypeOK
  <1>2. CASE ReloadCopies
    <2>1. TypeOK'
      BY <1>1, <1>2 DEF ReloadCopies, TInv, TypeOK, clientVars
    <2>2. Bounds'
      BY <1>1, <1>2 DEF ReloadCopies, TInv, Bounds, Present, Fits, Last, clientVars
    <2> QED BY <2>1, <2>2 DEF TInv
  <1>3. CASE ReloadSwaps
    <2> DEFINE kept == SubSeq(log[epoch], 1, copied)
    <2>1. copied \in Nat
      BY <1>1, <1>3 DEF ReloadSwaps
    <2>2. copied <= Len(log[epoch])
      BY <1>3 DEF ReloadSwaps, TInv, Bounds
    <2>3. TInv'
      <3>1. kept \in Seq(Items) /\ Len(kept) <= Len(log[epoch])
        <4>1. \A i \in 1..copied : log[epoch][i] \in Items
          BY <1>1, <2>1, <2>2
        <4> QED BY <1>1, <2>1, <2>2, <4>1, SubSeqProperties
      <3>2. log' \in [Epochs -> Seq(Items)] /\ \A e \in Epochs : Len(log'[e]) <= Len(log[e])
        BY <1>1, <1>3, <3>1 DEF ReloadSwaps, TInv, TypeOK
      <3>3. TypeOK'
        BY <1>3, <3>2 DEF ReloadSwaps, TInv, TypeOK, clientVars
      <3>4. \A e \in Epochs : Len(log'[e]) \in Nat /\ Len(log[e]) \in Nat
                              /\ recorded \in Nat /\ recorded' = recorded
        BY <1>3, <3>2 DEF ReloadSwaps, TInv, TypeOK
      <3>5. \A e \in Epochs : Len(log'[e]) <= recorded'
        BY <3>2, <3>4 DEF TInv, Bounds
      <3>6. Bounds'
        BY <1>3, <3>5 DEF ReloadSwaps, TInv, Bounds, Present, Fits, Last, clientVars
      <3> QED BY <3>3, <3>6 DEF TInv
    <2> QED BY <2>3
  <1> QED BY <1>2, <1>3

\* Answer.
LEMMA AnswerTInv ==
    ASSUME TInv, NEW s \in Slots, Answer(s)
    PROVE  TInv'
  <1>1. CASE online
    <2>1. /\ wire' = Append(wire, AnswerMessage(s))
          /\ req' = [req EXCEPT ![s].st = "answered"]
          /\ UNCHANGED <<daemonVars, online, clientVars>>
      BY <1>1 DEF Answer
    <2>2. /\ wire' \in Seq(Messages) /\ \A i \in 1..Len(wire') : Fits(wire'[i])
      BY <2>1, AnswerFits, WireAppend
    <2>3. req' \in [Slots -> Requests]
      BY ZenonT(40), <2>1 DEF TInv, TypeOK, Requests
    <2>4. TypeOK'
      BY <2>1, <2>2, <2>3 DEF TInv, TypeOK, daemonVars, clientVars
    <2>5. Bounds'
      BY <2>1, <2>2 DEF TInv, Bounds, Present, Fits, Last, daemonVars, clientVars
    <2> QED BY <2>4, <2>5 DEF TInv
  <1>2. CASE ~online
    <2>1. /\ req' = [req EXCEPT ![s] = NoRequest]
          /\ UNCHANGED <<wire, daemonVars, online, clientVars>>
      BY <1>2 DEF Answer
    <2>2. req' \in [Slots -> Requests]
      BY <2>1, RequestTypes DEF TInv, TypeOK
    <2>3. TypeOK'
      BY <2>1, <2>2 DEF TInv, TypeOK, daemonVars, clientVars
    <2>4. Bounds'
      BY <2>1, BoundsKept DEF TInv, daemonVars, clientVars
    <2> QED BY <2>3, <2>4 DEF TInv
  <1> QED BY <1>1, <1>2

\* ensureAgentIsInitialized.
LEMMA InitializeType ==
    ASSUME TInv, Initialize
    PROVE  req' \in [Slots -> Requests] /\ init' \in Directions \cup {"none"}
  <1>1. /\ AfterRequest(cursor, TRUE) \in Requests /\ TailRequest \in Requests
        /\ req \in [Slots -> Requests] /\ init \in Directions \cup {"none"}
    BY RequestTypes DEF TInv, TypeOK
  <1>2. CASE UNCHANGED <<req, init>>
    BY <1>1, <1>2
  <1>3. CASE /\ init' = InitDirection
             /\ Send(req, IF InitDirection = "tail" THEN TailRequest
                          ELSE AfterRequest(cursor, TRUE))
    BY <1>1, <1>3, SendType DEF InitDirection, Directions
  <1> QED BY <1>2, <1>3 DEF Initialize

\* The client's own actions and the connection's.
LEMMA ClientTInv ==
    ASSUME TInv,
           \/ Focus \/ Blur \/ Connect \/ Disconnect \/ AppResumed
           \/ \E s \in Slots : InitTimesOut(s)
    PROVE  TInv'
  <1>0. req \in [Slots -> Requests] /\ init \in Directions \cup {"none"}
    BY DEF TInv, TypeOK
  <1>1. CASE Focus \/ Connect
    <2>1. Initialize \/ UNCHANGED <<req, init>>
      BY <1>1 DEF Focus, Connect
    <2>2. req' \in [Slots -> Requests] /\ init' \in Directions \cup {"none"}
      BY <1>0, <2>1, InitializeType
    <2>3. focused' \in BOOLEAN /\ online' \in BOOLEAN
      BY <1>1 DEF Focus, Connect, TInv, TypeOK
    <2>4. UNCHANGED <<daemonVars, wire, cursor, shown, synced>>
      BY <1>1 DEF Focus, Connect
    <2>5. TypeOK'
      BY <2>2, <2>3, <2>4 DEF TInv, TypeOK, daemonVars
    <2>6. Bounds'
      BY <2>4, BoundsKept DEF TInv, daemonVars
    <2> QED BY <2>5, <2>6 DEF TInv
  <1>2. CASE Blur
    <2>1. TypeOK'
      BY <1>2 DEF Blur, TInv, TypeOK, daemonVars
    <2>2. Bounds'
      BY <1>2, BoundsKept DEF Blur, TInv, daemonVars
    <2> QED BY <2>1, <2>2 DEF TInv
  <1>3. CASE Disconnect
    <2>1. PICK lost \in SUBSET {s \in Slots : req[s].st # "free"} :
             req' = [s \in Slots |->
               IF s \in lost THEN NoRequest ELSE [req[s] EXCEPT !.init = FALSE]]
      BY <1>3 DEF Disconnect
    <2>2. NoRequest \in Requests
      BY DEF NoRequest, Requests, Directions
    <2>3. \A s \in Slots : [req[s] EXCEPT !.init = FALSE] \in Requests
      BY <1>0 DEF Requests
    <2>4. req' \in [Slots -> Requests]
      BY <2>1, <2>2, <2>3
    <2>5. wire' \in Seq(Messages) /\ Len(wire') = 0
      BY <1>3 DEF Disconnect
    <2>6. TypeOK'
      BY <1>3, <2>4, <2>5 DEF Disconnect, TInv, TypeOK, daemonVars
    <2>7. Bounds'
      BY <1>3, <2>5 DEF Disconnect, TInv, Bounds, Present, Fits, Last, daemonVars
    <2> QED BY <2>6, <2>7 DEF TInv
  <1>4. CASE AppResumed
    <2>1. AfterRequest(cursor, FALSE) \in Requests /\ Send(req, AfterRequest(cursor, FALSE))
      BY <1>4, RequestTypes DEF AppResumed, TInv, TypeOK
    <2>2. req' \in [Slots -> Requests]
      BY <1>0, <2>1, SendType
    <2>3. TypeOK'
      BY <1>4, <2>2 DEF AppResumed, TInv, TypeOK, daemonVars, clientVars
    <2>4. Bounds'
      BY <1>4, BoundsKept DEF AppResumed, TInv, daemonVars, clientVars
    <2> QED BY <2>3, <2>4 DEF TInv
  <1>5. ASSUME NEW s \in Slots, InitTimesOut(s) PROVE TInv'
    <2>a. [req[s] EXCEPT !.init = FALSE] \in Requests
      BY <1>0 DEF Requests
    <2>b. req' = [req EXCEPT ![s] = [req[s] EXCEPT !.init = FALSE]]
      BY <1>5 DEF InitTimesOut
    <2>1. req' \in [Slots -> Requests]
      BY <1>0, <2>a, <2>b
    <2>2. TypeOK'
      BY <1>5, <2>1 DEF InitTimesOut, TInv, TypeOK, daemonVars
    <2>3. Bounds'
      BY <1>5, BoundsKept DEF InitTimesOut, TInv, daemonVars
    <2> QED BY <2>2, <2>3 DEF TInv
  <1> QED BY <1>1, <1>2, <1>3, <1>4, <1>5

\* What a message does to the requests and the init.
LEMMA DeliverRequestType ==
    ASSUME TInv, Deliver
    PROVE  /\ req' \in [Slots -> Requests] /\ init' \in Directions \cup {"none"}
           /\ synced' \in BOOLEAN
  <1>0. /\ req \in [Slots -> Requests] /\ init \in Directions \cup {"none"}
        /\ synced \in BOOLEAN /\ NoRequest \in Requests
        /\ AfterRequest(cursor, FALSE) \in Requests
    BY RequestTypes DEF TInv, TypeOK
  <1>1. ASSUME NEW m, NEW slots \in [Slots -> Requests], Incremental(m, slots)
        PROVE  req' \in [Slots -> Requests]
    <2>1. req' = slots \/ Send(slots, AfterRequest(cursor, FALSE))
      BY <1>1 DEF Incremental
    <2> QED BY <1>0, <1>1, <2>1, SendType
  <1>2. CASE DeliverRow
    BY <1>0, <1>1, <1>2 DEF DeliverRow
  <1>3. CASE DeliverAnswer
    <2> DEFINE m == Head(wire)
               slots == [req EXCEPT ![m.slot] = NoRequest]
    <2>1. m \in Messages /\ Fits(m)
      BY <1>3, WireTail DEF DeliverAnswer
    <2>2. slots \in [Slots -> Requests]
      BY <1>0
    <2>3. ASSUME Bootstrap(m), m.rows # <<>>, Send(slots, AfterRequest(Span(m), FALSE))
          PROVE  req' \in [Slots -> Requests]
      <3>1. Span(m) \in Cursors
        BY <2>1, <2>3 DEF Span, Fits, Cursors
      <3>2. AfterRequest(Span(m), FALSE) \in Requests
        BY <3>1, RequestTypes DEF TInv
      <3> QED BY <2>2, <2>3, <3>2, SendType
    <2>4. req' \in [Slots -> Requests]
      <3> HIDE DEF slots
      <3>1. \/ Bootstrap(m) /\ m.rows # <<>> /\ Send(slots, AfterRequest(Span(m), FALSE))
            \/ req' = slots
            \/ Incremental(m, slots)
        BY <1>3 DEF DeliverAnswer, slots
      <3> QED BY <1>1, <2>2, <2>3, <3>1
    <2>5. init' \in Directions \cup {"none"} /\ synced' \in BOOLEAN
      BY <1>0, <1>3 DEF DeliverAnswer
    <2> QED BY <2>4, <2>5
  <1>4. CASE DeliverError
    BY <1>0, <1>4 DEF DeliverError
  <1> QED BY <1>2, <1>3, <1>4 DEF Deliver

\* Deliver.
LEMMA DeliverTInv == TInv /\ Deliver => TInv'
  <1> SUFFICES ASSUME TInv, Deliver PROVE TInv'
    OBVIOUS
  <1>1. /\ req' \in [Slots -> Requests] /\ init' \in Directions \cup {"none"}
        /\ synced' \in BOOLEAN
    BY DeliverRequestType
  <1>2. /\ wire # <<>> /\ wire' = Tail(wire)
        /\ UNCHANGED <<life, epoch, log, left, copied, recorded, online, focused>>
        /\ UNCHANGED <<cursor, shown>> \/ Replaces(wire[1]) \/ Extends(wire[1])
    BY DeliverEffect
  <1>3. wire[1] \in Messages /\ Fits(wire[1])
    BY <1>2, WireTail
  <1>4. /\ cursor' \in Cursors \cup {NoCursor} /\ shown' \in Seq(Items)
        /\ cursor' = NoCursor => shown' = <<>>
    BY <1>2, <1>3, CopyType
  <1>5. wire' \in Seq(Messages) /\ \A i \in 1..Len(wire') : Fits(wire'[i])
    BY <1>2, WireTail
  <1>6. TypeOK'
    BY <1>1, <1>2, <1>4, <1>5 DEF TInv, TypeOK
  <1>7. Bounds'
    BY <1>2, <1>4, <1>5 DEF TInv, Bounds, Present, Fits, Last
  <1> QED BY <1>6, <1>7 DEF TInv

\* Every step keeps the type invariant.
LEMMA StepTInv == TInv /\ [Next]_vars => TInv'
  <1> SUFFICES ASSUME TInv, [Next]_vars PROVE TInv'
    OBVIOUS
  <1>1. CASE Record
    BY <1>1, RecordTInv
  <1>2. CASE Hydrate
    BY <1>2, HydrateTInv
  <1>3. CASE Register \/ RegisterFails \/ Unload \/ \E s \in Slots : Arrive(s)
    BY <1>3, LoadTInv
  <1>4. CASE ReloadCopies \/ ReloadSwaps
    BY <1>4, ReloadTInv
  <1>5. CASE \E s \in Slots : Answer(s)
    BY <1>5, AnswerTInv
  <1>6. CASE \/ Focus \/ Blur \/ Connect \/ Disconnect \/ AppResumed
             \/ \E s \in Slots : InitTimesOut(s)
    BY <1>6, ClientTInv
  <1>7. CASE Deliver
    BY <1>7, DeliverTInv
  <1>8. CASE UNCHANGED vars
    <2>1. TypeOK'
      BY <1>8 DEF TInv, TypeOK, vars, daemonVars, clientVars
    <2>2. Bounds'
      BY <1>8, BoundsKept DEF TInv, vars, daemonVars, clientVars
    <2> QED BY <2>1, <2>2 DEF TInv
  <1> QED BY <1>1, <1>2, <1>3, <1>4, <1>5, <1>6, <1>7, <1>8 DEF Next

\* Types and the bounds that keep them hold in every reachable state.
THEOREM TInvHolds == Spec => []TInv
  BY InitTInv, StepTInv, PTL DEF Spec

\* Every value stays in its type: the daemon never numbers a row beyond the
\* rows recorded, and the client's cursor names rows that exist.
THEOREM TypeCorrect == Spec => []TypeOK
  <1>1. TInv => TypeOK
    BY DEF TInv
  <1> QED BY <1>1, TInvHolds, PTL

-----------------------------------------------------------------------------
(* The client shows the log *)

SoundWire(l, w) == \A i \in 1..Len(w) : IsRun(l, w[i].epoch, w[i].from, w[i].rows)
SoundCopy(l, c, rows) ==
    c # NoCursor =>
        /\ rows # <<>> /\ c.end = c.start + Len(rows) - 1
        /\ IsRun(l, c.epoch, c.start, rows)

\* Whatever is under way or on the screen is a run of the log.
Sound ==
    /\ copied # NotReloading => copied = Len(log[epoch])
    /\ SoundWire(log, wire)
    /\ SoundCopy(log, cursor, shown)

\* What is a run stays one when the log grows.
LEMMA SoundGrowth ==
    ASSUME TInv, Sound, NEW l2 \in [Epochs -> Seq(Items)], Grows(log, l2)
    PROVE  SoundWire(l2, wire) /\ SoundCopy(l2, cursor, shown)
  <1>0. log \in [Epochs -> Seq(Items)] /\ shown \in Seq(Items)
        /\ cursor \in Cursors \cup {NoCursor}
    BY DEF TInv, TypeOK
  <1>1. ASSUME NEW i \in 1..Len(wire)
        PROVE  IsRun(l2, wire[i].epoch, wire[i].from, wire[i].rows)
    <2>1. wire[i] \in Messages /\ Fits(wire[i])
      BY DEF TInv, TypeOK, Bounds
    <2>2. wire[i].rows \in Seq(Items) /\ (wire[i].rows # <<>> => wire[i].epoch \in Epochs)
      BY <2>1 DEF Messages, Fits
    <2>3. IsRun(log, wire[i].epoch, wire[i].from, wire[i].rows)
      BY DEF Sound, SoundWire
    <2> QED BY <1>0, <2>2, <2>3, RunKept
  <1>2. SoundCopy(l2, cursor, shown)
    <2> SUFFICES ASSUME cursor # NoCursor
                 PROVE  /\ shown # <<>> /\ cursor.end = cursor.start + Len(shown) - 1
                        /\ IsRun(l2, cursor.epoch, cursor.start, shown)
      BY DEF SoundCopy
    <2>1. /\ shown # <<>> /\ cursor.end = cursor.start + Len(shown) - 1
          /\ IsRun(log, cursor.epoch, cursor.start, shown)
      BY DEF Sound, SoundCopy
    <2>2. cursor.epoch \in Epochs
      BY <1>0 DEF Cursors
    <2> QED BY <1>0, <2>1, <2>2, RunKept
  <1> QED BY <1>1, <1>2 DEF SoundWire

\* What of rows comes after the row number end, if from numbers the first;
\* and two runs one after the other.
RestAfter(rows, from, end) == SubSeq(rows, end - from + 2, Len(rows))
Join(rows, rest) == rows \o rest
ReachesLast(end, rest, from, rows) == end + Len(rest) = Larger(end, from + Len(rows) - 1)

\* A run and a run that continues it make one run.
LEMMA RunsJoin ==
    ASSUME NEW l \in [Epochs -> Seq(Items)], NEW e \in Epochs, NEW start \in Nat,
           NEW rows \in Seq(Items), rows # <<>>, IsRun(l, e, start, rows),
           NEW rest \in Seq(Items), IsRun(l, e, start + Len(rows), rest)
    PROVE  /\ Join(rows, rest) # <<>>
           /\ Len(Join(rows, rest)) = Len(rows) + Len(rest)
           /\ IsRun(l, e, start, Join(rows, rest))
  <1>1. /\ start \in Nat \ {0} /\ start + Len(rows) - 1 <= Len(l[e])
        /\ \A k \in 1..Len(rows) : rows[k] = l[e][start + k - 1]
    BY DEF IsRun
  <1>2. Len(rows) \in Nat \ {0} /\ Len(rest) \in Nat /\ Len(l[e]) \in Nat
    OBVIOUS
  <1>3. Len(rest) > 0 =>
           /\ start + Len(rows) + Len(rest) - 1 <= Len(l[e])
           /\ \A k \in 1..Len(rest) : rest[k] = l[e][start + Len(rows) + k - 1]
    BY DEF IsRun
  <1>4. /\ rows \o rest \in Seq(Items) /\ Len(rows \o rest) = Len(rows) + Len(rest)
        /\ \A k \in 1..Len(rows) + Len(rest) :
              (rows \o rest)[k] = IF k <= Len(rows) THEN rows[k] ELSE rest[k - Len(rows)]
    BY ConcatProperties
  <1>5. start + (Len(rows) + Len(rest)) - 1 <= Len(l[e])
    BY <1>1, <1>2, <1>3
  <1>6. ASSUME NEW k \in 1..Len(rows) + Len(rest)
        PROVE  (rows \o rest)[k] = l[e][start + k - 1]
    <2>1. CASE k <= Len(rows)
      <3>1. (rows \o rest)[k] = rows[k]
        BY <1>4, <2>1
      <3>2. k \in 1..Len(rows)
        BY <1>2, <2>1
      <3> QED BY <1>1, <3>1, <3>2
    <2>2. CASE ~(k <= Len(rows))
      <3>1. (rows \o rest)[k] = rest[k - Len(rows)]
        BY <1>4, <2>2
      <3>2. k - Len(rows) \in 1..Len(rest) /\ Len(rest) > 0
        BY <1>2, <2>2
      <3>3. rest[k - Len(rows)] = l[e][start + Len(rows) + (k - Len(rows)) - 1]
        BY <1>3, <3>2
      <3>4. start + Len(rows) + (k - Len(rows)) - 1 = start + k - 1
        BY <1>2
      <3> QED BY <3>1, <3>3, <3>4
    <2> QED BY <2>1, <2>2
  <1>7. rows \o rest # <<>>
    BY <1>2, <1>4
  <1>8. IsRun(l, e, start, rows \o rest)
    BY <1>1, <1>4, <1>5, <1>6 DEF IsRun
  <1> QED BY <1>4, <1>7, <1>8 DEF Join

\* What of a run lies after the row number end is a run from end + 1 on.
LEMMA RunRest ==
    ASSUME NEW l \in [Epochs -> Seq(Items)], NEW e \in Epochs, NEW from \in Nat,
           NEW rows \in Seq(Items), rows # <<>>, IsRun(l, e, from, rows),
           NEW end \in Nat, from <= end + 1
    PROVE  /\ RestAfter(rows, from, end) \in Seq(Items)
           /\ IsRun(l, e, end + 1, RestAfter(rows, from, end))
           /\ ReachesLast(end, RestAfter(rows, from, end), from, rows)
  <1> DEFINE a == end - from + 2
             rest == RestAfter(rows, from, end)
  <1>1. /\ from \in Nat \ {0} /\ from + Len(rows) - 1 <= Len(l[e])
        /\ \A k \in 1..Len(rows) : rows[k] = l[e][from + k - 1]
    BY DEF IsRun
  <1>2. Len(rows) \in Nat \ {0} /\ Len(l[e]) \in Nat /\ a \in Nat \ {0}
    BY <1>1
  <1>3. /\ rest \in Seq(Items)
        /\ Len(rest) = IF a <= Len(rows) THEN Len(rows) - a + 1 ELSE 0
        /\ \A k \in 1..Len(rest) : rest[k] = rows[a + k - 1]
    BY <1>2, SuffixRun DEF RestAfter
  <1> HIDE DEF rest
  <1>4. ReachesLast(end, rest, from, rows)
    BY <1>1, <1>2, <1>3 DEF ReachesLast, Larger
  <1>5. IsRun(l, e, end + 1, rest)
    <2> SUFFICES ASSUME rest # <<>>
                 PROVE  /\ end + 1 \in Nat \ {0}
                        /\ end + 1 + Len(rest) - 1 <= Len(l[e])
                        /\ \A k \in 1..Len(rest) : rest[k] = l[e][end + 1 + k - 1]
      BY DEF IsRun
    <2>1. a <= Len(rows) /\ Len(rest) = Len(rows) - a + 1
      BY <1>2, <1>3
    <2>2. ASSUME NEW k \in 1..Len(rest) PROVE rest[k] = l[e][end + 1 + k - 1]
      <3>1. a + k - 1 \in 1..Len(rows) /\ from + (a + k - 1) - 1 = end + 1 + k - 1
        BY <1>1, <1>2, <2>1
      <3> HIDE DEF a
      <3> QED BY <1>1, <1>3, <3>1
    <2> QED BY <1>1, <1>2, <2>1, <2>2
  <1> QED BY <1>3, <1>4, <1>5 DEF rest

\* A delivery leaves a run on the screen.
LEMMA DeliverSound ==
    ASSUME TInv, Sound, Deliver
    PROVE  SoundCopy(log, cursor', shown')
  <1>1. /\ wire # <<>>
        /\ UNCHANGED <<cursor, shown>> \/ Replaces(wire[1]) \/ Extends(wire[1])
    BY DeliverEffect
  <1> DEFINE m == wire[1]
  <1>2. /\ wire \in Seq(Messages) /\ log \in [Epochs -> Seq(Items)] /\ shown \in Seq(Items)
        /\ cursor \in Cursors \cup {NoCursor}
    BY DEF TInv, TypeOK
  <1>3. m \in Messages /\ Fits(m) /\ IsRun(log, m.epoch, m.from, m.rows)
    BY <1>1, <1>2, WireTail DEF Sound, SoundWire
  <1>4. m.rows \in Seq(Items) /\ SoundCopy(log, cursor, shown)
    BY <1>3 DEF Messages, Sound
  <1> HIDE DEF m
  <1>5. CASE UNCHANGED <<cursor, shown>>
    BY <1>4, <1>5
  <1>6. CASE Replaces(m)
    <2> SUFFICES ASSUME cursor' # NoCursor PROVE SoundCopy(log, cursor', shown')
      BY DEF SoundCopy
    <2>1. /\ m.rows # <<>> /\ shown' = m.rows
          /\ cursor' = [epoch |-> m.epoch, start |-> m.from, end |-> Last(m)]
      BY <1>6 DEF Replaces, Span
    <2> QED BY <2>1, <1>3 DEF SoundCopy, Last
  <1>7. CASE Extends(m)
    <2> DEFINE rest == RestAfter(m.rows, m.from, cursor.end)
    <2>1. /\ m.rows # <<>> /\ cursor # NoCursor /\ m.epoch = cursor.epoch
          /\ m.from <= cursor.end + 1
          /\ cursor' = [cursor EXCEPT !.end = Larger(cursor.end, Last(m))]
          /\ shown' = Join(shown, rest)
      BY <1>7 DEF Extends, RestAfter, Join
    <2>2. /\ shown # <<>> /\ cursor.end = cursor.start + Len(shown) - 1
          /\ IsRun(log, cursor.epoch, cursor.start, shown)
      BY <1>4, <2>1 DEF SoundCopy
    <2>3. cursor \in Cursors /\ cursor.epoch \in Epochs
      BY <1>2, <2>1 DEF Cursors
    <2>4. IsRun(log, cursor.epoch, m.from, m.rows)
      BY <1>3, <2>1
    <2>5. cursor.start \in Nat /\ cursor.end \in Nat /\ m.from \in Nat
      BY <1>3, <2>3 DEF Cursors, Items, Messages
    <2>6. /\ rest \in Seq(Items) /\ IsRun(log, cursor.epoch, cursor.end + 1, rest)
          /\ cursor.end + Len(rest) = Larger(cursor.end, m.from + Len(m.rows) - 1)
      <3>1. log \in [Epochs -> Seq(Items)] /\ m.rows \in Seq(Items) /\ m.rows # <<>>
        BY <1>2, <1>4, <2>1
      <3>2. m.from <= cursor.end + 1 /\ cursor.epoch \in Epochs
        BY <2>1, <2>3
      <3> HIDE DEF m
      <3>3. RestAfter(m.rows, m.from, cursor.end) \in Seq(Items)
        BY <2>4, <2>5, <3>1, <3>2, RunRest, Zenon
      <3>4. IsRun(log, cursor.epoch, cursor.end + 1, RestAfter(m.rows, m.from, cursor.end))
        BY <2>4, <2>5, <3>1, <3>2, RunRest, Zenon
      <3>5. ReachesLast(cursor.end, RestAfter(m.rows, m.from, cursor.end), m.from, m.rows)
        BY <2>4, <2>5, <3>1, <3>2, RunRest, Zenon
      <3> QED BY <3>3, <3>4, <3>5 DEF ReachesLast
    <2>7. /\ cursor'.epoch = cursor.epoch /\ cursor'.start = cursor.start
          /\ cursor'.end = Larger(cursor.end, m.from + Len(m.rows) - 1)
      BY <2>1, <2>3 DEF Cursors, Last
    <2>8. shown' = Join(shown, rest)
      BY <2>1
    <2> HIDE DEF rest
    <2>9. cursor.start + Len(shown) = cursor.end + 1
      BY <1>2, <2>2, <2>5
    <2>10. /\ Join(shown, rest) # <<>> /\ Len(Join(shown, rest)) = Len(shown) + Len(rest)
           /\ IsRun(log, cursor.epoch, cursor.start, Join(shown, rest))
      <3>1. log \in [Epochs -> Seq(Items)] /\ shown \in Seq(Items) /\ shown # <<>>
            /\ cursor.epoch \in Epochs /\ cursor.start \in Nat /\ rest \in Seq(Items)
        BY <1>2, <2>2, <2>3, <2>5, <2>6
      <3>2. IsRun(log, cursor.epoch, cursor.start, shown)
        BY <2>2
      <3>3. IsRun(log, cursor.epoch, cursor.start + Len(shown), rest)
        BY <2>6, <2>9
      <3> QED BY <3>1, <3>2, <3>3, RunsJoin
    <2>11. cursor'.end = cursor'.start + Len(shown') - 1
      <3>1. Len(shown) \in Nat /\ Len(rest) \in Nat
        BY <1>2, <2>6
      <3> QED BY SMTT(30), <2>5, <2>6, <2>7, <2>8, <2>9, <2>10, <3>1
    <2> QED BY <2>7, <2>8, <2>10, <2>11 DEF SoundCopy
  <1> QED BY <1>1, <1>5, <1>6, <1>7 DEF m

\* The log grows in every step, if no row is recorded while a reload runs.
LEMMA LogGrows ==
    ASSUME ~RecordsInReload, TInv, Sound, [Next]_vars
    PROVE  /\ Grows(log, log')
           /\ copied' # NotReloading => copied' = Len(log'[epoch'])
           /\ log' = log \/ RecordRow
  <1>0. /\ log \in [Epochs -> Seq(Items)] /\ epoch \in Epochs /\ log[epoch] \in Seq(Items)
        /\ copied # NotReloading => copied = Len(log[epoch])
    BY DEF TInv, TypeOK, Sound
  <1>1. log' = log => Grows(log, log')
    BY <1>0 DEF Grows
  <1>2. CASE Record
    <2>1. RecordRow /\ copied = NotReloading /\ copied' = copied
      BY <1>2 DEF Record
    <2> QED BY <2>1, RecordRowType DEF Grows
  <1>3. CASE Hydrate
    <2>1. life = "hydrating" /\ copied' = copied
      BY <1>3 DEF Hydrate
    <2>2. copied = NotReloading
      BY <2>1 DEF TInv, Bounds
    <2>3. RecordRow \/ log' = log
      BY <1>3 DEF Hydrate
    <2>4. Grows(log, log')
      BY <1>1, <2>3, RecordRowType DEF Grows
    <2> QED BY <2>1, <2>2, <2>3, <2>4
  <1>4. CASE ReloadCopies
    BY <1>1, <1>4 DEF ReloadCopies
  <1>5. CASE ReloadSwaps
    <2>1. copied = Len(log[epoch]) /\ copied' = NotReloading
      BY <1>0, <1>5 DEF ReloadSwaps
    <2>2. SubSeq(log[epoch], 1, Len(log[epoch])) = log[epoch]
      BY <1>0, SubSeqFull
    <2>3. log' = log
      BY <1>0, <1>5, <2>1, <2>2 DEF ReloadSwaps
    <2> QED BY <1>1, <2>1, <2>3
  <1>6. CASE Register
    <2>1. life = "loading"
      BY <1>6 DEF Register
    <2>2. copied = NotReloading
      BY <2>1 DEF TInv, Bounds
    <2> QED BY <1>1, <1>6, <2>2 DEF Register
  <1>7. CASE RegisterFails \/ Unload \/ \E s \in Slots : Arrive(s)
    BY <1>0, <1>1, <1>7 DEF RegisterFails, Unload, Arrive
  <1>8. CASE \/ \E s \in Slots : Answer(s) \/ InitTimesOut(s)
             \/ Focus \/ Blur \/ Connect \/ Disconnect \/ AppResumed \/ Deliver
    <2>1. UNCHANGED daemonVars
      BY <1>8 DEF Answer, InitTimesOut, Focus, Blur, Connect, Disconnect, AppResumed,
                  Deliver, DeliverRow, DeliverAnswer, DeliverError
    <2> QED BY <1>0, <1>1, <2>1 DEF daemonVars
  <1>9. CASE UNCHANGED vars
    BY <1>0, <1>1, <1>9 DEF vars, daemonVars
  <1> QED BY <1>2, <1>3, <1>4, <1>5, <1>6, <1>7, <1>8, <1>9 DEF Next

\* What a step does to the wire.
LEMMA WireStep ==
    ASSUME TInv, [Next]_vars
    PROVE  \/ UNCHANGED wire
           \/ /\ RecordRow /\ wire' = Append(wire, RowMessage)
              /\ UNCHANGED <<epoch, cursor, shown>>
           \/ \E s \in Slots : /\ wire' = Append(wire, AnswerMessage(s))
                               /\ UNCHANGED <<epoch, log, cursor, shown>>
           \/ Deliver
           \/ wire' = <<>> /\ UNCHANGED <<epoch, log, cursor, shown>>
  <1>1. CASE Record
    BY <1>1 DEF Record, clientVars
  <1>2. CASE \/ Hydrate \/ Register \/ RegisterFails \/ Unload \/ ReloadCopies
             \/ ReloadSwaps \/ \E s \in Slots : Arrive(s) \/ InitTimesOut(s)
    BY <1>2 DEF Hydrate, Register, RegisterFails, Unload, ReloadCopies, ReloadSwaps,
                Arrive, InitTimesOut
  <1>3. ASSUME NEW s \in Slots, Answer(s)
        PROVE  \/ UNCHANGED wire
               \/ /\ wire' = Append(wire, AnswerMessage(s))
                  /\ UNCHANGED <<epoch, log, cursor, shown>>
    BY <1>3 DEF Answer, daemonVars, clientVars
  <1>4. CASE Focus \/ Blur \/ Connect \/ AppResumed \/ UNCHANGED vars
    BY <1>4 DEF Focus, Blur, Connect, AppResumed, vars
  <1>5. CASE Disconnect
    BY <1>5 DEF Disconnect, daemonVars
  <1> QED BY <1>1, <1>2, <1>3, <1>4, <1>5 DEF Next

\* Only a message from the daemon changes the copy.
LEMMA CopyStep ==
    ASSUME [Next]_vars
    PROVE  UNCHANGED <<cursor, shown>> \/ Deliver
  BY DEF Next, Record, Hydrate, Arrive, Register, RegisterFails, Unload, ReloadCopies,
         ReloadSwaps, Answer, Focus, Blur, Connect, Disconnect, InitTimesOut, AppResumed,
         clientVars, vars

\* Nothing is shown at first.
LEMMA InitSound == Init => Sound
  BY DEF Init, Sound, SoundWire, SoundCopy

\* Appending a run to the wire, and taking the head off, keep it sound.
LEMMA SoundAppend ==
    ASSUME NEW l, NEW w \in Seq(Messages), SoundWire(l, w),
           NEW m \in Messages, IsRun(l, m.epoch, m.from, m.rows)
    PROVE  SoundWire(l, Append(w, m))
  <1>1. /\ Len(Append(w, m)) = Len(w) + 1
        /\ \A i \in 1..Len(w) : Append(w, m)[i] = w[i]
        /\ Append(w, m)[Len(w) + 1] = m
    BY AppendProperties
  <1> SUFFICES ASSUME NEW i \in 1..Len(w) + 1
               PROVE  IsRun(l, Append(w, m)[i].epoch, Append(w, m)[i].from, Append(w, m)[i].rows)
    BY <1>1 DEF SoundWire
  <1>2. CASE i \in 1..Len(w)
    BY <1>1, <1>2 DEF SoundWire
  <1>3. CASE i = Len(w) + 1
    BY <1>1, <1>3
  <1> QED BY <1>2, <1>3

\* Every step keeps Sound.
LEMMA StepSound ==
    ASSUME ~RecordsInReload, TInv, Sound, [Next]_vars
    PROVE  Sound'
  <1>0. TInv'
    BY StepTInv
  <1>1. /\ Grows(log, log') /\ (log' = log \/ RecordRow)
        /\ copied' # NotReloading => copied' = Len(log'[epoch'])
    BY LogGrows
  <1>2. log' \in [Epochs -> Seq(Items)] /\ wire \in Seq(Messages) /\ epoch \in Epochs
        /\ log[epoch] \in Seq(Items) /\ recorded \in Nat
    BY <1>0 DEF TInv, TypeOK
  <1>3. SoundWire(log', wire) /\ SoundCopy(log', cursor, shown)
    BY <1>1, <1>2, SoundGrowth
  <1>4. SoundWire(log', wire')
    <2>1. CASE UNCHANGED wire
      BY <1>3, <2>1
    <2>2. CASE RecordRow /\ wire' = Append(wire, RowMessage)
      <3>1. /\ Len(log'[epoch]) = Len(log[epoch]) + 1
            /\ log'[epoch][Len(log[epoch]) + 1] = recorded + 1
        BY <2>2, RecordRowType
      <3>2. RowMessage \in Messages
        BY <2>2, RowMessageFits DEF RecordRow
      <3>3. IsRun(log', RowMessage.epoch, RowMessage.from, RowMessage.rows)
        BY <1>2, <3>1 DEF IsRun, RowMessage
      <3> QED BY <1>2, <1>3, <2>2, <3>2, <3>3, SoundAppend
    <2>3. ASSUME NEW s \in Slots, wire' = Append(wire, AnswerMessage(s)), log' = log
          PROVE  SoundWire(log', wire')
      <3>1. /\ AnswerMessage(s) \in Messages
            /\ IsRun(log', AnswerMessage(s).epoch, AnswerMessage(s).from, AnswerMessage(s).rows)
        BY <2>3, AnswerFits
      <3> QED BY <1>2, <1>3, <2>3, <3>1, SoundAppend
    <2>4. CASE Deliver
      <3>1. wire # <<>> /\ wire' = Tail(wire)
        BY <2>4, DeliverEffect
      <3>2. /\ Len(wire') = Len(wire) - 1 /\ Len(wire) \in Nat
            /\ \A i \in 1..Len(wire') : wire'[i] = wire[i + 1]
        BY <1>2, <3>1, WireTail
      <3>3. \A i \in 1..Len(wire') : i + 1 \in 1..Len(wire)
        BY <3>2
      <3> QED BY <1>3, <3>2, <3>3 DEF SoundWire
    <2>5. CASE wire' = <<>>
      BY <2>5 DEF SoundWire
    <2> QED BY <2>1, <2>2, <2>3, <2>4, <2>5, WireStep
  <1>5. SoundCopy(log', cursor', shown')
    <2>1. CASE UNCHANGED <<cursor, shown>>
      BY <1>3, <2>1
    <2>2. CASE Deliver
      <3>1. log' = log
        BY <2>2, DeliverEffect
      <3> QED BY <2>2, <3>1, DeliverSound
    <2> QED BY <2>1, <2>2, CopyStep
  <1> QED BY <1>1, <1>4, <1>5 DEF Sound

\* Live rows, answers and the screen only ever carry runs of the log.
THEOREM SoundHolds == ASSUME ~RecordsInReload PROVE Spec => []Sound
  <1>1. TInv /\ Sound /\ [Next]_vars => Sound'
    BY StepSound
  <1> QED BY InitSound, TInvHolds, <1>1, PTL DEF Spec

\* A sound copy that is not empty is the run of the log its cursor names.
LEMMA SoundShowsLog == TInv /\ Sound => ShownIsLog
  <1> SUFFICES ASSUME TInv, Sound PROVE ShownIsLog
    OBVIOUS
  <1>1. CASE cursor = NoCursor
    BY <1>1 DEF TInv, Bounds, ShownIsLog
  <1>2. CASE cursor # NoCursor
    <2> DEFINE l == log[cursor.epoch]
               part == SubSeq(l, cursor.start, cursor.end)
    <2>1. cursor \in Cursors /\ shown \in Seq(Items)
      BY <1>2 DEF TInv, TypeOK
    <2>2. /\ l \in Seq(Items) /\ Len(l) \in Nat
          /\ cursor.start \in Nat \ {0} /\ cursor.end \in Nat
      BY <2>1 DEF TInv, TypeOK, Cursors, Items
    <2>3. /\ shown # <<>> /\ cursor.end = cursor.start + Len(shown) - 1
          /\ IsRun(log, cursor.epoch, cursor.start, shown)
      BY <1>2 DEF Sound, SoundCopy
    <2>4. /\ cursor.end <= Len(l) /\ Len(shown) \in Nat \ {0}
          /\ \A k \in 1..Len(shown) : shown[k] = l[cursor.start + k - 1]
      BY <2>1, <2>3 DEF IsRun
    <2> HIDE DEF l
    <2>5. \A i \in cursor.start..cursor.end : l[i] \in Items
      BY <2>2, <2>4
    <2>6. /\ part \in Seq(Items) /\ Len(part) = Len(shown)
          /\ \A k \in 1..Len(part) : part[k] = l[cursor.start + k - 1]
      BY <2>2, <2>3, <2>4, <2>5, SubSeqProperties
    <2> HIDE DEF part
    <2>7. shown = part
      BY <2>1, <2>4, <2>6, SeqEqual
    <2> QED BY <1>2, <2>4, <2>7 DEF ShownIsLog, l, part
  <1> QED BY <1>1, <1>2

\* What the client shows is exactly the run of rows its cursor names, in the
\* daemon's order, whatever is trimmed, lost, late or answered out of order,
\* as long as a reload of the session records no row.
THEOREM ShownHolds == ASSUME ~RecordsInReload PROVE Spec => []ShownIsLog
  BY TInvHolds, SoundHolds, SoundShowsLog, PTL

-----------------------------------------------------------------------------
(* The client never goes back *)

\* Row n of epoch e comes at or before row n2 of epoch e2.
Before(e, n, e2, n2) == e < e2 \/ (e = e2 /\ n <= n2)

\* What is under way is in order, after what is shown and not after the log.
Ordered ==
    /\ \A i \in 1..Len(wire) : wire[i].rows # <<>> =>
          /\ Before(wire[i].epoch, Last(wire[i]), epoch, Len(log[epoch]))
          /\ cursor # NoCursor =>
                Before(cursor.epoch, cursor.end, wire[i].epoch, Last(wire[i]))
          /\ \A j \in i..Len(wire) : wire[j].rows # <<>> =>
                Before(wire[i].epoch, Last(wire[i]), wire[j].epoch, Last(wire[j]))
    /\ cursor # NoCursor => Before(cursor.epoch, cursor.end, epoch, Len(log[epoch]))

\* Positions are ordered.
LEMMA BeforeTransitive ==
    ASSUME NEW e1 \in Nat, NEW n1 \in Nat, NEW e2 \in Nat, NEW n2 \in Nat,
           NEW e3 \in Nat, NEW n3 \in Nat, Before(e1, n1, e2, n2), Before(e2, n2, e3, n3)
    PROVE  Before(e1, n1, e3, n3)
  BY DEF Before

\* The positions that are compared are numbers.
LEMMA PositionTypes ==
    ASSUME TInv
    PROVE  /\ epoch \in Nat /\ Len(log[epoch]) \in Nat
           /\ cursor # NoCursor => cursor.epoch \in Nat /\ cursor.end \in Nat
           /\ \A i \in 1..Len(wire) : wire[i].rows # <<>> =>
                 wire[i].epoch \in Nat /\ Last(wire[i]) \in Nat
  <1>1. epoch \in Nat /\ Len(log[epoch]) \in Nat
    BY DEF TInv, TypeOK, Epochs
  <1>2. cursor # NoCursor => cursor.epoch \in Nat /\ cursor.end \in Nat
    BY DEF TInv, TypeOK, Cursors, Epochs, Items
  <1>3. \A i \in 1..Len(wire) : Fits(wire[i])
    BY DEF TInv, Bounds
  <1> QED BY <1>1, <1>2, <1>3 DEF Fits, Epochs, Items

\* The last row of the daemon never moves back.
LEMMA TopGrows ==
    ASSUME ~RecordsInReload, TInv, Sound, [Next]_vars
    PROVE  Before(epoch, Len(log[epoch]), epoch', Len(log'[epoch']))
  <1>0. epoch \in Epochs /\ epoch \in Nat /\ Len(log[epoch]) \in Nat
    BY DEF TInv, TypeOK, Epochs
  <1>1. epoch' = epoch \/ epoch' = epoch + 1
    BY DEF Next, Record, Hydrate, Arrive, Register, RegisterFails, Unload, ReloadCopies,
           ReloadSwaps, Answer, Focus, Blur, Connect, Disconnect, InitTimesOut, AppResumed,
           Deliver, DeliverRow, DeliverAnswer, DeliverError, daemonVars, vars
  <1>2. log' = log \/ Len(log'[epoch]) = Len(log[epoch]) + 1
    BY LogGrows, RecordRowType
  <1>3. CASE epoch' = epoch + 1
    BY <1>0, <1>3 DEF Before
  <1>4. CASE epoch' = epoch
    <2>1. log'[epoch'] = log'[epoch]
      BY <1>4
    <2>2. Len(log'[epoch]) = Len(log[epoch]) \/ Len(log'[epoch]) = Len(log[epoch]) + 1
      BY <1>2
    <2> HIDE <1>2
    <2> QED BY <1>0, <1>4, <2>1, <2>2 DEF Before
  <1> QED BY <1>1, <1>3, <1>4

\* A message whose last row is the daemon's last row goes to the end.
LEMMA OrderedAppend ==
    ASSUME TInv, TInv', Ordered, NEW m, wire' = Append(wire, m), m \in Messages,
           UNCHANGED <<epoch, cursor>>,
           Before(epoch, Len(log[epoch]), epoch', Len(log'[epoch'])),
           m.rows # <<>> => m.epoch = epoch' /\ Last(m) = Len(log'[epoch'])
    PROVE  Ordered'
  <1>1. /\ wire \in Seq(Messages) /\ Len(wire) \in Nat /\ Len(wire') = Len(wire) + 1
        /\ \A i \in 1..Len(wire) : wire'[i] = wire[i]
        /\ wire'[Len(wire) + 1] = m
    BY AppendProperties DEF TInv, TypeOK
  <1> DEFINE n == Len(log[epoch])
             n2 == Len(log'[epoch'])
  <1>2. epoch \in Nat /\ n \in Nat /\ epoch' \in Nat /\ n2 \in Nat
    BY PositionTypes
  <1>3. Before(epoch, n, epoch', n2)
    OBVIOUS
  <1> HIDE DEF n, n2
  <1>4. ASSUME cursor' # NoCursor
        PROVE  Before(cursor'.epoch, cursor'.end, epoch', n2)
    <2>1. cursor.epoch \in Nat /\ cursor.end \in Nat
          /\ Before(cursor.epoch, cursor.end, epoch, n)
      BY <1>4, PositionTypes DEF Ordered, n
    <2> QED BY <1>2, <1>3, <2>1, BeforeTransitive
  <1>5. ASSUME NEW i \in 1..Len(wire), wire[i].rows # <<>>
        PROVE  /\ wire[i].epoch \in Nat /\ Last(wire[i]) \in Nat
               /\ Before(wire[i].epoch, Last(wire[i]), epoch', n2)
    <2>1. /\ wire[i].epoch \in Nat /\ Last(wire[i]) \in Nat
          /\ Before(wire[i].epoch, Last(wire[i]), epoch, n)
      BY <1>5, PositionTypes DEF Ordered, n
    <2> QED BY <1>2, <1>3, <2>1, BeforeTransitive
  <1>6. m.rows # <<>> => m.epoch = epoch' /\ Last(m) = n2
    BY DEF n2
  <1>7. ASSUME NEW i \in 1..Len(wire'), wire'[i].rows # <<>>
        PROVE  /\ Before(wire'[i].epoch, Last(wire'[i]), epoch', n2)
               /\ cursor' # NoCursor =>
                     Before(cursor'.epoch, cursor'.end, wire'[i].epoch, Last(wire'[i]))
               /\ \A j \in i..Len(wire') : wire'[j].rows # <<>> =>
                     Before(wire'[i].epoch, Last(wire'[i]), wire'[j].epoch, Last(wire'[j]))
    <2>1. CASE i \in 1..Len(wire)
      <3>1. wire'[i] = wire[i] /\ wire[i].rows # <<>>
        BY <1>1, <1>7, <2>1
      <3>2. Before(wire[i].epoch, Last(wire[i]), epoch', n2)
        BY <1>5, <2>1, <3>1
      <3>3. cursor' # NoCursor =>
               Before(cursor'.epoch, cursor'.end, wire[i].epoch, Last(wire[i]))
        BY <2>1, <3>1 DEF Ordered
      <3>4. ASSUME NEW j \in i..Len(wire'), wire'[j].rows # <<>>
            PROVE  Before(wire[i].epoch, Last(wire[i]), wire'[j].epoch, Last(wire'[j]))
        <4>1. CASE j \in i..Len(wire)
          <5>1. wire'[j] = wire[j]
            BY <1>1, <2>1, <4>1
          <5> QED BY <2>1, <3>1, <3>4, <4>1, <5>1 DEF Ordered
        <4>2. CASE j = Len(wire) + 1
          <5>1. wire'[j] = m
            BY <1>1, <4>2
          <5>2. m.epoch = epoch' /\ Last(m) = n2
            BY <1>6, <3>4, <5>1
          <5> QED BY <3>2, <5>1, <5>2
        <4> QED BY <1>1, <2>1, <4>1, <4>2
      <3> QED BY <3>1, <3>2, <3>3, <3>4
    <2>2. CASE i = Len(wire) + 1
      <3>1. wire'[i] = m /\ m.epoch = epoch' /\ Last(m) = n2
        BY <1>1, <1>6, <1>7, <2>2
      <3>2. \A j \in i..Len(wire') : j = i
        BY <1>1, <2>2
      <3>3. Before(epoch', n2, epoch', n2)
        BY <1>2 DEF Before
      <3> QED BY <1>4, <3>1, <3>2, <3>3
    <2> QED BY <1>1, <2>1, <2>2
  <1> QED BY <1>4, <1>7 DEF Ordered, n2

\* Nothing new on the wire or on the screen: only the log may have grown.
LEMMA OrderedGrowth ==
    ASSUME TInv, TInv', Ordered, UNCHANGED <<wire, cursor>>,
           Before(epoch, Len(log[epoch]), epoch', Len(log'[epoch']))
    PROVE  Ordered'
  <1> DEFINE n == Len(log[epoch])
             n2 == Len(log'[epoch'])
  <1>1. epoch \in Nat /\ n \in Nat /\ epoch' \in Nat /\ n2 \in Nat
    BY PositionTypes DEF TInv, TypeOK, Epochs
  <1>2. Before(epoch, n, epoch', n2)
    OBVIOUS
  <1> HIDE DEF n, n2
  <1>3. cursor # NoCursor => Before(cursor.epoch, cursor.end, epoch', n2)
    <2> SUFFICES ASSUME cursor # NoCursor
                 PROVE  Before(cursor.epoch, cursor.end, epoch', n2)
      OBVIOUS
    <2>1. cursor.epoch \in Nat /\ cursor.end \in Nat
          /\ Before(cursor.epoch, cursor.end, epoch, n)
      BY PositionTypes DEF Ordered, n
    <2> QED BY <1>1, <1>2, <2>1, BeforeTransitive
  <1>4. ASSUME NEW i \in 1..Len(wire), wire[i].rows # <<>>
        PROVE  Before(wire[i].epoch, Last(wire[i]), epoch', n2)
    <2>1. /\ wire[i].epoch \in Nat /\ Last(wire[i]) \in Nat
          /\ Before(wire[i].epoch, Last(wire[i]), epoch, n)
      BY <1>4, PositionTypes DEF Ordered, n
    <2> QED BY <1>1, <1>2, <2>1, BeforeTransitive
  <1> QED BY <1>3, <1>4 DEF Ordered, n2

\* What a delivery does to the cursor: it stays, or it moves to the last row
\* of the message.
LEMMA DeliverMoves ==
    ASSUME TInv, Ordered, Deliver
    PROVE  \/ cursor' = cursor
           \/ cursor' = NoCursor
           \/ /\ wire[1].rows # <<>>
              /\ cursor'.epoch = wire[1].epoch /\ cursor'.end = Last(wire[1])
  <1> DEFINE m == wire[1]
  <1>1. wire # <<>> /\ (UNCHANGED <<cursor, shown>> \/ Replaces(m) \/ Extends(m))
    BY DeliverEffect
  <1>2. m \in Messages /\ Fits(m)
    BY <1>1, WireTail
  <1>3. 1 \in 1..Len(wire)
    BY <1>1 DEF TInv, TypeOK
  <1>4. m.rows # <<>> /\ cursor # NoCursor => Before(cursor.epoch, cursor.end, m.epoch, Last(m))
    BY <1>3 DEF Ordered
  <1>5. m.rows # <<>> => Last(m) \in Nat
    BY <1>3, PositionTypes DEF m
  <1> HIDE DEF m
  <1>6. CASE Replaces(m)
    BY <1>6 DEF Replaces, Span, m
  <1>7. CASE Extends(m)
    <2>1. /\ m.rows # <<>> /\ cursor # NoCursor /\ m.epoch = cursor.epoch
          /\ cursor' = [cursor EXCEPT !.end = Larger(cursor.end, Last(m))]
      BY <1>7 DEF Extends
    <2>2. cursor \in Cursors /\ cursor.end \in Nat /\ cursor.epoch \in Nat
      BY <2>1 DEF TInv, TypeOK, Cursors, Items, Epochs
    <2>3. cursor.end <= Last(m)
      BY <1>4, <2>1, <2>2 DEF Before
    <2>4. Larger(cursor.end, Last(m)) = Last(m)
      BY <1>5, <2>1, <2>2, <2>3 DEF Larger
    <2>5. cursor'.epoch = cursor.epoch /\ cursor'.end = Last(m)
      BY <2>1, <2>2, <2>4 DEF Cursors
    <2> QED BY <2>1, <2>5 DEF m
  <1> QED BY <1>1, <1>6, <1>7

\* A delivery keeps the order.
LEMMA OrderedDeliver ==
    ASSUME TInv, Ordered, Deliver
    PROVE  Ordered'
  <1>1. /\ wire # <<>> /\ wire' = Tail(wire) /\ UNCHANGED <<epoch, log>>
    BY DeliverEffect
  <1>2. /\ Len(wire) \in Nat /\ Len(wire') = Len(wire) - 1
        /\ \A i \in 1..Len(wire') : wire'[i] = wire[i + 1]
    BY <1>1, WireTail DEF TInv, TypeOK
  <1>3. 1 \in 1..Len(wire) /\ \A i \in 1..Len(wire') : i + 1 \in 1..Len(wire)
    BY <1>1, <1>2 DEF TInv, TypeOK
  <1>4. ASSUME NEW i \in 1..Len(wire'), wire'[i].rows # <<>>
        PROVE  /\ Before(wire'[i].epoch, Last(wire'[i]), epoch', Len(log'[epoch']))
               /\ cursor' # NoCursor =>
                     Before(cursor'.epoch, cursor'.end, wire'[i].epoch, Last(wire'[i]))
               /\ \A j \in i..Len(wire') : wire'[j].rows # <<>> =>
                     Before(wire'[i].epoch, Last(wire'[i]), wire'[j].epoch, Last(wire'[j]))
    <2> DEFINE m == wire[i + 1]
    <2>1. wire'[i] = m /\ i + 1 \in 1..Len(wire) /\ m.rows # <<>>
      BY <1>2, <1>3, <1>4
    <2>2. Before(m.epoch, Last(m), epoch', Len(log'[epoch']))
      BY <1>1, <2>1 DEF Ordered
    <2>3. ASSUME cursor' # NoCursor
          PROVE  Before(cursor'.epoch, cursor'.end, m.epoch, Last(m))
      <3>1. CASE cursor' = cursor
        BY <2>1, <2>3, <3>1 DEF Ordered
      <3>2. CASE wire[1].rows # <<>> /\ cursor'.epoch = wire[1].epoch
                 /\ cursor'.end = Last(wire[1])
        <4>1. i + 1 \in 1..Len(wire) /\ 1 \in 1..Len(wire)
          BY <1>3
        <4>2. Before(wire[1].epoch, Last(wire[1]), m.epoch, Last(m))
          BY <2>1, <3>2, <4>1 DEF Ordered
        <4> QED BY <3>2, <4>2
      <3> QED BY <2>3, <3>1, <3>2, DeliverMoves
    <2>4. ASSUME NEW j \in i..Len(wire'), wire'[j].rows # <<>>
          PROVE  Before(m.epoch, Last(m), wire'[j].epoch, Last(wire'[j]))
      <3>1. j \in 1..Len(wire') /\ j + 1 \in (i + 1)..Len(wire)
        BY <1>2
      <3>2. wire'[j] = wire[j + 1]
        BY <1>2, <3>1
      <3> QED BY <2>1, <2>4, <3>1, <3>2 DEF Ordered
    <2> QED BY <2>1, <2>2, <2>3, <2>4
  <1>5. ASSUME cursor' # NoCursor
        PROVE  Before(cursor'.epoch, cursor'.end, epoch', Len(log'[epoch']))
    <2>1. CASE cursor' = cursor
      BY <1>1, <1>5, <2>1 DEF Ordered
    <2>2. CASE wire[1].rows # <<>> /\ cursor'.epoch = wire[1].epoch
               /\ cursor'.end = Last(wire[1])
      BY <1>1, <1>3, <2>2 DEF Ordered
    <2> QED BY <1>5, <2>1, <2>2, DeliverMoves
  <1> QED BY <1>4, <1>5 DEF Ordered

\* Every step keeps Ordered.
LEMMA StepOrdered ==
    ASSUME ~RecordsInReload, TInv, Sound, Ordered, [Next]_vars
    PROVE  Ordered'
  <1>1. TInv'
    BY StepTInv
  <1>2. Before(epoch, Len(log[epoch]), epoch', Len(log'[epoch']))
    BY TopGrows
  <1>3. CASE Deliver
    BY <1>3, OrderedDeliver
  <1>4. CASE UNCHANGED <<wire, cursor>>
    BY <1>1, <1>2, <1>4, OrderedGrowth
  <1>5. CASE RecordRow /\ wire' = Append(wire, RowMessage) /\ UNCHANGED <<epoch, cursor, shown>>
    <2>1. RowMessage \in Messages
      BY <1>5, RowMessageFits DEF RecordRow
    <2>2. Len(log'[epoch]) = Len(log[epoch]) + 1 /\ Len(log[epoch]) \in Nat
      BY <1>5, RecordRowType, PositionTypes
    <2>3. RowMessage.epoch = epoch' /\ Last(RowMessage) = Len(log'[epoch'])
      BY <1>5, <2>2 DEF RowMessage, Last
    <2> QED BY <1>1, <1>2, <1>5, <2>1, <2>3, OrderedAppend
  <1>6. ASSUME NEW s \in Slots, wire' = Append(wire, AnswerMessage(s)),
               UNCHANGED <<epoch, log, cursor, shown>>
        PROVE  Ordered'
    <2>1. /\ AnswerMessage(s) \in Messages
          /\ AnswerMessage(s).rows # <<>> =>
                AnswerMessage(s).epoch = epoch' /\ Last(AnswerMessage(s)) = Len(log'[epoch'])
      BY <1>6, AnswerFits
    <2> QED BY <1>1, <1>2, <1>6, <2>1, OrderedAppend
  <1>7. CASE wire' = <<>> /\ UNCHANGED <<epoch, log, cursor, shown>>
    BY <1>7 DEF Ordered
  <1> QED BY <1>3, <1>4, <1>5, <1>6, <1>7, WireStep, CopyStep

\* Nothing is under way at first.
LEMMA InitOrdered == Init => Ordered
  BY DEF Init, Ordered

\* Rows travel and are shown in the order in which they were recorded.
THEOREM OrderedHolds == ASSUME ~RecordsInReload PROVE Spec => []Ordered
  <1>1. TInv /\ Sound /\ Ordered /\ [Next]_vars => Ordered'
    BY StepOrdered
  <1> QED BY InitOrdered, TInvHolds, SoundHolds, <1>1, PTL DEF Spec

\* A step with a cursor before and after it does not move it back.
LEMMA StepNeverGoesBack ==
    ASSUME TInv, Ordered, [Next]_vars, cursor # NoCursor, cursor' # NoCursor
    PROVE  \/ cursor'.epoch > cursor.epoch
           \/ cursor'.epoch = cursor.epoch /\ cursor'.end >= cursor.end
  <1>1. cursor.epoch \in Nat /\ cursor.end \in Nat
    BY PositionTypes
  <1>2. CASE cursor' = cursor
    BY <1>1, <1>2
  <1>3. CASE Deliver
    <2>1. CASE wire[1].rows # <<>> /\ cursor'.epoch = wire[1].epoch
               /\ cursor'.end = Last(wire[1])
      <3>1. 1 \in 1..Len(wire)
        BY <1>3, DeliverEffect DEF TInv, TypeOK
      <3>2. wire[1].epoch \in Nat /\ Last(wire[1]) \in Nat
        BY <2>1, <3>1, PositionTypes
      <3>3. Before(cursor.epoch, cursor.end, wire[1].epoch, Last(wire[1]))
        BY <2>1, <3>1 DEF Ordered
      <3> QED BY <1>1, <2>1, <3>2, <3>3 DEF Before
    <2> QED BY <1>2, <1>3, <2>1, DeliverMoves
  <1> QED BY <1>2, <1>3, CopyStep

\* No late answer, no old live row and no reset takes the client back to an
\* earlier epoch or to an earlier end of the epoch it shows, as long as a
\* reload of the session records no row.
THEOREM NeverGoesBackHolds == ASSUME ~RecordsInReload PROVE Spec => NeverGoesBack
  <1>1. TInv /\ Ordered /\ [Next]_vars =>
          [cursor # NoCursor /\ cursor' # NoCursor =>
             \/ cursor'.epoch > cursor.epoch
             \/ cursor'.epoch = cursor.epoch /\ cursor'.end >= cursor.end]_vars
    BY StepNeverGoesBack
  <1> QED BY TInvHolds, OrderedHolds, <1>1, PTL DEF Spec, NeverGoesBack

-----------------------------------------------------------------------------
(* A quiet client has caught up *)

\* A message tells a client that has come to row n of epoch e of the rows up to Last(m): it
\* is a live row, the answer to a request from where the client was, or all that is kept.
News(m, e, n) ==
    /\ m.kind # "error" /\ m.epoch = e /\ m.from # 0 /\ n <= Last(m)
    /\ m.kind = "row" => m.rows # <<>>
    /\ m.kind = "after" /\ ~m.reset => m.from <= n + 1
    /\ m.kind = "tail" \/ m.reset => m.rows # <<>> \/ Last(m) = 0

\* The last message under way goes up to the daemon's last row.
Rising ==
    /\ life = "loaded"
    /\ cursor # NoCursor => cursor.epoch = epoch
    /\ cursor.end <= Len(log[epoch])
    /\ \A s \in Slots : req[s].dir = "after" => req[s].epoch = epoch /\ req[s].seq <= cursor.end
    /\ \A i \in 1..Len(wire) : News(wire[i], epoch, cursor.end)
    /\ \A i \in 1..Len(wire) : \A j \in i..Len(wire) : Last(wire[i]) <= Last(wire[j])
    /\ wire # <<>> => online /\ Last(wire[Len(wire)]) = Len(log[epoch])

\* The answers under way are those of the requests that are answered, one for each.
Matched ==
    /\ \A i \in 1..Len(wire) : wire[i].kind # "row" =>
         /\ wire[i].slot \in Slots /\ req[wire[i].slot].st = "answered"
         /\ req[wire[i].slot].dir = wire[i].kind
    /\ \A i, j \in 1..Len(wire) :
         wire[i].kind # "row" /\ wire[j].kind # "row" /\ wire[i].slot = wire[j].slot => i = j
    /\ \A s \in Slots : req[s].st = "answered" =>
         \E i \in 1..Len(wire) : wire[i].kind # "row" /\ wire[i].slot = s

\* Without a connection no init waits, and one that waits has a request of its direction; a
\* client on screen that lacks rows has messages or a request under way.
Pending(s) == req[s].st \in {"sent", "waiting", "ready"}
Asked ==
    /\ ~online => init = "none"
    /\ init # "none" => \E s \in Slots : req[s].st # "free" /\ req[s].dir = init
    /\ online /\ focused =>
         wire # <<>> \/ cursor.end = Len(log[epoch]) \/ \E s \in Slots : Pending(s)

\* The length of no rows, and of some.
LEMMA RowsLength ==
    ASSUME NEW rows \in Seq(Items)
    PROVE  Len(rows) \in Nat /\ (rows = <<>> <=> Len(rows) = 0)
  BY EmptySeq

\* The numbers that are compared.
LEMMA NewsNumbers ==
    ASSUME TInv
    PROVE  /\ cursor.end \in Nat /\ epoch \in Epochs /\ log[epoch] \in Seq(Items)
           /\ Len(log[epoch]) \in Nat /\ Len(wire) \in Nat
           /\ \A i \in 1..Len(wire) : /\ wire[i] \in Messages /\ wire[i].from \in Nat
                                      /\ Len(wire[i].rows) \in Nat /\ Last(wire[i]) \in Int
                                      /\ wire[i].rows = <<>> => Last(wire[i]) = wire[i].from - 1
  <1>1. cursor \in Cursors \cup {NoCursor} /\ epoch \in Epochs /\ log \in [Epochs -> Seq(Items)]
        /\ wire \in Seq(Messages)
    BY DEF TInv, TypeOK
  <1>2. cursor.end \in Nat
    BY <1>1 DEF Cursors, NoCursor, Items
  <1>3. ASSUME NEW i \in 1..Len(wire)
        PROVE  /\ wire[i] \in Messages /\ wire[i].from \in Nat
               /\ Len(wire[i].rows) \in Nat /\ Last(wire[i]) \in Int
               /\ wire[i].rows = <<>> => Last(wire[i]) = wire[i].from - 1
    <2>1. wire[i] \in Messages
      BY <1>1
    <2>2. wire[i].from \in Nat /\ wire[i].rows \in Seq(Items)
      BY <2>1 DEF Messages
    <2>3. Len(wire[i].rows) \in Nat /\ (wire[i].rows = <<>> => Len(wire[i].rows) = 0)
      BY <2>2, RowsLength
    <2>4. Last(wire[i]) = wire[i].from + Len(wire[i].rows) - 1
      BY DEF Last
    <2> HIDE DEF Last
    <2> QED BY <2>1, <2>2, <2>3, <2>4
  <1> QED BY <1>1, <1>2, <1>3

\* The steps there are for an agent that stays loaded and a client that is not mobile.
LEMMA LoadedSteps ==
    ASSUME ~RecordsInReload, ~Unloads, ~Mobile, TInv, Sound, Rising, [Next]_vars
    PROVE  /\ life' = "loaded" /\ epoch' = epoch
           /\ \/ Record
              \/ UNCHANGED <<log, online, wire, req, clientVars>>
              \/ \E s \in Slots : Arrive(s) \/ Answer(s) \/ InitTimesOut(s)
              \/ Focus \/ Blur \/ Connect \/ Disconnect
              \/ DeliverRow \/ DeliverAnswer
  <1>1. life = "loaded" /\ Present
    BY DEF Rising, Present
  <1>2. ~Hydrate /\ ~Register /\ ~RegisterFails /\ ~Unload /\ ~AppResumed
    BY <1>1 DEF Hydrate, Register, RegisterFails, Unload, AppResumed
  <1>3. ~DeliverError
    <2> SUFFICES ASSUME DeliverError PROVE FALSE
      OBVIOUS
    <2>1. wire # <<>> /\ Head(wire).kind = "error"
      BY DEF DeliverError
    <2>2. Head(wire) = wire[1] /\ 1 \in 1..Len(wire)
      BY <2>1, WireTail DEF TInv, TypeOK
    <2> QED BY <2>1, <2>2 DEF Rising, News
  <1>4. CASE ReloadCopies
    BY <1>1, <1>4 DEF ReloadCopies
  <1>5. CASE ReloadSwaps
    <2>1. ~RecordRow
      BY <1>5 DEF ReloadSwaps, RecordRow, TInv, TypeOK
    <2>2. log' = log
      BY <2>1, LogGrows
    <2> QED BY <1>1, <1>5, <2>2 DEF ReloadSwaps
  <1>6. CASE UNCHANGED vars
    BY <1>1, <1>6 DEF vars, daemonVars
  <1>7. CASE Record
    BY <1>1, <1>7 DEF Record
  <1>8. ASSUME NEW s \in Slots, Arrive(s) \/ Answer(s) \/ InitTimesOut(s)
        PROVE  life' = "loaded" /\ epoch' = epoch
    BY <1>1, <1>8 DEF Arrive, Answer, InitTimesOut, daemonVars
  <1>9. CASE Focus \/ Blur \/ Connect \/ Disconnect \/ DeliverRow \/ DeliverAnswer
    BY <1>1, <1>9 DEF Focus, Blur, Connect, Disconnect, DeliverRow, DeliverAnswer, daemonVars
  <1> QED BY <1>2, <1>3, <1>4, <1>5, <1>6, <1>7, <1>8, <1>9 DEF Next, Deliver

\* An answer tells of the daemon's rows up to the last.
LEMMA AnswerNews ==
    ASSUME TInv, Rising, NEW s \in Slots
    PROVE  /\ News(AnswerMessage(s), epoch, cursor.end) /\ Last(AnswerMessage(s)) = Len(log[epoch])
           /\ AnswerMessage(s).kind = req[s].dir /\ AnswerMessage(s).slot = s
           /\ req[s].dir \in Directions
  <1> DEFINE n == Len(log[epoch])
             r == req[s]
             from == FetchFrom(r)
             rows == SubSeq(log[epoch], from, n)
             m == AnswerMessage(s)
  <1>1. /\ epoch \in Epochs /\ log[epoch] \in Seq(Items) /\ n \in Nat /\ cursor.end \in Nat
        /\ r \in Requests /\ r.dir \in Directions /\ r.seq \in Nat
    BY NewsNumbers DEF TInv, TypeOK, Requests, Items
  <1>2. cursor.end <= n
    BY DEF Rising
  <1>3. r.dir = "after" => r.epoch = epoch /\ r.seq <= cursor.end
    BY DEF Rising
  <1>4. MaxTimelineItems \in Nat /\ TailLimit \in Nat
    BY BoundsAssumption DEF BoundsAssumption
  <1>5. m = [kind |-> r.dir, epoch |-> epoch, from |-> from, rows |-> rows,
             reset |-> Reset(r), slot |-> s]
    BY DEF AnswerMessage, Present, Rising
  <1>6. from \in Nat \ {0}
    BY <1>1, FetchFromPositive DEF TInv
  <1>7. /\ rows \in Seq(Items)
        /\ Len(rows) = IF from <= n THEN n - from + 1 ELSE 0
    BY <1>1, <1>6, SuffixRun
  <1>8. /\ FirstKept(n) \in Nat \ {0} /\ FirstKept(n) <= n + 1
        /\ n # 0 => FirstKept(n) <= n
    BY <1>1, <1>4 DEF FirstKept, Larger
  <1>9. (log[epoch] # <<>>) <=> (n # 0)
    BY <1>1
  <1>10. /\ from <= n + 1
         /\ r.dir = "after" /\ ~Reset(r) => from <= cursor.end + 1
         /\ r.dir = "tail" \/ Reset(r) => (n # 0 => from <= n)
    <2>1. CASE r.dir = "tail"
      <3>1. ~Reset(r)
        BY <2>1 DEF Reset
      <3>2. from = IF TailLimit = 0 THEN FirstKept(n) ELSE Larger(FirstKept(n), n - TailLimit + 1)
        BY <2>1, <3>1 DEF FetchFrom
      <3> HIDE DEF from, n
      <3>3. from <= n + 1 /\ (n # 0 => from <= n)
        BY <1>1, <1>4, <1>8, <3>2 DEF Larger
      <3> QED BY <2>1, <3>3
    <2>2. CASE Reset(r)
      <3>1. from = FirstKept(n)
        BY <2>2 DEF FetchFrom
      <3> QED BY <1>8, <2>2, <3>1
    <2>3. CASE r.dir = "after" /\ ~Reset(r)
      <3>1. from = Larger(FirstKept(n), r.seq + 1)
        BY <2>3 DEF FetchFrom
      <3>2. n # 0 => ~(r.seq < FirstKept(n) - 1)
        BY <1>3, <1>9, <2>3 DEF Reset
      <3>3. n = 0 => FirstKept(n) = 1
        BY <1>8
      <3>a. /\ n \in Nat /\ FirstKept(n) \in Nat /\ r.seq \in Nat /\ cursor.end \in Nat
            /\ r.seq <= cursor.end /\ cursor.end <= n
        BY <1>1, <1>2, <1>3, <1>8, <2>3
      <3> DEFINE k == FirstKept(n)
      <3>b. n # 0 => ~(r.seq < k - 1)
        BY <3>2
      <3> HIDE DEF from, n, r, k
      <3>4. from = r.seq + 1
        BY <3>a, <3>1, <3>b, <3>3 DEF Larger, k
      <3> QED BY <3>a, <2>3, <3>4
    <2> QED BY <1>1, <2>1, <2>2, <2>3 DEF Directions
  <1>a. Len(rows) = IF from <= n THEN n - from + 1 ELSE 0
    BY <1>7
  <1>b. rows # <<>> <=> Len(rows) # 0
    BY <1>7, RowsLength
  <1> HIDE DEF from, n, rows, r
  <1>13. /\ m.kind = r.dir /\ m.epoch = epoch /\ m.from = from /\ m.rows = rows
         /\ m.reset = Reset(r) /\ m.slot = s
    BY <1>5
  <1> HIDE DEF m
  <1>11. Last(m) = n
    BY <1>1, <1>6, <1>a, <1>10, <1>13 DEF Last
  <1>12. r.dir = "tail" \/ Reset(r) => rows # <<>> \/ n = 0
    BY <1>1, <1>6, <1>a, <1>b, <1>10
  <1>14. News(m, epoch, cursor.end)
    BY <1>1, <1>2, <1>6, <1>10, <1>11, <1>12, <1>13 DEF News, Directions
  <1> QED BY <1>1, <1>11, <1>13, <1>14 DEF m, r, n

\* A live row is the daemon's last.
LEMMA RowNews ==
    ASSUME TInv, Rising, RecordRow, UNCHANGED <<epoch, cursor>>
    PROVE  Last(RowMessage) = Len(log'[epoch])
           /\ Len(log'[epoch]) = Len(log[epoch]) + 1
           /\ RowMessage.kind = "row" /\ RowMessage.epoch = epoch /\ RowMessage.from # 0
           /\ RowMessage.rows # <<>>
  <1>1. Len(log'[epoch]) = Len(log[epoch]) + 1 /\ Len(log[epoch]) \in Nat
    BY RecordRowType, NewsNumbers
  <1>2. Last(RowMessage) = Len(log[epoch]) + 1
    BY <1>1 DEF RowMessage, Last
  <1> QED BY <1>1, <1>2 DEF RowMessage

-----------------------------------------------------------------------------
(* A delivery *)

\* The requests once a message is taken: an answer frees its slot.
Rest(m) == IF m.kind = "row" THEN req ELSE [req EXCEPT ![m.slot] = NoRequest]

\* The incremental path reaches the message's last row, or asks for what is missing.
LEMMA IncrementalCatches ==
    ASSUME TInv, Rising, NEW m \in Messages, News(m, epoch, cursor.end), NEW slots, Incremental(m, slots),
           m.rows = <<>> => Last(m) = m.from - 1, Last(m) \in Int
    PROVE  /\ cursor.end <= cursor'.end /\ cursor'.end <= Last(m)
           /\ cursor' # NoCursor => cursor'.epoch = epoch
           /\ \/ cursor'.end = Last(m) /\ req' = slots
              \/ cursor' # NoCursor /\ Send(slots, AfterRequest(cursor', FALSE))
  <1>1. cursor.end \in Nat /\ m.from \in Nat /\ cursor \in Cursors \cup {NoCursor}
    BY NewsNumbers DEF TInv, TypeOK, Messages
  <1>2. /\ m.epoch = epoch /\ cursor.end <= Last(m) /\ m.kind \in {"row", "tail", "after"}
        /\ cursor # NoCursor => cursor.epoch = epoch
    BY DEF News, Rising, Messages, Directions
  <1>3. CASE /\ m.rows = <<>> \/ Classify(m.epoch, m.from) = "drop_epoch"
             /\ req' = slots /\ UNCHANGED <<cursor, shown>>
    <2>1. Classify(m.epoch, m.from) # "drop_epoch"
      BY <1>2 DEF Classify
    <2>2. m.rows = <<>> /\ Last(m) = m.from - 1
      BY <1>3, <2>1
    <2>3. m.from <= cursor.end + 1 \/ Last(m) = 0
      BY <1>2, <2>2 DEF News
    <2>4. cursor.end = Last(m)
      BY <1>1, <1>2, <2>2, <2>3
    <2> QED BY <1>1, <1>2, <1>3, <2>4
  <1>4. CASE m.rows # <<>> /\ Classify(m.epoch, m.from) = "init" /\ cursor' = Span(m) /\ req' = slots
    <2>1. cursor'.end = Last(m) /\ cursor'.epoch = epoch
      BY <1>2, <1>4 DEF Span
    <2> QED BY <1>2, <1>4, <2>1
  <1>5. CASE /\ m.rows # <<>> /\ Classify(m.epoch, m.from) \in {"accept", "drop_stale"}
             /\ cursor' = [cursor EXCEPT !.end = Larger(@, Last(m))] /\ req' = slots
    <2>1. cursor # NoCursor
      BY <1>5 DEF Classify
    <2>2. cursor \in Cursors
      BY <1>1, <2>1
    <2>3. cursor'.epoch = cursor.epoch /\ cursor'.end = Larger(cursor.end, Last(m))
      BY <1>5, <2>2 DEF Cursors
    <2>4. Larger(cursor.end, Last(m)) = Last(m)
      BY <1>1, <1>2 DEF Larger
    <2> QED BY <1>2, <1>5, <2>1, <2>3, <2>4
  <1>6. CASE /\ Classify(m.epoch, m.from) = "gap"
             /\ Send(slots, AfterRequest(cursor, FALSE)) /\ UNCHANGED <<cursor, shown>>
    <2>1. cursor # NoCursor /\ cursor' = cursor
      BY <1>6 DEF Classify
    <2>2. Send(slots, AfterRequest(cursor', FALSE))
      BY <1>6, <2>1
    <2>3. cursor.end <= cursor'.end /\ cursor'.end <= Last(m)
      BY <1>1, <1>2, <2>1
    <2> QED BY <1>2, <2>1, <2>2, <2>3
  <1> QED BY <1>3, <1>4, <1>5, <1>6 DEF Incremental

LEMMA DeliverCatches ==
    ASSUME TInv, Rising, DeliverRow \/ DeliverAnswer
    PROVE  /\ wire # <<>> /\ wire[1] \in Messages /\ News(wire[1], epoch, cursor.end) /\ wire' = Tail(wire)
           /\ UNCHANGED <<epoch, log, online, focused>>
           /\ cursor.end <= cursor'.end /\ cursor'.end <= Last(wire[1])
           /\ cursor' # NoCursor => cursor'.epoch = epoch
           /\ \/ cursor'.end = Last(wire[1]) /\ req' = Rest(wire[1])
              \/ cursor' # NoCursor /\ Send(Rest(wire[1]), AfterRequest(cursor', FALSE))
  <1> DEFINE m == wire[1]
  <1>1. wire # <<>> /\ wire' = Tail(wire) /\ UNCHANGED <<epoch, log, online, focused>>
    BY DEF DeliverRow, DeliverAnswer, daemonVars
  <1>2. Head(wire) = m /\ m \in Messages /\ 1 \in 1..Len(wire)
    BY <1>1, WireTail DEF TInv, TypeOK
  <1>3. News(m, epoch, cursor.end)
    BY <1>2 DEF Rising
  <1>4. Last(m) \in Int /\ (m.rows = <<>> => Last(m) = m.from - 1)
    BY <1>2, NewsNumbers
  <1>5. cursor.end \in Nat /\ cursor.end <= Last(m)
    BY <1>3, NewsNumbers DEF News
  <1> HIDE DEF m
  <1>6. CASE DeliverRow
    <2>1. Incremental(m, req) /\ Rest(m) = req
      BY <1>2, <1>6 DEF DeliverRow, Rest
    <2>2. /\ cursor.end <= cursor'.end /\ cursor'.end <= Last(m)
          /\ cursor' # NoCursor => cursor'.epoch = epoch
          /\ \/ cursor'.end = Last(m) /\ req' = req
             \/ cursor' # NoCursor /\ Send(req, AfterRequest(cursor', FALSE))
      BY <1>2, <1>3, <1>4, <2>1, IncrementalCatches
    <2> QED BY <1>1, <1>2, <1>3, <2>1, <2>2 DEF m
  <1>7. CASE DeliverAnswer
    <2>1. m.kind \in Directions /\ Rest(m) = [req EXCEPT ![m.slot] = NoRequest]
      BY <1>2, <1>7 DEF DeliverAnswer, Rest, Directions
    <2>2. \/ /\ m.reset \/ Bootstrap(m)
             /\ cursor' = Span(m)
             /\ IF Bootstrap(m) /\ m.rows # <<>>
                THEN Send(Rest(m), AfterRequest(Span(m), FALSE)) ELSE req' = Rest(m)
          \/ Incremental(m, Rest(m))
      BY <1>2, <1>7, <2>1 DEF DeliverAnswer
    <2>3. CASE Incremental(m, Rest(m))
      <3>1. /\ cursor.end <= cursor'.end /\ cursor'.end <= Last(m)
            /\ cursor' # NoCursor => cursor'.epoch = epoch
            /\ \/ cursor'.end = Last(m) /\ req' = Rest(m)
               \/ cursor' # NoCursor /\ Send(Rest(m), AfterRequest(cursor', FALSE))
        BY <1>2, <1>3, <1>4, <2>3, IncrementalCatches
      <3> QED BY <1>1, <1>2, <1>3, <3>1 DEF m
    <2>4. CASE /\ m.reset \/ Bootstrap(m)
               /\ cursor' = Span(m)
               /\ IF Bootstrap(m) /\ m.rows # <<>>
                  THEN Send(Rest(m), AfterRequest(Span(m), FALSE)) ELSE req' = Rest(m)
      <3>1. m.kind = "tail" \/ m.reset
        BY <2>4 DEF Bootstrap
      <3>2. m.rows = <<>> => Last(m) = 0
        BY <1>3, <3>1 DEF News
      <3>3. cursor'.end = Last(m) /\ (cursor' # NoCursor => cursor'.epoch = epoch)
        BY <1>3, <2>4, <3>2 DEF Span, NoCursor, News
      <3>4. m.rows # <<>> => cursor' # NoCursor
        <4>1. m.epoch \in Epochs
          BY <1>3, NewsNumbers DEF News
        <4>2. m.epoch # 0
          BY <4>1 DEF Epochs
        <4> QED BY <2>4, <4>2 DEF Span, NoCursor
      <3>5. \/ cursor'.end = Last(m) /\ req' = Rest(m)
            \/ cursor' # NoCursor /\ Send(Rest(m), AfterRequest(cursor', FALSE))
        BY <2>4, <3>3, <3>4
      <3>6. cursor.end <= cursor'.end /\ cursor'.end <= Last(m)
        BY <1>4, <1>5, <3>3
      <3> QED BY <1>1, <1>2, <1>3, <3>3, <3>5, <3>6 DEF m
    <2> QED BY <2>2, <2>3, <2>4
  <1> QED BY <1>6, <1>7

-----------------------------------------------------------------------------
(* Every step keeps Rising *)

\* A request is as it was but for its stage, or asks from the cursor, or for the tail.
AsksOn(s) ==
    \/ req'[s].dir = req[s].dir /\ req'[s].epoch = req[s].epoch /\ req'[s].seq = req[s].seq
    \/ req'[s].dir = "tail"
    \/ cursor' # NoCursor /\ req'[s].epoch = cursor'.epoch /\ req'[s].seq = cursor'.end

\* What a request that is sent does to the others: nothing.
LEMMA SendEffect ==
    ASSUME NEW slots \in [Slots -> Requests], NEW r \in Requests, Send(slots, r)
    PROVE  \E t \in Slots : /\ slots[t].st = "free" /\ req'[t] = r
                            /\ \A s \in Slots \ {t} : req'[s] = slots[s]
  <1>1. PICK t \in Slots \ Used(slots) : req' = [slots EXCEPT ![t] = r]
    BY DEF Send
  <1>2. slots[t].st = "free"
    BY <1>1 DEF Used
  <1> QED BY <1>1, <1>2

LEMMA InitializeEffect ==
    ASSUME TInv, Initialize
    PROVE  \/ init # "none" /\ UNCHANGED <<req, init>>
           \/ /\ init = "none" /\ init' \in Directions
              /\ init' = "after" => cursor # NoCursor
              /\ \E t \in Slots : /\ req[t].st = "free" /\ req'[t].st = "sent" /\ req'[t].dir = init'
                                  /\ init' = "after" => /\ req'[t].epoch = cursor.epoch
                                                        /\ req'[t].seq = cursor.end
                                  /\ \A s \in Slots \ {t} : req'[s] = req[s]
  <1>1. /\ AfterRequest(cursor, TRUE) \in Requests /\ TailRequest \in Requests
        /\ req \in [Slots -> Requests]
    BY RequestTypes DEF TInv, TypeOK
  <1>2. CASE init # "none"
    BY <1>2 DEF Initialize
  <1>3. CASE init = "none"
    <2> DEFINE r == IF InitDirection = "tail" THEN TailRequest ELSE AfterRequest(cursor, TRUE)
    <2>1. init' = InitDirection /\ Send(req, r)
      BY <1>3 DEF Initialize, Send, r
    <2>2. /\ InitDirection \in Directions /\ (InitDirection = "after" => cursor # NoCursor)
          /\ r \in Requests /\ r.st = "sent" /\ r.dir = InitDirection
          /\ InitDirection = "after" => r.epoch = cursor.epoch /\ r.seq = cursor.end
      BY <1>1 DEF InitDirection, Directions, TailRequest, AfterRequest
    <2> HIDE DEF r
    <2>3. PICK t \in Slots : /\ req[t].st = "free" /\ req'[t] = r
                             /\ \A s \in Slots \ {t} : req'[s] = req[s]
      BY <1>1, <2>1, <2>2, SendEffect
    <2> QED BY <1>3, <2>1, <2>2, <2>3
  <1> QED BY <1>2, <1>3

\* The requests once a message is taken, and those once its handler is over.
LEMMA RestEffect ==
    ASSUME TInv, Rising, Matched, DeliverRow \/ DeliverAnswer
    PROVE  LET rest == Rest(wire[1])
           IN  /\ \A s \in Slots : IF wire[1].kind # "row" /\ s = wire[1].slot
                                   THEN rest[s] = NoRequest ELSE rest[s] = req[s]
               /\ \A s \in Slots : rest[s].st # "free" => req'[s] = rest[s]
               /\ \A s \in Slots : req'[s] = rest[s] \/ /\ req'[s] = AfterRequest(cursor', FALSE)
                                                        /\ cursor' # NoCursor
               /\ \/ cursor'.end = Last(wire[1])
                  \/ \E t \in Slots : req'[t].st = "sent"
  <1> DEFINE m == wire[1]
             rest == Rest(m)
  <1>1. /\ wire # <<>> /\ m \in Messages
        /\ \/ cursor'.end = Last(m) /\ req' = rest
           \/ cursor' # NoCursor /\ Send(rest, AfterRequest(cursor', FALSE))
    BY DeliverCatches
  <1>2. 1 \in 1..Len(wire)
    BY <1>1, NewsNumbers DEF TInv, TypeOK
  <1>3. m.kind # "row" => m.slot \in Slots
    BY <1>2 DEF Matched
  <1>4. req \in [Slots -> Requests] /\ NoRequest \in Requests
    BY RequestTypes DEF TInv, TypeOK
  <1>5. cursor' \in Cursors \cup {NoCursor}
    <2>1. TInv'
      BY StepTInv DEF Next, Deliver
    <2> QED BY <2>1 DEF TInv, TypeOK
  <1>6. AfterRequest(cursor', FALSE) \in Requests
    <2>1. cursor'.epoch \in Epochs \cup {0} /\ cursor'.end \in Items \cup {0}
      BY <1>5 DEF Cursors, NoCursor
    <2> QED BY <2>1 DEF AfterRequest, Requests, Directions
  <1> HIDE DEF m
  <1>7. /\ rest \in [Slots -> Requests]
        /\ \A s \in Slots : IF m.kind # "row" /\ s = m.slot
                            THEN rest[s] = NoRequest ELSE rest[s] = req[s]
    BY <1>3, <1>4 DEF Rest
  <1> HIDE DEF rest
  <1>8. CASE cursor'.end = Last(m) /\ req' = rest
    BY <1>7, <1>8 DEF m, rest
  <1>9. CASE cursor' # NoCursor /\ Send(rest, AfterRequest(cursor', FALSE))
    <2> DEFINE r == AfterRequest(cursor', FALSE)
    <2>1. r.st = "sent" /\ r \in Requests
      BY <1>6 DEF AfterRequest
    <2>2. Send(rest, r)
      BY <1>9 DEF Send, r
    <2> HIDE DEF r
    <2>3. PICK t \in Slots : /\ rest[t].st = "free" /\ req'[t] = r
                             /\ \A s \in Slots \ {t} : req'[s] = rest[s]
      BY <1>7, <2>1, <2>2, SendEffect
    <2>4. /\ \A s \in Slots : rest[s].st # "free" => req'[s] = rest[s]
          /\ \A s \in Slots : req'[s] = rest[s] \/ req'[s] = r
          /\ \E t2 \in Slots : req'[t2].st = "sent"
      BY <2>1, <2>3
    <2> QED BY <1>7, <1>9, <2>4 DEF m, rest, r
  <1> QED BY <1>1, <1>8, <1>9

\* Every request that is not of the tail asks for what comes after what is shown.
LEMMA RequestsStep ==
    ASSUME ~RecordsInReload, ~Unloads, ~Mobile, TInv, Sound, Rising, Matched, [Next]_vars
    PROVE  \A s \in Slots : AsksOn(s)
  <1> SUFFICES ASSUME NEW s \in Slots PROVE AsksOn(s)
    OBVIOUS
  <1>1. req \in [Slots -> Requests]
    BY DEF TInv, TypeOK
  <1>2. CASE UNCHANGED req
    BY <1>2 DEF AsksOn
  <1>3. CASE \E t \in Slots : Arrive(t) \/ InitTimesOut(t)
    BY <1>1, <1>3 DEF Arrive, InitTimesOut, AsksOn, Requests
  <1>4. CASE \E t \in Slots : Answer(t)
    BY <1>1, <1>4 DEF Answer, AsksOn, NoRequest, Requests
  <1>5. CASE Disconnect
    BY <1>1, <1>5 DEF Disconnect, AsksOn, NoRequest, Requests
  <1>6. CASE Initialize /\ cursor' = cursor
    <2>1. CASE UNCHANGED req
      BY <1>2, <2>1
    <2>2. CASE \E t \in Slots : /\ req'[t].dir = init' /\ init' \in Directions
                                /\ init' = "after" => /\ cursor # NoCursor
                                                      /\ req'[t].epoch = cursor.epoch
                                                      /\ req'[t].seq = cursor.end
                                /\ \A u \in Slots \ {t} : req'[u] = req[u]
      BY <1>6, <2>2 DEF AsksOn, Directions
    <2> QED BY <1>6, <2>1, <2>2, InitializeEffect
  <1>7. CASE DeliverRow \/ DeliverAnswer
    <2> DEFINE rest == Rest(wire[1])
    <2>1. /\ rest[s] = NoRequest \/ rest[s] = req[s]
          /\ req'[s] = rest[s] \/ (req'[s] = AfterRequest(cursor', FALSE) /\ cursor' # NoCursor)
      BY <1>7, RestEffect
    <2> HIDE DEF rest
    <2> QED BY <2>1 DEF AsksOn, NoRequest, AfterRequest
  <1>8. CASE Record
    BY <1>2, <1>8 DEF Record
  <1>9. CASE Focus \/ Connect \/ Blur
    BY <1>2, <1>6, <1>9 DEF Focus, Connect, Blur
  <1> QED BY <1>2, <1>3, <1>4, <1>5, <1>7, <1>8, <1>9, LoadedSteps

\* The parts of Rising that are about the wire, with a message more, or with the first less.
WireRises ==
    /\ \A i \in 1..Len(wire) : News(wire[i], epoch, cursor.end)
    /\ \A i \in 1..Len(wire) : \A j \in i..Len(wire) : Last(wire[i]) <= Last(wire[j])
    /\ wire # <<>> => online /\ Last(wire[Len(wire)]) = Len(log[epoch])

LEMMA AppendRises ==
    ASSUME TInv, Rising, TInv', NEW m \in Messages, wire' = Append(wire, m), online',
           UNCHANGED <<epoch, cursor>>, News(m, epoch, cursor.end), Last(m) = Len(log'[epoch]),
           Len(log[epoch]) <= Len(log'[epoch])
    PROVE  WireRises'
  <1>1. /\ wire \in Seq(Messages) /\ Len(wire) \in Nat /\ Len(wire') = Len(wire) + 1
        /\ \A i \in 1..Len(wire) : wire'[i] = wire[i]
        /\ wire'[Len(wire) + 1] = m
    BY AppendProperties DEF TInv, TypeOK
  <1> DEFINE n == Len(log[epoch])
             n2 == Len(log'[epoch])
  <1>2. n \in Nat /\ n2 \in Nat /\ n <= n2 /\ Last(m) = n2
        /\ \A i \in 1..Len(wire) : Last(wire[i]) \in Int
    BY NewsNumbers DEF TInv, TypeOK
  <1>3. \A i \in 1..Len(wire) : News(wire[i], epoch, cursor.end) /\ Last(wire[i]) <= n
    <2> SUFFICES ASSUME NEW i \in 1..Len(wire) PROVE News(wire[i], epoch, cursor.end) /\ Last(wire[i]) <= n
      OBVIOUS
    <2>1. Len(wire) \in i..Len(wire) /\ wire # <<>>
      BY <1>1
    <2> QED BY <2>1 DEF Rising
  <1>4. Len(log'[epoch']) = n2
    OBVIOUS
  <1> HIDE DEF n, n2
  <1>5. \A i \in 1..Len(wire') : News(wire'[i], epoch', cursor'.end)
    <2> SUFFICES ASSUME NEW i \in 1..Len(wire') PROVE News(wire'[i], epoch', cursor'.end)
      OBVIOUS
    <2>1. News(wire'[i], epoch, cursor.end)
      BY <1>1, <1>3
    <2> QED BY <2>1 DEF News, Last
  <1>6. \A i \in 1..Len(wire') : \A j \in i..Len(wire') : Last(wire'[i]) <= Last(wire'[j])
    <2> SUFFICES ASSUME NEW i \in 1..Len(wire'), NEW j \in i..Len(wire')
                 PROVE  Last(wire'[i]) <= Last(wire'[j])
      OBVIOUS
    <2>1. CASE j \in 1..Len(wire)
      <3>1. i \in 1..Len(wire) /\ j \in i..Len(wire) /\ wire'[i] = wire[i] /\ wire'[j] = wire[j]
        BY <1>1, <2>1
      <3> QED BY <3>1 DEF Rising
    <2>2. CASE i \in 1..Len(wire) /\ j = Len(wire) + 1
      <3>1. wire'[i] = wire[i] /\ wire'[j] = m
        BY <1>1, <2>2
      <3> QED BY <1>2, <1>3, <2>2, <3>1
    <2>3. CASE i = Len(wire) + 1 /\ j = i
      BY <1>1, <1>2, <2>3
    <2> QED BY <1>1, <2>1, <2>2, <2>3
  <1>7. Last(wire'[Len(wire')]) = n2
    BY <1>1, <1>2
  <1> QED BY <1>4, <1>5, <1>6, <1>7 DEF WireRises, Last

LEMMA TailRises ==
    ASSUME TInv, Rising, DeliverRow \/ DeliverAnswer
    PROVE  WireRises' /\ cursor'.end <= Len(log[epoch])
  <1>1. /\ wire # <<>> /\ wire' = Tail(wire) /\ UNCHANGED <<epoch, log, online>>
        /\ cursor.end <= cursor'.end /\ cursor'.end <= Last(wire[1])
    BY DeliverCatches
  <1>2. /\ Len(wire) \in Nat /\ Len(wire') = Len(wire) - 1 /\ 1 \in 1..Len(wire)
        /\ \A i \in 1..Len(wire') : wire'[i] = wire[i + 1]
    BY <1>1, WireTail DEF TInv, TypeOK
  <1>3. \A i \in 1..Len(wire) : Last(wire[i]) \in Int /\ wire[i].from \in Nat
    BY NewsNumbers
  <1>4. cursor.end \in Nat /\ cursor'.end \in Nat
    <2>1. TInv'
      BY StepTInv DEF Next, Deliver
    <2>2. cursor' \in Cursors \cup {NoCursor}
      BY <2>1 DEF TInv, TypeOK
    <2> QED BY <2>2, NewsNumbers DEF Cursors, NoCursor, Items
  <1>5. ASSUME NEW i \in 1..Len(wire')
        PROVE  News(wire'[i], epoch', cursor'.end)
    <2> DEFINE m == wire[i + 1]
    <2>1. i + 1 \in 1..Len(wire) /\ wire'[i] = m
      BY <1>2
    <2>2. Last(wire[1]) <= Last(m)
      BY <1>2, <2>1 DEF Rising
    <2>3. News(m, epoch, cursor.end) /\ Last(m) \in Int /\ m.from \in Nat /\ Last(wire[1]) \in Int
      BY <1>2, <1>3, <2>1 DEF Rising
    <2> HIDE DEF m
    <2>4. cursor'.end <= Last(m)
      BY <1>1, <1>4, <2>2, <2>3
    <2>a. m.from \in Nat /\ cursor.end <= cursor'.end
      BY <1>1, <2>3
    <2>5. m.from <= cursor.end + 1 => m.from <= cursor'.end + 1
      BY <1>4, <2>a
    <2>6. /\ m.kind # "error" /\ m.epoch = epoch' /\ m.from # 0
          /\ m.kind = "row" => m.rows # <<>>
          /\ m.kind = "after" /\ ~m.reset => m.from <= cursor'.end + 1
          /\ m.kind = "tail" \/ m.reset => m.rows # <<>> \/ Last(m) = 0
      BY <1>1, <2>3, <2>5 DEF News
    <2> QED BY <2>1, <2>4, <2>6 DEF News, Last
  <1>6. ASSUME NEW i \in 1..Len(wire'), NEW j \in i..Len(wire')
        PROVE  Last(wire'[i]) <= Last(wire'[j])
    <2>1. /\ i + 1 \in 1..Len(wire) /\ j + 1 \in (i + 1)..Len(wire)
          /\ wire'[i] = wire[i + 1] /\ wire'[j] = wire[j + 1]
      BY <1>2
    <2> QED BY <2>1 DEF Rising
  <1>7. wire' # <<>> => online' /\ Last(wire'[Len(wire')]) = Len(log'[epoch'])
    <2> SUFFICES ASSUME wire' # <<>>
                 PROVE  online' /\ Last(wire'[Len(wire')]) = Len(log'[epoch'])
      OBVIOUS
    <2>1. wire' \in Seq(Messages)
      BY <1>1, WireTail
    <2>2. Len(wire') \in 1..Len(wire')
      BY <2>1
    <2>3. wire'[Len(wire')] = wire[Len(wire)]
      BY <1>2, <2>2
    <2> QED BY <1>1, <2>3 DEF Rising
  <1>8. Last(wire[1]) <= Len(log[epoch])
    <2>1. Len(wire) \in 1..Len(wire)
      BY <1>2
    <2> QED BY <1>1, <1>2, <2>1 DEF Rising
  <1>9. cursor'.end <= Len(log[epoch])
    BY <1>1, <1>2, <1>3, <1>4, <1>8, NewsNumbers
  <1> QED BY <1>5, <1>6, <1>7, <1>9 DEF WireRises, Last

LEMMA StepRising ==
    ASSUME ~RecordsInReload, ~Unloads, ~Mobile, TInv, Sound, Rising, Matched, [Next]_vars
    PROVE  Rising'
  <1>0. TInv' /\ life' = "loaded" /\ epoch' = epoch
    BY StepTInv, LoadedSteps
  <1>1. /\ cursor' # NoCursor => cursor'.epoch = epoch
        /\ cursor.end <= cursor'.end
        /\ cursor'.end <= Len(log'[epoch])
        /\ WireRises'
    <2>1. cursor.end \in Nat /\ cursor.end <= Len(log[epoch]) /\ Len(log[epoch]) \in Nat
          /\ (cursor # NoCursor => cursor.epoch = epoch) /\ WireRises
      BY NewsNumbers DEF Rising, WireRises
    <2>2. CASE DeliverRow \/ DeliverAnswer
      BY <2>2, DeliverCatches, TailRises
    <2>3. CASE UNCHANGED <<log, online, wire, cursor>>
      BY <1>0, <2>1, <2>3 DEF WireRises, News, Last
    <2>4. CASE Record
      <3>1. RecordRow /\ UNCHANGED <<cursor, online>> /\ Len(log'[epoch]) = Len(log[epoch]) + 1
        BY <2>4, RecordRowType DEF Record, clientVars
      <3>2. CASE online /\ wire' = Append(wire, RowMessage)
        <4>1. RowMessage \in Messages
          BY <3>1, RowMessageFits DEF RecordRow
        <4>2. /\ Last(RowMessage) = Len(log'[epoch]) /\ RowMessage.kind = "row"
              /\ RowMessage.epoch = epoch /\ RowMessage.from # 0 /\ RowMessage.rows # <<>>
              /\ RowMessage.reset = FALSE
          BY <1>0, <3>1, RowNews DEF RowMessage
        <4> DEFINE r == RowMessage
        <4>a. cursor.end <= Last(r)
          BY <2>1, <3>1, <4>2
        <4> HIDE DEF r
        <4>3. News(r, epoch, cursor.end)
          BY <4>2, <4>a DEF News, r
        <4> QED BY <1>0, <2>1, <3>1, <3>2, <4>1, <4>2, <4>3, AppendRises DEF r
      <3>3. CASE ~online /\ UNCHANGED wire
        <4>1. wire = <<>>
          BY <3>3 DEF Rising
        <4>2. Len(wire) = 0 /\ Len(wire') = 0
          BY <3>3, <4>1
        <4>3. WireRises'
          BY <3>3, <4>1, <4>2 DEF WireRises
        <4> QED BY <2>1, <3>1, <4>3
      <3> QED BY <2>4, <3>2, <3>3 DEF Record
    <2>5. ASSUME NEW s \in Slots, Answer(s)
          PROVE  /\ cursor' = cursor /\ log' = log
                 /\ WireRises'
      <3>1. UNCHANGED <<cursor, log, online, epoch>>
        BY <2>5 DEF Answer, daemonVars, clientVars
      <3>2. CASE UNCHANGED wire
        BY <2>1, <3>1, <3>2 DEF WireRises, News, Last
      <3>3. CASE online /\ wire' = Append(wire, AnswerMessage(s))
        <4>1. /\ AnswerMessage(s) \in Messages /\ News(AnswerMessage(s), epoch, cursor.end)
              /\ Last(AnswerMessage(s)) = Len(log[epoch])
          BY AnswerFits, AnswerNews
        <4> QED BY <1>0, <2>1, <3>1, <3>3, <4>1, AppendRises
      <3> QED BY <2>5, <3>1, <3>2, <3>3 DEF Answer
    <2>6. CASE Disconnect
      <3>1. wire' = <<>> /\ UNCHANGED <<log, cursor>>
        BY <2>6 DEF Disconnect, daemonVars
      <3>2. Len(wire') = 0
        BY <3>1
      <3>3. WireRises'
        BY <3>1, <3>2 DEF WireRises
      <3> QED BY <2>1, <3>1, <3>3
    <2>7. CASE Connect
      <3>1. wire = <<>> /\ UNCHANGED <<wire, log, cursor>>
        BY <2>7 DEF Connect, daemonVars, Rising
      <3>2. Len(wire') = 0 /\ wire' = <<>>
        BY <3>1
      <3>3. WireRises'
        BY <3>2 DEF WireRises
      <3> QED BY <2>1, <3>1, <3>3
    <2>8. CASE Focus \/ Blur \/ UNCHANGED <<log, online, wire, req, clientVars>>
      BY <2>3, <2>8 DEF Focus, Blur, daemonVars, clientVars
    <2>9. CASE \E s \in Slots : Arrive(s) \/ InitTimesOut(s)
      BY <2>3, <2>9 DEF Arrive, InitTimesOut, daemonVars, clientVars
    <2>10. CASE \E s \in Slots : Answer(s)
      BY <2>1, <2>5, <2>10
    <2> QED BY <2>2, <2>4, <2>6, <2>7, <2>8, <2>9, <2>10, LoadedSteps
  <1>2. ASSUME NEW s \in Slots, req'[s].dir = "after"
        PROVE  req'[s].epoch = epoch' /\ req'[s].seq <= cursor'.end
    <2>1. AsksOn(s)
      BY RequestsStep
    <2>a. cursor' \in Cursors \cup {NoCursor} /\ req'[s] \in Requests
      BY <1>0 DEF TInv, TypeOK
    <2>2. req'[s].seq \in Nat /\ cursor'.end \in Nat /\ cursor.end \in Nat
      BY <2>a, NewsNumbers DEF Requests, Cursors, NoCursor, Items
    <2>3. CASE req'[s].dir = req[s].dir /\ req'[s].epoch = req[s].epoch /\ req'[s].seq = req[s].seq
      BY <1>0, <1>1, <1>2, <2>2, <2>3 DEF Rising
    <2>4. CASE cursor' # NoCursor /\ req'[s].epoch = cursor'.epoch /\ req'[s].seq = cursor'.end
      BY <1>0, <1>1, <2>2, <2>4
    <2> QED BY <1>2, <2>1, <2>3, <2>4 DEF AsksOn
  <1> QED BY <1>0, <1>1, <1>2 DEF Rising, WireRises

-----------------------------------------------------------------------------
(* Every step keeps Matched and Asked *)

\* A request that is used stays used, with its direction and its answer; what is pending stays so.
Stays(s) ==
    /\ req'[s].dir = req[s].dir
    /\ (req'[s].st = "free") = (req[s].st = "free")
    /\ (req'[s].st = "answered") = (req[s].st = "answered")
    /\ Pending(s) => Pending(s)'

LEMMA MatchedStays ==
    ASSUME Matched, UNCHANGED wire,
           \A s \in Slots : \/ Stays(s)
                            \/ req[s].st = "free" /\ req'[s].st = "sent"
    PROVE  Matched'
  <1>1. \A s \in Slots : (req'[s].st = "answered") = (req[s].st = "answered")
    BY DEF Stays
  <1>2. \A s \in Slots : req[s].st = "answered" => req'[s].dir = req[s].dir
    BY DEF Stays
  <1> QED BY <1>1, <1>2 DEF Matched

\* A request is sent to a client that waits for nothing, or stays what it is.
LEMMA InitializeStays ==
    ASSUME TInv, Initialize
    PROVE  \A s \in Slots : Stays(s) \/ (req[s].st = "free" /\ req'[s].st = "sent")
  BY InitializeEffect DEF Stays, Pending

LEMMA StageStays ==
    ASSUME TInv, NEW t \in Slots, Arrive(t) \/ InitTimesOut(t)
    PROVE  \A s \in Slots : Stays(s)
  <1>1. req \in [Slots -> Requests]
    BY DEF TInv, TypeOK
  <1>2. CASE InitTimesOut(t)
    BY <1>1, <1>2 DEF InitTimesOut, Stays, Pending, Requests
  <1>3. CASE Arrive(t)
    BY <1>1, <1>3 DEF Arrive, Stays, Pending, Requests
  <1> QED BY <1>2, <1>3

\* The message that is delivered, and the requests it leaves.
LEMMA DeliverMatched ==
    ASSUME TInv, Rising, Matched, DeliverRow \/ DeliverAnswer
    PROVE  Matched'
  <1> DEFINE m == wire[1]
             rest == Rest(m)
  <1>1. wire # <<>> /\ wire' = Tail(wire) /\ m \in Messages
    BY DeliverCatches
  <1>2. /\ Len(wire) \in Nat /\ Len(wire') = Len(wire) - 1 /\ 1 \in 1..Len(wire)
        /\ \A i \in 1..Len(wire') : i + 1 \in 1..Len(wire) /\ wire'[i] = wire[i + 1]
    BY <1>1, WireTail DEF TInv, TypeOK
  <1>3. /\ \A s \in Slots : IF m.kind # "row" /\ s = m.slot
                            THEN rest[s] = NoRequest ELSE rest[s] = req[s]
        /\ \A s \in Slots : rest[s].st # "free" => req'[s] = rest[s]
        /\ \A s \in Slots : req'[s] = rest[s] \/ req'[s] = AfterRequest(cursor', FALSE)
    BY RestEffect
  <1> HIDE DEF rest
  <1>4. ASSUME NEW s \in Slots, req'[s].st = "answered"
        PROVE  req[s].st = "answered" /\ req'[s] = req[s] /\ ~(m.kind # "row" /\ s = m.slot)
    <2>1. req'[s] = rest[s]
      BY <1>3, <1>4 DEF AfterRequest
    <2>2. rest[s] # NoRequest
      BY <1>4, <2>1 DEF NoRequest
    <2> QED BY <1>3, <1>4, <2>1, <2>2
  <1>5. ASSUME NEW i \in 1..Len(wire'), wire'[i].kind # "row"
        PROVE  /\ wire'[i].slot \in Slots /\ req'[wire'[i].slot].st = "answered"
               /\ req'[wire'[i].slot].dir = wire'[i].kind
    <2> DEFINE w == wire[i + 1]
    <2>1. wire'[i] = w /\ i + 1 \in 1..Len(wire) /\ w.kind # "row"
      BY <1>2, <1>5
    <2>2. w.slot \in Slots /\ req[w.slot].st = "answered" /\ req[w.slot].dir = w.kind
      BY <2>1 DEF Matched
    <2>3. ~(m.kind # "row" /\ w.slot = m.slot)
      <3>1. i + 1 # 1
        BY <1>2
      <3> QED BY <1>2, <2>1, <3>1 DEF Matched
    <2> HIDE DEF w
    <2>4. rest[w.slot] = req[w.slot]
      BY <1>3, <2>2, <2>3
    <2>5. req'[w.slot] = req[w.slot]
      BY <1>3, <2>2, <2>4
    <2> QED BY <2>1, <2>2, <2>5
  <1>6. ASSUME NEW i \in 1..Len(wire'), NEW j \in 1..Len(wire'), wire'[i].kind # "row",
               wire'[j].kind # "row", wire'[i].slot = wire'[j].slot
        PROVE  i = j
    <2>1. /\ i + 1 \in 1..Len(wire) /\ j + 1 \in 1..Len(wire)
          /\ wire'[i] = wire[i + 1] /\ wire'[j] = wire[j + 1]
      BY <1>2
    <2>2. i + 1 = j + 1
      BY <1>6, <2>1 DEF Matched
    <2> QED BY <1>2, <2>2
  <1>7. ASSUME NEW s \in Slots, req'[s].st = "answered"
        PROVE  \E i \in 1..Len(wire') : wire'[i].kind # "row" /\ wire'[i].slot = s
    <2>1. req[s].st = "answered" /\ ~(m.kind # "row" /\ s = m.slot)
      BY <1>4, <1>7
    <2>2. PICK i \in 1..Len(wire) : wire[i].kind # "row" /\ wire[i].slot = s
      BY <2>1 DEF Matched
    <2>3. i # 1
      BY <2>1, <2>2
    <2>4. i - 1 \in 1..Len(wire') /\ wire'[i - 1] = wire[(i - 1) + 1] /\ (i - 1) + 1 = i
      BY <1>2, <2>3
    <2> QED BY <2>2, <2>4
  <1> QED BY <1>5, <1>6, <1>7 DEF Matched

LEMMA AppendMatched ==
    ASSUME TInv, Matched, NEW m \in Messages, wire' = Append(wire, m),
           IF m.kind = "row" THEN UNCHANGED req
           ELSE /\ m.slot \in Slots /\ req[m.slot].st # "answered"
                /\ req'[m.slot].st = "answered" /\ req'[m.slot].dir = m.kind
                /\ \A s \in Slots \ {m.slot} : req'[s] = req[s]
    PROVE  Matched'
  <1>1. /\ wire \in Seq(Messages) /\ Len(wire) \in Nat /\ Len(wire') = Len(wire) + 1
        /\ \A i \in 1..Len(wire) : wire'[i] = wire[i]
        /\ wire'[Len(wire) + 1] = m
    BY AppendProperties DEF TInv, TypeOK
  <1>2. ASSUME NEW i \in 1..Len(wire), wire[i].kind # "row"
        PROVE  /\ wire[i].slot \in Slots /\ req'[wire[i].slot] = req[wire[i].slot]
               /\ req[wire[i].slot].st = "answered" /\ req[wire[i].slot].dir = wire[i].kind
               /\ m.kind # "row" => wire[i].slot # m.slot
    BY <1>2 DEF Matched
  <1>3. ASSUME NEW i \in 1..Len(wire'), wire'[i].kind # "row"
        PROVE  /\ wire'[i].slot \in Slots /\ req'[wire'[i].slot].st = "answered"
               /\ req'[wire'[i].slot].dir = wire'[i].kind
    <2>1. CASE i \in 1..Len(wire)
      BY <1>1, <1>2, <1>3, <2>1
    <2>2. CASE i = Len(wire) + 1
      BY <1>1, <1>3, <2>2
    <2> QED BY <1>1, <2>1, <2>2
  <1>4. ASSUME NEW i \in 1..Len(wire'), NEW j \in 1..Len(wire'), wire'[i].kind # "row",
               wire'[j].kind # "row", wire'[i].slot = wire'[j].slot
        PROVE  i = j
    <2>1. CASE i \in 1..Len(wire) /\ j \in 1..Len(wire)
      BY <1>1, <1>4, <2>1 DEF Matched
    <2>2. CASE i \in 1..Len(wire) /\ j = Len(wire) + 1
      BY <1>1, <1>2, <1>4, <2>2
    <2>3. CASE j \in 1..Len(wire) /\ i = Len(wire) + 1
      BY <1>1, <1>2, <1>4, <2>3
    <2> QED BY <1>1, <2>1, <2>2, <2>3
  <1>5. ASSUME NEW s \in Slots, req'[s].st = "answered"
        PROVE  \E i \in 1..Len(wire') : wire'[i].kind # "row" /\ wire'[i].slot = s
    <2>1. CASE m.kind # "row" /\ s = m.slot
      <3>1. Len(wire) + 1 \in 1..Len(wire')
        BY <1>1
      <3> QED BY <1>1, <2>1, <3>1
    <2>2. CASE ~(m.kind # "row" /\ s = m.slot)
      <3>1. req[s].st = "answered"
        BY <1>5, <2>2
      <3>2. PICK i \in 1..Len(wire) : wire[i].kind # "row" /\ wire[i].slot = s
        BY <3>1 DEF Matched
      <3>3. i \in 1..Len(wire') /\ wire'[i] = wire[i]
        BY <1>1
      <3> QED BY <3>2, <3>3
    <2> QED BY <2>1, <2>2
  <1> QED BY <1>3, <1>4, <1>5 DEF Matched

LEMMA StepMatched ==
    ASSUME ~RecordsInReload, ~Unloads, ~Mobile, TInv, Sound, Rising, Matched, [Next]_vars
    PROVE  Matched'
  <1>0. req \in [Slots -> Requests]
    BY DEF TInv, TypeOK
  <1>1. CASE UNCHANGED <<wire, req>>
    BY <1>1 DEF Matched
  <1>2. CASE DeliverRow \/ DeliverAnswer
    BY <1>2, DeliverMatched
  <1>3. CASE Record
    <2>1. UNCHANGED req /\ RecordRow
      BY <1>3 DEF Record
    <2>2. CASE wire' = Append(wire, RowMessage)
      <3>1. RowMessage \in Messages /\ RowMessage.kind = "row"
        BY <2>1, RowMessageFits DEF RecordRow, RowMessage
      <3> QED BY <2>1, <2>2, <3>1, AppendMatched
    <2> QED BY <1>1, <1>3, <2>1, <2>2 DEF Record
  <1>4. ASSUME NEW t \in Slots, Arrive(t) \/ InitTimesOut(t)
        PROVE  Matched'
    BY <1>4, StageStays, MatchedStays DEF Arrive, InitTimesOut
  <1>5. ASSUME NEW t \in Slots, Answer(t)
        PROVE  Matched'
    <2>1. req[t].st = "ready"
      BY <1>5 DEF Answer
    <2>2. CASE wire' = Append(wire, AnswerMessage(t)) /\ req' = [req EXCEPT ![t].st = "answered"]
      <3>1. /\ AnswerMessage(t) \in Messages /\ AnswerMessage(t).kind = req[t].dir
            /\ AnswerMessage(t).slot = t /\ req[t].dir \in Directions
        BY AnswerFits, AnswerNews
      <3>2. /\ req'[t].st = "answered" /\ req'[t].dir = req[t].dir
            /\ \A s \in Slots \ {t} : req'[s] = req[s]
        BY <1>0, <2>2 DEF Requests
      <3> QED BY <2>1, <2>2, <3>1, <3>2, AppendMatched DEF Directions
    <2>3. CASE req' = [req EXCEPT ![t] = NoRequest] /\ UNCHANGED wire
      <3>1. /\ req'[t].st = "free" /\ \A s \in Slots \ {t} : req'[s] = req[s]
        BY <1>0, <2>3 DEF NoRequest
      <3> QED BY <2>1, <2>3, <3>1 DEF Matched
    <2> QED BY <1>5, <2>2, <2>3 DEF Answer
  <1>6. CASE Initialize /\ UNCHANGED wire
    BY <1>6, InitializeStays, MatchedStays
  <1>7. CASE Disconnect
    <2>1. PICK lost \in SUBSET {s \in Slots : req[s].st # "free"} :
            /\ {s \in Slots : req[s].st = "answered"} \subseteq lost
            /\ req' = [s \in Slots |->
                 IF s \in lost THEN NoRequest ELSE [req[s] EXCEPT !.init = FALSE]]
      BY <1>7 DEF Disconnect
    <2>2. \A s \in Slots : req'[s].st # "answered"
      BY <1>0, <2>1 DEF NoRequest, Requests
    <2>3. wire' = <<>> /\ Len(wire') = 0
      BY <1>7 DEF Disconnect
    <2> QED BY <2>2, <2>3 DEF Matched
  <1>8. CASE Focus \/ Connect \/ Blur \/ UNCHANGED <<log, online, wire, req, clientVars>>
    BY <1>1, <1>6, <1>8 DEF Focus, Connect, Blur
  <1> QED BY <1>2, <1>3, <1>4, <1>5, <1>7, <1>8, LoadedSteps

\* A step that sends no message, and no client away from its place, keeps Asked.
LEMMA AskedStays ==
    ASSUME Asked, UNCHANGED <<online, focused, wire, cursor, log, epoch>>,
           init' = init \/ init' = "none",
           \A s \in Slots : Stays(s)
    PROVE  Asked'
  BY DEF Asked, Stays, Pending

\* Who gets the focus or a connection asks, or has asked.
LEMMA InitializeAsks ==
    ASSUME TInv, Matched, Asked, Initialize, UNCHANGED <<wire, log, cursor, epoch>>, online'
    PROVE  Asked'
  <1>1. CASE init # "none" /\ UNCHANGED <<req, init>>
    <2>1. PICK s \in Slots : req[s].st # "free" /\ req[s].dir = init
      BY <1>1 DEF Asked
    <2>2. CASE req[s].st = "answered"
      <3>1. PICK i \in 1..Len(wire) : wire[i].slot = s
        BY <2>2 DEF Matched
      <3>2. wire # <<>>
        BY <3>1 DEF TInv, TypeOK
      <3> QED BY <1>1, <2>1, <3>2 DEF Asked, Pending
    <2>3. CASE req[s].st # "answered"
      <3>1. Pending(s)
        BY <2>1, <2>3 DEF Pending, TInv, TypeOK, Requests
      <3> QED BY <1>1, <2>1, <3>1 DEF Asked, Pending
    <2> QED BY <2>2, <2>3
  <1>2. CASE \E t \in Slots : req'[t].st = "sent" /\ req'[t].dir = init'
    BY <1>2 DEF Asked, Pending
  <1> QED BY <1>1, <1>2, InitializeEffect

LEMMA DeliverAsks ==
    ASSUME TInv, Rising, Matched, Asked, DeliverRow \/ DeliverAnswer
    PROVE  Asked'
  <1> DEFINE m == wire[1]
             rest == Rest(m)
  <1>1. /\ wire # <<>> /\ wire' = Tail(wire) /\ m \in Messages
        /\ UNCHANGED <<epoch, log, online, focused>>
    BY DeliverCatches
  <1>2. Head(wire) = m /\ Len(wire) \in Nat /\ 1 \in 1..Len(wire) /\ Len(wire') = Len(wire) - 1
    BY <1>1, WireTail DEF TInv, TypeOK
  <1>3. /\ \A s \in Slots : IF m.kind # "row" /\ s = m.slot
                            THEN rest[s] = NoRequest ELSE rest[s] = req[s]
        /\ \A s \in Slots : rest[s].st # "free" => req'[s] = rest[s]
        /\ \/ cursor'.end = Last(m)
           \/ \E t \in Slots : req'[t].st = "sent"
    BY RestEffect
  <1> HIDE DEF rest
  <1>a. online
    BY <1>1 DEF Rising
  <1>4. ASSUME init' # "none"
        PROVE  \E s \in Slots : req'[s].st # "free" /\ req'[s].dir = init'
    <2>1. init' = init /\ (m.kind # "row" => m.kind # init)
      BY <1>2, <1>4 DEF DeliverRow, DeliverAnswer, ResolvesInit
    <2>2. PICK s \in Slots : req[s].st # "free" /\ req[s].dir = init
      BY <1>4, <2>1 DEF Asked
    <2>3. ~(m.kind # "row" /\ s = m.slot)
      BY <1>2, <2>1, <2>2 DEF Matched
    <2>4. rest[s] = req[s] /\ req'[s] = rest[s]
      BY <1>3, <2>2, <2>3
    <2> QED BY <2>1, <2>2, <2>4
  <1>5. ASSUME wire' = <<>>
        PROVE  cursor'.end = Len(log'[epoch']) \/ \E s \in Slots : Pending(s)'
    <2>1. Len(wire) = 1
      BY <1>2, <1>5
    <2>2. Last(m) = Len(log[epoch])
      BY <1>1, <2>1 DEF Rising
    <2> QED BY <1>1, <1>3, <2>2 DEF Pending
  <1> QED BY <1>1, <1>a, <1>4, <1>5 DEF Asked

LEMMA StepAsked ==
    ASSUME ~RecordsInReload, ~Unloads, ~Mobile, TInv, Sound, Rising, Matched, Asked, [Next]_vars
    PROVE  Asked'
  <1>0. req \in [Slots -> Requests] /\ epoch' = epoch
    BY LoadedSteps DEF TInv, TypeOK
  <1>1. \A m \in Messages : Append(wire, m) # <<>>
    BY AppendProperties DEF TInv, TypeOK
  <1>2. CASE UNCHANGED <<log, online, wire, req, clientVars>>
    BY <1>0, <1>2 DEF Asked, Pending, clientVars
  <1>3. CASE DeliverRow \/ DeliverAnswer
    BY <1>3, DeliverAsks
  <1>4. CASE Record
    <2>1. UNCHANGED <<req, init, online>> /\ (online => wire' # <<>>)
      <3>1. recorded < MaxRows
        BY <1>4 DEF Record, RecordRow
      <3>2. RowMessage \in Messages
        BY <3>1, RowMessageFits
      <3> QED BY <1>1, <1>4, <3>2 DEF Record, clientVars
    <2> QED BY <2>1 DEF Asked
  <1>5. ASSUME NEW t \in Slots, Arrive(t) \/ InitTimesOut(t)
        PROVE  Asked'
    <2>1. UNCHANGED <<online, focused, wire, cursor, log, epoch>> /\ (init' = init \/ init' = "none")
      BY <1>5 DEF Arrive, InitTimesOut, daemonVars, clientVars
    <2> QED BY <1>5, <2>1, StageStays, AskedStays
  <1>6. ASSUME NEW t \in Slots, Answer(t)
        PROVE  Asked'
    <2>1. CASE online
      <3>0. AnswerMessage(t) \in Messages
        BY AnswerFits
      <3>1. /\ UNCHANGED <<init, online>> /\ wire' # <<>> /\ req' = [req EXCEPT ![t].st = "answered"]
        BY <1>1, <1>6, <2>1, <3>0 DEF Answer, clientVars
      <3>2. \A s \in Slots : req[s].st # "free" => req'[s].st # "free" /\ req'[s].dir = req[s].dir
        BY <1>0, <3>1 DEF Requests
      <3> QED BY <3>1, <3>2 DEF Asked
    <2>2. CASE ~online
      <3>1. UNCHANGED <<init, online>> /\ req' = [req EXCEPT ![t] = NoRequest] /\ req[t].st = "ready"
        BY <1>6, <2>2 DEF Answer, clientVars
      <3> QED BY <2>2, <3>1 DEF Asked
    <2> QED BY <2>1, <2>2
  <1>7. CASE Initialize /\ online' /\ UNCHANGED <<wire, log, cursor, epoch>>
    BY <1>7, InitializeAsks
  <1>8. CASE Disconnect
    BY <1>8 DEF Disconnect, Asked
  <1>9. CASE Blur
    BY <1>9 DEF Blur, Asked
  <1>10. CASE Focus
    <2>1. CASE online
      BY <1>7, <1>10, <2>1 DEF Focus, daemonVars
    <2>2. CASE ~online
      BY <1>10, <2>2 DEF Focus, Asked
    <2> QED BY <2>1, <2>2
  <1>11. CASE Connect
    <2>1. CASE focused
      BY <1>7, <1>11, <2>1 DEF Connect, daemonVars
    <2>2. CASE ~focused
      BY <1>11, <2>2 DEF Connect, Asked
    <2> QED BY <2>1, <2>2
  <1> QED BY <1>2, <1>3, <1>4, <1>5, <1>6, <1>8, <1>9, <1>10, <1>11, LoadedSteps

\* When nothing is under way any more, the pane on the screen of a connected client
\* shows the daemon's rows up to the last one, whatever was lost, late, out of order or
\* trimmed on the way; of an agent that stays loaded, whose rows no mobile policy
\* withholds (session-stream-reducers.ts, applyTimelineResponse, fetchTimeline).
THEOREM CaughtUpHolds ==
    ASSUME ~RecordsInReload, ~Unloads, ~Mobile
    PROVE  Spec => []CaughtUp
  <1> DEFINE Catching == Rising /\ Matched /\ Asked
  <1>1. Init => Catching
    <2> SUFFICES ASSUME Init PROVE Catching
      OBVIOUS
    <2>1. Len(wire) = 0 /\ wire = <<>> /\ 1 \in Epochs
      BY BoundsAssumption DEF BoundsAssumption, Init, Epochs
    <2>2. Len(log[epoch]) = 0
      BY <2>1 DEF Init
    <2> QED BY <2>1, <2>2 DEF Init, Rising, Matched, Asked, NoCursor, NoRequest
  <1>2. TInv /\ Sound /\ Catching /\ [Next]_vars => Catching'
    BY StepRising, StepMatched, StepAsked
  <1>3. TInv /\ Catching => CaughtUp
    <2> SUFFICES ASSUME TInv, Catching, online, focused, wire = <<>>, Used(req) = {}
                 PROVE  /\ init = "none"
                        /\ IF log[epoch] = <<>> THEN cursor = NoCursor
                           ELSE cursor.epoch = epoch /\ cursor.end = Len(log[epoch])
      BY DEF CaughtUp
    <2>1. \A s \in Slots : req[s].st = "free"
      BY DEF Used
    <2>2. init = "none" /\ cursor.end = Len(log[epoch])
      BY <2>1 DEF Asked, Pending
    <2>3. log[epoch] \in Seq(Items) /\ cursor \in Cursors \cup {NoCursor}
      BY DEF TInv, TypeOK
    <2>4. log[epoch] = <<>> <=> Len(log[epoch]) = 0
      BY <2>3, RowsLength
    <2>5. cursor.end = 0 <=> cursor = NoCursor
      BY <2>3 DEF Cursors, NoCursor, Items
    <2> QED BY <2>2, <2>4, <2>5 DEF Rising
  <1> QED BY <1>1, <1>2, <1>3, TInvHolds, SoundHolds, PTL DEF Spec

=============================================================================
