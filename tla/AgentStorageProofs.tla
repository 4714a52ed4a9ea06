-------------------------- MODULE AgentStorageProofs --------------------------
(***************************************************************************)
(* Theorems about AgentStorage, for any callers, calls, crashes, failing     *)
(* writes and order of the directory.  A file that cannot be removed stays   *)
(* on the disk unknown to the index: where it matters, UnlinkMayFail is      *)
(* assumed to be FALSE.                                                     *)
(***************************************************************************)
EXTENDS AgentStorage, SequenceTheorems, TLAPS

-----------------------------------------------------------------------------
(* The inductive invariant *)
Unlinking == \E c \in Callers : call[c].pc = "unlinking"
Order == IF LegacyLast THEN <<"project", "root">> ELSE <<"root", "project">>
Lists == {<<>>, <<"root">>, <<"project">>, Order}
NoFile == \A p \in Paths : file[p] = NoRecord

\* The tickets: what was queued and not settled is on the chain.
ChainInv ==
    /\ settled <= queued
    /\ ~rejected => queued = settled + Len(chain)
    /\ rejected => chain = <<>>
    /\ chain = <<>> => stage = "start"

\* What each call has seen, and how far a removal lets the chain be.
UpdateInv(c) ==
    /\ call[c].kind = "idle" => call[c].pc = "idle"
    /\ call[c].pc = "waiting" => call[c].kind \notin Updates
    /\ call[c].pc = "read" /\ call[c].kind \in Updates => call[c].seen # NoRecord
DeleteInv(c) ==
    /\ call[c].pc \in {"closing", "removing", "unlinking"} => deleting
    /\ call[c].pc = "removing" /\ stage # "start" => settled < call[c].ticket
    /\ call[c].pc = "unlinking" =>
         /\ stage = "start"
         /\ call[c].paths \in Lists
         /\ \A p \in Paths : file[p] # NoRecord => Contains(call[c].paths, p)

\* The index, the path and the cache against the files.
SettledFiles ==
    stage # "moving" /\ ~Unlinking =>
        /\ indexed = Listed(file)
        /\ path = LoadedPath(file)
        /\ cache = Loaded(file)
MovingFiles ==
    stage = "moving" =>
        /\ path = "root" /\ file["root"] # NoRecord /\ cache = file["root"]
        /\ file["project"] = Head(chain).rec
        /\ Contains(indexed, "project") /\ Contains(indexed, "root")
UnlinkedFiles ==
    Unlinking =>
        /\ indexed \in Lists
        /\ \A p \in Paths : file[p] # NoRecord => Contains(indexed, p)

\* After a confirmed removal nothing can write the record again.
RemovedInv ==
    removed =>
        /\ NoFile /\ cache = NoRecord /\ stage = "start"
        /\ \/ deleting
           \/ /\ ~live /\ chain = <<>>
              /\ \A c \in Callers : call[c].pc \notin {"waiting", "read", "queued"}

\* Everything but the calls and what they have read.
DataTypes ==
    /\ file \in [Paths -> Records \cup {NoRecord}]
    /\ cache \in Records \cup {NoRecord}
    /\ path \in Paths \cup {"none"}
    /\ indexed \in PathLists
    /\ chain \in Seq(Writes)
    /\ stage \in {"start", "writing", "moving"}
    /\ queued \in Nat /\ settled \in Nat /\ calls \in Nat /\ crashes \in Nat
    /\ calls <= MaxCalls
FlagTypes ==
    /\ deleting \in BOOLEAN /\ rejected \in BOOLEAN /\ doomed \in BOOLEAN
    /\ live \in BOOLEAN /\ removed \in BOOLEAN
MemoryTypes == DataTypes /\ FlagTypes
CallTypes ==
    /\ call \in [Callers -> Calls]
    /\ \A c \in Callers : UpdateInv(c)
TypeInv == MemoryTypes /\ CallTypes
DeletesInv == \A c \in Callers : DeleteInv(c)
FileInv == SettledFiles /\ MovingFiles /\ UnlinkedFiles
Inv == TypeInv /\ ChainInv /\ DeletesInv /\ FileInv /\ RemovedInv

-----------------------------------------------------------------------------
(* What the operators of the storage return *)
LEMMA ListsTyped == Lists \subseteq PathLists /\ PathLists \subseteq Seq(Paths)
  BY DEF Lists, Order, PathLists, Paths

LEMMA PathListFacts ==
    ASSUME NEW l \in PathLists, l # <<>>
    PROVE  Tail(l) \in PathLists /\ Head(l) \in Paths
  <1>1. CASE l = <<"root">>
    BY <1>1 DEF PathLists, Paths
  <1>2. CASE l = <<"project">>
    BY <1>2 DEF PathLists, Paths
  <1>3. CASE l = <<"root", "project">>
    <2>1. Tail(l) = <<"project">> /\ Head(l) = "root"
      BY <1>3
    <2> QED BY <2>1 DEF PathLists, Paths
  <1>4. CASE l = <<"project", "root">>
    <2>1. Tail(l) = <<"root">> /\ Head(l) = "project"
      BY <1>4
    <2> QED BY <2>1 DEF PathLists, Paths
  <1> QED BY <1>1, <1>2, <1>3, <1>4 DEF PathLists

LEMMA ContainsFacts ==
    /\ \A p : ~Contains(<<>>, p)
    /\ \A p, q : Contains(<<p>>, q) <=> p = q
    /\ \A p, q, r : Contains(<<p, q>>, r) <=> r \in {p, q}
  BY DEF Contains

\* The project's file joins the one at the root.
LEMMA AppendProject ==
    /\ Append(<<>>, "project") = <<"project">>
    /\ Append(<<"root">>, "project") = <<"root", "project">>
  <1>1. Append(<<"root">>, "project") = <<"root", "project">>
    <2>1. <<"root">> \in Seq(Paths) /\ "project" \in Paths /\ <<"root", "project">> \in Seq(Paths)
      BY DEF Paths
    <2>2. Append(<<"root">>, "project") \in Seq(Paths)
          /\ Len(Append(<<"root">>, "project")) = 2
          /\ \A i \in 1..2 : Append(<<"root">>, "project")[i] = <<"root", "project">>[i]
      BY <2>1, AppendProperties
    <2> QED BY <2>1, <2>2, SeqEqual
  <1> QED BY <1>1

\* No record is a record.
LEMMA NoRecordIsNone == NoRecord \notin Records
  <1>1. -1 \notin Stamps
    BY StorageAssumption DEF StorageAssumption, Stamps
  <1> QED BY <1>1 DEF NoRecord, Records

\* The index has every file, and the cached record is that of the last one.
LEMMA ListedFacts ==
    ASSUME NEW f
    PROVE  /\ Listed(f) \in Lists
           /\ \A p \in Paths : f[p] # NoRecord => Contains(Listed(f), p)
           /\ LoadedPath(f) =
                IF f["root"] = NoRecord
                THEN IF f["project"] = NoRecord THEN "none" ELSE "project"
                ELSE IF f["project"] = NoRecord \/ LegacyLast THEN "root" ELSE "project"
           /\ Loaded(f) = IF LoadedPath(f) = "none" THEN NoRecord ELSE f[LoadedPath(f)]
  <1>0. LegacyLast \in BOOLEAN
    BY StorageAssumption DEF StorageAssumption
  <1>1. CASE f["root"] = NoRecord /\ f["project"] = NoRecord
    BY <1>1, ContainsFacts DEF Listed, LoadedPath, Loaded, Lists, Paths
  <1>2. CASE f["root"] # NoRecord /\ f["project"] = NoRecord
    BY <1>2, ContainsFacts DEF Listed, LoadedPath, Loaded, Lists, Paths
  <1>3. CASE f["root"] = NoRecord /\ f["project"] # NoRecord
    BY <1>3, ContainsFacts DEF Listed, LoadedPath, Loaded, Lists, Paths
  <1>4. CASE f["root"] # NoRecord /\ f["project"] # NoRecord
    <2>1. Listed(f) = Order
      BY <1>4 DEF Listed, Order
    <2>2. CASE LegacyLast
      BY <2>1, <2>2, <1>4, ContainsFacts DEF Order, LoadedPath, Loaded, Lists, Paths
    <2>3. CASE ~LegacyLast
      BY <2>1, <2>3, <1>4, ContainsFacts DEF Order, LoadedPath, Loaded, Lists, Paths
    <2> QED BY <2>2, <2>3
  <1> QED BY <1>1, <1>2, <1>3, <1>4

\* What a restart loads is a record or none.
LEMMA LoadedTyped ==
    ASSUME NEW f \in [Paths -> Records \cup {NoRecord}]
    PROVE  /\ Loaded(f) \in Records \cup {NoRecord}
           /\ LoadedPath(f) \in Paths \cup {"none"}
           /\ Listed(f) \in PathLists
  <1> QED BY ListedFacts, ListsTyped DEF Paths

\* A call's record is complete.
LEMMA BuiltTyped ==
    ASSUME NEW op, op.kind \in AllKinds, op.n \in Stamps,
           op.seen \in Records \cup {NoRecord},
           op.kind \in Updates => op.seen # NoRecord
    PROVE  Built(op) \in Records
  <1>1. 0 \in Stamps
    BY StorageAssumption DEF StorageAssumption, Stamps
  <1>2. op.seen # NoRecord => op.seen \in Records
    OBVIOUS
  <1>3. (IF op.kind \in {"title", "update"} THEN op.n
         ELSE IF op.seen = NoRecord THEN 0 ELSE op.seen.title) \in Stamps
    BY <1>1, <1>2 DEF Records
  <1>4. (IF op.kind = "update" THEN op.seen.stamp ELSE op.n) \in Stamps
    BY <1>2 DEF Records, Updates
  <1>5. (IF op.kind \in {"archive", "unarchive"} THEN op.kind = "archive"
         ELSE op.seen # NoRecord /\ op.seen.archived) \in BOOLEAN
    BY <1>2 DEF Records
  <1> QED BY <1>3, <1>4, <1>5 DEF Built, Records

-----------------------------------------------------------------------------
(* Types *)
\* A call that starts, and one that goes on.
LEMMA CallsTyped ==
    /\ Idle \in Calls
    /\ \A op \in Calls, s \in Steps : [op EXCEPT !.pc = s] \in Calls
    /\ \A op \in Calls, s \in Steps, r \in Records \cup {NoRecord} :
         /\ [op EXCEPT !.pc = s, !.seen = r] \in Calls
         /\ [op EXCEPT !.kind = "archive", !.pc = s, !.seen = r] \in Calls
    /\ \A op \in Calls, s \in Steps, m \in Nat : [op EXCEPT !.pc = s, !.ticket = m] \in Calls
    /\ \A op \in Calls, l \in PathLists : [op EXCEPT !.paths = l] \in Calls
    /\ \A op \in Calls, s \in Steps, l \in PathLists : [op EXCEPT !.pc = s, !.paths = l] \in Calls
    /\ \A k \in AllKinds, s \in Steps, m \in Nat, n \in Stamps :
         [Idle EXCEPT !.kind = k, !.pc = s, !.ticket = m, !.n = n] \in Calls
    /\ \A k \in AllKinds, s \in Steps, r \in Records \cup {NoRecord}, n \in Stamps :
         [Idle EXCEPT !.kind = k, !.pc = s, !.seen = r, !.n = n] \in Calls
    /\ \A k \in AllKinds, s \in Steps : [Idle EXCEPT !.kind = k, !.pc = s] \in Calls
  <1>1. Idle \in Calls
    BY StorageAssumption DEF StorageAssumption, Idle, Calls, Steps, PathLists, Stamps
  <1>2. "archive" \in AllKinds
    BY DEF AllKinds, Updates
  <1> QED BY <1>1, <1>2 DEF Calls

LEMMA TypesOK == TypeInv => TypeOK
  BY DEF TypeInv, MemoryTypes, DataTypes, FlagTypes, CallTypes, TypeOK

LEMMA InitTypes == Init => TypeInv
  <1> SUFFICES ASSUME Init PROVE TypeInv
    OBVIOUS
  <1>1. 0 \in Stamps /\ MaxCalls \in Nat
    BY StorageAssumption DEF StorageAssumption, Stamps
  <1>2. [title |-> 0, stamp |-> 0, archived |-> FALSE] \in Records
    BY <1>1 DEF Records
  <1>3. file \in [Paths -> Records \cup {NoRecord}]
    BY <1>2 DEF Init
  <1>4. /\ cache \in Records \cup {NoRecord} /\ path \in Paths \cup {"none"}
        /\ indexed \in PathLists
    BY <1>3, LoadedTyped DEF Init
  <1>5. live \in BOOLEAN /\ chain \in Seq(Writes)
    BY DEF Init
  <1>6. MemoryTypes
    <2>1. FlagTypes
      BY <1>5 DEF Init, FlagTypes
    <2>2. DataTypes
      BY <1>1, <1>3, <1>4, <1>5 DEF Init, DataTypes
    <2> QED BY <2>1, <2>2 DEF MemoryTypes
  <1>7. CallTypes
    <2>1. \A c \in Callers : call[c] = Idle
      BY DEF Init
    <2>2. \A c \in Callers : UpdateInv(c)
      BY <2>1 DEF UpdateInv, Idle
    <2>3. call \in [Callers -> Calls]
      BY CallsTyped DEF Init
    <2> QED BY <2>2, <2>3 DEF CallTypes
  <1> QED BY <1>6, <1>7 DEF TypeInv

\* A settled write leaves a chain of writes.
LEMMA SettleTyped ==
    ASSUME MemoryTypes, chain # <<>>
    PROVE  Tail(chain) \in Seq(Writes) /\ Head(chain) \in Writes /\ Head(chain).rec \in Records
  <1>1. Tail(chain) \in Seq(Writes) /\ Head(chain) \in Writes
    BY HeadTailProperties DEF MemoryTypes, DataTypes
  <1> QED BY <1>1 DEF Writes

\* The chain's steps leave the calls alone.
LEMMA ChainTypes == TypeInv /\ ChainStep => TypeInv'
  <1> SUFFICES ASSUME TypeInv, ChainStep PROVE DataTypes' /\ FlagTypes' /\ CallTypes'
    BY DEF TypeInv, MemoryTypes
  <1>1. MemoryTypes /\ DataTypes /\ FlagTypes /\ CallTypes
    BY DEF TypeInv, MemoryTypes
  <1>2. CallTypes'
    BY <1>1 DEF ChainStep, WriteStarts, FileWritten, OldFileRemoved, WriteFails, CallTypes, UpdateInv
  <1>7. FlagTypes'
    <2>1. UNCHANGED <<deleting, live, removed>>
          /\ (UNCHANGED <<rejected, doomed>> \/ WriteFails)
      BY DEF ChainStep, WriteStarts, FileWritten, OldFileRemoved, WriteFails
    <2>2. rejected' \in BOOLEAN /\ doomed' \in BOOLEAN
      BY <2>1, <1>1 DEF WriteFails, FlagTypes
    <2> QED BY <2>1, <2>2, <1>1 DEF FlagTypes
  <1>3. CASE WriteStarts
    <2>1. CASE deleting
      BY <1>1, <1>2, <1>7, <1>3, <2>1, SettleTyped DEF WriteStarts, Settle, DataTypes
    <2>2. CASE ~deleting
      BY <1>1, <1>2, <1>7, <1>3, <2>2 DEF WriteStarts, DataTypes
    <2> QED BY <2>1, <2>2
  <1>4. CASE FileWritten
    <2>1. indexed' \in PathLists
      <3>1. indexed \in PathLists
        BY <1>1 DEF DataTypes
      <3>2. CASE Contains(indexed, "project")
        BY <3>1, <3>2, <1>4 DEF FileWritten
      <3>3. CASE ~Contains(indexed, "project")
        <4>1. indexed \in {<<>>, <<"root">>}
          BY <3>1, <3>3, ContainsFacts DEF PathLists
        <4>2. indexed' = Append(indexed, "project")
          BY <3>3, <1>4 DEF FileWritten
        <4>3. indexed' \in {<<"project">>, <<"root", "project">>}
          <5>1. CASE indexed = <<>>
            BY <4>2, <5>1
          <5>2. CASE indexed = <<"root">>
            BY <4>2, <5>2, AppendProject
          <5> QED BY <4>1, <5>1, <5>2
        <4> QED BY <4>3 DEF PathLists
      <3> QED BY <3>2, <3>3
    <2>2. Head(chain).rec \in Records /\ Tail(chain) \in Seq(Writes)
      BY <1>1, <1>4, SettleTyped DEF FileWritten
    <2>3. CASE path = "root"
      BY <1>1, <1>2, <1>7, <1>4, <2>1, <2>2, <2>3 DEF FileWritten, DataTypes
    <2>4. CASE path # "root"
      <3>1. /\ cache' = Head(chain).rec /\ path' = "project" /\ chain' = Tail(chain)
            /\ stage' = "start" /\ settled' = settled + 1
            /\ file' = [file EXCEPT !["project"] = Head(chain).rec]
            /\ UNCHANGED <<queued, calls, crashes>>
        BY <1>4, <2>4 DEF FileWritten, Settle
      <3>2. DataTypes'
        <4>1. file' \in [Paths -> Records \cup {NoRecord}] /\ settled' \in Nat
          <5>1. file \in [Paths -> Records \cup {NoRecord}] /\ settled \in Nat
            BY <1>1 DEF DataTypes
          <5> QED BY <5>1, <2>2, <3>1 DEF Paths
        <4>2. chain' \in Seq(Writes) /\ cache' \in Records \cup {NoRecord}
              /\ path' \in Paths \cup {"none"} /\ stage' \in {"start", "writing", "moving"}
          BY <2>2, <3>1 DEF Paths
        <4>3. UNCHANGED <<queued, calls, crashes>> /\ queued \in Nat /\ calls \in Nat
              /\ crashes \in Nat /\ calls <= MaxCalls
          BY <1>1, <3>1 DEF DataTypes
        <4> QED BY <2>1, <4>1, <4>2, <4>3 DEF DataTypes
      <3> QED BY <1>2, <1>7, <3>2
    <2> QED BY <2>3, <2>4
  <1>5. CASE OldFileRemoved
    <2>1. indexed' \in PathLists
      BY <1>5 DEF OldFileRemoved, PathLists
    <2>2. Head(chain).rec \in Records /\ Tail(chain) \in Seq(Writes)
      BY <1>1, <1>5, SettleTyped DEF OldFileRemoved
    <2>3. file' \in [Paths -> Records \cup {NoRecord}]
      BY <1>1, <1>5 DEF OldFileRemoved, DataTypes
    <2> QED BY <1>1, <1>2, <1>7, <1>5, <2>1, <2>2, <2>3 DEF OldFileRemoved, Settle, DataTypes, Paths
  <1>6. CASE WriteFails
    <2>1. <<>> \in Seq(Writes)
      OBVIOUS
    <2> QED BY <1>1, <1>2, <1>7, <1>6, <2>1 DEF WriteFails, DataTypes
  <1> QED BY <1>2, <1>3, <1>4, <1>5, <1>6 DEF ChainStep

\* A step of one call.
Sound(op) ==
    /\ op \in Calls
    /\ op.kind = "idle" => op.pc = "idle"
    /\ op.pc = "waiting" => op.kind \notin Updates
    /\ op.pc = "read" /\ op.kind \in Updates => op.seen # NoRecord

LEMMA IdleSound == Sound(Idle)
  BY CallsTyped DEF Sound, Idle

LEMMA CallStepTypes ==
    ASSUME CallTypes, NEW c \in Callers, NEW op, Sound(op), call' = [call EXCEPT ![c] = op]
    PROVE  CallTypes'
  <1>1. call' \in [Callers -> Calls]
    BY DEF CallTypes, Sound
  <1>2. ASSUME NEW d \in Callers PROVE UpdateInv(d)'
    <2>1. CASE d = c
      <3>1. call'[d] = op
        BY <2>1 DEF CallTypes
      <3> QED BY <3>1 DEF UpdateInv, Sound
    <2>2. CASE d # c
      BY <2>2 DEF CallTypes, UpdateInv
    <2> QED BY <2>1, <2>2
  <1> QED BY <1>1, <1>2 DEF CallTypes

LEMMA StepTypes == TypeInv /\ [Next]_vars => TypeInv'
  <1> SUFFICES ASSUME TypeInv, [Next]_vars PROVE TypeInv'
    OBVIOUS
  <1> USE DEF memory
  <1>p. DataTypes /\ FlagTypes /\ CallTypes
    BY DEF TypeInv, MemoryTypes
  <1>t. call \in [Callers -> Calls] /\ \A c \in Callers : UpdateInv(c)
    BY <1>p DEF CallTypes
  <1>f. \A c \in Callers : /\ call[c] \in Calls /\ call[c].kind \in AllKinds \cup {"idle"}
                          /\ call[c].seen \in Records \cup {NoRecord}
                          /\ call[c].ticket \in Nat /\ call[c].paths \in PathLists
                          /\ call[c].n \in Stamps
    BY <1>t DEF Calls
  <1>0. MaxCalls \in Nat /\ \A m \in Nat : m < MaxCalls => m + 1 \in Stamps /\ m + 1 <= MaxCalls
    BY StorageAssumption DEF StorageAssumption, Stamps
  <1>1. CASE UNCHANGED vars
    BY <1>1, <1>p DEF TypeInv, vars, MemoryTypes, DataTypes, FlagTypes, CallTypes, UpdateInv
  <1>2. ASSUME NEW c \in Callers, NEW k \in Kinds, Snapshot(c, k) PROVE TypeInv'
    <2>1. k \in AllKinds /\ k \notin Updates /\ k # "idle"
      BY <1>2 DEF Snapshot, Snapshots, Updates, AllKinds
    <2>2. [Idle EXCEPT !.kind = k, !.pc = "waiting", !.ticket = queued, !.n = calls + 1] \in Calls
      BY <1>2, <1>p, <1>0, <2>1, CallsTyped DEF Snapshot, MayCall, Steps, DataTypes
    <2>3. MemoryTypes'
      <3>1. FlagTypes'
        BY <1>2, <1>p, <1>0 DEF Snapshot, MayCall, FlagTypes
      <3>2. DataTypes'
        BY <1>2, <1>p, <1>0 DEF Snapshot, MayCall, DataTypes
      <3> QED BY <3>1, <3>2 DEF MemoryTypes
    <2>4. CallTypes'
      <3>1. call' \in [Callers -> Calls]
        BY <1>2, <1>t, <2>2 DEF Snapshot
      <3>2. call'[c].pc = "waiting" /\ call'[c].kind = k /\ \A d \in Callers : d # c => call'[d] = call[d]
        BY <1>2, <1>t DEF Snapshot, Idle
      <3> QED BY <3>1, <3>2, <1>t, <2>1 DEF CallTypes, UpdateInv
    <2> QED BY <2>3, <2>4 DEF TypeInv
  <1>3. ASSUME NEW c \in Callers, NEW k \in Kinds, Update(c, k) PROVE TypeInv'
    <2>1. k \in AllKinds /\ k # "idle"
      BY <1>3 DEF Update, AllKinds, Updates
    <2>2. [Idle EXCEPT !.kind = k, !.pc = "read", !.seen = cache, !.n = calls + 1] \in Calls
      BY <1>3, <1>p, <1>0, <2>1, CallsTyped DEF Update, MayCall, Steps, DataTypes
    <2>3. MemoryTypes'
      <3>1. FlagTypes'
        BY <1>3, <1>p, <1>0 DEF Update, MayCall, FlagTypes
      <3>2. DataTypes'
        BY <1>3, <1>p, <1>0 DEF Update, MayCall, DataTypes
      <3> QED BY <3>1, <3>2 DEF MemoryTypes
    <2>4. CallTypes'
      <3>1. call' \in [Callers -> Calls]
        BY <1>3, <1>t, <2>2 DEF Update
      <3>2. call'[c].seen = cache /\ call'[c].pc = "read" /\ call'[c].kind = k
            /\ \A d \in Callers : d # c => call'[d] = call[d]
        BY <1>3, <1>t DEF Update, Idle
      <3> QED BY <3>1, <3>2, <2>1, <1>3, <1>t DEF CallTypes, UpdateInv, Update
    <2> QED BY <2>3, <2>4 DEF TypeInv
  <1>4. ASSUME NEW c \in Callers, BeginDelete(c) PROVE TypeInv'
    <2>1. [Idle EXCEPT !.kind = "remove", !.pc = "closing"] \in Calls
      BY CallsTyped DEF Steps, AllKinds
    <2>2. MemoryTypes'
      <3>1. FlagTypes'
        BY <1>4, <1>p, <1>0 DEF BeginDelete, MayCall, FlagTypes
      <3>2. DataTypes'
        BY <1>4, <1>p, <1>0 DEF BeginDelete, MayCall, DataTypes
      <3> QED BY <3>1, <3>2 DEF MemoryTypes
    <2>3. CallTypes'
      <3>1. call' \in [Callers -> Calls]
        BY <1>4, <1>t, <2>1 DEF BeginDelete
      <3>2. call'[c].pc = "closing" /\ call'[c].kind = "remove" /\ \A d \in Callers : d # c => call'[d] = call[d]
        BY <1>4, <1>t DEF BeginDelete, Idle
      <3> QED BY <3>1, <3>2, <1>t DEF CallTypes, UpdateInv
    <2> QED BY <2>2, <2>3 DEF TypeInv
  <1>5. ASSUME NEW c \in Callers, ReadExisting(c) PROVE TypeInv'
    <2>1. [call[c] EXCEPT !.pc = "read", !.seen = cache] \in Calls
      BY <1>f, <1>p, CallsTyped DEF Steps, DataTypes
    <2>2. call' = [call EXCEPT ![c] = [call[c] EXCEPT !.pc = "read", !.seen = cache]]
      BY <1>5, <1>t DEF ReadExisting
    <2>3. MemoryTypes'
      <3>1. FlagTypes'
        BY <1>5, <1>p DEF ReadExisting, FlagTypes
      <3>2. DataTypes'
        BY <1>5, <1>p DEF ReadExisting, DataTypes
      <3> QED BY <3>1, <3>2 DEF MemoryTypes
    <2>4. CallTypes'
      <3>1. call' \in [Callers -> Calls]
        BY <2>2, <2>1, <1>t
      <3>2. call[c].pc = "waiting"
        BY <1>5 DEF ReadExisting
      <3> QED BY <3>1, <3>2, <2>2, <1>t DEF CallTypes, UpdateInv
    <2> QED BY <2>3, <2>4 DEF TypeInv
  <1>6. ASSUME NEW c \in Callers, Upsert(c) PROVE TypeInv'
    <2>1. call[c].pc = "read" /\ [call[c] EXCEPT !.pc = "queued", !.ticket = queued + 1] \in Calls
      <3>1. queued + 1 \in Nat
        BY <1>p DEF DataTypes
      <3> QED BY <1>6, <3>1, <1>f, CallsTyped DEF Upsert, Steps
    <2>2. CASE rejected
      <3>1. call' = [call EXCEPT ![c] = Idle]
        BY <1>6, <2>2 DEF Upsert
      <3>2. MemoryTypes'
        <4>1. FlagTypes'
          BY <1>6, <2>2, <1>p DEF Upsert, FlagTypes
        <4>2. DataTypes'
          BY <1>6, <2>2, <1>p DEF Upsert, DataTypes
        <4> QED BY <4>1, <4>2 DEF MemoryTypes
      <3>3. CallTypes'
        BY <3>1, <1>t, CallsTyped DEF CallTypes, UpdateInv, Idle
      <3> QED BY <3>2, <3>3 DEF TypeInv
    <2>3. CASE ~rejected
      <3>1. call' = [call EXCEPT ![c] = [call[c] EXCEPT !.pc = "queued", !.ticket = queued + 1]]
        BY <1>6, <2>3, <1>t DEF Upsert
      <3>2. call[c].kind \in AllKinds
        BY <1>6, <1>f, <1>t DEF Upsert, UpdateInv
      <3>3. Built(call[c]) \in Records
        BY <2>1, <1>f, <1>t, <3>2, BuiltTyped DEF UpdateInv
      <3>4. [rec |-> Built(call[c]), kind |-> call[c].kind] \in Writes
        BY <3>2, <3>3 DEF Writes
      <3>7. Append(chain, [rec |-> Built(call[c]), kind |-> call[c].kind]) \in Seq(Writes)
        <4>1. chain \in Seq(Writes)
          BY <1>p DEF DataTypes
        <4> QED BY <3>4, <4>1, AppendProperties
      <3>5. MemoryTypes'
        <4>1. FlagTypes'
          BY <1>6, <2>3, <3>7, <1>p DEF Upsert, FlagTypes
        <4>2. DataTypes'
          <5>1. /\ chain' \in Seq(Writes) /\ queued' = queued + 1
                /\ UNCHANGED <<file, cache, path, indexed, stage, settled, calls, crashes>>
            BY <1>6, <2>3, <3>7 DEF Upsert
          <5> QED BY <5>1, <1>p DEF DataTypes
        <4> QED BY <4>1, <4>2 DEF MemoryTypes
      <3>6. CallTypes'
        BY <3>1, <2>1, <1>t DEF CallTypes, UpdateInv
      <3> QED BY <3>5, <3>6 DEF TypeInv
    <2> QED BY <2>2, <2>3
  <1>7. ASSUME NEW c \in Callers, Returns(c) PROVE TypeInv'
    <2> DEFINE next == [call[c] EXCEPT !.kind = "archive", !.pc = "read", !.seen = cache]
    <2>1. next \in Calls
      BY <1>f, <1>p, CallsTyped DEF Steps, DataTypes
    <2>2. MemoryTypes'
      <3>1. FlagTypes'
        BY <1>7, <1>p DEF Returns, FlagTypes
      <3>2. DataTypes'
        BY <1>7, <1>p DEF Returns, DataTypes
      <3> QED BY <3>1, <3>2 DEF MemoryTypes
    <2>3. \/ call' = [call EXCEPT ![c] = Idle]
          \/ call' = [call EXCEPT ![c] = next] /\ cache # NoRecord
      BY <1>7, <1>t DEF Returns
    <2>4. CallTypes'
      <3>1. cache # NoRecord => Sound(next)
        <4>1. next.kind = "archive" /\ next.pc = "read" /\ next.seen = cache
          BY <1>f DEF Calls
        <4> QED BY <2>1, <4>1 DEF Sound
      <3> QED BY <3>1, <2>3, <1>p, CallStepTypes, IdleSound
    <2> QED BY <2>2, <2>4 DEF TypeInv
  <1>8. ASSUME NEW c \in Callers, RemoveCalled(c) PROVE TypeInv'
    <2>1. [call[c] EXCEPT !.pc = "removing", !.ticket = queued] \in Calls
      BY <1>f, <1>p, CallsTyped DEF Steps, DataTypes
    <2>2. call' = [call EXCEPT ![c] = [call[c] EXCEPT !.pc = "removing", !.ticket = queued]]
      BY <1>8, <1>t DEF RemoveCalled
    <2>3. MemoryTypes'
      <3>1. FlagTypes'
        BY <1>8, <1>p DEF RemoveCalled, FlagTypes
      <3>2. DataTypes'
        BY <1>8, <1>p DEF RemoveCalled, DataTypes
      <3> QED BY <3>1, <3>2 DEF MemoryTypes
    <2>4. CallTypes'
      <3>1. Sound([call[c] EXCEPT !.pc = "removing", !.ticket = queued])
        <4>1. call[c].kind # "idle"
          BY <1>8, <1>f, <1>t DEF RemoveCalled, UpdateInv
        <4> QED BY <4>1, <2>1, <1>f DEF Sound, Calls
      <3> QED BY <3>1, <2>2, <1>p, CallStepTypes
    <2> QED BY <2>3, <2>4 DEF TypeInv
  <1>9. ASSUME NEW c \in Callers, RemoveLists(c) PROVE TypeInv'
    <2> DEFINE next == [call[c] EXCEPT !.pc = "unlinking", !.paths = indexed]
    <2>1. next \in Calls
      BY <1>f, <1>p, CallsTyped DEF Steps, DataTypes
    <2>2. call' = [call EXCEPT ![c] = next] \/ call' = [call EXCEPT ![c] = Idle]
      BY <1>9, <1>t DEF RemoveLists
    <2>3. MemoryTypes'
      <3>1. FlagTypes'
        BY <1>9, <1>p DEF RemoveLists, FlagTypes
      <3>2. DataTypes'
        BY <1>9, <1>p DEF RemoveLists, DataTypes
      <3> QED BY <3>1, <3>2 DEF MemoryTypes
    <2>4. CallTypes'
      <3>1. Sound(next)
        <4>1. call[c].kind # "idle"
          BY <1>9, <1>f, <1>t DEF RemoveLists, UpdateInv
        <4> QED BY <4>1, <2>1, <1>f DEF Sound, Calls
      <3> QED BY <3>1, <2>2, <1>p, CallStepTypes, IdleSound
    <2> QED BY <2>3, <2>4 DEF TypeInv
  <1>10. ASSUME NEW c \in Callers, Unlink(c) PROVE TypeInv'
    <2>1. Tail(call[c].paths) \in PathLists /\ Head(call[c].paths) \in Paths
      <3>1. call[c].paths \in PathLists /\ call[c].paths # <<>>
        BY <1>10, <1>f DEF Unlink
      <3> QED BY <3>1, PathListFacts
    <2>2. [call[c] EXCEPT !.paths = Tail(call[c].paths)] \in Calls
      BY <2>1, <1>f, CallsTyped
    <2>3. call' = [call EXCEPT ![c] = [call[c] EXCEPT !.paths = Tail(call[c].paths)]]
      BY <1>10, <1>t DEF Unlink
    <2>4. MemoryTypes'
      <3>1. FlagTypes'
        BY <1>10, <2>1, <1>p DEF Unlink, FlagTypes
      <3>2. DataTypes'
        BY <1>10, <2>1, <1>p DEF Unlink, DataTypes
      <3> QED BY <3>1, <3>2 DEF MemoryTypes
    <2>5. CallTypes'
      BY <2>2, <2>3, <1>t, <1>10 DEF CallTypes, UpdateInv, Unlink
    <2> QED BY <2>4, <2>5 DEF TypeInv
  <1>11. ASSUME NEW c \in Callers, RemoveEnds(c) PROVE TypeInv'
    <2>1. MemoryTypes'
      <3>1. FlagTypes'
        BY <1>11, <1>p DEF RemoveEnds, FlagTypes
      <3>2. DataTypes'
        BY <1>11, <1>p DEF RemoveEnds, DataTypes, PathLists
      <3> QED BY <3>1, <3>2 DEF MemoryTypes
    <2>2. CallTypes'
      BY <1>11, <1>t, CallsTyped DEF RemoveEnds, CallTypes, UpdateInv, Idle
    <2> QED BY <2>1, <2>2 DEF TypeInv
  <1>12. CASE Resume
    <2>1. MemoryTypes'
      <3>1. FlagTypes'
        BY <1>12, <1>p DEF Resume, FlagTypes
      <3>2. DataTypes'
        BY <1>12, <1>p, <1>0 DEF Resume, DataTypes
      <3> QED BY <3>1, <3>2 DEF MemoryTypes
    <2> QED BY <2>1, <1>12, <1>t DEF TypeInv, Resume, CallTypes, UpdateInv
  <1>13. CASE ChainStep
    BY <1>13, ChainTypes
  <1>14. CASE Restart
    <2>1. <<>> \in Seq(Writes)
      OBVIOUS
    <2>2. MemoryTypes'
      <3>1. FlagTypes'
        BY <1>14, <2>1, <1>p, LoadedTyped DEF Restart, FlagTypes
      <3>2. DataTypes'
        BY <1>14, <2>1, <1>p, LoadedTyped DEF Restart, DataTypes
      <3> QED BY <3>1, <3>2 DEF MemoryTypes
    <2>3. CallTypes'
      BY <1>14, CallsTyped DEF Restart, CallTypes, UpdateInv, Idle
    <2> QED BY <2>2, <2>3 DEF TypeInv
  <1> QED BY <1>1, <1>2, <1>3, <1>4, <1>5, <1>6, <1>7, <1>8, <1>9, <1>10, <1>11, <1>12,
             <1>13, <1>14 DEF Next, CallStep

\* The record, the index, the chain and the calls keep their types: no write of
\* agent-storage.ts is made of a record that is not there.
THEOREM StorageTypeOK == Spec => []TypeOK
  <1>1. Spec => []TypeInv
    BY InitTypes, StepTypes, PTL DEF Spec
  <1> QED BY <1>1, TypesOK, PTL

-----------------------------------------------------------------------------
(* The chain's counters *)
LEMMA ChainStepInv == TypeInv /\ ChainInv /\ [Next]_vars => ChainInv'
  <1> SUFFICES ASSUME TypeInv, ChainInv, [Next]_vars PROVE ChainInv'
    OBVIOUS
  <1> USE DEF memory
  <1>0. /\ queued \in Nat /\ settled \in Nat /\ chain \in Seq(Writes)
        /\ MemoryTypes /\ call \in [Callers -> Calls]
    BY DEF TypeInv, MemoryTypes, DataTypes, CallTypes
  <1>1. CASE UNCHANGED <<chain, stage, queued, settled, rejected>>
    BY <1>1 DEF ChainInv
  <1>2. ASSUME NEW c \in Callers, Upsert(c) PROVE ChainInv'
    <2>1. CASE rejected
      BY <1>1, <1>2, <2>1 DEF Upsert
    <2>2. CASE ~rejected
      <3>1. /\ chain' = Append(chain, [rec |-> Built(call[c]), kind |-> call[c].kind])
            /\ queued' = queued + 1 /\ UNCHANGED <<stage, settled, rejected>>
        BY <1>2, <2>2 DEF Upsert
      <3>2. Len(chain') = Len(chain) + 1 /\ chain' # <<>>
        BY <1>0, <3>1
      <3> QED BY <1>0, <2>2, <3>1, <3>2 DEF ChainInv
    <2> QED BY <2>1, <2>2
  <1>3. ASSUME chain # <<>>, Settle, UNCHANGED <<queued, rejected>> PROVE ChainInv'
    <2>1. Len(Tail(chain)) = Len(chain) - 1 /\ Len(chain) \in Nat /\ ~rejected
      BY <1>0, <1>3 DEF ChainInv
    <2>2. Len(chain) # 0
      BY <1>0, <1>3, EmptySeq
    <2> QED BY <1>0, <1>3, <2>1, <2>2 DEF Settle, ChainInv
  <1>4. CASE WriteStarts
    <2>1. CASE deleting
      BY <1>3, <1>4, <2>1 DEF WriteStarts
    <2>2. CASE ~deleting
      BY <1>4, <2>2 DEF WriteStarts, ChainInv
    <2> QED BY <2>1, <2>2
  <1>5. CASE FileWritten
    <2>1. CASE path = "root"
      BY <1>5, <2>1 DEF FileWritten, ChainInv
    <2>2. CASE path # "root"
      BY <1>3, <1>5, <2>2 DEF FileWritten
    <2> QED BY <2>1, <2>2
  <1>6. CASE OldFileRemoved
    BY <1>3, <1>6 DEF OldFileRemoved
  <1>7. CASE WriteFails
    BY <1>7 DEF WriteFails, ChainInv
  <1>8. CASE Restart
    <2>1. chain' = <<>> /\ stage' = "start" /\ queued' = 0 /\ settled' = 0 /\ rejected' = FALSE
      BY <1>8 DEF Restart
    <2> QED BY <2>1 DEF ChainInv
  <1>9. ASSUME NEW c \in Callers, NEW k \in Kinds, Snapshot(c, k) \/ Update(c, k) PROVE ChainInv'
    BY <1>1, <1>9 DEF Snapshot, Update
  <1>10. ASSUME NEW c \in Callers,
               ReadExisting(c) \/ Returns(c) \/ RemoveCalled(c) \/ RemoveLists(c)
               \/ Unlink(c) \/ RemoveEnds(c)
        PROVE  ChainInv'
    BY <1>1, <1>10 DEF ReadExisting, Returns, RemoveCalled, RemoveLists, Unlink, RemoveEnds
  <1>11. CASE UNCHANGED vars
    BY <1>1, <1>11 DEF vars
  <1>12. ASSUME NEW c \in Callers, BeginDelete(c) PROVE ChainInv'
    BY <1>1, <1>12 DEF BeginDelete
  <1>13. CASE Resume
    BY <1>1, <1>13 DEF Resume
  <1> QED BY <1>2, <1>4, <1>5, <1>6, <1>7, <1>8, <1>9, <1>10, <1>11, <1>12, <1>13
          DEF Next, CallStep, ChainStep

-----------------------------------------------------------------------------
(* Removals *)

\* While a call is removing files no write is under way.
LEMMA UnlinkingIsQuiet ==
    ASSUME DeletesInv, Unlinking
    PROVE  stage = "start" /\ deleting
  BY DEF DeletesInv, DeleteInv, Unlinking

\* What is left of a list once its first file is gone.
LEMMA TailOfList ==
    ASSUME NEW l \in Lists, l # <<>>
    PROVE  /\ Tail(l) \in Lists /\ Head(l) \in Paths
           /\ \A p : Contains(l, p) /\ p # Head(l) => Contains(Tail(l), p)
  <1>1. CASE l \in {<<"root">>, <<"project">>}
    <2>1. PICK q \in Paths : l = <<q>>
      BY <1>1 DEF Paths
    <2>2. Tail(l) = <<>> /\ Head(l) = q /\ \A p : Contains(l, p) => p = q
      BY <2>1, ContainsFacts
    <2> QED BY <2>2 DEF Lists
  <1>2. CASE l = Order
    <2>1. CASE LegacyLast
      <3>1. Tail(l) = <<"root">> /\ Head(l) = "project"
        BY <1>2, <2>1 DEF Order
      <3> QED BY <1>2, <2>1, <3>1, ContainsFacts DEF Order, Lists, Paths
    <2>2. CASE ~LegacyLast
      <3>1. Tail(l) = <<"project">> /\ Head(l) = "root"
        BY <1>2, <2>2 DEF Order
      <3> QED BY <1>2, <2>2, <3>1, ContainsFacts DEF Order, Lists, Paths
    <2> QED BY <2>1, <2>2
  <1> QED BY <1>1, <1>2 DEF Lists

LEMMA DeletesStep ==
    TypeInv /\ ChainInv /\ DeletesInv /\ FileInv /\ ~UnlinkMayFail /\ [Next]_vars => DeletesInv'
  <1> SUFFICES ASSUME TypeInv, ChainInv, DeletesInv, FileInv, ~UnlinkMayFail, [Next]_vars,
                      NEW d \in Callers
               PROVE  DeleteInv(d)'
    BY DEF DeletesInv
  <1> USE DEF memory
  <1>0. /\ queued \in Nat /\ settled \in Nat /\ chain \in Seq(Writes)
        /\ call \in [Callers -> Calls]
        /\ \A c \in Callers : DeleteInv(c) /\ UpdateInv(c) /\ call[c].ticket \in Nat
    BY DEF TypeInv, MemoryTypes, DataTypes, CallTypes, DeletesInv, Calls
  \* Nothing the invariant of d speaks of has changed.
  <1>1. ASSUME call'[d] = call[d], UNCHANGED <<file, stage, settled>>, deleting => deleting'
        PROVE  DeleteInv(d)'
    BY <1>0, <1>1 DEF DeleteInv
  \* d is in none of the steps of a removal.
  <1>2. ASSUME call'[d].pc \notin {"closing", "removing", "unlinking"} PROVE DeleteInv(d)'
    BY <1>2 DEF DeleteInv
  \* A write is settled or lost: the chain is at its start.
  <1>3. ASSUME call'[d] = call[d], UNCHANGED <<file, deleting>>, stage' = "start"
        PROVE  DeleteInv(d)'
    BY <1>0, <1>3 DEF DeleteInv
  <1>4. ASSUME NEW c \in Callers, NEW k \in Kinds, Snapshot(c, k) \/ Update(c, k) PROVE DeleteInv(d)'
    <2>1. CASE d = c
      BY <1>0, <1>2, <1>4, <2>1 DEF Snapshot, Update, Idle
    <2>2. CASE d # c
      BY <1>0, <1>1, <1>4, <2>2 DEF Snapshot, Update
    <2> QED BY <2>1, <2>2
  <1>5. ASSUME NEW c \in Callers, BeginDelete(c) PROVE DeleteInv(d)'
    <2>1. CASE d = c
      <3>1. call'[d].pc = "closing" /\ deleting' = TRUE
        BY <1>0, <1>5, <2>1 DEF BeginDelete, Idle
      <3> QED BY <3>1 DEF DeleteInv
    <2>2. CASE d # c
      BY <1>0, <1>1, <1>5, <2>2 DEF BeginDelete
    <2> QED BY <2>1, <2>2
  <1>6. ASSUME NEW c \in Callers, ReadExisting(c) \/ Upsert(c) \/ Returns(c) PROVE DeleteInv(d)'
    <2>1. CASE d = c
      <3>1. call'[d].pc \in {"read", "queued", "idle"}
        <4>1. CASE ReadExisting(c)
          BY <1>0, <2>1, <4>1 DEF ReadExisting, Calls
        <4>2. CASE Upsert(c)
          BY <1>0, <2>1, <4>2 DEF Upsert, Calls, Idle
        <4>3. CASE Returns(c)
          BY <1>0, <2>1, <4>3 DEF Returns, Calls, Idle
        <4> QED BY <1>6, <4>1, <4>2, <4>3
      <3> QED BY <1>2, <3>1
    <2>2. CASE d # c
      BY <1>0, <1>1, <1>6, <2>2 DEF ReadExisting, Upsert, Returns
    <2> QED BY <2>1, <2>2
  <1>7. ASSUME NEW c \in Callers, RemoveCalled(c) PROVE DeleteInv(d)'
    <2>1. CASE d = c
      <3>1. /\ call'[d].pc = "removing" /\ call'[d].ticket = queued
            /\ UNCHANGED <<deleting, stage, settled>> /\ deleting
        BY <1>0, <1>7, <2>1 DEF RemoveCalled, DeleteInv, Calls
      <3>2. stage # "start" => settled < queued
        <4>1. chain # <<>> => Len(chain) \in Nat /\ Len(chain) # 0
          BY <1>0, EmptySeq
        <4> QED BY <1>0, <4>1 DEF ChainInv
      <3> QED BY <3>1, <3>2 DEF DeleteInv
    <2>2. CASE d # c
      BY <1>0, <1>1, <1>7, <2>2 DEF RemoveCalled
    <2> QED BY <2>1, <2>2
  <1>8. ASSUME NEW c \in Callers, RemoveLists(c) PROVE DeleteInv(d)'
    <2>1. CASE d = c /\ settled >= call[c].ticket
      <3>1. /\ call'[d].pc = "unlinking" /\ call'[d].paths = indexed
            /\ UNCHANGED <<file, deleting, stage>>
        BY <1>0, <1>8, <2>1 DEF RemoveLists, Calls
      <3>2. stage = "start" /\ deleting
        BY <1>0, <1>8, <2>1 DEF RemoveLists, DeleteInv
      <3>3. indexed \in Lists /\ \A p \in Paths : file[p] # NoRecord => Contains(indexed, p)
        BY <3>2, ListedFacts DEF FileInv, SettledFiles, UnlinkedFiles
      <3> QED BY <3>1, <3>2, <3>3 DEF DeleteInv
    <2>2. CASE d = c /\ ~(settled >= call[c].ticket)
      BY <1>0, <1>2, <1>8, <2>2 DEF RemoveLists, Idle
    <2>3. CASE d # c
      BY <1>0, <1>1, <1>8, <2>3 DEF RemoveLists
    <2> QED BY <2>1, <2>2, <2>3
  <1>9. ASSUME NEW c \in Callers, Unlink(c) PROVE DeleteInv(d)'
    <2> DEFINE h == Head(call[c].paths)
    <2>1. /\ call[c].pc = "unlinking" /\ call[c].paths # <<>>
          /\ file' = [file EXCEPT ![h] = NoRecord]
          /\ UNCHANGED <<deleting, stage>>
      BY <1>9 DEF Unlink
    <2>2. /\ deleting /\ stage = "start" /\ call[c].paths \in Lists
          /\ \A p \in Paths : file[p] # NoRecord => Contains(call[c].paths, p)
      BY <1>0, <2>1 DEF DeleteInv
    <2>3. /\ Tail(call[c].paths) \in Lists /\ h \in Paths
          /\ \A p : Contains(call[c].paths, p) /\ p # h => Contains(Tail(call[c].paths), p)
      BY <2>1, <2>2, TailOfList
    <2>4. \A p \in Paths : file'[p] # NoRecord => file[p] # NoRecord /\ p # h
      <3>1. file \in [Paths -> Records \cup {NoRecord}]
        BY DEF TypeInv, MemoryTypes, DataTypes
      <3> QED BY <2>1, <2>3, <3>1
    <2>5. CASE d = c
      <3>1. call'[d].pc = "unlinking" /\ call'[d].paths = Tail(call[c].paths)
        BY <1>0, <1>9, <2>1, <2>5 DEF Unlink, Calls
      <3> QED BY <2>1, <2>2, <2>3, <2>4, <3>1 DEF DeleteInv
    <2>6. CASE d # c
      <3>1. call'[d] = call[d] /\ UNCHANGED settled
        BY <1>0, <1>9, <2>6 DEF Unlink
      <3> QED BY <1>0, <2>1, <2>4, <3>1 DEF DeleteInv
    <2> QED BY <2>5, <2>6
  <1>10. ASSUME NEW c \in Callers, RemoveEnds(c) PROVE DeleteInv(d)'
    <2>1. CASE d = c
      BY <1>0, <1>2, <1>10, <2>1 DEF RemoveEnds, Idle
    <2>2. CASE d # c
      BY <1>0, <1>1, <1>10, <2>2 DEF RemoveEnds
    <2> QED BY <2>1, <2>2
  <1>11. CASE Resume
    BY <1>1, <1>11 DEF Resume
  <1>12. CASE WriteStarts
    <2>1. CASE deleting
      BY <1>3, <1>12, <2>1 DEF WriteStarts, Settle
    <2>2. CASE ~deleting
      BY <1>0, <1>12, <2>2 DEF WriteStarts, DeleteInv
    <2> QED BY <2>1, <2>2
  <1>13. CASE FileWritten
    <2>1. call[d].pc # "unlinking" /\ UNCHANGED <<deleting, call>>
      BY <1>0, <1>13 DEF FileWritten, DeleteInv
    <2>2. CASE path = "root"
      <3>1. stage' = "moving" /\ UNCHANGED settled /\ stage # "start"
        BY <1>13, <2>2 DEF FileWritten
      <3> QED BY <1>0, <2>1, <3>1 DEF DeleteInv
    <2>3. CASE path # "root"
      <3>1. stage' = "start"
        BY <1>13, <2>3 DEF FileWritten, Settle
      <3> QED BY <1>0, <2>1, <3>1 DEF DeleteInv
    <2> QED BY <2>2, <2>3
  <1>14. CASE OldFileRemoved
    <2>1. call[d].pc # "unlinking" /\ UNCHANGED <<deleting, call>> /\ stage' = "start"
      BY <1>0, <1>14 DEF OldFileRemoved, Settle, DeleteInv
    <2> QED BY <1>0, <2>1 DEF DeleteInv
  <1>15. CASE WriteFails
    BY <1>3, <1>15 DEF WriteFails
  <1>16. CASE Restart
    BY <1>2, <1>16 DEF Restart, Idle
  <1>17. CASE UNCHANGED vars
    BY <1>1, <1>17 DEF vars
  <1> QED BY <1>4, <1>5, <1>6, <1>7, <1>8, <1>9, <1>10, <1>11, <1>12, <1>13, <1>14, <1>15,
             <1>16, <1>17 DEF Next, CallStep, ChainStep

-----------------------------------------------------------------------------
(* The files, the index and the cache *)
LEMMA FileStep ==
    TypeInv /\ ChainInv /\ DeletesInv /\ FileInv /\ ~UnlinkMayFail /\ [Next]_vars => FileInv'
  <1> SUFFICES ASSUME TypeInv, ChainInv, DeletesInv, FileInv, ~UnlinkMayFail, [Next]_vars
               PROVE  FileInv'
    OBVIOUS
  <1> USE DEF memory
  <1>0. /\ MemoryTypes /\ chain \in Seq(Writes) /\ file \in [Paths -> Records \cup {NoRecord}]
        /\ call \in [Callers -> Calls]
        /\ \A c \in Callers : DeleteInv(c)
        /\ LegacyLast \in BOOLEAN
    BY StorageAssumption DEF StorageAssumption, TypeInv, MemoryTypes, DataTypes, CallTypes, DeletesInv
  \* Files and index stand; removals go on or start.
  <1>1. ASSUME UNCHANGED <<file, cache, path, indexed, stage>>,
               stage = "moving" => Head(chain') = Head(chain),
               Unlinking => Unlinking', Unlinking' => Unlinking \/ stage # "moving"
        PROVE  FileInv'
    <2>1. SettledFiles' /\ MovingFiles'
      BY <1>1 DEF FileInv, SettledFiles, MovingFiles
    <2>2. ASSUME Unlinking', ~Unlinking PROVE UnlinkedFiles'
      <3>1. indexed = Listed(file)
        BY <1>1, <2>2 DEF FileInv, SettledFiles
      <3> QED BY <1>1, <3>1, ListedFacts DEF UnlinkedFiles
    <2>3. UnlinkedFiles'
      <3>1. CASE ~Unlinking'
        BY <3>1 DEF UnlinkedFiles
      <3>2. CASE Unlinking
        BY <1>1, <3>2 DEF FileInv, UnlinkedFiles
      <3> QED BY <2>2, <3>1, <3>2
    <2> QED BY <2>1, <2>3 DEF FileInv
  \* One call moves, and it removes no file before or after.
  <1>2. ASSUME NEW c \in Callers, call[c].pc # "unlinking", call'[c].pc # "unlinking",
               \A d \in Callers : d # c => call'[d] = call[d]
        PROVE  (Unlinking => Unlinking') /\ (Unlinking' => Unlinking)
    BY <1>2 DEF Unlinking
  \* No removal, and a write that has reached no file.
  <1>3. ASSUME UNCHANGED <<file, cache, path, indexed, call>>, stage # "moving", stage' # "moving"
        PROVE  FileInv'
    BY <1>3 DEF FileInv, SettledFiles, MovingFiles, UnlinkedFiles, Unlinking
  <1>4. ASSUME NEW c \in Callers, NEW k \in Kinds, Snapshot(c, k) \/ Update(c, k) PROVE FileInv'
    <2>1. /\ call[c].pc # "unlinking" /\ call'[c].pc # "unlinking"
          /\ \A d \in Callers : d # c => call'[d] = call[d]
          /\ UNCHANGED <<file, cache, path, indexed, stage, chain>>
      BY <1>0, <1>4 DEF Snapshot, Update, MayCall, Idle
    <2> QED BY <1>1, <1>2, <2>1
  <1>5. ASSUME NEW c \in Callers, BeginDelete(c) \/ ReadExisting(c) \/ Returns(c) \/ RemoveCalled(c)
        PROVE  FileInv'
    <2>1. call[c].pc # "unlinking" /\ call'[c].pc # "unlinking"
      <3>1. CASE BeginDelete(c)
        BY <1>0, <3>1 DEF BeginDelete, MayCall, Idle
      <3>2. CASE ReadExisting(c)
        BY <1>0, <3>2 DEF ReadExisting, Calls
      <3>3. CASE Returns(c)
        BY <1>0, <3>3 DEF Returns, Calls, Idle
      <3>4. CASE RemoveCalled(c)
        BY <1>0, <3>4 DEF RemoveCalled, Calls
      <3> QED BY <1>5, <3>1, <3>2, <3>3, <3>4
    <2>2. /\ \A d \in Callers : d # c => call'[d] = call[d]
          /\ UNCHANGED <<file, cache, path, indexed, stage, chain>>
      BY <1>0, <1>5 DEF BeginDelete, ReadExisting, Returns, RemoveCalled
    <2> QED BY <1>1, <1>2, <2>1, <2>2
  <1>6. ASSUME NEW c \in Callers, Upsert(c) PROVE FileInv'
    <2>1. /\ call[c].pc # "unlinking" /\ call'[c].pc # "unlinking"
          /\ \A d \in Callers : d # c => call'[d] = call[d]
          /\ UNCHANGED <<file, cache, path, indexed, stage>>
      BY <1>0, <1>6 DEF Upsert, Calls, Idle
    <2>2. stage = "moving" => Head(chain') = Head(chain)
      <3>1. CASE rejected
        BY <1>6, <3>1 DEF Upsert
      <3>2. CASE ~rejected
        <4> DEFINE w == [rec |-> Built(call[c]), kind |-> call[c].kind]
        <4>1. chain' = Append(chain, w)
          BY <1>6, <3>2 DEF Upsert
        <4>2. stage = "moving" => chain # <<>>
          BY DEF ChainInv
        <4>3. chain # <<>> => 1 <= Len(chain) /\ Len(chain) \in Nat
          BY <1>0, EmptySeq
        <4> QED BY <1>0, <4>1, <4>2, <4>3
      <3> QED BY <3>1, <3>2
    <2> QED BY <1>1, <1>2, <2>1, <2>2
  <1>7. ASSUME NEW c \in Callers, RemoveLists(c) PROVE FileInv'
    <2>1. /\ call[c].pc = "removing"
          /\ \A d \in Callers : d # c => call'[d] = call[d]
          /\ UNCHANGED <<file, cache, path, indexed, stage, chain, settled>>
      BY <1>0, <1>7 DEF RemoveLists
    <2>2. Unlinking => Unlinking'
      BY <2>1 DEF Unlinking
    <2>3. CASE settled >= call[c].ticket
      <3>1. stage # "moving"
        <4>1. settled \in Nat /\ call[c].ticket \in Nat
          BY <1>0 DEF MemoryTypes, DataTypes, Calls
        <4> QED BY <1>0, <2>1, <2>3, <4>1 DEF DeleteInv
      <3> QED BY <1>1, <2>1, <2>2, <3>1
    <2>4. CASE ~(settled >= call[c].ticket)
      <3>1. call'[c].pc # "unlinking"
        BY <1>0, <1>7, <2>4 DEF RemoveLists, Idle
      <3> QED BY <1>1, <1>2, <2>1, <3>1
    <2> QED BY <2>3, <2>4
  <1>8. ASSUME NEW c \in Callers, Unlink(c) PROVE FileInv'
    <2>1. /\ call[c].pc = "unlinking" /\ call[c].paths # <<>>
          /\ file' = [file EXCEPT ![Head(call[c].paths)] = NoRecord]
          /\ UNCHANGED <<indexed, stage>>
      BY <1>8 DEF Unlink
    <2>2. call'[c].pc = "unlinking"
      BY <1>0, <1>8, <2>1 DEF Unlink, Calls
    <2>3. stage = "start" /\ Unlinking /\ Unlinking'
      BY <1>0, <2>1, <2>2 DEF DeleteInv, Unlinking
    <2>4. \A p \in Paths : file'[p] # NoRecord => file[p] # NoRecord
      BY <1>0, <2>1
    <2>5. indexed \in Lists /\ \A p \in Paths : file[p] # NoRecord => Contains(indexed, p)
      BY <2>3 DEF FileInv, UnlinkedFiles
    <2>6. UnlinkedFiles'
      BY <2>1, <2>4, <2>5 DEF UnlinkedFiles
    <2> QED BY <2>1, <2>3, <2>6 DEF FileInv, SettledFiles, MovingFiles
  <1>9. ASSUME NEW c \in Callers, RemoveEnds(c) PROVE FileInv'
    <2>1. NoFile /\ stage = "start"
      <3>1. call[c].pc = "unlinking" /\ call[c].paths = <<>>
        BY <1>9 DEF RemoveEnds
      <3> QED BY <1>0, <3>1, ContainsFacts DEF DeleteInv, NoFile
    <2>2. /\ file' = file /\ stage' = stage
          /\ cache' = NoRecord /\ path' = "none" /\ indexed' = <<>>
      BY <1>9 DEF RemoveEnds
    <2>3. Listed(file) = <<>> /\ LoadedPath(file) = "none" /\ Loaded(file) = NoRecord
      BY <2>1, ListedFacts DEF NoFile, Paths, Listed
    <2>4. SettledFiles' /\ MovingFiles'
      BY <2>1, <2>2, <2>3 DEF SettledFiles, MovingFiles
    <2>5. UnlinkedFiles'
      BY <2>1, <2>2 DEF UnlinkedFiles, NoFile, Lists
    <2> QED BY <2>4, <2>5 DEF FileInv
  <1>10. CASE Resume
    BY <1>1, <1>10 DEF Resume, Unlinking
  <1>11. CASE WriteStarts \/ WriteFails
    <2>1. /\ UNCHANGED <<file, cache, path, indexed, call>> /\ stage # "moving" /\ stage' # "moving"
      BY <1>11 DEF WriteStarts, WriteFails, Settle
    <2> QED BY <1>3, <2>1
  <1>12. CASE FileWritten
    <2> DEFINE r == Head(chain).rec
    <2>1. /\ chain # <<>> /\ stage = "writing" /\ ~Unlinking
          /\ file' = [file EXCEPT !["project"] = r]
          /\ indexed' = IF Contains(indexed, "project") THEN indexed ELSE Append(indexed, "project")
          /\ UNCHANGED call
      BY <1>12, UnlinkingIsQuiet DEF FileWritten
    <2>2. /\ ~Unlinking'
          /\ indexed = Listed(file) /\ path = LoadedPath(file) /\ cache = Loaded(file)
      BY <2>1 DEF FileInv, SettledFiles, Unlinking
    <2>3. r # NoRecord
      BY <1>0, <2>1, SettleTyped, NoRecordIsNone
    <2>4. file'["project"] = r /\ file'["root"] = file["root"]
      BY <1>0, <2>1 DEF Paths
    <2>5. CASE path = "root"
      <3>1. stage' = "moving" /\ UNCHANGED <<cache, path, chain>>
        BY <1>12, <2>5 DEF FileWritten
      <3>2. file["root"] # NoRecord /\ cache = file["root"]
        BY <2>2, <2>5, ListedFacts
      <3>3. Contains(indexed', "project") /\ Contains(indexed', "root")
        <4>1. CASE file["project"] = NoRecord
          <5>1. indexed = <<"root">>
            BY <2>2, <3>2, <4>1 DEF Listed
          <5>2. indexed' = <<"root", "project">>
            BY <2>1, <5>1, ContainsFacts, AppendProject
          <5> QED BY <5>2, ContainsFacts
        <4>2. CASE file["project"] # NoRecord
          BY <2>1, <2>2, <3>2, <4>2, ListedFacts DEF Paths
        <4> QED BY <4>1, <4>2
      <3>4. MovingFiles'
        BY <2>4, <2>5, <3>1, <3>2, <3>3 DEF MovingFiles
      <3> QED BY <2>2, <3>1, <3>4 DEF FileInv, SettledFiles, UnlinkedFiles
    <2>6. CASE path # "root"
      <3>1. cache' = r /\ path' = "project" /\ stage' = "start"
        BY <1>12, <2>6 DEF FileWritten, Settle
      <3>2. CASE file["root"] = NoRecord
        <4>1. indexed = <<>> \/ indexed = <<"project">>
          BY <2>2, <3>2 DEF Listed
        <4>2. indexed' = <<"project">>
          <5>1. CASE indexed = <<>>
            BY <2>1, <5>1, ContainsFacts, AppendProject
          <5>2. CASE indexed = <<"project">>
            BY <2>1, <5>2, ContainsFacts
          <5> QED BY <4>1, <5>1, <5>2
        <4>3. Listed(file') = <<"project">>
          BY <2>3, <2>4, <3>2 DEF Listed
        <4>4. LoadedPath(file') = "project" /\ Loaded(file') = r
          BY <2>3, <2>4, <3>2, ListedFacts
        <4> QED BY <2>2, <3>1, <4>2, <4>3, <4>4 DEF FileInv, SettledFiles, MovingFiles, UnlinkedFiles
      <3>3. CASE file["root"] # NoRecord
        <4>1. file["project"] # NoRecord /\ ~LegacyLast
          BY <2>2, <2>6, <3>3, ListedFacts
        <4>2. indexed = <<"root", "project">> /\ indexed' = indexed
          BY <2>1, <2>2, <3>3, <4>1, ContainsFacts DEF Listed
        <4>3. Listed(file') = <<"root", "project">>
          BY <2>3, <2>4, <3>3, <4>1 DEF Listed
        <4>4. LoadedPath(file') = "project" /\ Loaded(file') = r
          BY <2>3, <2>4, <3>3, <4>1, ListedFacts
        <4> QED BY <2>2, <3>1, <4>2, <4>3, <4>4 DEF FileInv, SettledFiles, MovingFiles, UnlinkedFiles
      <3> QED BY <3>2, <3>3
    <2> QED BY <2>5, <2>6
  <1>13. CASE OldFileRemoved
    <2> DEFINE r == Head(chain).rec
    <2>1. /\ chain # <<>> /\ stage = "moving" /\ ~Unlinking
          /\ file' = [file EXCEPT !["root"] = NoRecord]
          /\ cache' = r /\ path' = "project" /\ stage' = "start"
          /\ UNCHANGED call
      BY <1>13, UnlinkingIsQuiet DEF OldFileRemoved, Settle
    <2>2. file["project"] = r /\ Contains(indexed, "project") /\ r # NoRecord
      BY <1>0, <2>1, SettleTyped, NoRecordIsNone DEF FileInv, MovingFiles
    <2>3. file'["project"] = r /\ file'["root"] = NoRecord
      BY <1>0, <2>1, <2>2 DEF Paths
    <2>4. indexed' = <<"project">> /\ Listed(file') = <<"project">>
      BY <1>13, <2>2, <2>3 DEF OldFileRemoved, Listed
    <2>5. LoadedPath(file') = "project" /\ Loaded(file') = r
      BY <2>2, <2>3, ListedFacts
    <2> QED BY <2>1, <2>4, <2>5 DEF FileInv, SettledFiles, MovingFiles, UnlinkedFiles, Unlinking
  <1>14. CASE Restart
    <2>1. /\ file' = file /\ cache' = Loaded(file) /\ path' = LoadedPath(file)
          /\ indexed' = Listed(file) /\ stage' = "start"
      BY <1>14 DEF Restart
    <2>2. ~Unlinking'
      BY <1>14 DEF Restart, Unlinking, Idle
    <2> QED BY <2>1, <2>2 DEF FileInv, SettledFiles, MovingFiles, UnlinkedFiles
  <1>15. CASE UNCHANGED vars
    BY <1>1, <1>15 DEF vars, Unlinking
  <1> QED BY <1>4, <1>5, <1>6, <1>7, <1>8, <1>9, <1>10, <1>11, <1>12, <1>13, <1>14, <1>15
          DEF Next, CallStep, ChainStep

-----------------------------------------------------------------------------
(* After a removal *)
LEMMA RemovedStep ==
    TypeInv /\ ChainInv /\ DeletesInv /\ RemovedInv /\ [Next]_vars => RemovedInv'
  <1> SUFFICES ASSUME TypeInv, ChainInv, DeletesInv, RemovedInv, [Next]_vars, removed'
               PROVE  RemovedInv'
    BY DEF RemovedInv
  <1> USE DEF memory
  <1> DEFINE Calm == \A c \in Callers : call[c].pc \notin {"waiting", "read", "queued"}
  <1>0. /\ file \in [Paths -> Records \cup {NoRecord}] /\ call \in [Callers -> Calls]
        /\ \A c \in Callers : DeleteInv(c)
    BY DEF TypeInv, MemoryTypes, DataTypes, CallTypes, DeletesInv
  <1>1. ASSUME NEW c \in Callers, RemoveEnds(c) PROVE RemovedInv'
    <2>1. NoFile /\ stage = "start" /\ deleting
      <3>1. call[c].pc = "unlinking" /\ call[c].paths = <<>>
        BY <1>1 DEF RemoveEnds
      <3> QED BY <1>0, <3>1, ContainsFacts DEF DeleteInv, NoFile
    <2> QED BY <1>1, <2>1 DEF RemoveEnds, RemovedInv, NoFile
  <1>2. removed \/ \E c \in Callers : RemoveEnds(c)
    <2> SUFFICES ASSUME ~removed, \A c \in Callers : ~RemoveEnds(c) PROVE FALSE
      OBVIOUS
    <2> QED BY DEF Next, CallStep, ChainStep, Snapshot, Update, BeginDelete, ReadExisting, Upsert,
          Returns, RemoveCalled, RemoveLists, Unlink, Resume, WriteStarts, FileWritten,
          OldFileRemoved, WriteFails, Restart, vars
  <1>3. CASE removed
    <2>1. /\ NoFile /\ cache = NoRecord /\ stage = "start"
          /\ deleting \/ (~live /\ chain = <<>> /\ Calm)
      BY <1>3 DEF RemovedInv
    \* A step that leaves the files, the cache and the chain, in a deletion.
    <2>2. ASSUME UNCHANGED <<file, cache, stage>>, deleting' PROVE RemovedInv'
      BY <2>1, <2>2 DEF RemovedInv, NoFile
    <2>3. ASSUME UNCHANGED <<file, cache, stage, deleting, chain>>, live' => live, Calm => Calm'
          PROVE  RemovedInv'
      BY <2>1, <2>3 DEF RemovedInv, NoFile
    <2>4. ASSUME NEW c \in Callers, NEW k \in Kinds, Snapshot(c, k) PROVE RemovedInv'
      BY <2>1, <2>2, <2>4 DEF Snapshot
    <2>5. ASSUME NEW c \in Callers, NEW k \in Kinds PROVE ~Update(c, k)
      BY <2>1 DEF Update
    <2>6. ASSUME NEW c \in Callers, BeginDelete(c) PROVE RemovedInv'
      BY <2>2, <2>6 DEF BeginDelete
    <2>7. ASSUME NEW c \in Callers, ReadExisting(c) PROVE RemovedInv'
      BY <2>1, <2>2, <2>7 DEF ReadExisting
    <2>8. ASSUME NEW c \in Callers, Upsert(c) PROVE RemovedInv'
      <3>1. deleting /\ UNCHANGED <<file, cache, stage, deleting>>
        BY <2>1, <2>8 DEF Upsert
      <3> QED BY <2>2, <3>1
    <2>9. ASSUME NEW c \in Callers, Returns(c) PROVE RemovedInv'
      BY <2>1, <2>2, <2>9 DEF Returns
    <2>10. ASSUME NEW c \in Callers, RemoveCalled(c) PROVE RemovedInv'
      <3>1. call' = [call EXCEPT ![c] = [call[c] EXCEPT !.pc = "removing", !.ticket = queued]]
            /\ UNCHANGED <<file, cache, stage, deleting, chain>> /\ ~live'
        BY <1>0, <2>10 DEF RemoveCalled
      <3>2. Calm => Calm'
        BY <1>0, <3>1 DEF Calls
      <3> QED BY <2>3, <3>1, <3>2
    <2>11. ASSUME NEW c \in Callers, RemoveLists(c) PROVE RemovedInv'
      <3>1. /\ \/ call' = [call EXCEPT ![c] = [call[c] EXCEPT !.pc = "unlinking", !.paths = indexed]]
               \/ call' = [call EXCEPT ![c] = Idle]
            /\ UNCHANGED <<file, cache, stage, deleting, chain, live>>
        BY <1>0, <2>11 DEF RemoveLists
      <3>2. call'[c].pc \in {"unlinking", "idle"} /\ \A d \in Callers : d # c => call'[d] = call[d]
        <4>1. CASE call' = [call EXCEPT ![c] = Idle]
          BY <1>0, <4>1 DEF Idle
        <4>2. CASE call' = [call EXCEPT ![c] = [call[c] EXCEPT !.pc = "unlinking", !.paths = indexed]]
          BY <1>0, <4>2 DEF Calls
        <4> QED BY <3>1, <4>1, <4>2
      <3>3. Calm => Calm'
        BY <3>2
      <3> QED BY <2>3, <3>1, <3>3
    <2>12. ASSUME NEW c \in Callers, Unlink(c) PROVE RemovedInv'
      <3>1. deleting
        BY <1>0, <2>12 DEF Unlink, DeleteInv
      <3>2. NoFile'
        <4>1. \/ file' = [file EXCEPT ![Head(call[c].paths)] = NoRecord]
              \/ file' = file
          BY <2>12 DEF Unlink
        <4> QED BY <1>0, <2>1, <4>1 DEF NoFile
      <3>3. UNCHANGED <<cache, stage, deleting>>
        BY <2>12 DEF Unlink
      <3> QED BY <2>1, <3>1, <3>2, <3>3 DEF RemovedInv
    <2>13. ~Resume
      BY <2>1 DEF Resume
    <2>14. CASE WriteStarts
      <3>1. deleting
        BY <2>1, <2>14 DEF WriteStarts
      <3>2. UNCHANGED <<file, cache, stage, deleting>>
        BY <2>1, <2>14, <3>1 DEF WriteStarts, Settle
      <3> QED BY <2>2, <3>1, <3>2
    <2>15. ~FileWritten /\ ~OldFileRemoved /\ ~WriteFails
      BY <2>1 DEF FileWritten, OldFileRemoved, WriteFails
    <2>16. CASE Restart
      <3>1. Loaded(file) = NoRecord
        BY <2>1, ListedFacts DEF NoFile, Paths
      <3>2. Calm'
        BY <2>16 DEF Restart, Idle
      <3> QED BY <2>1, <2>16, <3>1, <3>2 DEF Restart, RemovedInv, NoFile
    <2>17. CASE UNCHANGED vars
      BY <2>3, <2>17 DEF vars
    <2> QED BY <1>1, <2>4, <2>5, <2>6, <2>7, <2>8, <2>9, <2>10, <2>11, <2>12, <2>13, <2>14, <2>15,
               <2>16, <2>17 DEF Next, CallStep, ChainStep
  <1> QED BY <1>1, <1>2, <1>3

-----------------------------------------------------------------------------
(* The invariant *)
LEMMA InitInv == Init => Inv
  <1> SUFFICES ASSUME Init PROVE Inv
    OBVIOUS
  <1>1. TypeInv
    BY InitTypes
  <1>2. /\ cache = Loaded(file) /\ path = LoadedPath(file) /\ indexed = Listed(file)
        /\ deleting = FALSE /\ chain = <<>> /\ stage = "start"
        /\ queued = 0 /\ settled = 0 /\ rejected = FALSE /\ removed = FALSE
        /\ \A c \in Callers : call[c] = Idle
    BY DEF Init
  <1>3. ~Unlinking
    BY <1>2 DEF Unlinking, Idle
  <1>4. ChainInv /\ RemovedInv
    BY <1>2 DEF ChainInv, RemovedInv
  <1>5. DeletesInv
    BY <1>2 DEF DeletesInv, DeleteInv, Idle
  <1>6. FileInv
    BY <1>2, <1>3 DEF FileInv, SettledFiles, MovingFiles, UnlinkedFiles
  <1> QED BY <1>1, <1>4, <1>5, <1>6 DEF Inv

LEMMA StepInv == Inv /\ ~UnlinkMayFail /\ [Next]_vars => Inv'
  BY StepTypes, ChainStepInv, DeletesStep, FileStep, RemovedStep DEF Inv

THEOREM StorageInv ==
    ASSUME ~UnlinkMayFail
    PROVE  Spec => []Inv
  BY InitInv, StepInv, PTL DEF Spec

\* When no write is moving the file and no removal is under way, the record
\* that AgentStorage hands out is the one a restart would read from the disk.
THEOREM StorageCacheIsDurable ==
    ASSUME ~UnlinkMayFail
    PROVE  Spec => []CacheIsDurable
  <1>1. Inv => CacheIsDurable
    BY DEF Inv, FileInv, SettledFiles, Unlinking, CacheIsDurable
  <1> QED BY <1>1, StorageInv, PTL

\* Every file of the record is in pathsById, so that remove() deletes it.
THEOREM StorageFilesAreIndexed ==
    ASSUME ~UnlinkMayFail
    PROVE  Spec => []FilesAreIndexed
  <1>1. Inv => FilesAreIndexed
    <2> SUFFICES ASSUME Inv, ~Unlinking, NEW p \in Paths, file[p] # NoRecord
                 PROVE  Contains(indexed, p)
      BY DEF FilesAreIndexed, Unlinking
    <2>1. CASE stage = "moving"
      BY <2>1 DEF Inv, FileInv, MovingFiles, Paths
    <2>2. CASE stage # "moving"
      BY <2>2, ListedFacts DEF Inv, FileInv, SettledFiles
    <2> QED BY <2>1, <2>2
  <1> QED BY <1>1, StorageInv, PTL

-----------------------------------------------------------------------------
(* The storage implements RecordStore *)

\* What upsert puts on the chain.
LEMMA CallBuilds ==
    ASSUME TypeInv, NEW c \in Callers, call[c].pc = "read"
    PROVE  [rec |-> Built(call[c]), kind |-> call[c].kind] \in Writes
           /\ [rec |-> Built(call[c]), kind |-> call[c].kind].rec \in Records
  <1>1. call[c] \in Calls /\ UpdateInv(c)
    BY DEF TypeInv, CallTypes
  <1>2. call[c].kind \in AllKinds /\ call[c].n \in Stamps /\ call[c].seen \in Records \cup {NoRecord}
    BY <1>1 DEF Calls, UpdateInv
  <1>3. Built(call[c]) \in Records
    BY <1>1, <1>2, BuiltTyped DEF UpdateInv
  <1> QED BY <1>2, <1>3 DEF Writes

LEMMA TailAppend ==
    ASSUME NEW s \in Seq(Writes), s # <<>>, NEW w \in Writes
    PROVE  Tail(Append(s, w)) = Append(Tail(s), w)
  <1>1. Len(s) \in Nat /\ Len(s) >= 1
    BY EmptySeq
  <1>2. /\ Append(s, w) \in Seq(Writes) /\ Append(s, w) # <<>> /\ Len(Append(s, w)) = Len(s) + 1
        /\ \A i \in 1..Len(s) : Append(s, w)[i] = s[i]
        /\ Append(s, w)[Len(s) + 1] = w
    BY AppendProperties
  <1>3. /\ Tail(Append(s, w)) \in Seq(Writes) /\ Len(Tail(Append(s, w))) = Len(s)
        /\ \A i \in 1..Len(s) : Tail(Append(s, w))[i] = Append(s, w)[i + 1]
    BY <1>1, <1>2, HeadTailProperties
  <1>4. /\ Tail(s) \in Seq(Writes) /\ Len(Tail(s)) = Len(s) - 1
        /\ \A i \in 1..(Len(s) - 1) : Tail(s)[i] = s[i + 1]
    BY HeadTailProperties
  <1>5. /\ Append(Tail(s), w) \in Seq(Writes) /\ Len(Append(Tail(s), w)) = Len(s)
        /\ \A i \in 1..(Len(s) - 1) : Append(Tail(s), w)[i] = Tail(s)[i]
        /\ Append(Tail(s), w)[Len(s)] = w
    BY <1>1, <1>4, AppendProperties
  <1>6. \A i \in 1..Len(s) : Tail(Append(s, w))[i] = Append(Tail(s), w)[i]
    <2> TAKE i \in 1..Len(s)
    <2>1. CASE i = Len(s)
      BY <1>1, <1>2, <1>3, <1>5, <2>1
    <2>2. CASE i # Len(s)
      <3>1. i \in 1..(Len(s) - 1) /\ i + 1 \in 1..Len(s)
        BY <1>1, <2>2
      <3>2. Tail(Append(s, w))[i] = Append(s, w)[i + 1] /\ Append(s, w)[i + 1] = s[i + 1]
        BY <1>2, <1>3, <3>1
      <3>3. Append(Tail(s), w)[i] = s[i + 1]
        BY <1>4, <1>5, <3>1
      <3> QED BY <3>2, <3>3
    <2> QED BY <2>1, <2>2
  <1> QED BY <1>3, <1>5, <1>6, SeqEqual

\* The records of a chain of writes.
LEMMA RecsFacts ==
    /\ Recs(<<>>) = <<>>
    /\ \A s \in Seq(Writes), w \in Writes : Recs(Append(s, w)) = Append(Recs(s), w.rec)
    /\ \A s \in Seq(Writes) : s # <<>> =>
         Recs(s) # <<>> /\ Head(Recs(s)) = Head(s).rec /\ Tail(Recs(s)) = Recs(Tail(s))
  <1>1. \A s \in Seq(Writes) :
          Recs(s) \in Seq(Records) /\ Len(Recs(s)) = Len(s) /\ \A i \in 1..Len(s) : Recs(s)[i] = s[i].rec
    <2> TAKE s \in Seq(Writes)
    <2>1. \A i \in 1..Len(s) : s[i].rec \in Records
      <3>1. \A i \in 1..Len(s) : s[i] \in Writes
        BY ElementOfSeq
      <3> QED BY <3>1 DEF Writes
    <2>2. Recs(s) \in [1..Len(s) -> Records] /\ Len(s) \in Nat
      BY <2>1 DEF Recs
    <2>3. Recs(s) \in Seq(Records)
      BY <2>2
    <2>4. DOMAIN Recs(s) = 1..Len(s) /\ DOMAIN Recs(s) = 1..Len(Recs(s)) /\ Len(Recs(s)) \in Nat
      BY <2>2, <2>3, LenProperties
    <2>5. Len(Recs(s)) = Len(s)
      BY <2>2, <2>4
    <2> QED BY <2>3, <2>5 DEF Recs
  <1>2. Recs(<<>>) = <<>>
    <2>1. <<>> \in Seq(Writes) /\ Len(<<>>) = 0
      OBVIOUS
    <2> QED BY <1>1, <2>1, EmptySeq
  <1>3. ASSUME NEW s \in Seq(Writes), NEW w \in Writes
        PROVE  Recs(Append(s, w)) = Append(Recs(s), w.rec)
    <2> DEFINE a == Append(s, w)
               b == Append(Recs(s), w.rec)
    <2>1. w.rec \in Records
      BY DEF Writes
    <2>2. a \in Seq(Writes) /\ Len(a) = Len(s) + 1 /\ a[Len(s) + 1] = w
          /\ \A i \in 1..Len(s) : a[i] = s[i]
      BY AppendProperties
    <2>3. b \in Seq(Records) /\ Len(b) = Len(s) + 1 /\ b[Len(s) + 1] = w.rec
          /\ \A i \in 1..Len(s) : b[i] = s[i].rec
      BY <1>1, <2>1, AppendProperties
    <2>4. Recs(a) \in Seq(Records) /\ Len(Recs(a)) = Len(s) + 1
          /\ \A i \in 1..(Len(s) + 1) : Recs(a)[i] = a[i].rec
      BY <1>1, <2>2
    <2>5. \A i \in 1..(Len(s) + 1) : Recs(a)[i] = b[i]
      <3> TAKE i \in 1..(Len(s) + 1)
      <3>1. CASE i = Len(s) + 1
        BY <2>2, <2>3, <2>4, <3>1
      <3>2. CASE i # Len(s) + 1
        <4>1. i \in 1..Len(s)
          BY <3>2
        <4> QED BY <2>2, <2>3, <2>4, <4>1
      <3> QED BY <3>1, <3>2
    <2> HIDE DEF a, b
    <2>6. Recs(a) = b
      BY <2>3, <2>4, <2>5, SeqEqual
    <2> QED BY <2>6 DEF a, b
  <1>4. ASSUME NEW s \in Seq(Writes), s # <<>>
        PROVE  Recs(s) # <<>> /\ Head(Recs(s)) = Head(s).rec /\ Tail(Recs(s)) = Recs(Tail(s))
    <2>1. Len(s) \in Nat /\ Len(s) >= 1
      BY <1>4, EmptySeq
    <2>2. Recs(s) # <<>>
      BY <1>1, <2>1, EmptySeq
    <2>3. Tail(s) \in Seq(Writes) /\ Len(Tail(s)) = Len(s) - 1
          /\ \A i \in 1..(Len(s) - 1) : Tail(s)[i] = s[i + 1]
      BY <1>4, HeadTailProperties
    <2>4. Tail(Recs(s)) \in Seq(Records) /\ Len(Tail(Recs(s))) = Len(s) - 1
          /\ \A i \in 1..(Len(s) - 1) : Tail(Recs(s))[i] = s[i + 1].rec
      <3>1. /\ Tail(Recs(s)) \in Seq(Records) /\ Len(Tail(Recs(s))) = Len(s) - 1
            /\ \A i \in 1..(Len(s) - 1) : Tail(Recs(s))[i] = Recs(s)[i + 1]
        BY <1>1, <2>2, HeadTailProperties
      <3>2. \A i \in 1..(Len(s) - 1) : Recs(s)[i + 1] = s[i + 1].rec
        BY <1>1, <2>1
      <3> QED BY <3>1, <3>2
    <2>5. /\ Recs(Tail(s)) \in Seq(Records) /\ Len(Recs(Tail(s))) = Len(s) - 1
          /\ \A i \in 1..(Len(s) - 1) : Recs(Tail(s))[i] = s[i + 1].rec
      <3>1. /\ Recs(Tail(s)) \in Seq(Records) /\ Len(Recs(Tail(s))) = Len(Tail(s))
            /\ \A i \in 1..Len(Tail(s)) : Recs(Tail(s))[i] = Tail(s)[i].rec
        BY <1>1, <2>3
      <3>2. \A i \in 1..(Len(s) - 1) : Recs(Tail(s))[i] = Tail(s)[i].rec
        BY <3>1, <2>3
      <3> QED BY <3>1, <3>2, <2>3
    <2>6. Tail(Recs(s)) = Recs(Tail(s))
      BY <2>1, <2>4, <2>5, SeqEqual
    <2>7. Head(Recs(s)) = Head(s).rec
      <3>1. Head(s) = s[1] /\ Head(Recs(s)) = Recs(s)[1]
        BY <1>1, <1>4, <2>2
      <3> QED BY <1>1, <2>1, <3>1
    <2> QED BY <2>2, <2>6, <2>7
  <1> QED BY <1>2, <1>3, <1>4

\* The initial states, and each kind of step.
LEMMA StoreInit == Init => Store!Init
  <1> SUFFICES ASSUME Init PROVE Store!Init
    OBVIOUS
  <1>1. file \in [Paths -> Records \cup {NoRecord}]
    BY InitTypes DEF TypeInv, MemoryTypes, DataTypes
  <1>2. Recs(Unmade) = <<>> /\ removed = FALSE
    BY RecsFacts DEF Init, Unmade
  <1> QED BY <1>1, <1>2, LoadedTyped DEF Store!Init

LEMMA StoreStep ==
    Inv /\ ~UnlinkMayFail /\ [Next]_vars => [Store!Next]_(Store!vars)
  <1> SUFFICES ASSUME Inv, ~UnlinkMayFail, [Next]_vars PROVE [Store!Next]_(Store!vars)
    OBVIOUS
  <1> USE DEF memory
  <1>0. /\ TypeInv /\ ChainInv /\ FileInv /\ RemovedInv /\ DeletesInv
        /\ MemoryTypes /\ chain \in Seq(Writes) /\ file \in [Paths -> Records \cup {NoRecord}]
        /\ LegacyLast \in BOOLEAN
        /\ \A c \in Callers : DeleteInv(c)
    BY StorageAssumption DEF StorageAssumption, Inv, TypeInv, MemoryTypes, DataTypes, DeletesInv
  \* Neither the files nor what is still to be made change.
  <1>1. ASSUME UNCHANGED <<file, chain, removed>>, UNCHANGED stage \/ (stage # "moving" /\ stage' # "moving")
        PROVE  [Store!Next]_(Store!vars)
    BY <1>1 DEF Store!vars, Unmade
  <1>2. ASSUME chain' = <<>>, stage' = "start", UNCHANGED <<file, removed>>
        PROVE  [Store!Next]_(Store!vars)
    BY <1>2, RecsFacts DEF Store!Next, Store!Lose, Unmade
  <1>3. ASSUME NEW c \in Callers, Upsert(c) PROVE [Store!Next]_(Store!vars)
    <2>1. CASE rejected
      BY <1>1, <1>3, <2>1 DEF Upsert
    <2>2. CASE ~rejected
      <3> DEFINE w == [rec |-> Built(call[c]), kind |-> call[c].kind]
      <3>1. /\ call[c].pc = "read" /\ chain' = Append(chain, w)
            /\ UNCHANGED <<file, stage, removed>>
        BY <1>3, <2>2 DEF Upsert
      <3>2. w \in Writes /\ w.rec \in Records
        BY <1>0, <3>1, CallBuilds
      <3>3. Unmade' = Append(Unmade, w) /\ Unmade \in Seq(Writes)
        <4>1. CASE stage = "moving" /\ ~LegacyLast
          <5>1. chain # <<>>
            BY <1>0, <4>1 DEF ChainInv
          <5>2. Tail(Append(chain, w)) = Append(Tail(chain), w)
            BY <1>0, <3>2, <5>1, TailAppend
          <5>3. Tail(chain) \in Seq(Writes)
            BY <1>0, <5>1, HeadTailProperties
          <5> QED BY <3>1, <4>1, <5>2, <5>3 DEF Unmade
        <4>2. CASE ~(stage = "moving" /\ ~LegacyLast)
          BY <1>0, <3>1, <4>2 DEF Unmade
        <4> QED BY <4>1, <4>2
      <3>4. Recs(Unmade)' = Append(Recs(Unmade), w.rec)
        BY <3>2, <3>3, RecsFacts DEF Recs
      <3>5. Store!Accept(w.rec)
        BY <3>1, <3>4 DEF Store!Accept
      <3> QED BY <3>2, <3>5 DEF Store!Next
    <2> QED BY <2>1, <2>2
  <1>4. CASE WriteStarts
    <2>1. chain # <<>> /\ stage = "start" /\ UNCHANGED <<file, removed>>
      BY <1>4 DEF WriteStarts
    <2>2. CASE deleting
      <3>1. chain' = Tail(chain) /\ stage' = "start"
        BY <1>4, <2>2 DEF WriteStarts, Settle
      <3>2. Recs(Unmade) # <<>> /\ Recs(Unmade)' = Tail(Recs(Unmade))
        BY <1>0, <2>1, <3>1, RecsFacts DEF Unmade, Recs
      <3>3. Store!Skip
        BY <2>1, <3>2 DEF Store!Skip
      <3> QED BY <3>3 DEF Store!Next
    <2>3. CASE ~deleting
      BY <1>1, <1>4, <2>1, <2>3 DEF WriteStarts
    <2> QED BY <2>2, <2>3
  \* The first write of the chain is made.
  <1>5. ASSUME chain # <<>>, stage # "start", Unmade = chain, Unmade' = Tail(chain),
               Loaded(file)' = Head(chain).rec, UNCHANGED removed
        PROVE  [Store!Next]_(Store!vars)
    <2>1. ~removed
      BY <1>0, <1>5 DEF RemovedInv
    <2>2. /\ Recs(Unmade) # <<>> /\ Head(Recs(Unmade)) = Head(chain).rec
          /\ Recs(Unmade)' = Tail(Recs(Unmade))
      BY <1>0, <1>5, RecsFacts DEF Recs
    <2>3. Store!Apply
      BY <1>5, <2>1, <2>2 DEF Store!Apply
    <2> QED BY <2>3 DEF Store!Next
  <1>6. CASE FileWritten
    <2> DEFINE r == Head(chain).rec
    <2>1. /\ chain # <<>> /\ stage = "writing"
          /\ file' = [file EXCEPT !["project"] = r] /\ UNCHANGED removed
      BY <1>6 DEF FileWritten
    <2>2. path = LoadedPath(file) /\ r # NoRecord
      <3>1. ~Unlinking
        BY <1>0, <2>1, UnlinkingIsQuiet
      <3> QED BY <1>0, <2>1, <3>1, SettleTyped, NoRecordIsNone DEF FileInv, SettledFiles
    <2>3. file'["project"] = r /\ file'["root"] = file["root"] /\ Unmade = chain
      BY <1>0, <2>1 DEF Paths, Unmade
    <2>4. CASE path = "root"
      <3>1. chain' = chain /\ stage' = "moving" /\ file["root"] # NoRecord
        BY <1>6, <2>2, <2>4, ListedFacts DEF FileWritten
      <3>2. CASE LegacyLast
        <4>1. Loaded(file') = file["root"] /\ Loaded(file) = file["root"]
          BY <2>2, <2>3, <2>4, <3>1, <3>2, ListedFacts
        <4>2. Unmade' = chain
          BY <3>1, <3>2 DEF Unmade
        <4> QED BY <2>1, <2>3, <4>1, <4>2 DEF Store!vars, Recs
      <3>3. CASE ~LegacyLast
        <4>1. Loaded(file') = r
          BY <2>2, <2>3, <3>3, ListedFacts
        <4>2. Unmade' = Tail(chain)
          BY <3>1, <3>3 DEF Unmade
        <4> QED BY <1>5, <2>1, <2>3, <4>1, <4>2
      <3> QED BY <3>2, <3>3
    <2>5. CASE path # "root"
      <3>1. chain' = Tail(chain) /\ stage' = "start"
        BY <1>6, <2>5 DEF FileWritten, Settle
      <3>2. file["root"] = NoRecord \/ ~LegacyLast
        BY <2>2, <2>5, ListedFacts
      <3>3. Loaded(file') = r
        BY <2>2, <2>3, <3>2, ListedFacts
      <3>4. Unmade' = Tail(chain)
        BY <3>1 DEF Unmade
      <3> QED BY <1>5, <2>1, <2>3, <3>3, <3>4
    <2> QED BY <2>4, <2>5
  <1>7. CASE OldFileRemoved
    <2> DEFINE r == Head(chain).rec
    <2>1. /\ chain # <<>> /\ stage = "moving"
          /\ file' = [file EXCEPT !["root"] = NoRecord] /\ UNCHANGED removed
          /\ chain' = Tail(chain) /\ stage' = "start"
      BY <1>7 DEF OldFileRemoved, Settle
    <2>2. file["project"] = r /\ r # NoRecord /\ file["root"] # NoRecord
      BY <1>0, <2>1, SettleTyped, NoRecordIsNone DEF FileInv, MovingFiles
    <2>3. file'["project"] = r /\ file'["root"] = NoRecord
      BY <1>0, <2>1, <2>2 DEF Paths
    <2>4. Loaded(file') = r /\ Unmade' = Tail(chain)
      BY <2>1, <2>2, <2>3, ListedFacts DEF Unmade
    <2>5. CASE LegacyLast
      <3>1. Unmade = chain
        BY <2>5 DEF Unmade
      <3> QED BY <1>5, <2>1, <2>4, <3>1
    <2>6. CASE ~LegacyLast
      <3>1. Unmade = Tail(chain) /\ Loaded(file) = r
        BY <2>1, <2>2, <2>6, ListedFacts DEF Unmade
      <3> QED BY <2>1, <2>4, <3>1 DEF Store!vars, Recs
    <2> QED BY <2>5, <2>6
  <1>8. CASE WriteFails \/ Restart
    BY <1>2, <1>8 DEF WriteFails, Restart
  <1>9. ASSUME NEW c \in Callers, Unlink(c) PROVE [Store!Next]_(Store!vars)
    <2> DEFINE l == call[c].paths
    <2>1. /\ file' = [file EXCEPT ![Head(l)] = NoRecord]
          /\ l # <<>> /\ call[c].pc = "unlinking" /\ UNCHANGED <<chain, stage, removed>>
      BY <1>9 DEF Unlink
    <2>2. l \in Lists /\ \A p \in Paths : file[p] # NoRecord => Contains(l, p)
      BY <1>0, <2>1 DEF DeleteInv
    <2>3. Loaded(file') = Loaded(file) \/ Loaded(file') = NoRecord
      <3>1. CASE \E q \in Paths : l = <<q>>
        <4>1. PICK q \in Paths : l = <<q>>
          BY <3>1
        <4>2. Head(l) = q /\ \A p \in Paths : file[p] # NoRecord => p = q
          BY <2>2, <4>1, ContainsFacts
        <4>3. \A p \in Paths : file'[p] = NoRecord
          BY <1>0, <2>1, <4>2
        <4> QED BY <4>3, ListedFacts DEF Paths
      <3>2. CASE l = Order
        <4>1. CASE LegacyLast
          <5>1. Head(l) = "project"
            BY <3>2, <4>1 DEF Order
          <5>2. file'["project"] = NoRecord /\ file'["root"] = file["root"]
            BY <1>0, <2>1, <5>1 DEF Paths
          <5> QED BY <4>1, <5>2, ListedFacts
        <4>2. CASE ~LegacyLast
          <5>1. Head(l) = "root"
            BY <3>2, <4>2 DEF Order
          <5>2. file'["root"] = NoRecord /\ file'["project"] = file["project"]
            BY <1>0, <2>1, <5>1 DEF Paths
          <5> QED BY <4>2, <5>2, ListedFacts
        <4> QED BY <4>1, <4>2
      <3> QED BY <2>1, <2>2, <3>1, <3>2 DEF Lists, Paths
    <2>4. UNCHANGED Recs(Unmade)
      BY <2>1 DEF Recs, Unmade
    <2> QED BY <2>1, <2>3, <2>4 DEF Store!Next, Store!Erase, Store!vars
  <1>10. ASSUME NEW c \in Callers, RemoveEnds(c) PROVE [Store!Next]_(Store!vars)
    <2>1. NoFile
      <3>1. call[c].pc = "unlinking" /\ call[c].paths = <<>>
        BY <1>10 DEF RemoveEnds
      <3> QED BY <1>0, <3>1, ContainsFacts DEF DeleteInv, NoFile
    <2>2. Loaded(file) = NoRecord
      BY <2>1, ListedFacts DEF NoFile, Paths
    <2>3. removed' = TRUE /\ UNCHANGED <<file, chain, stage>>
      BY <1>10 DEF RemoveEnds
    <2> QED BY <2>2, <2>3 DEF Store!Next, Store!Confirm, Unmade
  <1>11. ASSUME NEW c \in Callers, NEW k \in Kinds, Snapshot(c, k) \/ Update(c, k)
         PROVE  [Store!Next]_(Store!vars)
    BY <1>1, <1>11 DEF Snapshot, Update
  <1>12. ASSUME NEW c \in Callers,
                BeginDelete(c) \/ ReadExisting(c) \/ Returns(c) \/ RemoveCalled(c) \/ RemoveLists(c)
         PROVE  [Store!Next]_(Store!vars)
    BY <1>1, <1>12 DEF BeginDelete, ReadExisting, Returns, RemoveCalled, RemoveLists
  <1>13. CASE Resume
    BY <1>1, <1>13 DEF Resume
  <1>14. CASE UNCHANGED vars
    BY <1>1, <1>14 DEF vars
  <1> QED BY <1>3, <1>4, <1>6, <1>7, <1>8, <1>9, <1>10, <1>11, <1>12, <1>13, <1>14
          DEF Next, CallStep, ChainStep

\* What a restart reads is always one whole record, the last that was made,
\* and none once a removal was confirmed: agent-storage.ts implements RecordStore.
THEOREM StorageImplementsStore ==
    ASSUME ~UnlinkMayFail
    PROVE  Spec => ImplementsStore
  <1>1. Spec => []Inv
    BY StorageInv
  <1> QED BY <1>1, StoreInit, StoreStep, PTL DEF Spec, ImplementsStore, Store!Spec
=============================================================================
