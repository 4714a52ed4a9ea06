----------------------------- MODULE AgentStorage -----------------------------
(***************************************************************************)
(* The record of one agent: server/src/server/agent/agent-storage.ts, with   *)
(* the calls agent-manager.ts, session.ts and persistence-hooks.ts make.     *)
(* Nothing in it is shared between agents, so one agent is modelled.         *)
(*                                                                         *)
(* A record has one file, in the directory of its project.  An older layout  *)
(* kept it at the root; the first write moves it, in two steps.  Writes of   *)
(* an agent form a chain of promises; calls that read, change and write the  *)
(* record await between the three, and wait for the chain only sometimes.    *)
(***************************************************************************)
EXTENDS Integers, Sequences, SequencesExt

CONSTANTS
    Callers,        \* bound: calls under way at a time
    Kinds,          \* the kinds of calls that are made
    LegacyLast,     \* readdir lists the root's files after the directories
    WriteMayFail,   \* writing a file may fail (a full disk)
    UnlinkMayFail,  \* removing a file may fail
    Overlap,        \* calls overlap
    MaxCalls,       \* bound: calls
    MaxCrashes      \* bound: crashes the storage did not cause

\* Snapshots of a live agent: plain, with a title, and archiveAgent's.
Snapshots == {"snapshot", "title", "archiveAgent"}
\* Changes of the stored record of an agent that is not live.
Updates == {"archive", "unarchive", "update"}

AllKinds == Snapshots \cup Updates \cup {"resume", "remove"}

ASSUME StorageAssumption ==
    /\ Kinds \subseteq AllKinds
    /\ {LegacyLast, WriteMayFail, UnlinkMayFail, Overlap} \subseteq BOOLEAN
    /\ {MaxCalls, MaxCrashes} \subseteq Nat

VARIABLES
    file,      \* what is in each of the record's two places
    cache,     \* the record readers get
    path,      \* pathById
    indexed,   \* pathsById, in insertion order
    deleting,  \* beginDelete was called
    chain,     \* the writes not yet settled, the first one under way
    stage,     \* how far the first write is
    queued,    \* writes ever put on the chain
    settled,   \* of these, how many succeeded
    rejected,  \* a write failed: so does every later one on the chain
    doomed,    \* an unhandled rejection: the process is about to exit
    live,      \* the agent manager has the agent
    call,      \* the calls under way
    calls,     \* calls so far
    crashes,   \* crashes so far
    removed    \* (history) a removal came to its end

memory == <<cache, path, indexed, deleting, chain, stage, queued, settled, rejected>>
vars == <<file, memory, doomed, live, call, calls, crashes, removed>>

Stamps == 0..MaxCalls
\* title and stamp (updatedAt) name the call that set them.
Records == [title: Stamps, stamp: Stamps, archived: BOOLEAN]
NoRecord == [title |-> -1, stamp |-> -1, archived |-> FALSE]
Paths == {"root", "project"}
PathLists == {<<>>, <<"root">>, <<"project">>, <<"root", "project">>, <<"project", "root">>}
Writes == [rec: Records, kind: AllKinds]
Steps == {"idle", "waiting", "read", "queued", "closing", "removing", "unlinking"}
Calls == [kind: AllKinds \cup {"idle"}, pc: Steps, ticket: Nat,
          seen: Records \cup {NoRecord}, paths: PathLists, n: Stamps]
Idle == [kind |-> "idle", pc |-> "idle", ticket |-> 0, seen |-> NoRecord, paths |-> <<>>, n |-> 0]

TypeOK ==
    /\ file \in [Paths -> Records \cup {NoRecord}]
    /\ cache \in Records \cup {NoRecord}
    /\ path \in Paths \cup {"none"}
    /\ indexed \in PathLists
    /\ chain \in Seq(Writes)
    /\ stage \in {"start", "writing", "moving"}
    /\ {deleting, rejected, doomed, live, removed} \subseteq BOOLEAN
    /\ {queued, settled, calls, crashes} \subseteq Nat
    /\ calls <= MaxCalls
    /\ call \in [Callers -> Calls]

\* scanDisk: both files are indexed, in the order readdir lists them.
Listed(f) ==
    CASE f["root"] = NoRecord /\ f["project"] = NoRecord -> <<>>
      [] f["root"] # NoRecord /\ f["project"] = NoRecord -> <<"root">>
      [] f["root"] = NoRecord /\ f["project"] # NoRecord -> <<"project">>
      [] OTHER -> IF LegacyLast THEN <<"project", "root">> ELSE <<"root", "project">>
\* The file read last wins.
LoadedPath(f) == IF Listed(f) = <<>> THEN "none" ELSE Listed(f)[Len(Listed(f))]
Loaded(f) == IF LoadedPath(f) = "none" THEN NoRecord ELSE f[LoadedPath(f)]

Init ==
    /\ \E r \in [Paths -> {NoRecord, [title |-> 0, stamp |-> 0, archived |-> FALSE]}] : file = r
    /\ cache = Loaded(file) /\ path = LoadedPath(file) /\ indexed = Listed(file)
    /\ deleting = FALSE /\ chain = <<>> /\ stage = "start"
    /\ queued = 0 /\ settled = 0 /\ rejected = FALSE /\ doomed = FALSE
    /\ live = (cache = NoRecord)    \* an agent without a record was just created
    /\ call = [c \in Callers |-> Idle]
    /\ calls = 0 /\ crashes = 0 /\ removed = FALSE

-----------------------------------------------------------------------------
(* The event loop answers for the file system only when no promise has a
   continuation left to run; the order of those is left open. *)
\* Mutant: whoever waits for a write is not told that it failed.
AwaitedSuccess(op) == settled >= op.ticket
Awaited(op) == settled >= op.ticket \/ rejected
Quiet ==
    /\ chain # <<>> => stage # "start"
    /\ \A c \in Callers :
         /\ call[c].pc # "read"
         /\ call[c].pc \in {"waiting", "queued", "removing"} => ~Awaited(call[c])

(* Calls *)
MayCall(c, k) ==
    /\ call[c].pc = "idle" /\ k \in Kinds /\ calls < MaxCalls
    /\ Overlap \/ \A d \in Callers : call[d].pc = "idle"

\* applySnapshot: what to wait for is looked up now.
Snapshot(c, k) ==
    /\ MayCall(c, k) /\ k \in Snapshots /\ live
    /\ call' = [call EXCEPT ![c] =
         [Idle EXCEPT !.kind = k, !.pc = "waiting", !.ticket = queued, !.n = calls + 1]]
    /\ calls' = calls + 1
    /\ UNCHANGED <<file, memory, doomed, live, crashes, removed>>

\* A failure of the awaited write is swallowed.
ReadExisting(c) ==
    /\ call[c].pc = "waiting"
    /\ Awaited(call[c])
    /\ call' = [call EXCEPT ![c].pc = "read", ![c].seen = cache]
    /\ UNCHANGED <<file, memory, doomed, live, calls, crashes, removed>>

\* Archive, unarchive and update read what is cached, whatever the chain holds.
Update(c, k) ==
    /\ MayCall(c, k) /\ k \in Updates
    /\ cache # NoRecord
    /\ k \in {"archive", "update"} => ~live
    /\ k # "update" => (cache.archived = (k = "unarchive"))
    /\ call' = [call EXCEPT ![c] =
         [Idle EXCEPT !.kind = k, !.pc = "read", !.seen = cache, !.n = calls + 1]]
    /\ calls' = calls + 1
    /\ UNCHANGED <<file, memory, doomed, live, crashes, removed>>

\* The record the call writes.  archiveAgent has two: its snapshot, then, as
\* kind "archive", the archived record.
\* Mutant: there is always an earlier record.
BuiltOnExisting(op) ==
    [title |-> IF op.kind \in {"title", "update"} THEN op.n ELSE op.seen.title,
     stamp |-> IF op.kind = "update" THEN op.seen.stamp ELSE op.n,
     archived |-> IF op.kind \in {"archive", "unarchive"} THEN op.kind = "archive"
                  ELSE op.seen # NoRecord /\ op.seen.archived]
Built(op) ==
    [title |-> IF op.kind \in {"title", "update"} THEN op.n
               ELSE IF op.seen = NoRecord THEN 0 ELSE op.seen.title,
     stamp |-> IF op.kind = "update" THEN op.seen.stamp ELSE op.n,
     archived |-> IF op.kind \in {"archive", "unarchive"} THEN op.kind = "archive"
                  ELSE op.seen # NoRecord /\ op.seen.archived]

\* upsert.  On a rejected chain the write rejects, and nobody handles the
\* promise that .finally() leaves in the map.
Upsert(c) ==
    /\ call[c].pc = "read"
    /\ IF rejected
       THEN /\ call' = [call EXCEPT ![c] = Idle]
            /\ doomed' = TRUE
            /\ UNCHANGED memory
       ELSE /\ chain' = Append(chain, [rec |-> Built(call[c]), kind |-> call[c].kind])
            /\ queued' = queued + 1
            /\ call' = [call EXCEPT ![c].pc = "queued", ![c].ticket = queued + 1]
            /\ UNCHANGED <<cache, path, indexed, deleting, stage, settled, rejected, doomed>>
    /\ UNCHANGED <<file, live, calls, crashes, removed>>

\* archiveAgent goes on from its snapshot to the archived record, and from
\* that to closeAgent.
Returns(c) ==
    /\ call[c].pc = "queued"
    /\ Awaited(call[c])
    /\ LET ok == settled >= call[c].ticket
           archiving == ok /\ call[c].kind = "archiveAgent"
       IN  /\ call' = [call EXCEPT ![c] =
                IF archiving /\ cache # NoRecord
                THEN [@ EXCEPT !.kind = "archive", !.pc = "read", !.seen = cache]
                ELSE Idle]
           /\ live' = (live /\ ~(ok /\ call[c].kind = "archive"))
    /\ UNCHANGED <<file, memory, doomed, calls, crashes, removed>>

\* ensureAgentLoaded resumes the agent from its stored record.
Resume ==
    /\ "resume" \in Kinds /\ ~live /\ cache # NoRecord /\ calls < MaxCalls
    /\ live' = TRUE /\ calls' = calls + 1
    /\ UNCHANGED <<file, memory, doomed, call, crashes, removed>>

-----------------------------------------------------------------------------
(* The chain *)
Settle ==
    /\ chain' = Tail(chain) /\ stage' = "start" /\ settled' = settled + 1

\* Mutant: a write does not look whether the agent is being deleted.
WriteStartsAnyway ==
    /\ chain # <<>> /\ stage = "start"
    /\ stage' = "writing"
    /\ UNCHANGED <<file, cache, path, indexed, deleting, chain, queued, settled, rejected,
                   doomed, live, call, calls, crashes, removed>>
WriteStarts ==
    /\ chain # <<>> /\ stage = "start"
    /\ IF deleting THEN Settle ELSE stage' = "writing" /\ UNCHANGED <<chain, settled>>
    /\ UNCHANGED <<file, cache, path, indexed, deleting, queued, rejected,
                   doomed, live, call, calls, crashes, removed>>

\* The temporary file is renamed over the record's path: all of it or nothing.
FileWritten ==
    /\ Quiet /\ chain # <<>> /\ stage = "writing"
    /\ file' = [file EXCEPT !["project"] = Head(chain).rec]
    /\ indexed' = IF Contains(indexed, "project") THEN indexed ELSE Append(indexed, "project")
    /\ IF path = "root"
       THEN stage' = "moving" /\ UNCHANGED <<cache, path, chain, settled>>
       ELSE cache' = Head(chain).rec /\ path' = "project" /\ Settle
    /\ UNCHANGED <<deleting, queued, rejected, doomed, live, call, calls, crashes, removed>>

\* The file at the old path is removed; a failure is ignored.
\* Mutant: the old path is forgotten, its file is not removed.
OldFileKept ==
    /\ Quiet /\ chain # <<>> /\ stage = "moving"
    /\ UNCHANGED file
    /\ indexed' = IF Contains(indexed, "project") THEN <<"project">> ELSE <<>>
    /\ cache' = Head(chain).rec /\ path' = "project" /\ Settle
    /\ UNCHANGED <<deleting, queued, rejected, doomed, live, call, calls, crashes, removed>>
OldFileRemoved ==
    /\ Quiet /\ chain # <<>> /\ stage = "moving"
    /\ \/ file' = [file EXCEPT !["root"] = NoRecord]
       \/ UnlinkMayFail /\ UNCHANGED file
    /\ indexed' = IF Contains(indexed, "project") THEN <<"project">> ELSE <<>>
    /\ cache' = Head(chain).rec /\ path' = "project" /\ Settle
    /\ UNCHANGED <<deleting, queued, rejected, doomed, live, call, calls, crashes, removed>>

\* Every write on the chain rejects.  The last promise of the chain has no
\* handler unless a snapshot or a removal is waiting for it.
WriteFails ==
    /\ WriteMayFail /\ Quiet /\ chain # <<>> /\ stage = "writing"
    /\ rejected' = TRUE /\ chain' = <<>> /\ stage' = "start"
    /\ doomed' = (doomed \/ ~ \E c \in Callers :
                     call[c].pc \in {"waiting", "removing"} /\ call[c].ticket = queued)
    /\ UNCHANGED <<file, cache, path, indexed, deleting, queued, settled,
                   live, call, calls, crashes, removed>>

-----------------------------------------------------------------------------
(* Removal: beginDelete, closeAgent, remove *)
BeginDelete(c) ==
    /\ MayCall(c, "remove")
    /\ deleting' = TRUE
    /\ call' = [call EXCEPT ![c] = [Idle EXCEPT !.kind = "remove", !.pc = "closing"]]
    /\ calls' = calls + 1
    /\ UNCHANGED <<file, cache, path, indexed, chain, stage, queued, settled, rejected,
                   doomed, live, crashes, removed>>

RemoveCalled(c) ==
    /\ call[c].pc = "closing"
    /\ live' = FALSE
    /\ call' = [call EXCEPT ![c].pc = "removing", ![c].ticket = queued]
    /\ UNCHANGED <<file, memory, doomed, calls, crashes, removed>>

\* On a rejected chain remove throws: nothing is removed.
RemoveLists(c) ==
    /\ call[c].pc = "removing"
    /\ Awaited(call[c])
    /\ call' = [call EXCEPT ![c] =
         IF settled >= @.ticket THEN [@ EXCEPT !.pc = "unlinking", !.paths = indexed] ELSE Idle]
    /\ UNCHANGED <<file, memory, doomed, live, calls, crashes, removed>>

Unlink(c) ==
    /\ Quiet /\ call[c].pc = "unlinking" /\ call[c].paths # <<>>
    /\ \/ file' = [file EXCEPT ![Head(call[c].paths)] = NoRecord]
       \/ UnlinkMayFail /\ UNCHANGED file
    /\ call' = [call EXCEPT ![c].paths = Tail(@)]
    /\ UNCHANGED <<memory, doomed, live, calls, crashes, removed>>

RemoveEnds(c) ==
    /\ call[c].pc = "unlinking" /\ call[c].paths = <<>>
    /\ cache' = NoRecord /\ path' = "none" /\ indexed' = <<>>
    /\ call' = [call EXCEPT ![c] = Idle]
    /\ removed' = TRUE
    /\ UNCHANGED <<file, deleting, chain, stage, queued, settled, rejected,
                   doomed, live, calls, crashes>>

-----------------------------------------------------------------------------
\* The process ends, by itself or not, and a new one loads the files.
Restart ==
    /\ doomed \/ crashes < MaxCrashes
    /\ crashes' = IF doomed THEN crashes ELSE crashes + 1
    /\ cache' = Loaded(file) /\ path' = LoadedPath(file) /\ indexed' = Listed(file)
    /\ deleting' = FALSE /\ chain' = <<>> /\ stage' = "start"
    /\ queued' = 0 /\ settled' = 0 /\ rejected' = FALSE /\ doomed' = FALSE
    /\ live' = FALSE /\ call' = [c \in Callers |-> Idle]
    /\ UNCHANGED <<file, calls, removed>>

CallStep(c) == ReadExisting(c) \/ Upsert(c) \/ Returns(c) \/ RemoveCalled(c)
               \/ RemoveLists(c) \/ Unlink(c) \/ RemoveEnds(c)
ChainStep == WriteStarts \/ FileWritten \/ OldFileRemoved \/ WriteFails

Next ==
    \/ \E c \in Callers, k \in Kinds : Snapshot(c, k) \/ Update(c, k)
    \/ \E c \in Callers : BeginDelete(c) \/ CallStep(c)
    \/ Resume
    \/ ChainStep
    \/ Restart

\* Promises are run and the file system answers.
Fairness == WF_vars(ChainStep) /\ \A c \in Callers : WF_vars(CallStep(c))
Spec == Init /\ [][Next]_vars /\ Fairness

-----------------------------------------------------------------------------
(* Properties *)
\* When no write or removal is under way, a restart would load what readers
\* are given (the cache and the index of upsert, remove and scanDisk).
CacheIsDurable ==
    /\ stage # "moving"
    /\ \A c \in Callers : call[c].pc # "unlinking"
    => cache = Loaded(file)

\* Every file of the record is known to remove, which deletes all it knows.
FilesAreIndexed ==
    (\A c \in Callers : call[c].pc # "unlinking") =>
        \A p \in Paths : file[p] # NoRecord => Contains(indexed, p)

\* The chain is RecordStore's pending writes; with the root listed first, a
\* write is made once the new file is there, otherwise once the old one is gone.
Unmade == IF stage = "moving" /\ ~LegacyLast THEN Tail(chain) ELSE chain
Recs(writes) == [i \in 1..Len(writes) |-> writes[i].rec]
Store == INSTANCE RecordStore WITH stored <- Loaded(file), pending <- Recs(Unmade)

\* A write or a removal under way never shows a restart a mix of two records,
\* an older record or one that was removed (upsert, remove, scanDisk).
ImplementsStore == Store!Spec

\* Every call returns, however writes, failures and removals overlap.
CallsReturn == \A c \in Callers : call[c].pc # "idle" ~> call[c].pc = "idle"

\* "Preserve soft-delete/archive status across snapshot flushes" (applySnapshot).
ArchiveSurvivesSnapshots ==
    [][cache # NoRecord /\ cache' # NoRecord /\ cache.archived = TRUE /\ cache'.archived = FALSE
         => chain # <<>> /\ Head(chain).kind \notin Snapshots]_vars
=============================================================================
