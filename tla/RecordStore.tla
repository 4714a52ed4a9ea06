------------------------------ MODULE RecordStore ------------------------------
(***************************************************************************)
(* What one agent's record promises whoever loads it after a restart: writes *)
(* take effect one at a time, whole, in the order they were accepted; those  *)
(* not yet made may be lost; and once a removal was confirmed there is no    *)
(* record again.                                                            *)
(***************************************************************************)
EXTENDS Naturals, Sequences

CONSTANTS Records, NoRecord

VARIABLES
    stored,    \* the record a restart would load
    pending,   \* the writes accepted and not yet made
    removed    \* a removal was confirmed

vars == <<stored, pending, removed>>

TypeOK ==
    /\ stored \in Records \cup {NoRecord}
    /\ pending \in Seq(Records)
    /\ removed \in BOOLEAN

Init ==
    /\ stored \in Records \cup {NoRecord}
    /\ pending = <<>>
    /\ removed = FALSE

Accept(r) ==
    /\ pending' = Append(pending, r)
    /\ UNCHANGED <<stored, removed>>

Apply ==
    /\ pending # <<>> /\ ~removed
    /\ stored' = Head(pending)
    /\ pending' = Tail(pending)
    /\ UNCHANGED removed

\* The record is being deleted: the write is passed over.
Skip ==
    /\ pending # <<>>
    /\ pending' = Tail(pending)
    /\ UNCHANGED <<stored, removed>>

\* A crash, or a write that failed.
Lose ==
    /\ pending' = <<>>
    /\ UNCHANGED <<stored, removed>>

Erase ==
    /\ stored' = NoRecord
    /\ UNCHANGED <<pending, removed>>

Confirm ==
    /\ stored = NoRecord
    /\ removed' = TRUE
    /\ UNCHANGED <<stored, pending>>

Next ==
    \/ \E r \in Records : Accept(r)
    \/ Apply
    \/ Skip
    \/ Lose
    \/ Erase
    \/ Confirm

Spec == Init /\ [][Next]_vars
=============================================================================
