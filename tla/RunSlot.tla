-------------------------------- MODULE RunSlot --------------------------------
(***************************************************************************)
(* What AgentManager promises of the foreground runs of one agent id        *)
(* (packages/server/src/server/agent/agent-manager.ts): there is one place. *)
(* A run takes it before its turn starts, and only when it is free; a run   *)
(* whose turn is over gives it up itself, and nobody gives up another's;    *)
(* when the agent is removed the place is emptied and its run is over.      *)
(***************************************************************************)
CONSTANTS Runs, Agents, Nobody

VARIABLES
    registered,   \* the ManagedAgent object in the map, or Nobody
    holder,       \* the run that has the place, or Nobody
    started,      \* the runs that ever took it
    active        \* those in flight on the registered agent

vars == <<registered, holder, started, active>>

Init ==
    /\ registered \in Agents
    /\ holder = Nobody
    /\ started = {}
    /\ active = {}

Enter(r) ==
    /\ registered # Nobody
    /\ holder = Nobody
    /\ r \notin started
    /\ holder' = r
    /\ started' = started \cup {r}
    /\ active' = active \cup {r}
    /\ UNCHANGED registered

\* The turn ends, or startTurn rejects: the place stays taken.
End(r) ==
    /\ r \in active
    /\ active' = active \ {r}
    /\ UNCHANGED <<registered, holder, started>>

Leave(r) ==
    /\ holder = r
    /\ r \notin active
    /\ holder' = Nobody
    /\ UNCHANGED <<registered, started, active>>

Remove ==
    /\ registered' = Nobody
    /\ holder' = Nobody
    /\ active' = {}
    /\ UNCHANGED started

\* A new object, on which nothing runs.  Two registrations may overlap: then the second
\* takes the first one's agent out of the map, and the place stays with its run.
Register ==
    /\ registered' # registered
    /\ registered' \in Agents
    /\ active' = {}
    /\ UNCHANGED <<holder, started>>

Next ==
    \/ \E r \in Runs : Enter(r) \/ End(r) \/ Leave(r)
    \/ Remove
    \/ Register

Spec == Init /\ [][Next]_vars

=============================================================================
