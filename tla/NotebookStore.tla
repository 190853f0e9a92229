--------------------------- MODULE NotebookStore ---------------------------
(***************************************************************************)
(* The state the API and the worker share, for one user: the user's rows   *)
(* of the PostgreSQL tables of db.sql, and the objects of the user's       *)
(* Kubernetes namespace.  A user's namespace is the user id, every query   *)
(* and every Kubernetes call names it, so users do not interact.           *)
(***************************************************************************)
EXTENDS Naturals, FiniteSets

CONSTANTS
    Requests,     \* HTTP requests the API serves at the same time
    Workers,      \* goroutine slots of the worker, MAX_CONCURRENT_WORKER of them
    Names,        \* notebook names; the claim of notebook n is n-pvc
    MaxRows,      \* bound: how many notebooks are ever inserted
    MaxFaults,    \* bound: how many calls fail or processes crash
    NoRow, NoObj, NoOne

ASSUME StoreAssumption ==
    /\ MaxRows \in Nat /\ MaxFaults \in Nat
    /\ NoOne \notin Requests \cup Workers
    /\ Requests \cap Workers = {}

VARIABLES
    rows,         \* table notebooks, by id
    nextId,       \* its BIGSERIAL
    rowLock,      \* the worker whose open transaction has the row FOR UPDATE
    profileLock,  \* the request whose open transaction has the profile FOR UPDATE
    notebooks,    \* Notebook objects of the namespace, by name
    current,      \* requests whose copy of a Notebook has its resourceVersion
    pvcs,         \* PersistentVolumeClaims of the namespace
    faults        \* failures so far

dbVars == <<rows, nextId, rowLock, profileLock>>
k8sVars == <<notebooks, current, pvcs>>

Ids == 1..MaxRows
Kinds == {"cpu", "gpu"}

\* The events the running code appends; the other constants are written by
\* commented-out code only.  picked_at IS NULL exactly while the latest event
\* is "scheduled": one UPDATE sets the one and appends to the other.
Failures == {"pvc-apply-failed", "notebook-apply-failed"}
Events == {"scheduled", "picked", "pvc-applied", "notebook-applied"} \cup Failures

Row == [name: Names, kind: Kinds, event: Events]
Notebook == [owner: Ids, kind: Kinds, stopped: BOOLEAN]
Claim == [owner: Ids, phase: {"bound", "terminating"}]

ASSUME SentinelAssumption == NoRow \notin Row /\ NoObj \notin Notebook \cup Claim

\* `owner`, the row whose worker created the object, stands for its UID.
StoreTypeOK ==
    /\ rows \in [Ids -> Row \cup {NoRow}]
    /\ nextId \in 1..(MaxRows + 1)
    /\ rowLock \in [Ids -> Workers \cup {NoOne}]
    /\ profileLock \in Requests \cup {NoOne}
    /\ notebooks \in [Names -> Notebook \cup {NoObj}]
    /\ current \in [Names -> SUBSET Requests]
    /\ pvcs \in [Names -> Claim \cup {NoObj}]
    /\ faults \in 0..MaxFaults

StoreInit ==
    /\ rows = [i \in Ids |-> NoRow]
    /\ nextId = 1
    /\ rowLock = [i \in Ids |-> NoOne]
    /\ profileLock = NoOne
    /\ notebooks = [n \in Names |-> NoObj]
    /\ current = [n \in Names |-> {}]
    /\ pvcs = [n \in Names |-> NoObj]
    /\ faults = 0

-----------------------------------------------------------------------------
Live == {i \in Ids : rows[i] # NoRow}
Named(n) == {i \in Live : rows[i].name = n}

\* UPDATE notebooks SET events = array_append(...) WHERE id = i: no row, no error.
SetEvent(i, e) ==
    rows' = IF rows[i] = NoRow THEN rows ELSE [rows EXCEPT ![i].event = e]

\* Kubernetes deletes by name, whoever created the object.
DropNotebook(n) ==
    /\ notebooks' = [notebooks EXCEPT ![n] = NoObj]
    /\ current' = [current EXCEPT ![n] = {}]

\* A deleted claim keeps its name until pvc-protection lets it go.
DropClaim(n) ==
    pvcs' = IF pvcs[n] = NoObj THEN pvcs
            ELSE [pvcs EXCEPT ![n].phase = "terminating"]

Fault == faults < MaxFaults /\ faults' = faults + 1

-----------------------------------------------------------------------------
(* What Kubernetes and Kubeflow do on their own.                           *)

\* The last pod that mounts a deleted claim is gone, and so is the claim.
ClaimGone(n) ==
    /\ pvcs[n] # NoObj
    /\ pvcs[n].phase = "terminating"
    /\ notebooks[n] = NoObj
    /\ pvcs' = [pvcs EXCEPT ![n] = NoObj]
    /\ UNCHANGED <<dbVars, notebooks, current, faults>>

\* The culling controller stops an idle notebook with the API's annotation.
Cull(n) ==
    /\ notebooks[n] # NoObj
    /\ ~ notebooks[n].stopped
    /\ notebooks' = [notebooks EXCEPT ![n].stopped = TRUE]
    /\ current' = [current EXCEPT ![n] = {}]
    /\ UNCHANGED <<dbVars, pvcs, faults>>

\* The notebook controller writes the status: copies read before are stale.
WriteStatus(n) ==
    /\ current[n] # {}
    /\ current' = [current EXCEPT ![n] = {}]
    /\ UNCHANGED <<dbVars, notebooks, pvcs, faults>>
=============================================================================
