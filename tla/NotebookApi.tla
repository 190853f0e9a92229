---------------------------- MODULE NotebookApi ----------------------------
(***************************************************************************)
(* cmd/api: create, start, stop and delete of a notebook.  A request is a  *)
(* process; a step is one database statement or one Kubernetes call with   *)
(* the code up to the next one.  An early return ends the request.         *)
(***************************************************************************)
EXTENDS NotebookStore

CONSTANTS
    Ops,          \* the operations clients ask for
    MaxRunning,   \* API_NOTEBOOK_MAX_RUNNING_CPU and _GPU, by kind
    MaxTotal,     \* API_NOTEBOOK_MAX_TOTAL_CPU and _GPU, by kind
    NoCall

ASSUME ApiAssumption ==
    /\ Ops \subseteq {"create", "start", "stop", "delete"}
    /\ MaxRunning \in [Kinds -> Nat]
    /\ MaxTotal \in [Kinds -> Nat]

VARIABLES
    apiPc,        \* what the request does next
    apiCall,      \* the operation, the notebook's name and kind
    apiSeen       \* the rows its transaction read

apiVars == <<apiPc, apiCall, apiSeen>>

Locked == {"rows", "totals", "running", "over", "insert"}
Deleting == {"deleteRow", "deleteFailedRow", "deleteNotebook", "deleteClaim"}
ApiPcs == {"idle", "get", "update"} \cup Locked \cup Deleting

Call == [op: Ops, name: Names, kind: Kinds \cup {"unknown"}]

ASSUME CallAssumption == NoCall \notin Call

ApiTypeOK ==
    /\ apiPc \in [Requests -> ApiPcs]
    /\ apiCall \in [Requests -> Call \cup {NoCall}]
    /\ apiSeen \in [Requests -> SUBSET Row]

ApiInit ==
    /\ apiPc = [r \in Requests |-> "idle"]
    /\ apiCall = [r \in Requests |-> NoCall]
    /\ apiSeen = [r \in Requests |-> {}]

\* The request holds the profile row: create and start do, stop and delete never.
HoldsProfile(r) ==
    \/ apiPc[r] \in Locked
    \/ apiPc[r] \in {"get", "update"} /\ apiCall[r].op = "start"

-----------------------------------------------------------------------------
Begin(r, op, n, k, pc) ==
    /\ apiPc[r] = "idle"
    /\ op \in Ops
    /\ apiPc' = [apiPc EXCEPT ![r] = pc]
    /\ apiCall' = [apiCall EXCEPT ![r] = [op |-> op, name |-> n, kind |-> k]]
    /\ UNCHANGED apiSeen

Goto(r, pc) == apiPc' = [apiPc EXCEPT ![r] = pc]

\* Mutant: an early return without the deferred Rollback.
ReplyWithoutRollback(r) ==
    /\ apiPc' = [apiPc EXCEPT ![r] = "idle"]
    /\ apiCall' = [apiCall EXCEPT ![r] = NoCall]
    /\ apiSeen' = [apiSeen EXCEPT ![r] = {}]
    /\ UNCHANGED profileLock

\* The reply.  Commit, or the deferred tx.Rollback, frees the profile row.
Reply(r) ==
    /\ apiPc' = [apiPc EXCEPT ![r] = "idle"]
    /\ apiCall' = [apiCall EXCEPT ![r] = NoCall]
    /\ apiSeen' = [apiSeen EXCEPT ![r] = {}]
    /\ profileLock' = IF HoldsProfile(r) THEN NoOne ELSE profileLock

\* Mutant: SELECT without FOR UPDATE NOWAIT.
LockProfileNever(r) == profileLock' = r

\* FOR UPDATE NOWAIT: a locked row is answered 429, which changes nothing.
LockProfile(r) == profileLock = NoOne /\ profileLock' = r

Snapshot == {rows[i] : i \in Live}

\* getSuccessfullyCreatedNotebookCounts: neither failed nor orphaned.
CountsTotal(nb) ==
    /\ nb.event \notin Failures
    /\ nb.event = "notebook-applied" => notebooks[nb.name] # NoObj

\* Mutant: only what the cluster runs counts.
CountsRunningCreated(nb) ==
    /\ notebooks[nb.name] # NoObj
    /\ ~ notebooks[nb.name].stopped

\* CountEffectiveRunningNotebooks: a notebook still to be created counts.
CountsRunning(nb) ==
    /\ CountsTotal(nb)
    /\ notebooks[nb.name] # NoObj => ~ notebooks[nb.name].stopped

Total(r, k) == Cardinality({nb \in apiSeen[r] : nb.kind = k /\ CountsTotal(nb)})
Running(r, k) == Cardinality({nb \in apiSeen[r] : nb.kind = k /\ CountsRunning(nb)})

-----------------------------------------------------------------------------
(* createNotebook                                                          *)

\* Bound: no create begins once MaxRows rows were inserted.
CreateLock(r, n, k) ==
    /\ nextId <= MaxRows
    /\ Begin(r, "create", n, k, "rows")
    /\ LockProfile(r)
    /\ UNCHANGED <<rows, nextId, rowLock, k8sVars, faults>>

CreateRead(r) ==
    /\ apiPc[r] = "rows"
    /\ apiCall[r].op = "create"
    /\ apiSeen' = [apiSeen EXCEPT ![r] = Snapshot]
    /\ Goto(r, "totals")
    /\ UNCHANGED <<apiCall, dbVars, k8sVars, faults>>

\* The totals are counted from a List of their own, before the one that counts
\* the running notebooks; a request over them is refused after both.
ListTotals(r) ==
    LET fits == /\ Total(r, apiCall[r].kind) < MaxTotal[apiCall[r].kind]
                /\ Total(r, "cpu") + Total(r, "gpu") < MaxTotal["cpu"] + MaxTotal["gpu"]
    IN  /\ apiPc[r] = "totals"
        /\ Goto(r, IF fits THEN "running" ELSE "over")
        /\ UNCHANGED <<apiCall, apiSeen, dbVars, k8sVars, faults>>

\* The second List, for create and start alike.
ListRunning(r) ==
    LET fits == Running(r, apiCall[r].kind) < MaxRunning[apiCall[r].kind]
    IN  /\ \/ /\ apiPc[r] = "running" /\ fits
              /\ Goto(r, IF apiCall[r].op = "create" THEN "insert" ELSE "get")
              /\ UNCHANGED <<apiCall, apiSeen, profileLock>>
           \/ /\ apiPc[r] = "over" \/ (apiPc[r] = "running" /\ ~ fits)
              /\ Reply(r)
        /\ UNCHANGED <<rows, nextId, rowLock, k8sVars, faults>>

\* A GPU notebook needs credit: tryRestoreGPUAccess may refuse (or fail).
RefuseCredit(r) ==
    /\ apiPc[r] = "insert" \/ (apiPc[r] = "get" /\ apiCall[r].op = "start")
    /\ apiCall[r].kind = "gpu"
    /\ Reply(r)
    /\ UNCHANGED <<rows, nextId, rowLock, k8sVars, faults>>

\* INSERT and COMMIT; the unique key on the name answers 409.
Insert(r) ==
    /\ apiPc[r] = "insert"
    /\ IF Named(apiCall[r].name) # {} THEN UNCHANGED <<rows, nextId>>
       ELSE /\ rows' = [rows EXCEPT ![nextId] =
                          [name |-> apiCall[r].name, kind |-> apiCall[r].kind,
                           event |-> "scheduled"]]
            /\ nextId' = nextId + 1
    /\ Reply(r)
    /\ UNCHANGED <<rowLock, k8sVars, faults>>

-----------------------------------------------------------------------------
(* startNotebook and stopNotebook                                          *)

StartLock(r, n) ==
    /\ Begin(r, "start", n, "unknown", "rows")
    /\ LockProfile(r)
    /\ UNCHANGED <<rows, nextId, rowLock, k8sVars, faults>>

StartRead(r) ==
    LET found == {i \in Named(apiCall[r].name) : rows[i].event = "notebook-applied"}
    IN  /\ apiPc[r] = "rows"
        /\ apiCall[r].op = "start"
        /\ \/ /\ found = {}
              /\ Reply(r)
           \/ \E i \in found :
              /\ apiCall' = [apiCall EXCEPT ![r].kind = rows[i].kind]
              /\ apiSeen' = [apiSeen EXCEPT ![r] = Snapshot]
              /\ Goto(r, "running")
              /\ UNCHANGED profileLock
        /\ UNCHANGED <<rows, nextId, rowLock, k8sVars, faults>>

\* stopNotebook takes no lock; any other latest event is answered 4xx.
StopRead(r, n) ==
    /\ \E i \in Named(n) : rows[i].event = "notebook-applied"
    /\ Begin(r, "stop", n, "unknown", "get")
    /\ UNCHANGED <<dbVars, k8sVars, faults>>

\* The start of a notebook that runs has nothing to do.
NeedsUpdate(r, n) ==
    notebooks[n] # NoObj /\ (apiCall[r].op = "start" => notebooks[n].stopped)

\* The Get of removeStopped... and addStoppedAnnotationToNotebook.
GetNotebook(r) ==
    LET n == apiCall[r].name
    IN  /\ apiPc[r] = "get"
        /\ IF NeedsUpdate(r, n)
           THEN /\ current' = [current EXCEPT ![n] = @ \cup {r}]
                /\ Goto(r, "update")
                /\ UNCHANGED <<apiCall, apiSeen, profileLock>>
           ELSE Reply(r) /\ UNCHANGED current
        /\ UNCHANGED <<rows, nextId, rowLock, notebooks, pvcs, faults>>

\* Their Update: a conflict unless the copy still has the resourceVersion.
UpdateNotebook(r) ==
    LET n == apiCall[r].name
    IN  /\ apiPc[r] = "update"
        /\ IF r \notin current[n] THEN UNCHANGED <<notebooks, current>>
           ELSE /\ notebooks' = [notebooks EXCEPT ![n].stopped = apiCall[r].op = "stop"]
                /\ current' = [current EXCEPT ![n] = {}]
        /\ Reply(r)
        /\ UNCHANGED <<rows, nextId, rowLock, pvcs, faults>>

-----------------------------------------------------------------------------
(* deleteNotebook: no lock and no transaction over its four steps.         *)

\* Mutant: the state of the row is not looked at.
DeletableAlways(i) == rows[i] # NoRow

Deletable(i) == rows[i].event \in Failures \cup {"notebook-applied"}

\* The latest event decides, now, whether Kubernetes objects go too.
DeleteRead(r, n) ==
    \E i \in Named(n) :
    /\ Deletable(i)
    /\ Begin(r, "delete", n, "unknown",
             IF rows[i].event \in Failures THEN "deleteFailedRow" ELSE "deleteRow")
    /\ UNCHANGED <<dbVars, k8sVars, faults>>

\* DELETE by name waits for a row lock and does not look at what it deleted.
DeleteRow(r) ==
    LET hit == Named(apiCall[r].name)
    IN  /\ apiPc[r] \in {"deleteRow", "deleteFailedRow"}
        /\ \A i \in hit : rowLock[i] = NoOne
        /\ rows' = [i \in Ids |-> IF i \in hit THEN NoRow ELSE rows[i]]
        /\ IF apiPc[r] = "deleteFailedRow" THEN Reply(r)
           ELSE Goto(r, "deleteNotebook") /\ UNCHANGED <<apiCall, apiSeen, profileLock>>
        /\ UNCHANGED <<nextId, rowLock, k8sVars, faults>>

\* Mutant: the claim is left behind.
DeleteNotebookOnly(r) ==
    /\ apiPc[r] = "deleteNotebook"
    /\ DropNotebook(apiCall[r].name)
    /\ Reply(r)
    /\ UNCHANGED <<rows, nextId, rowLock, pvcs, faults>>

DeleteNotebook(r) ==
    /\ apiPc[r] = "deleteNotebook"
    /\ DropNotebook(apiCall[r].name)
    /\ Goto(r, "deleteClaim")
    /\ UNCHANGED <<apiCall, apiSeen, dbVars, pvcs, faults>>

DeleteClaim(r) ==
    /\ apiPc[r] = "deleteClaim"
    /\ DropClaim(apiCall[r].name)
    /\ Reply(r)
    /\ UNCHANGED <<rows, nextId, rowLock, notebooks, current, faults>>

-----------------------------------------------------------------------------
\* Any call fails for good, the request's deadline passes, or the API restarts:
\* the request ends where it is, its transaction rolled back.
ApiError(r) ==
    /\ apiPc[r] # "idle"
    /\ Fault
    /\ Reply(r)
    /\ current' = [n \in Names |-> current[n] \ {r}]
    /\ UNCHANGED <<rows, nextId, rowLock, notebooks, pvcs>>

\* What a request that has begun does by itself.
Proceed(r) ==
    \/ CreateRead(r) \/ ListTotals(r) \/ ListRunning(r) \/ Insert(r)
    \/ StartRead(r) \/ GetNotebook(r) \/ UpdateNotebook(r)
    \/ DeleteRow(r) \/ DeleteNotebook(r) \/ DeleteClaim(r)
=============================================================================
