------------------------------ MODULE Sandbox ------------------------------
(***************************************************************************)
(* The life of one user's notebooks: the API's requests, the worker and    *)
(* the cluster over the state they share.                                  *)
(***************************************************************************)
EXTENDS NotebookApi, NotebookWorker

vars == <<dbVars, k8sVars, faults, apiVars, workerVars>>

Init == StoreInit /\ ApiInit /\ WorkerInit

ApiNext ==
    \/ \E r \in Requests, n \in Names, k \in Kinds : CreateLock(r, n, k) /\ UNCHANGED workerVars
    \/ \E r \in Requests, n \in Names : StartLock(r, n)  /\ UNCHANGED workerVars
    \/ \E r \in Requests, n \in Names : StopRead(r, n)   /\ UNCHANGED workerVars
    \/ \E r \in Requests, n \in Names : DeleteRead(r, n) /\ UNCHANGED workerVars
    \/ \E r \in Requests : CreateRead(r)     /\ UNCHANGED workerVars
    \/ \E r \in Requests : ListTotals(r)     /\ UNCHANGED workerVars
    \/ \E r \in Requests : ListRunning(r)    /\ UNCHANGED workerVars
    \/ \E r \in Requests : RefuseCredit(r)   /\ UNCHANGED workerVars
    \/ \E r \in Requests : Insert(r)         /\ UNCHANGED workerVars
    \/ \E r \in Requests : StartRead(r)      /\ UNCHANGED workerVars
    \/ \E r \in Requests : GetNotebook(r)    /\ UNCHANGED workerVars
    \/ \E r \in Requests : UpdateNotebook(r) /\ UNCHANGED workerVars
    \/ \E r \in Requests : DeleteRow(r)      /\ UNCHANGED workerVars
    \/ \E r \in Requests : DeleteNotebook(r) /\ UNCHANGED workerVars
    \/ \E r \in Requests : DeleteClaim(r)    /\ UNCHANGED workerVars
    \/ \E r \in Requests : ApiError(r)       /\ UNCHANGED workerVars

WorkerNext ==
    \/ \E w \in Workers : Fetch(w)           /\ UNCHANGED apiVars
    \/ \E w \in Workers : MarkPicked(w)      /\ UNCHANGED apiVars
    \/ \E w \in Workers : MarkPickedFails(w) /\ UNCHANGED apiVars
    \/ \E w \in Workers : CreatePVC(w)       /\ UNCHANGED apiVars
    \/ \E w \in Workers : MarkPVC(w)         /\ UNCHANGED apiVars
    \/ \E w \in Workers : CreateNotebook(w)  /\ UNCHANGED apiVars
    \/ \E w \in Workers : MarkNotebook(w)    /\ UNCHANGED apiVars
    \/ \E w \in Workers : MarkFailed(w)      /\ UNCHANGED apiVars
    \/ \E w \in Workers : CleanNotebook(w)   /\ UNCHANGED apiVars
    \/ \E w \in Workers : CleanPVC(w)        /\ UNCHANGED apiVars
    \/ \E w \in Workers : Exit(w)            /\ UNCHANGED apiVars
    \/ Sigterm /\ UNCHANGED apiVars
    \/ Restart /\ UNCHANGED apiVars
    \/ Crash   /\ UNCHANGED apiVars

ClusterNext ==
    \/ \E n \in Names : ClaimGone(n)   /\ UNCHANGED <<apiVars, workerVars>>
    \/ \E n \in Names : Cull(n)        /\ UNCHANGED <<apiVars, workerVars>>
    \/ \E n \in Names : WriteStatus(n) /\ UNCHANGED <<apiVars, workerVars>>

Next == ApiNext \/ WorkerNext \/ ClusterNext

Spec == Init /\ [][Next]_vars

\* Goroutines that can run do run, PostgreSQL hands a row lock to the DELETE that
\* waits for it, and Kubernetes finalizers end.  Clients, faults, the culling
\* controller and SIGTERM are never forced.
Fairness ==
    /\ \A r \in Requests :
         /\ WF_vars(Proceed(r) /\ UNCHANGED workerVars)
         /\ SF_vars(DeleteRow(r) /\ UNCHANGED workerVars)
    /\ \A w \in Workers : WF_vars((Work(w) \/ Exit(w)) /\ UNCHANGED apiVars)
    /\ WF_vars(Restart /\ UNCHANGED apiVars)
    /\ \A n \in Names : WF_vars(ClaimGone(n) /\ UNCHANGED <<apiVars, workerVars>>)

FairSpec == Spec /\ Fairness

-----------------------------------------------------------------------------
TypeOK == StoreTypeOK /\ ApiTypeOK /\ WorkerTypeOK

\* At most one request of the user is between reading the rows and committing,
\* and it is the one that holds the profile row (create and start; NOWAIT).
LockDiscipline == \A r \in Requests : HoldsProfile(r) <=> profileLock = r

\* No row is worked on by two goroutines, whatever fails and whoever restarts
\* (FOR UPDATE SKIP LOCKED and picked_at in FetchAndMarkNotebook).
SingleClaim ==
    \A v, w \in Workers :
        job[v] # NoJob /\ job[w] # NoJob /\ job[v].id = job[w].id => v = w

-----------------------------------------------------------------------------
(* What keeps them true step after step.                                   *)

\* A request that has begun knows its operation, and its step is one of it.
CallShape ==
    \A r \in Requests :
        /\ apiPc[r] = "idle" <=> apiCall[r] = NoCall
        /\ apiPc[r] \in {"rows", "running"} => apiCall[r].op \in {"create", "start"}
        /\ apiPc[r] \in {"totals", "over", "insert"} => apiCall[r].op = "create"
        /\ apiPc[r] \in {"get", "update"} => apiCall[r].op \in {"start", "stop"}
        /\ apiCall[r] # NoCall /\ apiCall[r].op = "create" => apiCall[r].kind \in Kinds

\* Nobody else inserts between a create's first step and its INSERT.
RoomToInsert ==
    \A r \in Requests :
        apiPc[r] \in Locked /\ apiCall[r].op = "create" => nextId <= MaxRows

\* Ids are not used twice.
FreshIds == \A i \in Ids : i >= nextId => rows[i] = NoRow

\* A resourceVersion is that of a Notebook that exists.
CopiesExist == \A n \in Names : current[n] # {} => notebooks[n] # NoObj

JobShape ==
    \A w \in Workers :
        /\ workerPc[w] \in Waiting <=> job[w] = NoJob
        /\ job[w] # NoJob => job[w].id < nextId

\* A row is locked by the one goroutine that is marking it, and still there.
RowLocked ==
    \A i \in Ids, w \in Workers :
        rowLock[i] = w <=> workerPc[w] = "marking" /\ job[w].id = i

\* How far the row of a job is, if the user has not deleted it.
JobStage ==
    \A w \in Workers :
        LET i == job[w].id IN
        /\ workerPc[w] = "marking" => rows[i] # NoRow /\ rows[i].event = "scheduled"
        /\ job[w] # NoJob /\ workerPc[w] # "marking" /\ rows[i] # NoRow =>
             /\ rows[i].event # "scheduled"
             /\ workerPc[w] \in {"createPVC", "markPVC", "markPVCFailed"} =>
                  rows[i].event = "picked"
             /\ workerPc[w] \in {"createNotebook", "markNotebook", "markNotebookFailed"} =>
                  rows[i].event = "pvc-applied"

CoreInv ==
    /\ TypeOK /\ CallShape /\ LockDiscipline /\ RoomToInsert
    /\ FreshIds /\ CopiesExist /\ JobShape
ClaimInv == RowLocked /\ JobStage /\ SingleClaim
IndInv == CoreInv /\ ClaimInv

-----------------------------------------------------------------------------
\* The events a row may go through: once a row has an outcome it keeps it, and no
\* status update of one goroutine overwrites another's (spawner.go's order).
EventSteps ==
    {<<"scheduled", "picked">>, <<"picked", "pvc-applied">>,
     <<"picked", "pvc-apply-failed">>, <<"pvc-applied", "notebook-applied">>,
     <<"pvc-applied", "notebook-apply-failed">>}

EventOrder ==
    [][\A i \in Ids :
         \/ rows[i] = NoRow \/ rows'[i] = NoRow
         \/ rows'[i].event = rows[i].event
         \/ <<rows[i].event, rows'[i].event>> \in EventSteps]_vars

-----------------------------------------------------------------------------
(* Limits (cmd/api/README.md:10-15).                                       *)

RunningNow(k) ==
    {n \in Names : notebooks[n] # NoObj /\ notebooks[n].kind = k /\ ~ notebooks[n].stopped}

\* The notebook's row says it failed: its cleanup is due.
GivenUp(n) ==
    LET o == notebooks[n].owner IN rows[o] # NoRow /\ rows[o].event \in Failures

\* The notebooks that run in the cluster stay within the user's limit, however
\* creates, starts, stops, culling and the worker's steps interleave.
RunningLimit ==
    \A k \in Kinds :
        Cardinality({n \in RunningNow(k) : ~ GivenUp(n)}) <= MaxRunning[k]

\* The rows that have not failed stay within the limit on the total.
TotalLimit ==
    \A k \in Kinds :
        Cardinality({i \in Live : rows[i].kind = k /\ rows[i].event \notin Failures})
            <= MaxTotal[k]

-----------------------------------------------------------------------------
(* Rows and the objects they stand for.                                    *)

\* A row that says notebook-applied has the Notebook and the claim its own
\* worker created: no other row's cleanup or delete took them.
AppliedBacked ==
    \A i \in Live :
        rows[i].event = "notebook-applied" =>
            /\ notebooks[rows[i].name] # NoObj
            /\ notebooks[rows[i].name].owner = i
            /\ pvcs[rows[i].name] = [owner |-> i, phase |-> "bound"]

DeletesNow(n, pcs) ==
    \E r \in Requests : apiPc[r] \in pcs /\ apiCall[r].name = n

CleansNow(n, pcs) ==
    \E w \in Workers : workerPc[w] \in pcs /\ job[w].name = n

\* The row stands for what its worker created: deleting it deletes that too.
Keeps(i) == rows[i] # NoRow /\ rows[i].event \notin Failures

Tracked(n) ==
    /\ notebooks[n] # NoObj =>
         \/ Keeps(notebooks[n].owner)
         \/ DeletesNow(n, {"deleteNotebook"}) \/ CleansNow(n, {"cleanNotebook"})
    /\ pvcs[n] # NoObj =>
         \/ pvcs[n].phase = "terminating" \/ Keeps(pvcs[n].owner)
         \/ DeletesNow(n, {"deleteNotebook", "deleteClaim"})
         \/ CleansNow(n, {"cleanNotebook", "cleanPVC"})

\* Whatever runs or keeps storage belongs to a row whose delete removes it, or
\* something is about to remove it.  Only a step in which a call fails or a
\* process dies leaves an object behind: the order of deletes, cleanups, creates
\* under the same name, and restarts never does.
LostByFaultOnly ==
    [][\A n \in Names : Tracked(n) => Tracked(n)' \/ faults' > faults]_vars

\* When every goroutine has left after SIGTERM, no row is left half way between
\* its claim and its Notebook: an accepted job is finished first (main.go, wg).
GracefulStop ==
    (\A w \in Workers : workerPc[w] = "exited")
        => \A i \in Live : rows[i].event # "pvc-applied"

\* The life of a name, as its row's latest event tells it.
PhaseOf(n) ==
    LET events == {rows[i].event : i \in Named(n)}
    IN  CASE events = {} -> "absent"
          [] events = {"notebook-applied"} -> "applied"
          [] events # {} /\ events \subseteq Failures -> "failed"
          [] OTHER -> "pending"

Lifecycle == INSTANCE NotebookLifecycle WITH phase <- [n \in Names |-> PhaseOf(n)]

\* A user who sends one request at a time sees exactly the promised life of a
\* notebook, whatever fails or crashes behind the API.
KeepsLifecycle == Lifecycle!Spec

-----------------------------------------------------------------------------
(* Progress.                                                               *)

Settled(i) == rows[i] = NoRow \/ Deletable(i)

\* Every notebook a user asked for is applied, fails, or is deleted.  A
\* SIGTERM may cut off the answer to the COMMIT of a claim, whose row is then lost.
RowsSettle == [] ~ stopping => \A i \in Ids : ~ Settled(i) ~> Settled(i)

\* Every request is answered, and with it the profile row is unlocked.
RequestsEnd == \A r \in Requests : apiPc[r] # "idle" ~> apiPc[r] = "idle"

\* A worker told to stop stops.
WorkerStops == stopping ~> \A w \in Workers : workerPc[w] = "exited"
=============================================================================
