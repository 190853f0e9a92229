--------------------------- MODULE NotebookWorker ---------------------------
(***************************************************************************)
(* cmd/worker: goroutines that poll the table, claim a row and create its  *)
(* claim and Notebook.  A step is one database statement or one attempt of *)
(* a Kubernetes call with the code up to the next one.  A call that fails  *)
(* may have taken effect all the same (its answer was lost).               *)
(***************************************************************************)
EXTENDS NotebookStore

CONSTANTS
    MaxAttempts,    \* attempts of a Kubernetes create, WithK8sRetry's MaxAttempts
    MayStop,        \* TRUE: the process may be told to stop (SIGTERM)
    NoJob

ASSUME WorkerAssumption ==
    /\ MaxAttempts \in Nat \ {0}
    /\ MayStop \in BOOLEAN

VARIABLES
    workerPc,       \* what the goroutine of a slot does next
    job,            \* the Notebook it fetched
    attempt,        \* attempts of the current create that failed
    stopping        \* the context is cancelled

workerVars == <<workerPc, job, attempt, stopping>>

WorkerPcs == {"poll", "marking", "createPVC", "markPVC", "createNotebook",
              "markNotebook", "markPVCFailed", "markNotebookFailed",
              "cleanNotebook", "cleanPVC", "exited"}
Waiting == {"poll", "exited"}

Job == [id: Ids, name: Names, kind: Kinds]

ASSUME JobAssumption == NoJob \notin Job

WorkerTypeOK ==
    /\ workerPc \in [Workers -> WorkerPcs]
    /\ job \in [Workers -> Job \cup {NoJob}]
    /\ attempt \in [Workers -> 0..(MaxAttempts - 1)]
    /\ stopping \in BOOLEAN

WorkerInit ==
    /\ workerPc = [w \in Workers |-> "poll"]
    /\ job = [w \in Workers |-> NoJob]
    /\ attempt = [w \in Workers |-> 0]
    /\ stopping = FALSE

-----------------------------------------------------------------------------
Step(w, pc) ==
    /\ workerPc' = [workerPc EXCEPT ![w] = pc]
    /\ attempt' = [attempt EXCEPT ![w] = 0]
    /\ UNCHANGED <<job, stopping>>

\* worker() returns: main's loop starts another in its slot, unless stopping.
Finish(w) ==
    /\ workerPc' = [workerPc EXCEPT ![w] = IF stopping THEN "exited" ELSE "poll"]
    /\ job' = [job EXCEPT ![w] = NoJob]
    /\ attempt' = [attempt EXCEPT ![w] = 0]
    /\ UNCHANGED stopping

\* Mutant: the transaction is left open.
UnlockNever(i) == UNCHANGED rowLock

Unlock(i) == rowLock' = [rowLock EXCEPT ![i] = NoOne]

\* Mutants: a SELECT that sees locked rows; one that does not ask for picked_at.
FetchableLocked == {i \in Live : rows[i].event = "scheduled"}
FetchableAgain == {i \in Live : rowLock[i] = NoOne}

\* The rows FOR UPDATE SKIP LOCKED ... WHERE picked_at IS NULL may return.
Fetchable == {i \in Live : rows[i].event = "scheduled" /\ rowLock[i] = NoOne}

-----------------------------------------------------------------------------
(* FetchAndMarkNotebook: SELECT, then UPDATE and COMMIT.                   *)

Fetch(w) ==
    /\ workerPc[w] = "poll"
    /\ ~ stopping
    /\ \E i \in Fetchable :
       /\ rowLock' = [rowLock EXCEPT ![i] = w]
       /\ job' = [job EXCEPT ![w] = [id |-> i, name |-> rows[i].name, kind |-> rows[i].kind]]
    /\ workerPc' = [workerPc EXCEPT ![w] = "marking"]
    /\ UNCHANGED <<attempt, stopping, rows, nextId, profileLock, k8sVars, faults>>

MarkPicked(w) ==
    /\ workerPc[w] = "marking"
    /\ SetEvent(job[w].id, "picked")
    /\ Unlock(job[w].id)
    /\ Step(w, "createPVC")
    /\ UNCHANGED <<nextId, profileLock, k8sVars, faults>>

\* The transaction fails, or its COMMIT succeeds and the answer is lost; the
\* retry, like the next poll, selects afresh.  SIGTERM cancels its context.
MarkPickedFails(w) ==
    /\ workerPc[w] = "marking"
    /\ Fault \/ (stopping /\ UNCHANGED faults)
    /\ UNCHANGED rows \/ SetEvent(job[w].id, "picked")
    /\ Unlock(job[w].id)
    /\ Finish(w)
    /\ UNCHANGED <<nextId, profileLock, k8sVars>>

-----------------------------------------------------------------------------
(* CreatePVC and CreateNotebook, and the status updates between them.      *)

\* Mutant: one attempt too many.
RetryPastLast(w, gaveUp) ==
    IF attempt[w] + 1 <= MaxAttempts
    THEN /\ attempt' = [attempt EXCEPT ![w] = @ + 1]
         /\ UNCHANGED <<workerPc, job, stopping>>
    ELSE Step(w, gaveUp)

\* An attempt without an answer: the next one, or the last one's error.
Retry(w, gaveUp) ==
    IF attempt[w] + 1 < MaxAttempts
    THEN /\ attempt' = [attempt EXCEPT ![w] = @ + 1]
         /\ UNCHANGED <<workerPc, job, stopping>>
    ELSE Step(w, gaveUp)

PutClaim(w) ==
    pvcs' = [pvcs EXCEPT ![job[w].name] = [owner |-> job[w].id, phase |-> "bound"]]

\* AlreadyExists is an error even when the claim is this worker's own.
CreatePVC(w) ==
    /\ workerPc[w] = "createPVC"
    /\ \/ /\ pvcs[job[w].name] # NoObj
          /\ Step(w, "markPVCFailed")
          /\ UNCHANGED <<pvcs, faults>>
       \/ /\ pvcs[job[w].name] = NoObj
          /\ PutClaim(w)
          /\ Step(w, "markPVC")
          /\ UNCHANGED faults
       \/ /\ Fault
          /\ UNCHANGED pvcs \/ (pvcs[job[w].name] = NoObj /\ PutClaim(w))
          /\ Retry(w, "markPVCFailed")
    /\ UNCHANGED <<dbVars, notebooks, current>>

\* NotebookStatusUpdate never retries; when it fails the worker cleans up.
MarkPVC(w) ==
    /\ workerPc[w] = "markPVC"
    /\ \/ SetEvent(job[w].id, "pvc-applied") /\ Step(w, "createNotebook") /\ UNCHANGED faults
       \/ /\ Fault
          /\ UNCHANGED rows \/ SetEvent(job[w].id, "pvc-applied")
          /\ Step(w, "cleanNotebook")
    /\ UNCHANGED <<nextId, rowLock, profileLock, k8sVars>>

PutNotebook(w) ==
    notebooks' = [notebooks EXCEPT ![job[w].name] =
                    [owner |-> job[w].id, kind |-> job[w].kind, stopped |-> FALSE]]

CreateNotebook(w) ==
    /\ workerPc[w] = "createNotebook"
    /\ \/ /\ notebooks[job[w].name] # NoObj
          /\ Step(w, "markNotebookFailed")
          /\ UNCHANGED <<notebooks, faults>>
       \/ /\ notebooks[job[w].name] = NoObj
          /\ PutNotebook(w)
          /\ Step(w, "markNotebook")
          /\ UNCHANGED faults
       \/ /\ Fault
          /\ UNCHANGED notebooks \/ (notebooks[job[w].name] = NoObj /\ PutNotebook(w))
          /\ Retry(w, "markNotebookFailed")
    /\ UNCHANGED <<dbVars, current, pvcs>>

\* Mutant: `failed = false` is missing.
MarkNotebookStillFailed(w) ==
    /\ workerPc[w] = "markNotebook"
    /\ SetEvent(job[w].id, "notebook-applied")
    /\ Step(w, "cleanNotebook")
    /\ UNCHANGED <<nextId, rowLock, profileLock, k8sVars, faults>>

\* Mutant: an early return before the last update.
MarkNotebookUnrecorded(w) ==
    /\ workerPc[w] = "markNotebook"
    /\ Finish(w)
    /\ UNCHANGED <<dbVars, k8sVars, faults>>

\* The last update: failed or not, the notebook stays.
MarkNotebook(w) ==
    /\ workerPc[w] = "markNotebook"
    /\ \/ SetEvent(job[w].id, "notebook-applied") /\ UNCHANGED faults
       \/ UNCHANGED rows /\ Fault
    /\ Finish(w)
    /\ UNCHANGED <<nextId, rowLock, profileLock, k8sVars>>

-----------------------------------------------------------------------------
(* A failure: its event, then cleanupResources, which only logs errors.    *)

MarkFailed(w) ==
    /\ \/ /\ workerPc[w] = "markPVCFailed"
          /\ SetEvent(job[w].id, "pvc-apply-failed")
          /\ UNCHANGED faults
       \/ /\ workerPc[w] = "markNotebookFailed"
          /\ SetEvent(job[w].id, "notebook-apply-failed")
          /\ UNCHANGED faults
       \/ /\ workerPc[w] \in {"markPVCFailed", "markNotebookFailed"}
          /\ Fault
          /\ UNCHANGED rows
    /\ Step(w, "cleanNotebook")
    /\ UNCHANGED <<nextId, rowLock, profileLock, k8sVars>>

CleanNotebook(w) ==
    /\ workerPc[w] = "cleanNotebook"
    /\ \/ DropNotebook(job[w].name) /\ UNCHANGED faults
       \/ UNCHANGED <<notebooks, current>> /\ Fault
    /\ Step(w, "cleanPVC")
    /\ UNCHANGED <<dbVars, pvcs>>

CleanPVC(w) ==
    /\ workerPc[w] = "cleanPVC"
    /\ \/ DropClaim(job[w].name) /\ UNCHANGED faults
       \/ UNCHANGED pvcs /\ Fault
    /\ Finish(w)
    /\ UNCHANGED <<dbVars, notebooks, current>>

-----------------------------------------------------------------------------
(* The process: main's loop over the slots, SIGTERM, a crash.              *)

Sigterm ==
    /\ MayStop /\ ~ stopping
    /\ stopping' = TRUE
    /\ UNCHANGED <<workerPc, job, attempt, dbVars, k8sVars, faults>>

\* Mutants: the context is looked at between the steps of a job; never looked at.
ExitMidway(w) ==
    /\ workerPc[w] \in {"poll", "createNotebook"}
    /\ stopping
    /\ Finish(w)
    /\ UNCHANGED <<dbVars, k8sVars, faults>>

ExitUnasked(w) ==
    /\ workerPc[w] = "poll"
    /\ ~ stopping /\ MayStop
    /\ workerPc' = [workerPc EXCEPT ![w] = "exited"]
    /\ UNCHANGED <<job, attempt, stopping, dbVars, k8sVars, faults>>

\* A polling goroutine sees the cancelled context.
Exit(w) ==
    /\ workerPc[w] = "poll"
    /\ stopping
    /\ workerPc' = [workerPc EXCEPT ![w] = "exited"]
    /\ UNCHANGED <<job, attempt, stopping, dbVars, k8sVars, faults>>

NewProcess ==
    /\ workerPc' = [w \in Workers |-> "poll"]
    /\ job' = [w \in Workers |-> NoJob]
    /\ attempt' = [w \in Workers |-> 0]
    /\ stopping' = FALSE

\* wg.Wait returned, the process ended, the Deployment starts the next one.
Restart ==
    /\ stopping
    /\ \A w \in Workers : workerPc[w] = "exited"
    /\ NewProcess
    /\ UNCHANGED <<dbVars, k8sVars, faults>>

\* The process dies; PostgreSQL rolls its open transactions back.
Crash ==
    /\ \E w \in Workers : workerPc[w] \notin Waiting
    /\ Fault
    /\ NewProcess
    /\ rowLock' = [i \in Ids |-> NoOne]
    /\ UNCHANGED <<rows, nextId, profileLock, k8sVars>>

Work(w) ==
    \/ Fetch(w) \/ MarkPicked(w) \/ CreatePVC(w) \/ MarkPVC(w)
    \/ CreateNotebook(w) \/ MarkNotebook(w) \/ MarkFailed(w)
    \/ CleanNotebook(w) \/ CleanPVC(w)
=============================================================================
