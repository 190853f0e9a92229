----------------------- MODULE SandboxLifecycleProofs -----------------------
(***************************************************************************)
(* What becomes of the rows and of the objects they stand for: nothing is  *)
(* left half way by a graceful stop; a user who sends one request at a     *)
(* time, or who deletes nothing, sees the promised life of a notebook and  *)
(* leaves no object behind.  For every number of goroutines, names, rows   *)
(* and failures.                                                           *)
(***************************************************************************)
EXTENDS SandboxLimitProofs

\* A client that waits for each answer.
OneRequest == \A q, r \in Requests : q = r

\* MAX_CONCURRENT_WORKER=1.
OneWorker == \A v, w \in Workers : v = w

\* No request comes between two steps of a delete.
Orderly == OneRequest \/ "delete" \notin Ops

-----------------------------------------------------------------------------
(* The parts of the invariants.                                            *)

DeleteCall == \A r \in Requests : apiPc[r] \in Deleting => apiCall[r].op = "delete"

\* What a delete read of its row is still so, and once the row is gone it has no
\* successor.
DeletesDone ==
    \A r \in Requests :
        /\ apiPc[r] = "deleteRow" =>
             \A i \in Named(apiCall[r].name) : rows[i].event = "notebook-applied"
        /\ apiPc[r] = "deleteFailedRow" =>
             \A i \in Named(apiCall[r].name) : rows[i].event \in Failures
        /\ apiPc[r] \in {"deleteNotebook", "deleteClaim"} => Named(apiCall[r].name) = {}

\* The row of a goroutine has no outcome yet, so that nobody deletes it.
Making == {"createPVC", "markPVC", "createNotebook", "markNotebook",
           "markPVCFailed", "markNotebookFailed"}
RowThere == \A w \in Workers : workerPc[w] \in Making => rows[job[w].id] # NoRow

JobNamed ==
    \A w \in Workers :
        job[w] # NoJob /\ rows[job[w].id] # NoRow => rows[job[w].id].name = job[w].name

\* The row an object was made for, if it is still there, has the object's name.
Owned(i, n) == i < nextId /\ (rows[i] # NoRow => rows[i].name = n)
OwnerNamed ==
    \A n \in Names :
        /\ notebooks[n] # NoObj => Owned(notebooks[n].owner, n)
        /\ pvcs[n] # NoObj => Owned(pvcs[n].owner, n)

\* A row half way is in the hands of a goroutine, unless something failed.
Finishing == {"createNotebook", "markNotebook", "markNotebookFailed"}
HalfDone ==
    faults = 0 =>
        \A i \in Live :
            rows[i].event = "pvc-applied" =>
                \E w \in Workers : workerPc[w] \in Finishing /\ job[w].id = i

NameInv == IndInv /\ UniqueNames /\ JobNamed /\ OwnerNamed /\ DeleteCall

-----------------------------------------------------------------------------
LEMMA FaultsStep ==
    ASSUME [Next]_vars
    PROVE  faults' = faults \/ faults' = faults + 1
<1>1. CASE ApiNext
  BY <1>1
  DEF ApiNext, CreateLock, StartLock, StopRead, DeleteRead, CreateRead, ListTotals,
      ListRunning, RefuseCredit, Insert, StartRead, GetNotebook, UpdateNotebook,
      DeleteRow, DeleteNotebook, DeleteClaim, ApiError, Fault
<1>2. CASE WorkerNext
  BY <1>2 DEF WorkerNext, Fetch, MarkPicked, MarkPickedFails, CreatePVC, MarkPVC,
              CreateNotebook, MarkNotebook, MarkFailed, CleanNotebook, CleanPVC,
              Exit, Sigterm, Restart, Crash, Fault
<1>3. CASE ClusterNext \/ UNCHANGED vars
  BY <1>3 DEF ClusterNext, ClaimGone, Cull, WriteStatus, vars
<1>. QED
  BY <1>1, <1>2, <1>3 DEF Next

LEMMA NextIdStep ==
    ASSUME IndInv, [Next]_vars
    PROVE  nextId \in Nat /\ nextId' \in Nat /\ nextId <= nextId'
<1>1. nextId \in Nat /\ nextId' \in Nat
  BY IndStep, StoreAssumption DEF IndInv, CoreInv, TypeOK, StoreTypeOK
<1>2. CASE ApiNext
  <2>1. UNCHANGED nextId \/ \E r \in Requests : Insert(r)
    BY <1>2
    DEF ApiNext, CreateLock, StartLock, StopRead, DeleteRead, CreateRead, ListTotals,
        ListRunning, RefuseCredit, StartRead, GetNotebook, UpdateNotebook,
        DeleteRow, DeleteNotebook, DeleteClaim, ApiError, dbVars
  <2>2. UNCHANGED nextId \/ nextId' = nextId + 1
    BY <2>1 DEF Insert
  <2>. QED
    BY <1>1, <2>2
<1>3. CASE WorkerNext
  BY <1>1, <1>3
  DEF WorkerNext, Fetch, MarkPicked, MarkPickedFails, CreatePVC, MarkPVC,
      CreateNotebook, MarkNotebook, MarkFailed, CleanNotebook, CleanPVC,
      Exit, Sigterm, Restart, Crash, dbVars
<1>4. CASE ClusterNext \/ UNCHANGED vars
  BY <1>1, <1>4 DEF ClusterNext, ClaimGone, Cull, WriteStatus, dbVars, vars
<1>. QED
  BY <1>1, <1>2, <1>3, <1>4 DEF Next

LEMMA JobNamedStep ==
    ASSUME IndInv, JobNamed, [Next]_vars
    PROVE  JobNamed'
<1>. SUFFICES ASSUME NEW w \in Workers, job'[w] # NoJob, rows'[job'[w].id] # NoRow
              PROVE  rows'[job'[w].id].name = job'[w].name
  BY DEF JobNamed
<1>1. CASE job'[w] = job[w]
  <2>1. job[w].id \in Ids /\ job[w].id < nextId
    BY <1>1 DEF IndInv, CoreInv, TypeOK, WorkerTypeOK, JobShape, Job
  <2>2. job[w].id \in Live'
    BY <1>1, <2>1 DEF Live
  <2>3. job[w].id # nextId
    BY <2>1, NextIdStep
  <2>4. job[w].id \in Live
    BY <2>2, <2>3, NewRow
  <2>5. rows'[job[w].id].name = rows[job[w].id].name
    BY <2>2, <2>4, RowMove
  <2>. QED
    BY <1>1, <2>4, <2>5 DEF JobNamed, Live
<1>2. CASE Fetch(w)
  BY <1>2, Fetched
<1>. QED
  BY <1>1, <1>2, JobKept

\* An id keeps its name as long as its row is there.
LEMMA OwnedStep ==
    ASSUME IndInv, [Next]_vars, NEW i \in Ids, NEW n, Owned(i, n)
    PROVE  Owned(i, n)'
<1>1. i < nextId'
  BY NextIdStep DEF Owned, Ids
<1>2. ASSUME rows'[i] # NoRow
      PROVE  rows'[i].name = n
  <2>1. i \in Live'
    BY <1>2 DEF Live
  <2>2. i \in Live
    BY <2>1, NewRow, NextIdStep DEF Owned, Ids
  <2>. QED
    BY <2>1, <2>2, RowMove DEF Owned, Live
<1>. QED
  BY <1>1, <1>2 DEF Owned

LEMMA OwnerNamedStep ==
    ASSUME IndInv, JobNamed, OwnerNamed, [Next]_vars
    PROVE  OwnerNamed'
<1>1. ASSUME NEW w \in Workers, CreateNotebook(w) \/ CreatePVC(w)
      PROVE  job[w].id \in Ids /\ Owned(job[w].id, job[w].name)
  <2>1. workerPc[w] \notin Waiting
    BY <1>1 DEF CreateNotebook, CreatePVC, Waiting
  <2>2. job[w] # NoJob /\ job[w].id \in Ids
    BY <2>1, JobType DEF IndInv
  <2>. QED
    BY <2>2 DEF Owned, JobNamed, IndInv, CoreInv, JobShape
<1>2. ASSUME NEW n \in Names, notebooks'[n] # NoObj
      PROVE  Owned(notebooks[n].owner, n)'
  <2>1. notebooks'[n].owner \in Ids /\ Owned(notebooks'[n].owner, n)
    <3>1. CASE notebooks[n] # NoObj /\ notebooks'[n].owner = notebooks[n].owner
      BY <3>1 DEF OwnerNamed, IndInv, CoreInv, TypeOK, StoreTypeOK, Notebook
    <3>. QED
      BY <1>1, <1>2, <3>1, NotebookMove DEF SameNotebook
  <2>2. PICK i \in Ids : i = notebooks'[n].owner
    BY <2>1
  <2>3. Owned(i, n)'
    BY <2>1, <2>2, OwnedStep
  <2>. QED
    BY <2>2, <2>3 DEF Owned
<1>3. ASSUME NEW n \in Names, pvcs'[n] # NoObj
      PROVE  Owned(pvcs[n].owner, n)'
  <2>1. pvcs'[n].owner \in Ids /\ Owned(pvcs'[n].owner, n)
    <3>1. CASE pvcs[n] # NoObj /\ pvcs'[n].owner = pvcs[n].owner
      BY <3>1 DEF OwnerNamed, IndInv, CoreInv, TypeOK, StoreTypeOK, Claim
    <3>2. ASSUME NEW w \in Workers, pvcs'[n] = [owner |-> job[w].id, phase |-> "bound"]
          PROVE  pvcs'[n].owner = job[w].id
      BY <3>2
    <3>. QED
      BY <1>1, <1>3, <3>1, <3>2, PvcMove
  <2>2. PICK i \in Ids : i = pvcs'[n].owner
    BY <2>1
  <2>3. Owned(i, n)'
    BY <2>1, <2>2, OwnedStep
  <2>. QED
    BY <2>2, <2>3 DEF Owned
<1>. QED
  BY <1>2, <1>3 DEF OwnerNamed

\* A request is in a delete only after DeleteRead.
LEMMA DeleteActs ==
    ASSUME IndInv, [Next]_vars, NEW r \in Requests, apiPc'[r] \in Deleting
    PROVE  \/ apiPc'[r] = apiPc[r] /\ apiCall'[r] = apiCall[r]
           \/ \E n \in Names :
                /\ DeleteRead(r, n)
                /\ apiCall'[r].op = "delete" /\ apiCall'[r].name = n
           \/ /\ DeleteRow(r) /\ apiPc[r] = "deleteRow" /\ apiPc'[r] = "deleteNotebook"
              /\ apiCall'[r] = apiCall[r]
           \/ /\ DeleteNotebook(r) /\ apiPc'[r] = "deleteClaim"
              /\ apiCall'[r] = apiCall[r]
<1>1. apiPc \in [Requests -> ApiPcs] /\ apiCall \in [Requests -> Call \cup {NoCall}]
  BY DEF IndInv, CoreInv, TypeOK, ApiTypeOK
<1>2. ASSUME Reply(r)
      PROVE  FALSE
  BY <1>1, <1>2 DEF Reply, Deleting
<1>3. ASSUME NEW pc \in ApiPcs \ Deleting, Goto(r, pc)
      PROVE  FALSE
  BY <1>1, <1>3 DEF Goto
<1>4. ASSUME NEW n \in Names, DeleteRead(r, n)
      PROVE  apiCall'[r].op = "delete" /\ apiCall'[r].name = n
  BY <1>1, <1>4 DEF DeleteRead, Begin
<1>5. ASSUME NEW n \in Names, NEW k \in Kinds, CreateLock(r, n, k) \/ StartLock(r, n) \/ StopRead(r, n)
      PROVE  FALSE
  BY <1>1, <1>5 DEF CreateLock, StartLock, StopRead, Begin, Deleting
<1>6. CASE DeleteRow(r)
  BY <1>1, <1>2, <1>6 DEF DeleteRow, Goto
<1>7. CASE DeleteNotebook(r)
  BY <1>1, <1>7 DEF DeleteNotebook, Goto
<1>8. ASSUME \/ CreateRead(r) \/ ListTotals(r) \/ ListRunning(r) \/ Insert(r)
             \/ StartRead(r) \/ GetNotebook(r) \/ UpdateNotebook(r) \/ DeleteClaim(r)
             \/ RefuseCredit(r) \/ ApiError(r)
      PROVE  FALSE
  <2>1. Reply(r) \/ \E pc \in {"totals", "running", "over", "insert", "get", "update"} : Goto(r, pc)
    BY <1>8 DEF CreateRead, ListTotals, ListRunning, Insert, StartRead, GetNotebook,
                UpdateNotebook, DeleteClaim, RefuseCredit, ApiError
  <2>. QED
    BY <1>2, <1>3, <2>1 DEF ApiPcs, Locked, Deleting
<1>. QED
  BY <1>4, <1>5, <1>6, <1>7, <1>8, RequestActs DEF Handles, Begins, Proceed, Kinds

LEMMA DeleteCallStep ==
    ASSUME IndInv, DeleteCall, [Next]_vars
    PROVE  DeleteCall'
<1>. SUFFICES ASSUME NEW r \in Requests, apiPc'[r] \in Deleting
              PROVE  apiCall'[r].op = "delete"
  BY DEF DeleteCall
<1>. QED
  BY DeleteActs DEF DeleteCall, DeleteRow, DeleteNotebook, Deleting

LEMMA NameInit == Init => NameInv
<1>. SUFFICES ASSUME Init PROVE NameInv
  OBVIOUS
<1>1. UniqueNames /\ JobNamed /\ OwnerNamed /\ DeleteCall
  BY DEF Init, StoreInit, ApiInit, WorkerInit, UniqueNames, Live, JobNamed, OwnerNamed,
         DeleteCall, Deleting
<1>. QED
  BY <1>1, IndInit DEF NameInv

LEMMA NameStep == NameInv /\ [Next]_vars => NameInv'
  BY IndStep, UniqueStep, JobNamedStep, OwnerNamedStep, DeleteCallStep DEF NameInv

-----------------------------------------------------------------------------
(* A graceful stop.                                                        *)

LEMMA HalfDoneStep ==
    ASSUME IndInv, HalfDone, [Next]_vars
    PROVE  HalfDone'
<1>. SUFFICES ASSUME faults' = 0, NEW i \in Live', rows'[i].event = "pvc-applied"
              PROVE  \E w \in Workers : workerPc'[w] \in Finishing /\ job'[w].id = i
  BY DEF HalfDone
<1>1. faults = 0 /\ ~ Fault
  BY FaultsStep, StoreAssumption DEF Fault, IndInv, CoreInv, TypeOK, StoreTypeOK
<1>2. workerPc \in [Workers -> WorkerPcs] /\ job \in [Workers -> Job \cup {NoJob}]
  BY DEF IndInv, CoreInv, TypeOK, WorkerTypeOK
<1>3. i \in Live
  BY NewRow, AddsRow
<1>4. CASE rows[i].event = "pvc-applied"
  <2>1. PICK w \in Workers : workerPc[w] \in Finishing /\ job[w].id = i
    BY <1>1, <1>3, <1>4 DEF HalfDone
  <2>2. ASSUME NEW e \in Events \ {"pvc-applied"}, SetEvent(job[w].id, e)
        PROVE  FALSE
    BY <1>3, <2>1, <2>2, SetEventRows DEF IndInv, Live
  <2>3. CASE Acts(w)
    <3>1. CASE CreateNotebook(w)
      BY <1>1, <1>2, <2>1, <3>1 DEF CreateNotebook, Step, Finishing
    <3>2. CASE MarkNotebook(w) \/ MarkFailed(w)
      BY <1>1, <2>1, <2>2, <3>2 DEF MarkNotebook, MarkFailed, Events, Failures
    <3>. QED
      BY <2>1, <2>3, <3>1, <3>2
      DEF Acts, Work, Fetch, MarkPicked, MarkPickedFails, CreatePVC, MarkPVC,
          CleanNotebook, CleanPVC, Exit, Finishing
  <2>4. CASE Restart \/ Crash
    BY <1>1, <2>1, <2>4 DEF Restart, Crash, Finishing
  <2>. QED
    BY <2>1, <2>3, <2>4, WorkerActs
<1>5. CASE rows[i].event # "pvc-applied"
  <2>1. PICK w \in Workers, e \in Events :
          /\ workerPc[w] \notin Waiting /\ Acts(w) /\ job[w].id = i
          /\ SetEvent(i, e) /\ rows'[i].event = e
    BY <1>3, <1>5, OutcomeBy
  <2>2. ASSUME NEW d \in Events \ {"pvc-applied"}, SetEvent(i, d)
        PROVE  FALSE
    BY <1>3, <2>2, SetEventRows DEF IndInv, Live
  <2>3. ~ UNCHANGED rows
    BY <1>5
  <2>4. CASE MarkPVC(w)
    BY <1>1, <1>2, <2>1, <2>4 DEF MarkPVC, Step, Finishing
  <2>5. CASE MarkPicked(w) \/ MarkPickedFails(w) \/ MarkNotebook(w) \/ MarkFailed(w)
    BY <2>1, <2>2, <2>3, <2>5 DEF MarkPicked, MarkPickedFails, MarkNotebook, MarkFailed, Events, Failures
  <2>. QED
    BY <2>1, <2>3, <2>4, <2>5
    DEF Acts, Work, Fetch, CreatePVC, CreateNotebook, CleanNotebook, CleanPVC, Exit, dbVars
<1>. QED
  BY <1>4, <1>5

\* As long as no call failed and no process died, goroutines that have all left
\* after a SIGTERM leave no row between its claim and its Notebook (main.go, wg).
THEOREM StopsClean == Spec => [](faults = 0 => GracefulStop)
<1>1. Init => HalfDone
  BY DEF Init, StoreInit, HalfDone, Live
<1>2. IndInv /\ HalfDone /\ [Next]_vars => (IndInv /\ HalfDone)'
  BY IndStep, HalfDoneStep
<1>3. IndInv /\ HalfDone => (faults = 0 => GracefulStop)
  BY DEF HalfDone, GracefulStop, Finishing
<1>. QED
  BY <1>1, <1>2, <1>3, IndInit, PTL DEF Spec
-----------------------------------------------------------------------------
(* Deletes and goroutines do not meet.                                     *)

\* A DELETE takes rows that have an outcome.
LEMMA RowKept ==
    ASSUME IndInv, DeletesDone, [Next]_vars, NEW i \in Live, ~ Deletable(i)
    PROVE  i \in Live' /\ rows'[i].name = rows[i].name
<1>1. ASSUME NEW r \in Requests, DeleteRow(r), i \in Named(apiCall[r].name)
      PROVE  Deletable(i)
  BY <1>1 DEF DeleteRow, DeletesDone, Deletable
<1>. QED
  BY <1>1, RowMove

\* An outcome stays.
LEMMA OutcomeKept ==
    ASSUME IndInv, [Next]_vars, NEW i \in Live \cap Live'
    PROVE  /\ rows'[i].name = rows[i].name /\ rows'[i].kind = rows[i].kind
           /\ rows[i].event = "notebook-applied" => rows'[i].event = "notebook-applied"
           /\ rows[i].event \in Failures => rows'[i].event = rows[i].event
  BY RowMove DEF EventSteps, Failures

LEMMA DeletesDoneStep ==
    ASSUME NameInv, DeletesDone, Orderly, [Next]_vars
    PROVE  DeletesDone'
<1>. SUFFICES ASSUME NEW r \in Requests, apiPc'[r] \in Deleting
              PROVE  /\ apiPc'[r] = "deleteRow" =>
                          \A i \in Named(apiCall[r].name)' : rows'[i].event = "notebook-applied"
                     /\ apiPc'[r] = "deleteFailedRow" =>
                          \A i \in Named(apiCall[r].name)' : rows'[i].event \in Failures
                     /\ apiPc'[r] \in {"deleteNotebook", "deleteClaim"} =>
                          Named(apiCall[r].name)' = {}
  BY DEF DeletesDone, Deleting
<1>1. IndInv /\ IndInv' /\ UniqueNames
  BY IndStep DEF NameInv
<1>2. OneRequest
  <2>1. apiCall'[r].op = "delete"
    BY <1>1, DeleteCallStep DEF NameInv, DeleteCall
  <2>2. apiCall'[r] \in Call
    BY <1>1 DEF IndInv, CoreInv, CallShape, TypeOK, ApiTypeOK, Deleting
  <2>. QED
    BY <2>1, <2>2 DEF Orderly, Call
<1>3. ASSUME apiPc'[r] = apiPc[r], apiCall'[r] = apiCall[r]
      PROVE  \A i \in Named(apiCall[r].name)' : i \in Named(apiCall[r].name) /\ i \in Live \cap Live'
  <2>1. ASSUME NEW q \in Requests, Adds(q)
        PROVE  FALSE
    BY <1>1, <1>2, <1>3, <2>1, AddsRow DEF OneRequest, Deleting
  <2>2. \A i \in Live' : i \in Live
    BY <1>1, <2>1, NewRow
  <2>. QED
    BY <1>1, <1>3, <2>2, OutcomeKept DEF Named
<1>4. CASE apiPc'[r] = apiPc[r] /\ apiCall'[r] = apiCall[r]
  BY <1>1, <1>3, <1>4, OutcomeKept DEF DeletesDone, Named
<1>5. ASSUME NEW n \in Names, DeleteRead(r, n), apiCall'[r].name = n
      PROVE  /\ apiPc'[r] = "deleteRow" =>
                  \A i \in Named(apiCall[r].name)' : rows'[i].event = "notebook-applied"
             /\ apiPc'[r] = "deleteFailedRow" =>
                  \A i \in Named(apiCall[r].name)' : rows'[i].event \in Failures
             /\ apiPc'[r] \in {"deleteRow", "deleteFailedRow"}
  <2>1. UNCHANGED rows
    BY <1>5 DEF DeleteRead, dbVars
  <2>2. Named(apiCall[r].name)' = Named(n)
    BY <1>5, <2>1 DEF Named, Live
  <2>3. PICK i \in Named(n) :
          /\ Deletable(i)
          /\ apiPc'[r] = IF rows[i].event \in Failures THEN "deleteFailedRow" ELSE "deleteRow"
    BY <1>1, <1>5 DEF DeleteRead, Begin, IndInv, CoreInv, TypeOK, ApiTypeOK
  <2>4. \A j \in Named(n) : j = i
    BY <1>1, <2>3 DEF UniqueNames, Named
  <2>. QED
    BY <2>1, <2>2, <2>3, <2>4 DEF Deletable
<1>6. CASE DeleteRow(r) /\ apiPc'[r] = "deleteNotebook" /\ apiCall'[r] = apiCall[r]
  <2>1. Named(apiCall[r].name)' = {}
    BY <1>6 DEF DeleteRow, Named, Live
  <2>. QED
    BY <1>6, <2>1
<1>7. CASE DeleteNotebook(r) /\ apiPc'[r] = "deleteClaim" /\ apiCall'[r] = apiCall[r]
  <2>1. UNCHANGED rows /\ apiPc[r] = "deleteNotebook"
    BY <1>7 DEF DeleteNotebook, dbVars
  <2>2. Named(apiCall[r].name)' = Named(apiCall[r].name)
    BY <1>7, <2>1 DEF Named, Live
  <2>. QED
    BY <1>7, <2>1, <2>2 DEF DeletesDone
<1>. QED
  BY <1>1, <1>4, <1>5, <1>6, <1>7, DeleteActs

LEMMA RowThereStep ==
    ASSUME NameInv, DeletesDone, RowThere, [Next]_vars
    PROVE  RowThere'
<1>. SUFFICES ASSUME NEW w \in Workers, workerPc'[w] \in Making
              PROVE  rows'[job'[w].id] # NoRow
  BY DEF RowThere
<1>1. IndInv /\ workerPc \in [Workers -> WorkerPcs] /\ job \in [Workers -> Job \cup {NoJob}]
  BY DEF NameInv, IndInv, CoreInv, TypeOK, WorkerTypeOK
<1>2. job'[w] = job[w] /\ workerPc[w] \in Making \cup {"marking"}
  <2>1. ASSUME NEW pc, Step(w, pc) \/ Retry(w, pc)
        PROVE  job'[w] = job[w]
    BY <1>1, <2>1 DEF Step, Retry
  <2>2. ASSUME Finish(w)
        PROVE  FALSE
    BY <1>1, <2>2 DEF Finish, Making
  <2>3. CASE MarkPicked(w) \/ CreatePVC(w) \/ MarkPVC(w) \/ CreateNotebook(w)
    BY <2>1, <2>3 DEF MarkPicked, CreatePVC, MarkPVC, CreateNotebook, Making
  <2>4. ASSUME Fetch(w) \/ Exit(w) \/ MarkFailed(w) \/ CleanNotebook(w)
        PROVE  FALSE
    BY <1>1, <2>4 DEF Fetch, Exit, MarkFailed, CleanNotebook, Step, Making
  <2>5. ASSUME MarkPickedFails(w) \/ MarkNotebook(w) \/ CleanPVC(w)
        PROVE  FALSE
    BY <2>2, <2>5 DEF MarkPickedFails, MarkNotebook, CleanPVC
  <2>6. ASSUME Restart \/ Crash
        PROVE  FALSE
    BY <2>6 DEF Restart, Crash, NewProcess, Making
  <2>. QED
    BY <1>1, <2>3, <2>4, <2>5, <2>6, WorkerActs DEF Acts, Work
<1>3. job[w].id \in Ids /\ rows[job[w].id] # NoRow
  BY <1>1, <1>2, JobType DEF RowThere, IndInv, ClaimInv, JobStage, Making, Waiting
<1>4. job[w].id \in Live /\ ~ Deletable(job[w].id)
  BY <1>1, <1>2, <1>3, JobType
  DEF Live, Deletable, Failures, IndInv, ClaimInv, JobStage, Making, Waiting
<1>. QED
  BY <1>1, <1>2, <1>4, RowKept DEF Live

LifeInv == NameInv /\ DeletesDone /\ RowThere

LEMMA LifeInit == Init => LifeInv
<1>. SUFFICES ASSUME Init PROVE LifeInv
  OBVIOUS
<1>1. DeletesDone /\ RowThere
  BY DEF Init, ApiInit, WorkerInit, DeletesDone, RowThere, Making
<1>. QED
  BY <1>1, NameInit DEF LifeInv

LEMMA LifeStep ==
    ASSUME Orderly, LifeInv, [Next]_vars
    PROVE  LifeInv'
  BY NameStep, DeletesDoneStep, RowThereStep DEF LifeInv

-----------------------------------------------------------------------------
(* The promised life of a name.                                            *)

EventPhase(e) ==
    IF e = "notebook-applied" THEN "applied" ELSE IF e \in Failures THEN "failed" ELSE "pending"

LEMMA PhaseNone ==
    ASSUME NEW n, Named(n) = {}
    PROVE  PhaseOf(n) = "absent"
<1>1. {rows[i].event : i \in Named(n)} = {}
  OBVIOUS
<1>. QED
  BY <1>1 DEF PhaseOf

LEMMA PhaseOne ==
    ASSUME NEW n, NEW i, Named(n) = {i}
    PROVE  PhaseOf(n) = EventPhase(rows[i].event)
<1>. DEFINE events == {rows[j].event : j \in Named(n)}
<1>1. events = {rows[i].event}
  OBVIOUS
<1>2. PhaseOf(n) = CASE events = {} -> "absent"
                     [] events = {"notebook-applied"} -> "applied"
                     [] events # {} /\ events \subseteq Failures -> "failed"
                     [] OTHER -> "pending"
  BY DEF PhaseOf
<1>. HIDE DEF events
<1>. QED
  BY <1>1, <1>2 DEF EventPhase, Failures

\* The life of a name as its only row tells it.
PhaseShape ==
    \A n : /\ Named(n) = {} => PhaseOf(n) = "absent"
           /\ \A i : Named(n) = {i} => PhaseOf(n) = EventPhase(rows[i].event)

LEMMA PhaseShaped == PhaseShape
  BY PhaseNone, PhaseOne DEF PhaseShape

LEMMA PhaseShapedNext == PhaseShape'
  BY PhaseShaped, PTL

LEMMA NamedOne == UniqueNames => \A n : \A i \in Named(n) : Named(n) = {i}
  BY DEF UniqueNames, Named

LEMMA NamedOneNext == UniqueNames' => \A n : \A i \in Named(n)' : Named(n)' = {i}
  BY DEF UniqueNames, Named

\* The phase of a name depends on its row only.
LEMMA PhaseSame ==
    ASSUME UniqueNames, UniqueNames', NEW n, Named(n)' = Named(n),
           \A i \in Named(n) : EventPhase(rows'[i].event) = EventPhase(rows[i].event)
    PROVE  PhaseOf(n)' = PhaseOf(n)
<1>1. CASE Named(n) = {}
  BY <1>1, PhaseShaped, PhaseShapedNext DEF PhaseShape
<1>2. ASSUME NEW i \in Named(n)
      PROVE  PhaseOf(n)' = PhaseOf(n)
  <2>1. Named(n) = {i} /\ Named(n)' = {i}
    BY <1>2, NamedOne
  <2>2. PhaseOf(n) = EventPhase(rows[i].event)
    BY <2>1, PhaseShaped DEF PhaseShape
  <2>3. PhaseOf(n)' = EventPhase(rows'[i].event)
    BY <2>1, PhaseShapedNext DEF PhaseShape, EventPhase
  <2>. QED
    BY <1>2, <2>2, <2>3
<1>. QED
  BY <1>1, <1>2

\* A step that concerns one name only is that name's.
LEMMA OneMoves ==
    ASSUME NEW n \in Names, NEW to, PhaseOf(n)' = to,
           \A m \in Names \ {n} : PhaseOf(m)' = PhaseOf(m)
    PROVE  [m \in Names |-> PhaseOf(m)]' = [[m \in Names |-> PhaseOf(m)] EXCEPT ![n] = to]
  OBVIOUS

LEMMA LifecycleStep ==
    ASSUME LifeInv, LifeInv', [Next]_vars
    PROVE  [Lifecycle!Next]_([n \in Names |-> PhaseOf(n)])
<1>. DEFINE Goal == [Lifecycle!Next]_([n \in Names |-> PhaseOf(n)])
<1>1. IndInv /\ UniqueNames /\ UniqueNames' /\ rows \in [Ids -> Row \cup {NoRow}]
  BY DEF LifeInv, NameInv, IndInv, CoreInv, TypeOK, StoreTypeOK
<1>2. ASSUME \A n \in Names : PhaseOf(n)' = PhaseOf(n)
      PROVE  Goal
  BY <1>2
<1>3. CASE UNCHANGED rows
  <2>1. \A n \in Names : PhaseOf(n)' = PhaseOf(n)
    BY <1>3 DEF PhaseOf, Named, Live
  <2>. QED
    BY <1>2, <2>1
<1>4. ASSUME NEW r \in Requests, Adds(r)
      PROVE  Goal
  <2>1. PICK n \in Names : n = apiCall[r].name
    BY <1>1, <1>4, AddsRow
  <2>2. /\ nextId \in Ids /\ rows[nextId] = NoRow /\ Live' = Live \cup {nextId}
        /\ \A i \in Ids \ {nextId} : rows'[i] = rows[i]
        /\ rows'[nextId].name = n /\ rows'[nextId].event = "scheduled"
    BY <1>1, <1>4, <2>1, AddsRow
  <2>3. Named(n) = {} /\ Named(n)' = {nextId}
    <3>1. Named(n) = {}
      BY <1>4, <2>1 DEF Adds
    <3>2. nextId \in Named(n)'
      BY <2>2 DEF Named
    <3>. QED
      BY <1>1, <3>1, <3>2, NamedOneNext
  <2>4. PhaseOf(n) = "absent"
    BY <2>3, PhaseShaped DEF PhaseShape
  <2>5. PhaseOf(n)' = "pending"
    <3>1. PhaseOf(n)' = EventPhase(rows'[nextId].event)
      BY <2>3, PhaseShapedNext DEF PhaseShape, EventPhase
    <3>. QED
      BY <2>2, <3>1 DEF EventPhase, Failures
  <2>6. ASSUME NEW m \in Names \ {n}
        PROVE  PhaseOf(m)' = PhaseOf(m)
    <3>1. Named(m)' = Named(m)
      BY <2>2, <2>6 DEF Named, Live
    <3>2. \A i \in Named(m) : rows'[i] = rows[i]
      BY <2>2 DEF Named, Live
    <3>. QED
      BY <1>1, <3>1, <3>2, PhaseSame
  <2>7. Lifecycle!Accept(n)
    BY <2>4, <2>5, <2>6, OneMoves DEF Lifecycle!Accept, Lifecycle!Move
  <2>. QED
    BY <2>7 DEF Lifecycle!Next
<1>5. ASSUME NEW r \in Requests, DeleteRow(r)
      PROVE  Goal
  <2>1. PICK n \in Names : n = apiCall[r].name
    BY <1>1, <1>5, CallType DEF DeleteRow, Call, IndInv
  <2>2. rows' = [i \in Ids |-> IF i \in Named(n) THEN NoRow ELSE rows[i]]
    BY <1>5, <2>1 DEF DeleteRow
  <2>3. ASSUME NEW m \in Names \ {n}
        PROVE  PhaseOf(m)' = PhaseOf(m)
    <3>1. \A i \in Named(m) : i \in Ids /\ i \notin Named(n)
      BY <2>3 DEF Named, Live
    <3>2. Named(m)' = Named(m) /\ \A i \in Named(m) : rows'[i] = rows[i]
      BY <2>2, <3>1 DEF Named, Live
    <3>. QED
      BY <1>1, <3>2, PhaseSame
  <2>4. Named(n)' = {}
    BY <2>2 DEF Named, Live
  <2>5. PhaseOf(n)' = "absent"
    BY <2>4, PhaseShapedNext DEF PhaseShape
  <2>6. CASE Named(n) = {}
    <3>1. PhaseOf(n) = "absent"
      BY <2>6, PhaseShaped DEF PhaseShape
    <3>. QED
      BY <1>2, <2>3, <2>5, <3>1
  <2>7. ASSUME NEW i \in Named(n)
        PROVE  Goal
    <3>1. PhaseOf(n) = EventPhase(rows[i].event)
      BY <1>1, NamedOne, PhaseShaped DEF PhaseShape
    <3>2. rows[i].event \in Failures \cup {"notebook-applied"}
      BY <1>5, <2>1 DEF DeleteRow, LifeInv, DeletesDone
    <3>3. PhaseOf(n) \in {"applied", "failed"}
      BY <3>1, <3>2 DEF EventPhase
    <3>4. Lifecycle!Delete(n)
      BY <2>3, <2>5, <3>3, OneMoves DEF Lifecycle!Delete, Lifecycle!Move
    <3>. QED
      BY <3>4 DEF Lifecycle!Next
  <2>. QED
    BY <2>6, <2>7
<1>6. ASSUME NEW w \in Workers, NEW e \in Events, workerPc[w] \notin Waiting, SetEvent(job[w].id, e)
      PROVE  Goal
  <2>1. PICK i \in Ids : i = job[w].id
    BY <1>1, <1>6, JobType DEF IndInv
  <2>2. CASE rows[i] = NoRow
    BY <1>3, <1>6, <2>1, <2>2 DEF SetEvent
  <2>3. CASE rows[i] # NoRow
    <3>1. SameRows /\ Live' = Live
      BY <1>1, <1>6, <2>1, SetEventSame, SameLive DEF IndInv
    <3>2. \A j \in Ids \ {i} : rows'[j] = rows[j]
      BY <1>1, <1>6, <2>1, SetEventRows DEF IndInv
    <3>3. PICK n \in Names : n = rows[i].name
      BY <1>1, <2>3 DEF Row
    <3>4. \A m : Named(m)' = Named(m)
      BY <3>1 DEF SameRows, Named, Live
    <3>5. i \in Named(n)
      BY <2>3, <3>3 DEF Named, Live
    <3>6. ASSUME NEW m \in Names \ {n}
          PROVE  PhaseOf(m)' = PhaseOf(m)
      <4>1. \A j \in Named(m) : rows'[j] = rows[j]
        BY <3>2, <3>3, <3>6 DEF Named, Live
      <4>. QED
        BY <1>1, <3>4, <4>1, PhaseSame
    <3>7. PhaseOf(n) = EventPhase(rows[i].event) /\ PhaseOf(n)' = EventPhase(rows'[i].event)
      <4>1. Named(n) = {i} /\ Named(n)' = {i}
        BY <1>1, <3>4, <3>5, NamedOne
      <4>2. PhaseOf(n) = EventPhase(rows[i].event)
        BY <4>1, PhaseShaped DEF PhaseShape
      <4>3. PhaseOf(n)' = EventPhase(rows'[i].event)
        BY <4>1, PhaseShapedNext DEF PhaseShape, EventPhase
      <4>. QED
        BY <4>2, <4>3
    <3>8. rows'[i].event = rows[i].event \/ <<rows[i].event, rows'[i].event>> \in EventSteps
      BY <1>1, <2>3, <3>1, OrderedNext DEF OrderedStep, SameRows
    <3>9. CASE PhaseOf(n)' = PhaseOf(n)
      BY <1>2, <3>6, <3>9
    <3>10. CASE PhaseOf(n)' # PhaseOf(n)
      <4>1. PhaseOf(n) = "pending" /\ PhaseOf(n)' \in {"applied", "failed"}
        BY <3>7, <3>8, <3>10 DEF EventPhase, EventSteps, Failures
      <4>2. Lifecycle!Settle(n)
        BY <3>6, <4>1, OneMoves DEF Lifecycle!Settle, Lifecycle!Move
      <4>. QED
        BY <4>2 DEF Lifecycle!Next
    <3>. QED
      BY <3>9, <3>10
  <2>. QED
    BY <2>2, <2>3
<1>. QED
  BY <1>3, <1>4, <1>5, <1>6, RowsMove

\* A user who waits for each answer, or never deletes, sees the life that
\* NotebookLifecycle promises: a name is accepted when it is free, the outcome comes
\* once, and only then is the name given up, whatever fails or crashes and however
\* many goroutines there are.
THEOREM LifecycleKept ==
    ASSUME Orderly
    PROVE  Spec => KeepsLifecycle
<1>1. Init => Lifecycle!Init
  <2>. SUFFICES ASSUME Init PROVE Lifecycle!Init
    OBVIOUS
  <2>1. \A n : Named(n) = {}
    BY DEF Init, StoreInit, Named, Live
  <2>2. \A n : PhaseOf(n) = "absent"
    BY <2>1, PhaseNone
  <2>. QED
    BY <2>2 DEF Lifecycle!Init
<1>2. LifeInv /\ [Next]_vars => LifeInv'
  BY LifeStep
<1>3. LifeInv /\ LifeInv' /\ [Next]_vars => [Lifecycle!Next]_([n \in Names |-> PhaseOf(n)])
  BY LifecycleStep
<1>. QED
  BY <1>1, <1>2, <1>3, LifeInit, PTL DEF Spec, KeepsLifecycle, Lifecycle!Spec

-----------------------------------------------------------------------------
(* No object is left behind.                                               *)

\* A row that stood for its objects still does, or whoever ended that comes to
\* the objects next.
LEMMA KeepsStep ==
    ASSUME LifeInv, [Next]_vars, faults' = faults,
           NEW i \in Ids, NEW n, Owned(i, n), Keeps(i)
    PROVE  \/ Keeps(i)'
           \/ DeletesNow(n, {"deleteNotebook"})'
           \/ CleansNow(n, {"cleanNotebook"})'
<1>1. IndInv /\ i \in Live /\ rows[i].name = n /\ rows[i].event \notin Failures
  BY DEF LifeInv, NameInv, Keeps, Owned, Live
<1>2. apiPc \in [Requests -> ApiPcs] /\ workerPc \in [Workers -> WorkerPcs]
  BY <1>1 DEF IndInv, CoreInv, TypeOK, ApiTypeOK, WorkerTypeOK
<1>3. ASSUME NEW r \in Requests, DeleteRow(r), i \in Named(apiCall[r].name)
      PROVE  DeletesNow(n, {"deleteNotebook"})'
  <2>1. apiPc[r] = "deleteRow" /\ apiCall[r].name = n
    BY <1>1, <1>3 DEF DeleteRow, Named, LifeInv, DeletesDone
  <2>2. apiPc'[r] = "deleteNotebook" /\ apiCall'[r] = apiCall[r]
    BY <1>2, <1>3, <2>1 DEF DeleteRow, Goto
  <2>. QED
    BY <2>1, <2>2 DEF DeletesNow
<1>4. ASSUME i \in Live', rows'[i].event \in Failures
      PROVE  CleansNow(n, {"cleanNotebook"})'
  <2>1. PICK w \in Workers, e \in Events :
          workerPc[w] \notin Waiting /\ Acts(w) /\ job[w].id = i
          /\ SetEvent(i, e) /\ rows'[i].event = e
    BY <1>1, <1>4, OutcomeBy
  <2>2. ASSUME NEW d \in Events \ Failures, SetEvent(i, d)
        PROVE  FALSE
    BY <1>1, <1>4, <2>2, SetEventRows DEF IndInv, Live
  <2>3. ~ UNCHANGED rows
    BY <1>1, <1>4
  <2>4. ~ MarkPicked(w) /\ ~ MarkPickedFails(w) /\ ~ MarkPVC(w) /\ ~ MarkNotebook(w)
    BY <2>1, <2>2, <2>3
    DEF MarkPicked, MarkPickedFails, MarkPVC, MarkNotebook, Events, Failures
  <2>5. MarkFailed(w)
    BY <2>1, <2>3, <2>4
    DEF Acts, Work, Fetch, CreatePVC, CreateNotebook, CleanNotebook, CleanPVC, Exit, dbVars
  <2>6. workerPc'[w] = "cleanNotebook" /\ job'[w] = job[w]
    BY <1>2, <2>5 DEF MarkFailed, Step
  <2>7. job[w].name = n
    <3>1. job[w] # NoJob
      BY <1>1, <2>1, JobType DEF IndInv
    <3>. QED
      BY <1>1, <2>1, <3>1 DEF LifeInv, NameInv, JobNamed, Live
  <2>. QED
    BY <2>6, <2>7 DEF CleansNow
<1>. QED
  BY <1>1, <1>3, <1>4, RowMove DEF Keeps, Live

\* Nothing but a failure keeps a delete from its Notebook and its claim.
LEMMA DeleteGoesOn ==
    ASSUME IndInv, [Next]_vars, faults' = faults, NEW n \in Names
    PROVE  /\ DeletesNow(n, {"deleteNotebook"}) =>
                DeletesNow(n, {"deleteNotebook"})' \/ notebooks'[n] = NoObj
           /\ DeletesNow(n, {"deleteNotebook", "deleteClaim"}) =>
                \/ DeletesNow(n, {"deleteNotebook", "deleteClaim"})'
                \/ pvcs'[n] = NoObj \/ pvcs'[n].phase = "terminating"
<1>. SUFFICES ASSUME NEW r \in Requests, apiCall[r].name = n,
                     apiPc[r] \in {"deleteNotebook", "deleteClaim"},
                     ~ (apiPc'[r] = apiPc[r] /\ apiCall'[r] = apiCall[r])
              PROVE  \/ /\ apiPc[r] = "deleteNotebook" /\ notebooks'[n] = NoObj
                        /\ apiPc'[r] = "deleteClaim" /\ apiCall'[r] = apiCall[r]
                     \/ /\ apiPc[r] = "deleteClaim"
                        /\ pvcs'[n] = NoObj \/ pvcs'[n].phase = "terminating"
  BY DEF DeletesNow
<1>1. /\ apiPc \in [Requests -> ApiPcs] /\ faults \in Nat
      /\ notebooks \in [Names -> Notebook \cup {NoObj}]
      /\ pvcs \in [Names -> Claim \cup {NoObj}]
  BY StoreAssumption DEF IndInv, CoreInv, TypeOK, StoreTypeOK, ApiTypeOK
<1>2. DeleteNotebook(r) \/ DeleteClaim(r)
  <2>1. ~ ApiError(r)
    BY <1>1 DEF ApiError, Fault
  <2>. QED
    BY <2>1, RequestActs
    DEF Handles, Begins, Proceed, Begin, CreateLock, StartLock, StopRead, DeleteRead,
        CreateRead, ListTotals, ListRunning, RefuseCredit, Insert, StartRead,
        GetNotebook, UpdateNotebook, DeleteRow
<1>3. CASE DeleteNotebook(r)
  BY <1>1, <1>3 DEF DeleteNotebook, DropNotebook, Goto
<1>4. CASE DeleteClaim(r)
  <2>1. CASE pvcs[n] = NoObj
    BY <1>4, <2>1 DEF DeleteClaim, DropClaim
  <2>2. CASE pvcs[n] # NoObj
    BY <1>1, <1>4, <2>2 DEF DeleteClaim, DropClaim, Claim
  <2>. QED
    BY <1>4, <2>1, <2>2 DEF DeleteClaim
<1>. QED
  BY <1>2, <1>3, <1>4

\* Nor a cleanup.
LEMMA CleanGoesOn ==
    ASSUME IndInv, [Next]_vars, faults' = faults, NEW n \in Names
    PROVE  /\ CleansNow(n, {"cleanNotebook"}) =>
                CleansNow(n, {"cleanNotebook"})' \/ notebooks'[n] = NoObj
           /\ CleansNow(n, {"cleanNotebook", "cleanPVC"}) =>
                \/ CleansNow(n, {"cleanNotebook", "cleanPVC"})'
                \/ pvcs'[n] = NoObj \/ pvcs'[n].phase = "terminating"
<1>. SUFFICES ASSUME NEW w \in Workers, job[w].name = n,
                     workerPc[w] \in {"cleanNotebook", "cleanPVC"},
                     ~ (workerPc'[w] = workerPc[w] /\ job'[w] = job[w])
              PROVE  \/ /\ workerPc[w] = "cleanNotebook" /\ notebooks'[n] = NoObj
                        /\ workerPc'[w] = "cleanPVC" /\ job'[w] = job[w]
                     \/ /\ workerPc[w] = "cleanPVC"
                        /\ pvcs'[n] = NoObj \/ pvcs'[n].phase = "terminating"
  BY DEF CleansNow
<1>1. /\ workerPc \in [Workers -> WorkerPcs] /\ faults \in Nat
      /\ notebooks \in [Names -> Notebook \cup {NoObj}]
      /\ pvcs \in [Names -> Claim \cup {NoObj}]
  BY StoreAssumption DEF IndInv, CoreInv, TypeOK, StoreTypeOK, WorkerTypeOK
<1>2. ~ Fault
  BY <1>1 DEF Fault
<1>3. CleanNotebook(w) \/ CleanPVC(w)
  <2>1. ~ Restart /\ ~ Crash
    BY <1>2 DEF Restart, Crash
  <2>. QED
    BY <2>1, WorkerActs
    DEF Acts, Work, Fetch, MarkPicked, MarkPickedFails, CreatePVC, MarkPVC,
        CreateNotebook, MarkNotebook, MarkFailed, Exit
<1>4. CASE CleanNotebook(w)
  BY <1>1, <1>2, <1>4 DEF CleanNotebook, DropNotebook, Step
<1>5. CASE CleanPVC(w)
  <2>1. CASE pvcs[n] = NoObj
    BY <1>2, <1>5, <2>1 DEF CleanPVC, DropClaim
  <2>2. CASE pvcs[n] # NoObj
    BY <1>1, <1>2, <1>5, <2>2 DEF CleanPVC, DropClaim, Claim
  <2>. QED
    BY <1>5, <2>1, <2>2 DEF CleanPVC
<1>. QED
  BY <1>3, <1>4, <1>5

LEMMA TrackedStep ==
    ASSUME LifeInv, [Next]_vars, faults' = faults, NEW n \in Names, Tracked(n)
    PROVE  Tracked(n)'
<1>1. /\ IndInv
      /\ notebooks \in [Names -> Notebook \cup {NoObj}]
      /\ pvcs \in [Names -> Claim \cup {NoObj}]
  BY DEF LifeInv, NameInv, IndInv, CoreInv, TypeOK, StoreTypeOK
<1>2. ASSUME NEW w \in Workers, CreateNotebook(w) \/ CreatePVC(w)
      PROVE  rows'[job[w].id] # NoRow /\ rows'[job[w].id].event \notin Failures
  <2>1. workerPc[w] \in {"createPVC", "createNotebook"} /\ UNCHANGED rows
    BY <1>2 DEF CreateNotebook, CreatePVC, dbVars
  <2>2. job[w] # NoJob /\ job[w].id \in Ids /\ rows[job[w].id] # NoRow
    BY <1>1, <2>1, JobType DEF LifeInv, RowThere, Making, IndInv, Waiting
  <2>3. rows[job[w].id].event \notin Failures
    BY <1>1, <2>1, <2>2 DEF IndInv, ClaimInv, JobStage, Failures
  <2>. QED
    BY <2>1, <2>2, <2>3
<1>3. ASSUME notebooks'[n] # NoObj
      PROVE  \/ Keeps(notebooks[n].owner)'
             \/ DeletesNow(n, {"deleteNotebook"})' \/ CleansNow(n, {"cleanNotebook"})'
  <2>1. CASE notebooks[n] # NoObj /\ notebooks'[n].owner = notebooks[n].owner
    <3>1. PICK i \in Ids : i = notebooks[n].owner
      BY <1>1, <2>1 DEF Notebook
    <3>2. Owned(i, n)
      BY <2>1, <3>1 DEF LifeInv, NameInv, OwnerNamed
    <3>3. CASE Keeps(i)
      <4>1. \/ Keeps(i)'
            \/ DeletesNow(n, {"deleteNotebook"})' \/ CleansNow(n, {"cleanNotebook"})'
        BY <3>2, <3>3, KeepsStep
      <4>. QED
        BY <2>1, <3>1, <4>1 DEF Keeps
    <3>4. CASE ~ Keeps(i)
      BY <1>1, <1>3, <2>1, <3>1, <3>4, DeleteGoesOn, CleanGoesOn DEF Tracked
    <3>. QED
      BY <3>3, <3>4
  <2>2. ASSUME NEW w \in Workers, CreateNotebook(w), notebooks'[n].owner = job[w].id
        PROVE  Keeps(notebooks[n].owner)'
    BY <1>2, <2>2 DEF Keeps
  <2>. QED
    BY <1>1, <1>3, <2>1, <2>2, NotebookMove DEF SameNotebook
<1>4. ASSUME pvcs'[n] # NoObj, pvcs'[n].phase # "terminating"
      PROVE  \/ Keeps(pvcs[n].owner)'
             \/ DeletesNow(n, {"deleteNotebook", "deleteClaim"})'
             \/ CleansNow(n, {"cleanNotebook", "cleanPVC"})'
  <2>1. CASE pvcs[n] # NoObj /\ pvcs'[n] = pvcs[n]
    <3>1. PICK i \in Ids : i = pvcs[n].owner
      BY <1>1, <2>1 DEF Claim
    <3>2. Owned(i, n)
      BY <2>1, <3>1 DEF LifeInv, NameInv, OwnerNamed
    <3>3. CASE Keeps(i)
      <4>1. \/ Keeps(i)'
            \/ DeletesNow(n, {"deleteNotebook"})' \/ CleansNow(n, {"cleanNotebook"})'
        BY <3>2, <3>3, KeepsStep
      <4>. QED
        BY <2>1, <3>1, <4>1 DEF Keeps, DeletesNow, CleansNow
    <3>4. CASE ~ Keeps(i)
      BY <1>1, <1>4, <2>1, <3>1, <3>4, DeleteGoesOn, CleanGoesOn DEF Tracked
    <3>. QED
      BY <3>3, <3>4
  <2>2. ASSUME NEW w \in Workers, CreatePVC(w),
               pvcs'[n] = [owner |-> job[w].id, phase |-> "bound"]
        PROVE  Keeps(pvcs[n].owner)'
    <3>1. pvcs'[n].owner = job[w].id
      BY <2>2
    <3>. QED
      BY <1>2, <2>2, <3>1 DEF Keeps
  <2>. QED
    BY <1>1, <1>4, <2>1, <2>2, PvcMove
<1>. QED
  BY <1>3, <1>4 DEF Tracked

\* For a user who waits for each answer, or never deletes, an object is left
\* without a row whose delete takes it, and with nobody about to remove it, only by
\* a step in which a call fails or a process dies: a delete in four steps, the
\* worker's cleanup, its retries and its restarts never leave one.
THEOREM OnlyFaultsLose ==
    ASSUME Orderly
    PROVE  Spec => LostByFaultOnly
<1>. DEFINE NoneLost == \A n \in Names : Tracked(n) => Tracked(n)' \/ faults' > faults
<1>1. LifeInv /\ [Next]_vars => LifeInv'
  BY LifeStep
<1>2. LifeInv /\ [Next]_vars => NoneLost
  <2>. SUFFICES ASSUME LifeInv, [Next]_vars, NEW n \in Names, Tracked(n)
                PROVE  Tracked(n)' \/ faults' > faults
    OBVIOUS
  <2>1. faults \in Nat
    BY StoreAssumption DEF LifeInv, NameInv, IndInv, CoreInv, TypeOK, StoreTypeOK
  <2>. QED
    BY <2>1, FaultsStep, TrackedStep
<1>3. LifeInv /\ [Next]_vars => [NoneLost]_vars
  BY <1>2
<1>. HIDE DEF NoneLost
<1>4. Spec => [][NoneLost]_vars
  BY <1>1, <1>3, LifeInit, PTL DEF Spec
<1>. QED
  BY <1>4 DEF NoneLost, LostByFaultOnly

-----------------------------------------------------------------------------
(* What applied means.                                                     *)

\* Nobody works under a name that somebody else still cleans up.
Exclusive == (OneRequest /\ OneWorker) \/ "delete" \notin Ops
NoNamesake ==
    \A v, w \in Workers :
        job[v] # NoJob /\ job[w] # NoJob /\ job[v].name = job[w].name => v = w

\* The name of a job, cleanup included, is not that of an applied row.
JobAlone ==
    \A w \in Workers : job[w] # NoJob =>
        \A i \in Named(job[w].name) : rows[i].event # "notebook-applied"

\* What a goroutine created is there until it is done.
Claimed == {"markPVC", "createNotebook", "markNotebook"}
MadeClaim ==
    \A w \in Workers : workerPc[w] \in Claimed =>
        pvcs[job[w].name] = [owner |-> job[w].id, phase |-> "bound"]
MadeNotebook ==
    \A w \in Workers : workerPc[w] = "markNotebook" =>
        notebooks[job[w].name] # NoObj /\ notebooks[job[w].name].owner = job[w].id

BackedInv ==
    /\ LifeInv /\ ("delete" \notin Ops => LimitInv)
    /\ JobAlone /\ MadeClaim /\ MadeNotebook /\ AppliedBacked

LEMMA Alone ==
    ASSUME Exclusive, BackedInv
    PROVE  NoNamesake
<1>1. CASE OneWorker
  BY <1>1 DEF OneWorker, NoNamesake
<1>2. CASE LimitInv
  BY <1>2, JobLive DEF NoNamesake, LimitInv, UniqueNames, IndInv, ClaimInv, SingleClaim
<1>. QED
  BY <1>1, <1>2 DEF Exclusive, BackedInv

\* A row becomes applied as the last thing its goroutine does.
LEMMA AppliedBy ==
    ASSUME LifeInv, [Next]_vars, NEW i \in Live',
           rows'[i].event = "notebook-applied",
           i \notin Live \/ rows[i].event # "notebook-applied"
    PROVE  \E w \in Workers :
             /\ MarkNotebook(w) /\ workerPc[w] = "markNotebook"
             /\ job[w] # NoJob /\ job[w].id = i /\ job'[w] = NoJob
             /\ i \in Live /\ rows[i].name = job[w].name /\ rows'[i].name = job[w].name
<1>1. IndInv
  BY DEF LifeInv, NameInv
<1>2. i \in Live
  BY <1>1, NewRow, AddsRow
<1>3. PICK w \in Workers, e \in Events :
        workerPc[w] \notin Waiting /\ Acts(w) /\ job[w].id = i
        /\ SetEvent(i, e) /\ rows'[i].event = e
  BY <1>1, <1>2, OutcomeBy
<1>4. ASSUME NEW d \in Events \ {"notebook-applied"}, SetEvent(i, d)
      PROVE  FALSE
  BY <1>1, <1>2, <1>4, SetEventRows DEF IndInv, Live
<1>5. ~ UNCHANGED rows
  BY <1>2
<1>6. ~ MarkPicked(w) /\ ~ MarkPickedFails(w) /\ ~ MarkPVC(w) /\ ~ MarkFailed(w)
  BY <1>3, <1>4, <1>5
  DEF MarkPicked, MarkPickedFails, MarkPVC, MarkFailed, Events, Failures
<1>7. MarkNotebook(w)
  BY <1>3, <1>5, <1>6
  DEF Acts, Work, Fetch, CreatePVC, CreateNotebook, CleanNotebook, CleanPVC, Exit, dbVars
<1>8. job[w] # NoJob /\ job'[w] = NoJob
  BY <1>1, <1>3, <1>7, JobType DEF MarkNotebook, Finish, IndInv, CoreInv, TypeOK, WorkerTypeOK
<1>9. rows[i].name = job[w].name
  BY <1>2, <1>3, <1>8 DEF LifeInv, NameInv, JobNamed, Live
<1>. QED
  BY <1>1, <1>2, <1>3, <1>7, <1>8, <1>9, OutcomeKept DEF MarkNotebook

LEMMA JobAloneStep ==
    ASSUME Exclusive, BackedInv, [Next]_vars
    PROVE  JobAlone'
<1>. SUFFICES ASSUME NEW w \in Workers, job'[w] # NoJob, NEW i \in Live',
                     rows'[i].name = job'[w].name, rows'[i].event = "notebook-applied"
              PROVE  FALSE
  BY DEF JobAlone, Named
<1>1. IndInv /\ UniqueNames /\ NoNamesake
  BY Alone DEF BackedInv, LifeInv, NameInv
<1>2. CASE i \in Live /\ rows[i].event = "notebook-applied"
  <2>1. rows'[i].name = rows[i].name
    BY <1>1, <1>2, OutcomeKept
  <2>2. CASE job'[w] = job[w]
    BY <1>2, <2>1, <2>2 DEF BackedInv, JobAlone, Named
  <2>3. CASE Fetch(w)
    <3>1. PICK j \in Fetchable : job'[w].name = rows[j].name
      BY <1>1, <2>3, Fetched
    <3>. QED
      BY <1>1, <1>2, <2>1, <3>1 DEF UniqueNames, Fetchable
  <2>. QED
    BY <1>1, <2>2, <2>3, JobKept
<1>3. CASE i \notin Live \/ rows[i].event # "notebook-applied"
  <2>1. PICK v \in Workers :
          /\ workerPc[v] = "markNotebook" /\ job[v] # NoJob /\ job'[v] = NoJob
          /\ i \in Live /\ rows'[i].name = job[v].name
    BY <1>3, AppliedBy DEF BackedInv
  <2>2. CASE job'[w] = job[w]
    BY <1>1, <2>1, <2>2 DEF NoNamesake
  <2>3. CASE Fetch(w)
    BY <1>1, <1>3, <2>1, <2>3, Fetched
  <2>. QED
    BY <1>1, <2>2, <2>3, JobKept
<1>. QED
  BY <1>2, <1>3

\* Nobody takes the Notebook or the claim under the name of a row that is there and
\* that no cleanup works on.
LEMMA ObjectsStay ==
    ASSUME BackedInv, [Next]_vars, NEW n \in Names, Named(n) # {},
           \A w \in Workers :
               workerPc[w] \in {"cleanNotebook", "cleanPVC"} => job[w].name # n
    PROVE  /\ notebooks[n] # NoObj =>
                notebooks'[n] # NoObj /\ notebooks'[n].owner = notebooks[n].owner
           /\ pvcs[n] # NoObj /\ pvcs[n].phase = "bound" => pvcs'[n] = pvcs[n]
<1>1. IndInv /\ DeletesDone
  BY DEF BackedInv, LifeInv, NameInv
<1>2. ASSUME NEW r \in Requests, DeleteNotebook(r) \/ DeleteClaim(r), apiCall[r].name = n
      PROVE  FALSE
  BY <1>1, <1>2 DEF DeletesDone, DeleteNotebook, DeleteClaim
<1>3. ASSUME NEW w \in Workers, CleanNotebook(w) \/ CleanPVC(w), job[w].name = n
      PROVE  FALSE
  BY <1>3 DEF CleanNotebook, CleanPVC
<1>. QED
  BY <1>1, <1>2, <1>3, NotebookMove, PvcMove DEF SameNotebook

\* A goroutine between its claim and the end.
LEMMA MakerAlone ==
    ASSUME Exclusive, BackedInv, NEW w \in Workers, workerPc[w] \in Claimed
    PROVE  /\ job[w] # NoJob /\ job[w].id \in Ids /\ job[w].name \in Names
           /\ Named(job[w].name) # {}
           /\ \A v \in Workers :
                workerPc[v] \in {"cleanNotebook", "cleanPVC"} => job[v].name # job[w].name
<1>1. IndInv /\ NoNamesake
  BY Alone DEF BackedInv, LifeInv, NameInv
<1>2. job[w] # NoJob /\ job[w].id \in Ids /\ job[w].name \in Names
  BY <1>1, JobType DEF Claimed, Waiting, IndInv
<1>3. rows[job[w].id] # NoRow /\ rows[job[w].id].name = job[w].name
  BY <1>2 DEF BackedInv, LifeInv, NameInv, RowThere, JobNamed, Claimed, Making
<1>4. \A v \in Workers : workerPc[v] \in {"cleanNotebook", "cleanPVC"} => job[v] # NoJob
  BY <1>1, JobType DEF Waiting, IndInv
<1>. QED
  BY <1>1, <1>2, <1>3, <1>4 DEF NoNamesake, Claimed, Named, Live

\* Where a goroutine that has its claim, and its Notebook, comes from.
LEMMA MakesOne ==
    ASSUME IndInv, [Next]_vars, NEW w \in Workers, workerPc'[w] \in Claimed
    PROVE  /\ job'[w] = job[w]
           /\ \/ workerPc[w] \in Claimed
              \/ /\ workerPc[w] = "createPVC" /\ job[w].name \in Names
                 /\ pvcs'[job[w].name] = [owner |-> job[w].id, phase |-> "bound"]
           /\ workerPc'[w] = "markNotebook" =>
                \/ workerPc[w] = "markNotebook"
                \/ /\ notebooks'[job[w].name] # NoObj
                   /\ notebooks'[job[w].name].owner = job[w].id
<1>1. /\ workerPc \in [Workers -> WorkerPcs] /\ job \in [Workers -> Job \cup {NoJob}]
      /\ notebooks \in [Names -> Notebook \cup {NoObj}]
      /\ pvcs \in [Names -> Claim \cup {NoObj}]
  BY DEF IndInv, CoreInv, TypeOK, WorkerTypeOK, StoreTypeOK
<1>2. CASE workerPc'[w] = workerPc[w] /\ job'[w] = job[w]
  BY <1>2
<1>3. ASSUME Finish(w) \/ Fetch(w) \/ Exit(w) \/ Restart \/ Crash
      PROVE  FALSE
  BY <1>1, <1>3 DEF Finish, Fetch, Exit, Restart, Crash, NewProcess, Claimed
<1>4. ASSUME NEW pc \in WorkerPcs \ Claimed, Step(w, pc)
      PROVE  FALSE
  BY <1>1, <1>4 DEF Step
<1>5. ASSUME NEW pc \in WorkerPcs \ Claimed, Retry(w, pc)
      PROVE  workerPc'[w] = workerPc[w] /\ job'[w] = job[w]
  BY <1>4, <1>5 DEF Retry
<1>6. ASSUME NEW pc \in Claimed, Step(w, pc)
      PROVE  workerPc'[w] = pc /\ job'[w] = job[w]
  BY <1>1, <1>6 DEF Step, Claimed, WorkerPcs
<1>7. CASE CreatePVC(w)
  <2>1. CASE PutClaim(w) /\ Step(w, "markPVC")
    <3>1. job[w].name \in Names
      BY <1>7, JobType DEF CreatePVC, Waiting, IndInv
    <3>. QED
      BY <1>1, <1>6, <1>7, <2>1, <3>1 DEF CreatePVC, PutClaim, Claimed
  <2>2. CASE Step(w, "markPVCFailed") \/ Retry(w, "markPVCFailed")
    <3>1. workerPc'[w] = "createPVC"
      BY <1>4, <1>5, <1>7, <2>2 DEF CreatePVC, WorkerPcs, Claimed
    <3>. QED
      BY <3>1 DEF Claimed
  <2>. QED
    BY <1>7, <2>1, <2>2 DEF CreatePVC
<1>8. CASE CreateNotebook(w)
  <2>1. CASE PutNotebook(w) /\ Step(w, "markNotebook")
    <3>1. PICK o \in Notebook : o = [owner |-> job[w].id, kind |-> job[w].kind, stopped |-> FALSE]
      BY <1>8, JobType DEF CreateNotebook, Waiting, IndInv, Notebook
    <3>2. job[w].name \in Names
      BY <1>8, JobType DEF CreateNotebook, Waiting, IndInv
    <3>3. notebooks'[job[w].name] = o /\ o # NoObj /\ o.owner = job[w].id
      BY <1>1, <2>1, <3>1, <3>2, SentinelAssumption DEF PutNotebook
    <3>. QED
      BY <1>6, <1>8, <2>1, <3>3 DEF CreateNotebook, Claimed
  <2>2. CASE Step(w, "markNotebookFailed") \/ Retry(w, "markNotebookFailed")
    BY <1>2, <1>4, <1>5, <2>2 DEF WorkerPcs, Claimed
  <2>. QED
    BY <1>8, <2>1, <2>2 DEF CreateNotebook
<1>9. CASE MarkPVC(w)
  BY <1>4, <1>6, <1>9 DEF MarkPVC, WorkerPcs, Claimed
<1>10. ASSUME MarkPicked(w) \/ MarkPickedFails(w) \/ MarkNotebook(w) \/ MarkFailed(w)
              \/ CleanNotebook(w) \/ CleanPVC(w)
       PROVE  FALSE
  BY <1>3, <1>4, <1>10
  DEF MarkPicked, MarkPickedFails, MarkNotebook, MarkFailed, CleanNotebook, CleanPVC,
      WorkerPcs, Claimed
<1>. QED
  BY <1>2, <1>3, <1>7, <1>8, <1>9, <1>10, WorkerActs DEF Acts, Work

LEMMA MadeClaimStep ==
    ASSUME Exclusive, BackedInv, [Next]_vars
    PROVE  MadeClaim'
<1>. SUFFICES ASSUME NEW w \in Workers, workerPc'[w] \in Claimed
              PROVE  pvcs'[job'[w].name] = [owner |-> job'[w].id, phase |-> "bound"]
  BY DEF MadeClaim
<1>1. IndInv
  BY DEF BackedInv, LifeInv, NameInv
<1>2. CASE workerPc[w] \in Claimed
  <2>1. PICK c : c = [owner |-> job[w].id, phase |-> "bound"]
    OBVIOUS
  <2>2. pvcs[job[w].name] = c /\ c.phase = "bound"
    BY <1>2, <2>1 DEF BackedInv, MadeClaim
  <2>3. c # NoObj
    BY <1>2, <2>1, MakerAlone, SentinelAssumption DEF Claim
  <2>4. pvcs'[job[w].name] = c
    BY <1>2, <2>2, <2>3, MakerAlone, ObjectsStay
  <2>. QED
    BY <1>1, <2>1, <2>4, MakesOne
<1>. QED
  BY <1>1, <1>2, MakesOne

LEMMA MadeNotebookStep ==
    ASSUME Exclusive, BackedInv, [Next]_vars
    PROVE  MadeNotebook'
<1>. SUFFICES ASSUME NEW w \in Workers, workerPc'[w] = "markNotebook"
              PROVE  /\ notebooks'[job'[w].name] # NoObj
                     /\ notebooks'[job'[w].name].owner = job'[w].id
  BY DEF MadeNotebook
<1>1. IndInv /\ workerPc'[w] \in Claimed
  BY DEF BackedInv, LifeInv, NameInv, Claimed
<1>2. CASE workerPc[w] = "markNotebook"
  <2>1. workerPc[w] \in Claimed
    BY <1>2 DEF Claimed
  <2>2. notebooks[job[w].name] # NoObj /\ notebooks[job[w].name].owner = job[w].id
    BY <1>2 DEF BackedInv, MadeNotebook
  <2>3. notebooks'[job[w].name] # NoObj /\ notebooks'[job[w].name].owner = job[w].id
    BY <2>1, <2>2, MakerAlone, ObjectsStay
  <2>. QED
    BY <1>1, <2>3, MakesOne
<1>. QED
  BY <1>1, <1>2, MakesOne

LEMMA BackedStep ==
    ASSUME Exclusive, BackedInv, [Next]_vars
    PROVE  AppliedBacked'
<1>. SUFFICES ASSUME NEW i \in Live', rows'[i].event = "notebook-applied"
              PROVE  /\ notebooks'[rows'[i].name] # NoObj
                     /\ notebooks'[rows'[i].name].owner = i
                     /\ pvcs'[rows'[i].name] = [owner |-> i, phase |-> "bound"]
  BY DEF AppliedBacked
<1>1. IndInv
  BY DEF BackedInv, LifeInv, NameInv
<1>. PICK c : c = [owner |-> i, phase |-> "bound"]
  OBVIOUS
<1>2. c # NoObj /\ c.phase = "bound"
  <2>1. c \in Claim
    BY DEF Live, Claim
  <2>. QED
    BY <2>1, SentinelAssumption
<1>3. CASE i \in Live /\ rows[i].event = "notebook-applied"
  <2>1. PICK n \in Names : n = rows[i].name
    BY <1>1, <1>3 DEF IndInv, CoreInv, TypeOK, StoreTypeOK, Live, Row
  <2>2. i \in Named(n) /\ rows'[i].name = n
    BY <1>1, <1>3, <2>1, OutcomeKept DEF Named
  <2>3. \A w \in Workers :
          workerPc[w] \in {"cleanNotebook", "cleanPVC"} => job[w].name # n
    <3>1. \A w \in Workers : workerPc[w] \in {"cleanNotebook", "cleanPVC"} => job[w] # NoJob
      BY <1>1, JobType DEF Waiting, IndInv
    <3>. QED
      BY <1>3, <2>2, <3>1 DEF BackedInv, JobAlone
  <2>4. notebooks[n] # NoObj /\ notebooks[n].owner = i /\ pvcs[n] = c
    BY <1>3, <2>1 DEF BackedInv, AppliedBacked
  <2>5. notebooks'[n] # NoObj /\ notebooks'[n].owner = i /\ pvcs'[n] = c
    BY <1>2, <2>2, <2>3, <2>4, ObjectsStay
  <2>. QED
    BY <2>2, <2>5
<1>4. CASE i \notin Live \/ rows[i].event # "notebook-applied"
  <2>1. PICK w \in Workers :
          /\ MarkNotebook(w) /\ workerPc[w] = "markNotebook"
          /\ job[w].id = i /\ rows'[i].name = job[w].name
    BY <1>4, AppliedBy DEF BackedInv
  <2>2. UNCHANGED k8sVars /\ workerPc[w] \in Claimed
    BY <2>1 DEF MarkNotebook, Claimed
  <2>. QED
    BY <2>1, <2>2 DEF k8sVars, BackedInv, MadeClaim, MadeNotebook
<1>. QED
  BY <1>3, <1>4

\* A row that says notebook-applied has the Notebook and the claim that its own
\* worker created, for a user who sends one request at a time to a worker with one
\* goroutine, and for one who deletes nothing, however many goroutines there are
\* (spawner.go, deleteNotebook).
THEOREM AppliedIsBacked ==
    ASSUME Exclusive
    PROVE  Spec => []AppliedBacked
<1>1. Orderly
  BY DEF Exclusive, Orderly
<1>2. Init => BackedInv
  <2>. SUFFICES ASSUME Init PROVE BackedInv
    OBVIOUS
  <2>1. JobAlone /\ MadeClaim /\ MadeNotebook /\ AppliedBacked
    BY DEF Init, StoreInit, WorkerInit, JobAlone, MadeClaim, Claimed, MadeNotebook,
           AppliedBacked, Live
  <2>. QED
    BY <2>1, LifeInit, LimitInit DEF BackedInv
<1>3. BackedInv /\ [Next]_vars => BackedInv'
  <2>. SUFFICES ASSUME BackedInv, [Next]_vars PROVE BackedInv'
    OBVIOUS
  <2>1. LifeInv' /\ ("delete" \notin Ops => LimitInv')
    BY <1>1, LifeStep, LimitStep DEF BackedInv
  <2>2. JobAlone' /\ MadeClaim' /\ MadeNotebook' /\ AppliedBacked'
    BY JobAloneStep, MadeClaimStep, MadeNotebookStep, BackedStep
  <2>. QED
    BY <2>1, <2>2 DEF BackedInv
<1>4. BackedInv => AppliedBacked
  BY DEF BackedInv
<1>. QED
  BY <1>2, <1>3, <1>4, PTL DEF Spec
=============================================================================
