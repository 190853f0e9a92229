------------------------- MODULE SandboxLimitProofs -------------------------
(***************************************************************************)
(* The limit on the total of a user's notebooks, for every number of       *)
(* requests, goroutines, names, rows and failures, while the user deletes  *)
(* nothing.  (A delete that races another one takes the Notebook of a row  *)
(* created since, which then is an orphan and not counted any more.)       *)
(* LimitInv says what a create has counted when it comes to its INSERT:    *)
(* the rows that have not failed, whatever the worker did meanwhile.       *)
(***************************************************************************)
EXTENDS SandboxProofs, FiniteSetTheorems

\* The rows the limit is about.
Kept(k) == {i \in Live : rows[i].kind = k /\ rows[i].event \notin Failures}

NeverDeletes == \A r \in Requests : apiPc[r] \notin Deleting

\* A goroutine works on a row that is there and not yet applied.
JobRow ==
    \A w \in Workers : job[w] # NoJob =>
        /\ rows[job[w].id] # NoRow
        /\ rows[job[w].id].name = job[w].name
        /\ rows[job[w].id].event # "notebook-applied"

\* A row that is applied, or is about to be, has a Notebook under its name.
AppliedThere ==
    \A i \in Live : rows[i].event = "notebook-applied" => notebooks[rows[i].name] # NoObj
MadeThere ==
    \A w \in Workers : workerPc[w] = "markNotebook" => notebooks[job[w].name] # NoObj

\* A create has read every row that has not failed; what it read as applied is.
Saw(nb, i) ==
    /\ nb.name = rows[i].name /\ nb.kind = rows[i].kind
    /\ nb.event \notin Failures
    /\ nb.event = "notebook-applied" => rows[i].event = "notebook-applied"
SeenCovers ==
    \A r \in Requests : apiPc[r] = "totals" =>
        \A i \in Live : rows[i].event \notin Failures => \E nb \in apiSeen[r] : Saw(nb, i)
SeenFinite == \A r \in Requests : IsFiniteSet(apiSeen[r])

\* From then on to the INSERT there is room for one more.
Counted(r) == apiPc[r] \in {"running", "insert"} /\ apiCall[r].op = "create"
RoomLeft ==
    \A r \in Requests :
        Counted(r) => Cardinality(Kept(apiCall[r].kind)) < MaxTotal[apiCall[r].kind]

LimitInv ==
    /\ IndInv /\ NeverDeletes
    /\ UniqueNames /\ JobRow /\ AppliedThere /\ MadeThere
    /\ SeenCovers /\ SeenFinite /\ RoomLeft /\ TotalLimit

-----------------------------------------------------------------------------
(* Finite sets.                                                            *)

LEMMA LiveFinite == IsFiniteSet(Live)
<1>1. IsFiniteSet(Ids)
  BY FS_Interval, StoreAssumption DEF Ids
<1>. QED
  BY <1>1, FS_Subset DEF Live

LEMMA KeptFinite ==
    ASSUME NEW k
    PROVE  IsFiniteSet(Kept(k)) /\ Cardinality(Kept(k)) \in Nat
  BY LiveFinite, FS_Subset, FS_CardinalityType DEF Kept

LEMMA SnapshotFinite == IsFiniteSet(Snapshot)
<1> DEFINE f == [i \in Live |-> rows[i]]
<1>1. f \in Surjection(Live, Snapshot)
  BY DEF Snapshot, Surjection
<1>. QED
  BY <1>1, LiveFinite, FS_Surjection

\* Fewer rows kept is a smaller number.
LEMMA KeptShrinks ==
    ASSUME NEW k, Kept(k)' \subseteq Kept(k)
    PROVE  Cardinality(Kept(k)') <= Cardinality(Kept(k)) /\ Cardinality(Kept(k)') \in Nat
  BY KeptFinite, FS_Subset, FS_CardinalityType

\* What is counted is no less than what there is.
LEMMA CountCovers ==
    ASSUME LimitInv, NEW r \in Requests, apiPc[r] = "totals", NEW k \in Kinds
    PROVE  Cardinality(Kept(k)) <= Total(r, k)
<1> DEFINE T == {nb \in apiSeen[r] : nb.kind = k /\ CountsTotal(nb)}
           f == [i \in Kept(k) |-> CHOOSE nb \in apiSeen[r] : Saw(nb, i)]
<1>1. IsFiniteSet(T)
  BY FS_Subset DEF LimitInv, SeenFinite
<1>2. ASSUME NEW i \in Kept(k)
      PROVE  f[i] \in apiSeen[r] /\ Saw(f[i], i)
  <2>1. \E nb \in apiSeen[r] : Saw(nb, i)
    BY <1>2 DEF LimitInv, SeenCovers, Kept
  <2>2. f[i] = CHOOSE nb \in apiSeen[r] : Saw(nb, i)
    OBVIOUS
  <2>. HIDE DEF f
  <2>. QED
    BY <2>1, <2>2
<1>3. f \in [Kept(k) -> T]
  <2>1. ASSUME NEW i \in Kept(k)
        PROVE  f[i] \in T
    <3>. HIDE DEF f
    <3>. QED
      BY <1>2, <2>1 DEF Saw, Kept, CountsTotal, LimitInv, AppliedThere
  <2>. QED
    BY <2>1
<1>4. ASSUME NEW i \in Kept(k), NEW j \in Kept(k), f[i] = f[j]
      PROVE  i = j
  <2>1. Saw(f[i], i) /\ Saw(f[j], j)
    BY <1>2
  <2>. HIDE DEF f
  <2>. QED
    BY <1>4, <2>1 DEF Saw, Kept, LimitInv, UniqueNames
<1>5. f \in Injection(Kept(k), T)
  <2>. HIDE DEF T
  <2>. QED
    BY <1>3, <1>4 DEF Injection, IsInjective
<1>. QED
  BY <1>1, <1>5, FS_Injection DEF Total

-----------------------------------------------------------------------------
(* What a step may change.                                                 *)

LEMMA RowsStep ==
    ASSUME IndInv, NeverDeletes, [Next]_vars
    PROVE  SameRows \/ \E r \in Requests : Adds(r)
<1>1. CASE UNCHANGED rows
  BY <1>1 DEF SameRows
<1>2. ASSUME NEW r \in Requests, DeleteRow(r)
      PROVE  FALSE
  BY <1>2 DEF NeverDeletes, DeleteRow, Deleting
<1>3. ASSUME NEW w \in Workers, NEW e \in Events, workerPc[w] \notin Waiting,
             SetEvent(job[w].id, e)
      PROVE  SameRows
  BY <1>3, JobType, SetEventSame DEF IndInv
<1>. QED
  BY <1>1, <1>2, <1>3, RowsMove

\* A row that is there stays, with its name and kind, and its event goes forward.
LEMMA RowsKeep ==
    ASSUME IndInv, NeverDeletes, [Next]_vars, NEW i \in Live
    PROVE  /\ i \in Live' /\ i \in Ids
           /\ rows'[i].name = rows[i].name /\ rows'[i].kind = rows[i].kind
           /\ rows'[i].event \notin Failures => rows[i].event \notin Failures
           /\ rows[i].event = "notebook-applied" => rows'[i].event = "notebook-applied"
<1>1. ASSUME NEW r \in Requests, DeleteRow(r)
      PROVE  FALSE
  BY <1>1 DEF NeverDeletes, DeleteRow, Deleting
<1>. QED
  BY <1>1, RowMove DEF Live, EventSteps, Failures

\* A row becomes applied at the end of its goroutine's work.
LEMMA AppliedStep ==
    ASSUME IndInv, NeverDeletes, [Next]_vars, NEW i \in Live,
           rows[i].event # "notebook-applied", rows'[i].event = "notebook-applied"
    PROVE  \E w \in Workers :
             workerPc[w] = "markNotebook" /\ job[w].id = i /\ job'[w] = NoJob
<1>1. i \in Ids /\ rows[i] # NoRow
  BY DEF Live
<1>2. CASE ApiNext
  <2>1. ASSUME NEW r \in Requests, Insert(r)
        PROVE  rows'[i] = rows[i]
    BY <1>1, <2>1 DEF Insert, IndInv, CoreInv, FreshIds, TypeOK, StoreTypeOK
  <2>2. ASSUME NEW r \in Requests, DeleteRow(r)
        PROVE  FALSE
    BY <2>2 DEF NeverDeletes, DeleteRow, Deleting
  <2>3. UNCHANGED rows \/ \E r \in Requests : Insert(r) \/ DeleteRow(r)
    BY <1>2
    DEF ApiNext, CreateLock, StartLock, StopRead, DeleteRead, CreateRead, ListTotals,
        ListRunning, RefuseCredit, StartRead, GetNotebook, UpdateNotebook,
        DeleteNotebook, DeleteClaim, ApiError, dbVars
  <2>. QED
    BY <2>1, <2>2, <2>3
<1>3. CASE WorkerNext
  <2>1. ASSUME NEW w \in Workers, MarkNotebook(w)
        PROVE  workerPc[w] = "markNotebook" /\ job[w].id = i /\ job'[w] = NoJob
    <3>1. /\ workerPc[w] = "markNotebook" /\ job[w].id \in Ids
          /\ job'[w] = NoJob
      BY <2>1, JobType DEF MarkNotebook, Finish, Waiting, IndInv, CoreInv, TypeOK, WorkerTypeOK
    <3>2. job[w].id # i => rows'[i] = rows[i]
      BY <1>1, <2>1, <3>1, SetEventRows DEF MarkNotebook, IndInv, Events
    <3>. QED
      BY <3>1, <3>2
  <2>2. ASSUME NEW w \in Workers, NEW e \in Events \ {"notebook-applied"},
               workerPc[w] \notin Waiting, SetEvent(job[w].id, e)
        PROVE  FALSE
    <3>1. job[w].id \in Ids
      BY <2>2, JobType DEF IndInv
    <3>. QED
      BY <1>1, <2>2, <3>1, SetEventRows DEF IndInv
  <2>3. \/ UNCHANGED rows
        \/ \E w \in Workers : MarkNotebook(w)
        \/ \E w \in Workers, e \in Events \ {"notebook-applied"} :
             workerPc[w] \notin Waiting /\ SetEvent(job[w].id, e)
    BY <1>3 DEF WorkerNext, Fetch, MarkPicked, MarkPickedFails, CreatePVC, MarkPVC,
                CreateNotebook, MarkFailed, CleanNotebook, CleanPVC,
                Exit, Sigterm, Restart, Crash, dbVars, Events, Failures, Waiting
  <2>. QED
    BY <2>1, <2>2, <2>3
<1>4. CASE ClusterNext \/ UNCHANGED vars
  BY <1>4 DEF ClusterNext, ClaimGone, Cull, WriteStatus, dbVars, vars
<1>. QED
  BY <1>2, <1>3, <1>4 DEF Next

\* Only the cleanup takes a Notebook away.
LEMMA ObjectsStep ==
    ASSUME IndInv, NeverDeletes, [Next]_vars, NEW n \in Names,
           notebooks[n] # NoObj, notebooks'[n] = NoObj
    PROVE  \E w \in Workers :
             /\ workerPc[w] = "cleanNotebook" /\ job[w].name = n
             /\ UNCHANGED <<rows, job>> /\ \A v \in Workers : workerPc'[v] = "markNotebook" => workerPc[v] = "markNotebook"
<1>1. ASSUME NEW r \in Requests, DeleteNotebook(r)
      PROVE  FALSE
  BY <1>1 DEF NeverDeletes, DeleteNotebook, Deleting
<1>2. PICK w \in Workers : CleanNotebook(w) /\ job[w].name = n
  BY <1>1, NotebookMove
<1>3. /\ workerPc[w] = "cleanNotebook" /\ UNCHANGED <<rows, job>>
      /\ workerPc' = [workerPc EXCEPT ![w] = "cleanPVC"]
  BY <1>2 DEF CleanNotebook, Step, dbVars
<1>. QED
  BY <1>2, <1>3 DEF IndInv, CoreInv, TypeOK, WorkerTypeOK

\* A goroutine keeps its job or has fetched one; it records a Notebook it made.
LEMMA JobsStep ==
    ASSUME IndInv, [Next]_vars, NEW w \in Workers, job'[w] # NoJob
    PROVE  \/ /\ job'[w] = job[w]
              /\ workerPc'[w] = "markNotebook" =>
                   workerPc[w] = "markNotebook" \/ notebooks'[job[w].name] # NoObj
           \/ /\ workerPc'[w] = "marking" /\ UNCHANGED rows
              /\ \E i \in Fetchable : job'[w].id = i /\ job'[w].name = rows[i].name
<1>. DEFINE Goal == \/ /\ job'[w] = job[w]
                       /\ workerPc'[w] = "markNotebook" =>
                            workerPc[w] = "markNotebook" \/ notebooks'[job[w].name] # NoObj
                    \/ /\ workerPc'[w] = "marking" /\ UNCHANGED rows
                       /\ \E i \in Fetchable : job'[w].id = i /\ job'[w].name = rows[i].name
<1>. USE DEF dbVars, k8sVars
<1>1. workerPc \in [Workers -> WorkerPcs] /\ job \in [Workers -> Job \cup {NoJob}]
  BY DEF IndInv, CoreInv, TypeOK, WorkerTypeOK
<1>2. CASE UNCHANGED <<workerPc, job>>
  BY <1>2
<1>3. ASSUME NEW v \in Workers, NEW pc \in WorkerPcs \ {"markNotebook"},
             Step(v, pc) \/ Retry(v, pc) \/ Finish(v)
      PROVE  Goal
  <2>1. CASE Step(v, pc)
    BY <1>1, <2>1 DEF Step
  <2>2. CASE Retry(v, pc)
    BY <1>1, <1>2, <2>1, <2>2 DEF Retry
  <2>3. CASE Finish(v)
    BY <1>1, <2>3 DEF Finish
  <2>. QED
    BY <1>3, <2>1, <2>2, <2>3
<1>4. ASSUME NEW v \in Workers, Fetch(v)
      PROVE  Goal
  <2>1. CASE v = w
    <3>1. PICK i \in Fetchable :
            job' = [job EXCEPT ![w] = [id |-> i, name |-> rows[i].name, kind |-> rows[i].kind]]
      BY <1>4, <2>1 DEF Fetch
    <3>2. workerPc'[w] = "marking" /\ UNCHANGED rows
      BY <1>1, <1>4, <2>1 DEF Fetch
    <3>. QED
      BY <1>1, <3>1, <3>2
  <2>2. CASE v # w
    BY <1>1, <1>4, <2>2 DEF Fetch
  <2>. QED
    BY <2>1, <2>2
<1>5. ASSUME NEW v \in Workers, CreateNotebook(v)
      PROVE  Goal
  <2>1. CASE Step(v, "markNotebook") /\ PutNotebook(v)
    <3>1. CASE v = w
      <4>1. job[w].name \in Names /\ [owner |-> job[w].id, kind |-> job[w].kind, stopped |-> FALSE] \in Notebook
        BY <1>5, <3>1, JobType DEF CreateNotebook, Waiting, IndInv, Notebook
      <4>2. notebooks'[job[w].name] # NoObj
        BY <2>1, <3>1, <4>1, SentinelAssumption DEF PutNotebook, IndInv, CoreInv, TypeOK, StoreTypeOK
      <4>. QED
        BY <2>1, <4>2 DEF Step
    <3>2. CASE v # w
      BY <1>1, <2>1, <3>2 DEF Step
    <3>. QED
      BY <3>1, <3>2
  <2>2. CASE Step(v, "markNotebookFailed") \/ Retry(v, "markNotebookFailed")
    BY <1>3, <2>2 DEF WorkerPcs
  <2>. QED
    BY <1>5, <2>1, <2>2 DEF CreateNotebook
<1>6. CASE WorkerNext
  <2>1. ASSUME NEW v \in Workers,
               \/ MarkPicked(v) \/ MarkPickedFails(v) \/ CreatePVC(v) \/ MarkPVC(v)
               \/ MarkNotebook(v) \/ MarkFailed(v) \/ CleanNotebook(v) \/ CleanPVC(v)
        PROVE  Goal
    <3>1. \/ Finish(v)
          \/ \E pc \in WorkerPcs \ {"markNotebook"} : Step(v, pc) \/ Retry(v, pc)
      BY <2>1 DEF MarkPicked, MarkPickedFails, CreatePVC, MarkPVC, MarkNotebook,
                  MarkFailed, CleanNotebook, CleanPVC, WorkerPcs
    <3>. QED
      BY <1>3, <3>1 DEF WorkerPcs
  <2>2. ASSUME NEW v \in Workers, Exit(v)
        PROVE  Goal
    BY <1>1, <2>2 DEF Exit
  <2>3. CASE Sigterm
    BY <1>2, <2>3 DEF Sigterm
  <2>4. CASE Restart \/ Crash
    BY <2>4 DEF Restart, Crash, NewProcess
  <2>. QED
    BY <1>4, <1>5, <1>6, <2>1, <2>2, <2>3, <2>4 DEF WorkerNext
<1>7. CASE ApiNext \/ ClusterNext \/ UNCHANGED vars
  BY <1>2, <1>7 DEF ApiNext, ClusterNext, workerVars, vars
<1>. QED
  BY <1>6, <1>7 DEF Next

\* A request gets to know the rows by reading all of them, and gets past the
\* totals only if they fit.
Requested(r) ==
    /\ apiSeen'[r] \in {apiSeen[r], {}, Snapshot}
    /\ apiPc'[r] = "totals" =>
         \/ apiPc[r] = "totals" /\ apiSeen'[r] = apiSeen[r]
         \/ apiSeen'[r] = Snapshot /\ UNCHANGED rows
    /\ Counted(r)' =>
         /\ apiCall'[r] = apiCall[r]
         /\ \/ Counted(r)
            \/ /\ apiPc[r] = "totals" /\ UNCHANGED rows
               /\ Total(r, apiCall[r].kind) < MaxTotal[apiCall[r].kind]
    /\ apiPc'[r] \in Deleting => apiPc[r] \in Deleting \/ "delete" \in Ops

LEMMA RequestsStep ==
    ASSUME IndInv, [Next]_vars, NEW r \in Requests
    PROVE  Requested(r)
<1>. USE DEF dbVars
<1>1. /\ apiPc \in [Requests -> ApiPcs] /\ apiCall \in [Requests -> Call \cup {NoCall}]
      /\ apiSeen \in [Requests -> SUBSET Row]
  BY DEF IndInv, CoreInv, TypeOK, ApiTypeOK
<1>2. CASE UNCHANGED <<apiPc[r], apiCall[r], apiSeen[r]>>
  BY <1>2 DEF Requested, Counted
<1>3. ASSUME NEW q \in Requests, Reply(q)
      PROVE  Requested(r)
  <2>1. CASE q = r
    BY <1>1, <1>3, <2>1 DEF Reply, Requested, Counted, Deleting
  <2>2. CASE q # r
    BY <1>1, <1>2, <1>3, <2>2 DEF Reply
  <2>. QED
    BY <2>1, <2>2
<1>4. ASSUME NEW q \in Requests, NEW pc \in ApiPcs, Goto(q, pc), UNCHANGED <<apiCall, apiSeen>>,
             pc # "totals", pc \in Deleting => apiPc[q] \in Deleting,
             pc \in {"running", "insert"} /\ apiCall[q].op = "create" =>
                 \/ Counted(q)
                 \/ /\ apiPc[q] = "totals" /\ UNCHANGED rows
                    /\ Total(q, apiCall[q].kind) < MaxTotal[apiCall[q].kind]
      PROVE  Requested(r)
  <2>1. CASE q = r
    BY <1>1, <1>4, <2>1 DEF Goto, Requested, Counted
  <2>2. CASE q # r
    BY <1>1, <1>2, <1>4, <2>2 DEF Goto
  <2>. QED
    BY <2>1, <2>2
<1>5. ASSUME NEW q \in Requests, NEW op, NEW n, NEW k, NEW pc \in ApiPcs, Begin(q, op, n, k, pc),
             pc \notin {"totals", "running", "insert"}, pc \in Deleting => op = "delete"
      PROVE  Requested(r)
  <2>1. CASE q = r
    BY <1>1, <1>5, <2>1 DEF Begin, Requested, Counted
  <2>2. CASE q # r
    BY <1>1, <1>2, <1>5, <2>2 DEF Begin
  <2>. QED
    BY <2>1, <2>2
<1>6. CASE ApiNext
  <2>1. ASSUME NEW q \in Requests, NEW n \in Names, NEW k \in Kinds,
               CreateLock(q, n, k) \/ StartLock(q, n) \/ StopRead(q, n) \/ DeleteRead(q, n)
        PROVE  Requested(r)
    <3>1. \E op \in {"create", "start", "stop", "delete"}, l \in Kinds \cup {"unknown"}, pc \in {"rows", "get", "deleteRow", "deleteFailedRow"} :
            Begin(q, op, n, l, pc) /\ (pc \in Deleting => op = "delete")
      BY <2>1 DEF CreateLock, StartLock, StopRead, DeleteRead, Deleting
    <3>. QED
      BY <1>5, <3>1 DEF ApiPcs, Locked, Deleting
  <2>2. ASSUME NEW q \in Requests, CreateRead(q)
        PROVE  Requested(r)
    <3>1. CASE q = r
      BY <1>1, <2>2, <3>1 DEF CreateRead, Goto, Requested, Counted, Deleting
    <3>2. CASE q # r
      BY <1>1, <1>2, <2>2, <3>2 DEF CreateRead, Goto
    <3>. QED
      BY <3>1, <3>2
  <2>3. ASSUME NEW q \in Requests, ListTotals(q)
        PROVE  Requested(r)
    <3>1. \/ Goto(q, "over")
          \/ Goto(q, "running") /\ Total(q, apiCall[q].kind) < MaxTotal[apiCall[q].kind]
      BY <2>3 DEF ListTotals
    <3>2. UNCHANGED <<apiCall, apiSeen, rows>> /\ apiPc[q] = "totals"
      BY <2>3 DEF ListTotals
    <3>. QED
      BY <1>4, <3>1, <3>2 DEF ApiPcs, Locked, Deleting
  <2>4. ASSUME NEW q \in Requests, ListRunning(q)
        PROVE  Requested(r)
    <3>1. \/ Reply(q)
          \/ /\ apiPc[q] = "running" /\ UNCHANGED <<apiCall, apiSeen>>
             /\ Goto(q, IF apiCall[q].op = "create" THEN "insert" ELSE "get")
      BY <2>4 DEF ListRunning
    <3>. QED
      BY <1>3, <1>4, <3>1 DEF ApiPcs, Locked, Deleting, Counted
  <2>5. ASSUME NEW q \in Requests, StartRead(q)
        PROVE  Requested(r)
    <3>1. CASE Reply(q)
      BY <1>3, <3>1
    <3>2. ASSUME NEW k \in Kinds, apiCall' = [apiCall EXCEPT ![q].kind = k],
                 apiSeen' = [apiSeen EXCEPT ![q] = Snapshot], Goto(q, "running")
          PROVE  Requested(r)
      <4>1. CASE q = r
        <5>1. apiCall[q] \in Call /\ apiCall[q].op = "start"
          BY <2>5, CallType DEF StartRead, IndInv
        <5>2. apiCall'[q].op = "start"
          BY <1>1, <3>2, <5>1 DEF Call
        <5>. QED
          BY <1>1, <3>2, <4>1, <5>2 DEF Goto, Requested, Counted, Deleting
      <4>2. CASE q # r
        BY <1>1, <1>2, <3>2, <4>2 DEF Goto
      <4>. QED
        BY <4>1, <4>2
    <3>3. \/ Reply(q)
          \/ \E k \in Kinds : /\ apiCall' = [apiCall EXCEPT ![q].kind = k]
                              /\ apiSeen' = [apiSeen EXCEPT ![q] = Snapshot]
                              /\ Goto(q, "running")
      BY <2>5 DEF StartRead, Named, Live, IndInv, CoreInv, TypeOK, StoreTypeOK, Row
    <3>. QED
      BY <3>1, <3>2, <3>3
  <2>6. ASSUME NEW q \in Requests, GetNotebook(q)
        PROVE  Requested(r)
    <3>1. Reply(q) \/ (Goto(q, "update") /\ UNCHANGED <<apiCall, apiSeen>>)
      BY <2>6 DEF GetNotebook
    <3>. QED
      BY <1>3, <1>4, <3>1 DEF ApiPcs, Deleting
  <2>7. ASSUME NEW q \in Requests, DeleteRow(q) \/ DeleteNotebook(q)
        PROVE  Requested(r)
    <3>1. \/ Reply(q)
          \/ /\ apiPc[q] \in Deleting /\ UNCHANGED <<apiCall, apiSeen>>
             /\ Goto(q, "deleteNotebook") \/ Goto(q, "deleteClaim")
      BY <2>7 DEF DeleteRow, DeleteNotebook, Deleting
    <3>. QED
      BY <1>3, <1>4, <3>1 DEF ApiPcs, Deleting
  <2>8. ASSUME NEW q \in Requests,
               RefuseCredit(q) \/ Insert(q) \/ UpdateNotebook(q) \/ DeleteClaim(q) \/ ApiError(q)
        PROVE  Requested(r)
    BY <1>3, <2>8 DEF RefuseCredit, Insert, UpdateNotebook, DeleteClaim, ApiError
  <2>. QED
    BY <1>6, <2>1, <2>2, <2>3, <2>4, <2>5, <2>6, <2>7, <2>8 DEF ApiNext, Kinds
<1>7. CASE WorkerNext \/ ClusterNext \/ UNCHANGED vars
  BY <1>2, <1>7 DEF WorkerNext, ClusterNext, apiVars, vars
<1>. QED
  BY <1>6, <1>7 DEF Next

-----------------------------------------------------------------------------
(* What each step keeps.                                                   *)

\* While a request adds a row no other one has counted or is counting.
LEMMA AddsAlone ==
    ASSUME IndInv, NEW r \in Requests, Adds(r), NEW q \in Requests
    PROVE  apiPc'[q] \notin Locked
<1>1. IndInv'
  BY IndStep DEF Adds, Next, ApiNext
<1>2. profileLock' = NoOne
  BY AddsRow
<1>. QED
  BY <1>1, <1>2, StoreAssumption DEF IndInv, CoreInv, LockDiscipline, HoldsProfile

\* What a goroutine works on.
LEMMA JobLive ==
    ASSUME LimitInv, NEW w \in Workers, job[w] # NoJob
    PROVE  job[w].id \in Live /\ rows[job[w].id].name = job[w].name
  BY DEF LimitInv, JobRow, IndInv, CoreInv, TypeOK, WorkerTypeOK, Job, Live

LEMMA JobRowStep ==
    ASSUME LimitInv, [Next]_vars
    PROVE  JobRow'
<1>1. ASSUME NEW w \in Workers, job'[w] # NoJob
      PROVE  /\ rows'[job'[w].id] # NoRow
             /\ rows'[job'[w].id].name = job'[w].name
             /\ rows'[job'[w].id].event # "notebook-applied"
  <2>1. CASE job'[w] = job[w]
    <3>1. /\ job[w].id \in Live /\ rows[job[w].id].name = job[w].name
          /\ rows[job[w].id].event # "notebook-applied"
      BY <1>1, <2>1, JobLive DEF LimitInv, JobRow
    <3>2. /\ rows'[job[w].id] # NoRow /\ rows'[job[w].id].name = job[w].name
      BY <3>1, RowsKeep DEF LimitInv, Live
    <3>3. ASSUME rows'[job[w].id].event = "notebook-applied"
          PROVE  FALSE
      <4>1. PICK v \in Workers :
              workerPc[v] = "markNotebook" /\ job[v].id = job[w].id /\ job'[v] = NoJob
        BY <3>1, <3>3, AppliedStep DEF LimitInv
      <4>2. v = w
        BY <1>1, <2>1, <4>1 DEF LimitInv, IndInv, CoreInv, JobShape, Waiting, ClaimInv, SingleClaim
      <4>. QED
        BY <1>1, <4>1, <4>2
    <3>. QED
      BY <2>1, <3>2, <3>3
  <2>2. ASSUME UNCHANGED rows, NEW i \in Fetchable,
               job'[w].id = i, job'[w].name = rows[i].name
        PROVE  /\ rows'[job'[w].id] # NoRow
               /\ rows'[job'[w].id].name = job'[w].name
               /\ rows'[job'[w].id].event # "notebook-applied"
    BY <2>2 DEF Fetchable, Live
  <2>. QED
    BY <1>1, <2>1, <2>2, JobsStep DEF LimitInv
<1>. QED
  BY <1>1 DEF JobRow

\* A cleanup takes no Notebook of a row that is applied or about to be.
LEMMA AppliedThereStep ==
    ASSUME LimitInv, [Next]_vars
    PROVE  AppliedThere'
<1>. SUFFICES ASSUME NEW i \in Live', rows'[i].event = "notebook-applied"
              PROVE  notebooks'[rows'[i].name] # NoObj
  BY DEF AppliedThere
<1>1. CASE i \in Live
  <2>1. rows'[i].name = rows[i].name /\ rows[i].name \in Names
    BY <1>1, RowsKeep DEF LimitInv, IndInv, CoreInv, TypeOK, StoreTypeOK, Live, Row
  <2>2. \/ rows[i].event = "notebook-applied"
        \/ \E w \in Workers :
             workerPc[w] = "markNotebook" /\ job[w].id = i /\ job'[w] = NoJob
    BY <1>1, AppliedStep DEF LimitInv
  <2>3. notebooks[rows[i].name] # NoObj
    BY <1>1, <2>2, JobLive
    DEF LimitInv, AppliedThere, MadeThere, IndInv, CoreInv, JobShape, Waiting
  <2>4. ASSUME notebooks'[rows[i].name] = NoObj
        PROVE  FALSE
    <3>1. PICK w \in Workers :
            workerPc[w] = "cleanNotebook" /\ job[w].name = rows[i].name /\ UNCHANGED <<rows, job>>
      BY <2>1, <2>3, <2>4, ObjectsStep DEF LimitInv
    <3>2. job[w] # NoJob
      BY <3>1 DEF LimitInv, IndInv, CoreInv, JobShape, Waiting
    <3>3. job[w].id = i
      BY <1>1, <3>1, <3>2, JobLive DEF LimitInv, UniqueNames
    <3>. QED
      BY <3>1, <3>2, <3>3 DEF LimitInv, JobRow
  <2>. QED
    BY <2>1, <2>4
<1>2. CASE i \notin Live
  <2>1. PICK r \in Requests : Adds(r)
    BY <1>2, SameLive, RowsStep DEF LimitInv
  <2>. QED
    BY <1>2, <2>1, AddsRow DEF LimitInv
<1>. QED
  BY <1>1, <1>2

LEMMA MadeThereStep ==
    ASSUME LimitInv, [Next]_vars
    PROVE  MadeThere'
<1>. SUFFICES ASSUME NEW w \in Workers, workerPc'[w] = "markNotebook"
              PROVE  notebooks'[job'[w].name] # NoObj
  BY DEF MadeThere
<1>1. IndInv'
  BY IndStep DEF LimitInv
<1>2. job'[w] # NoJob
  BY <1>1 DEF IndInv, CoreInv, JobShape, Waiting
<1>3. job'[w] = job[w] /\ (workerPc[w] = "markNotebook" \/ notebooks'[job[w].name] # NoObj)
  BY <1>2, JobsStep DEF LimitInv
<1>4. ASSUME workerPc[w] = "markNotebook", notebooks'[job[w].name] = NoObj
      PROVE  FALSE
  <2>1. notebooks[job[w].name] # NoObj
    BY <1>4 DEF LimitInv, MadeThere
  <2>2. job[w].name \in Names
    BY <1>2, <1>3 DEF LimitInv, IndInv, CoreInv, TypeOK, WorkerTypeOK, Job
  <2>3. PICK v \in Workers : workerPc[v] = "cleanNotebook" /\ job[v].name = job[w].name
    BY <1>4, <2>1, <2>2, ObjectsStep DEF LimitInv
  <2>4. job[v] # NoJob
    BY <2>3 DEF LimitInv, IndInv, CoreInv, JobShape, Waiting
  <2>5. job[v].id = job[w].id
    BY <1>2, <1>3, <2>3, <2>4, JobLive DEF LimitInv, UniqueNames
  <2>6. v = w
    BY <1>2, <1>3, <2>4, <2>5 DEF LimitInv, IndInv, ClaimInv, SingleClaim
  <2>. QED
    BY <1>4, <2>3, <2>6
<1>. QED
  BY <1>3, <1>4

LEMMA SeenCoversStep ==
    ASSUME LimitInv, [Next]_vars
    PROVE  SeenCovers'
<1>. SUFFICES ASSUME NEW r \in Requests, apiPc'[r] = "totals",
                     NEW i \in Live', rows'[i].event \notin Failures
              PROVE  \E nb \in apiSeen'[r] : Saw(nb, i)'
  BY DEF SeenCovers
<1>1. i \in Live
  <2>1. ASSUME NEW q \in Requests, Adds(q)
        PROVE  FALSE
    BY <2>1, AddsAlone DEF Locked, LimitInv
  <2>. QED
    BY <2>1, RowsStep, SameLive DEF LimitInv
<1>2. /\ rows'[i].name = rows[i].name /\ rows'[i].kind = rows[i].kind
      /\ rows[i].event \notin Failures
      /\ rows[i].event = "notebook-applied" => rows'[i].event = "notebook-applied"
  BY <1>1, RowsKeep DEF LimitInv
<1>3. CASE apiPc[r] = "totals" /\ apiSeen'[r] = apiSeen[r]
  <2>1. PICK nb \in apiSeen[r] : Saw(nb, i)
    BY <1>1, <1>2, <1>3 DEF LimitInv, SeenCovers
  <2>2. Saw(nb, i)'
    BY <1>2, <2>1 DEF Saw
  <2>. QED
    BY <1>3, <2>1, <2>2
<1>4. CASE apiSeen'[r] = Snapshot /\ UNCHANGED rows
  <2>1. PICK nb \in apiSeen'[r] : nb = rows[i]
    BY <1>1, <1>4 DEF Snapshot
  <2>2. Saw(nb, i)'
    BY <1>2, <1>4, <2>1 DEF Saw
  <2>. QED
    BY <2>1, <2>2 DEF Saw
<1>. QED
  BY <1>3, <1>4, RequestsStep DEF Requested, LimitInv

LEMMA SeenFiniteStep ==
    ASSUME LimitInv, [Next]_vars
    PROVE  SeenFinite'
<1>1. ASSUME NEW r \in Requests
      PROVE  IsFiniteSet(apiSeen'[r])
  <2>1. apiSeen'[r] \in {apiSeen[r], {}, Snapshot}
    BY RequestsStep DEF Requested, LimitInv
  <2>. QED
    BY <2>1, SnapshotFinite, FS_EmptySet DEF LimitInv, SeenFinite
<1>. QED
  BY <1>1 DEF SeenFinite

\* The rows kept grow by an INSERT only.
LEMMA KeptSame ==
    ASSUME LimitInv, [Next]_vars, SameRows, NEW k
    PROVE  Kept(k)' \subseteq Kept(k)
<1>1. ASSUME NEW i \in Kept(k)'
      PROVE  i \in Kept(k)
  <2>1. i \in Live /\ rows'[i].kind = k /\ rows'[i].event \notin Failures
    BY SameLive DEF Kept
  <2>. QED
    BY <2>1, RowsKeep DEF Kept, LimitInv
<1>. QED
  BY <1>1

LEMMA RoomLeftStep ==
    ASSUME LimitInv, [Next]_vars
    PROVE  RoomLeft'
<1>. SUFFICES ASSUME NEW r \in Requests, Counted(r)'
              PROVE  (Cardinality(Kept(apiCall[r].kind)) < MaxTotal[apiCall[r].kind])'
  BY DEF RoomLeft
<1>. PICK k : k = apiCall[r].kind
  OBVIOUS
<1>1. SameRows
  <2>1. ASSUME NEW q \in Requests, Adds(q)
        PROVE  FALSE
    BY <2>1, AddsAlone DEF Counted, Locked, LimitInv
  <2>. QED
    BY <2>1, RowsStep DEF LimitInv
<1>2. Requested(r)
  BY RequestsStep DEF LimitInv
<1>3. apiCall'[r] = apiCall[r]
  BY <1>2 DEF Requested
<1>4. k \in Kinds /\ MaxTotal[k] \in Nat
  <2>1. apiPc[r] # "idle" /\ apiCall[r].op = "create"
    BY <1>2, <1>3 DEF Requested, Counted
  <2>2. apiCall[r] # NoCall
    BY <2>1 DEF LimitInv, IndInv, CoreInv, CallShape
  <2>. QED
    BY <2>1, <2>2, ApiAssumption DEF LimitInv, IndInv, CoreInv, CallShape
<1>5. Cardinality(Kept(k)) < MaxTotal[k]
  <2>1. CASE Counted(r)
    BY <2>1 DEF LimitInv, RoomLeft
  <2>2. CASE apiPc[r] = "totals" /\ Total(r, k) < MaxTotal[k]
    <3>1. Cardinality(Kept(k)) <= Total(r, k)
      BY <1>4, <2>2, CountCovers
    <3>2. Total(r, k) \in Nat
      BY FS_Subset, FS_CardinalityType DEF Total, LimitInv, SeenFinite
    <3>. QED
      BY <1>4, <2>2, <3>1, <3>2, KeptFinite
  <2>. QED
    BY <1>2, <2>1, <2>2 DEF Requested
<1>6. Cardinality(Kept(k)') <= Cardinality(Kept(k)) /\ Cardinality(Kept(k)') \in Nat
  BY <1>1, KeptSame, KeptShrinks
<1>7. Cardinality(Kept(k)') < MaxTotal[k]
  BY <1>4, <1>5, <1>6, KeptFinite
<1>8. Kept(apiCall[r].kind)' = Kept(k)'
  BY <1>3 DEF Kept
<1>. QED
  BY <1>3, <1>7, <1>8

LEMMA TotalStep ==
    ASSUME LimitInv, [Next]_vars
    PROVE  TotalLimit'
<1>. SUFFICES ASSUME NEW k \in Kinds
              PROVE  Cardinality(Kept(k)') <= MaxTotal[k]
  BY DEF TotalLimit, Kept
<1>1. MaxTotal[k] \in Nat /\ Cardinality(Kept(k)) <= MaxTotal[k]
  BY ApiAssumption DEF LimitInv, TotalLimit, Kept
<1>2. CASE Kept(k)' \subseteq Kept(k)
  BY <1>1, <1>2, KeptShrinks, KeptFinite
<1>3. ASSUME NEW r \in Requests, Adds(r)
      PROVE  Cardinality(Kept(k)') <= MaxTotal[k]
  <2>1. Kept(k)' \subseteq IF apiCall[r].kind = k THEN Kept(k) \cup {nextId} ELSE Kept(k)
    <3>1. ASSUME NEW i \in Kept(k)', i # nextId
          PROVE  i \in Kept(k)
      <4>1. i \in Live /\ i \in Ids
        BY <1>3, <3>1, AddsRow DEF Kept, LimitInv, Live
      <4>2. rows'[i] = rows[i]
        BY <1>3, <3>1, <4>1, AddsRow DEF LimitInv
      <4>. QED
        BY <4>1, <4>2 DEF Kept
    <3>2. ASSUME nextId \in Kept(k)'
          PROVE  apiCall[r].kind = k
      <4>1. rows'[nextId].kind = apiCall[r].kind
        BY <1>3, AddsRow DEF LimitInv
      <4>2. \A i : i \in Kept(k)' => rows'[i].kind = k
        BY DEF Kept
      <4>. QED
        BY <3>2, <4>1, <4>2
    <3>. QED
      BY <3>1, <3>2
  <2>2. CASE apiCall[r].kind # k
    BY <1>2, <2>1, <2>2
  <2>3. CASE apiCall[r].kind = k
    <3>1. Cardinality(Kept(k)) < MaxTotal[k]
      BY <1>3, <2>3, AddsRow DEF LimitInv, RoomLeft, Counted
    <3>2. /\ IsFiniteSet(Kept(k) \cup {nextId})
          /\ Cardinality(Kept(k) \cup {nextId}) <= Cardinality(Kept(k)) + 1
          /\ Cardinality(Kept(k) \cup {nextId}) \in Nat
      BY KeptFinite, FS_AddElement, FS_CardinalityType
    <3>3. /\ Cardinality(Kept(k)') <= Cardinality(Kept(k) \cup {nextId})
          /\ Cardinality(Kept(k)') \in Nat
      BY <2>1, <2>3, <3>2, FS_Subset, FS_CardinalityType
    <3>. QED
      BY <1>1, <3>1, <3>2, <3>3, KeptFinite
  <2>. QED
    BY <2>2, <2>3
<1>. QED
  BY <1>2, <1>3, KeptSame, RowsStep DEF LimitInv

-----------------------------------------------------------------------------
LEMMA LimitInit == Init => LimitInv
<1>. SUFFICES ASSUME Init PROVE LimitInv
  OBVIOUS
<1>1. Live = {}
  BY DEF Init, StoreInit, Live
<1>2. ASSUME NEW k \in Kinds
      PROVE  Cardinality({i \in Live : rows[i].kind = k /\ rows[i].event \notin Failures})
                 <= MaxTotal[k]
  <2>1. {i \in Live : rows[i].kind = k /\ rows[i].event \notin Failures} = {}
    BY <1>1
  <2>2. MaxTotal[k] \in Nat
    BY ApiAssumption
  <2>. QED
    BY <2>1, <2>2, FS_EmptySet
<1>3. TotalLimit
  BY <1>2 DEF TotalLimit
<1>4. UniqueNames /\ AppliedThere
  BY <1>1 DEF UniqueNames, AppliedThere
<1>5. NeverDeletes /\ SeenCovers /\ SeenFinite /\ RoomLeft
  BY FS_EmptySet DEF Init, ApiInit, NeverDeletes, Deleting, SeenCovers, SeenFinite, RoomLeft, Counted
<1>6. JobRow /\ MadeThere
  BY DEF Init, WorkerInit, JobRow, MadeThere
<1>. QED
  BY <1>3, <1>4, <1>5, <1>6, IndInit DEF LimitInv

LEMMA LimitStep ==
    ASSUME "delete" \notin Ops, LimitInv, [Next]_vars
    PROVE  LimitInv'
<1>1. NeverDeletes'
  BY RequestsStep DEF Requested, NeverDeletes, LimitInv
<1>. QED
  BY <1>1, IndStep, UniqueStep, JobRowStep, AppliedThereStep, MadeThereStep,
     SeenCoversStep, SeenFiniteStep, RoomLeftStep, TotalStep DEF LimitInv

\* A user who deletes nothing never has more notebooks, other than failed ones,
\* than the limit on the total: however requests race, and whatever becomes of the
\* rows between the two Lists and the INSERT (createNotebook).
THEOREM TotalsWithinLimit ==
    ASSUME "delete" \notin Ops
    PROVE  Spec => []TotalLimit
<1>1. LimitInv => TotalLimit
  BY DEF LimitInv
<1>. QED
  BY <1>1, LimitInit, LimitStep, PTL DEF Spec

-----------------------------------------------------------------------------
(* The limit on what runs.                                                 *)

\* A Notebook belongs to its row.
OwnRow ==
    \A n \in Names : notebooks[n] # NoObj =>
        LET i == notebooks[n].owner IN
        rows[i] # NoRow /\ rows[i].name = n /\ rows[i].kind = notebooks[n].kind
JobKind == \A w \in Workers : job[w] # NoJob => rows[job[w].id].kind = job[w].kind

\* A row that may still come to run without anybody asking again: its worker has
\* yet to create the Notebook.
Early == {"marking", "createPVC", "markPVC", "createNotebook"}
Awaited(i) ==
    \/ rows[i].event = "scheduled"
    \/ \E w \in Workers : workerPc[w] \in Early /\ job[w].id = i

\* The rows that run or will: what CountEffectiveRunningNotebooks must cover.
Active(k) ==
    {i \in Live :
       /\ rows[i].kind = k /\ rows[i].event \notin Failures
       /\ IF notebooks[rows[i].name] = NoObj THEN Awaited(i)
          ELSE ~ notebooks[rows[i].name].stopped}

\* Between the first List and the second.
SeenStill ==
    \A r \in Requests : apiPc[r] = "running" =>
        \A i \in Live : rows[i].event \notin Failures => \E nb \in apiSeen[r] : Saw(nb, i)

\* A start is about a row that is there, of the kind it counts.
Starts(r) == apiPc[r] \in {"running", "get", "update"} /\ apiCall[r].op = "start"
StartKind ==
    \A r \in Requests : Starts(r) =>
        \E i \in Live : rows[i].name = apiCall[r].name /\ rows[i].kind = apiCall[r].kind

\* From the second List to the INSERT or the Update one more may run.
Runs(r) ==
    \/ apiPc[r] = "insert" /\ apiCall[r].op = "create"
    \/ apiPc[r] \in {"get", "update"} /\ apiCall[r].op = "start"
RunsFit ==
    \A r \in Requests :
        Runs(r) => Cardinality(Active(apiCall[r].kind)) < MaxRunning[apiCall[r].kind]
ActiveLimit == \A k \in Kinds : Cardinality(Active(k)) <= MaxRunning[k]

RunInv ==
    /\ LimitInv /\ OwnRow /\ JobKind /\ SeenStill /\ StartKind /\ RunsFit /\ ActiveLimit

-----------------------------------------------------------------------------
LEMMA ActiveFinite ==
    ASSUME NEW k
    PROVE  IsFiniteSet(Active(k)) /\ Cardinality(Active(k)) \in Nat
  BY LiveFinite, FS_Subset, FS_CardinalityType DEF Active

\* The second count is no less than what runs or will.
LEMMA RunningCovers ==
    ASSUME RunInv, NEW r \in Requests, apiPc[r] = "running", NEW k \in Kinds
    PROVE  Cardinality(Active(k)) <= Running(r, k)
<1> DEFINE T == {nb \in apiSeen[r] : nb.kind = k /\ CountsRunning(nb)}
           f == [i \in Active(k) |-> CHOOSE nb \in apiSeen[r] : Saw(nb, i)]
<1>1. IsFiniteSet(T)
  BY FS_Subset DEF RunInv, LimitInv, SeenFinite
<1>2. ASSUME NEW i \in Active(k)
      PROVE  f[i] \in apiSeen[r] /\ Saw(f[i], i)
  <2>1. \E nb \in apiSeen[r] : Saw(nb, i)
    BY <1>2 DEF RunInv, SeenStill, Active
  <2>2. f[i] = CHOOSE nb \in apiSeen[r] : Saw(nb, i)
    OBVIOUS
  <2>. HIDE DEF f
  <2>. QED
    BY <2>1, <2>2
<1>3. f \in [Active(k) -> T]
  <2>1. ASSUME NEW i \in Active(k)
        PROVE  f[i] \in T
    <3>. HIDE DEF f
    <3>. QED
      BY <1>2, <2>1
      DEF Saw, Active, CountsRunning, CountsTotal, RunInv, LimitInv, AppliedThere
  <2>. QED
    BY <2>1
<1>4. ASSUME NEW i \in Active(k), NEW j \in Active(k), f[i] = f[j]
      PROVE  i = j
  <2>1. Saw(f[i], i) /\ Saw(f[j], j)
    BY <1>2
  <2>. HIDE DEF f
  <2>. QED
    BY <1>4, <2>1 DEF Saw, Active, RunInv, LimitInv, UniqueNames
<1>5. f \in Injection(Active(k), T)
  <2>. HIDE DEF T
  <2>. QED
    BY <1>3, <1>4 DEF Injection, IsInjective
<1>. QED
  BY <1>1, <1>5, FS_Injection DEF Running

-----------------------------------------------------------------------------
LEMMA JobKindStep ==
    ASSUME RunInv, [Next]_vars
    PROVE  JobKind'
<1>. SUFFICES ASSUME NEW w \in Workers, job'[w] # NoJob
              PROVE  rows'[job'[w].id].kind = job'[w].kind
  BY DEF JobKind
<1>1. LimitInv /\ IndInv /\ NeverDeletes
  BY DEF RunInv, LimitInv
<1>2. CASE job'[w] = job[w]
  <2>1. job[w].id \in Live /\ rows[job[w].id].kind = job[w].kind
    BY <1>1, <1>2, JobLive DEF RunInv, JobKind
  <2>. QED
    BY <1>1, <1>2, <2>1, RowsKeep
<1>3. CASE Fetch(w)
  BY <1>1, <1>3, Fetched
<1>. QED
  BY <1>1, <1>2, <1>3, JobKept

LEMMA OwnRowStep ==
    ASSUME RunInv, [Next]_vars
    PROVE  OwnRow'
<1>. SUFFICES ASSUME NEW n \in Names, notebooks'[n] # NoObj
              PROVE  /\ rows'[notebooks'[n].owner] # NoRow
                     /\ rows'[notebooks'[n].owner].name = n
                     /\ rows'[notebooks'[n].owner].kind = notebooks'[n].kind
  BY DEF OwnRow
<1>1. LimitInv /\ IndInv /\ NeverDeletes
  BY DEF RunInv, LimitInv
<1>2. PICK i \in Live : /\ i = notebooks'[n].owner /\ rows[i].name = n
                        /\ rows[i].kind = notebooks'[n].kind
  <2>1. CASE /\ notebooks[n] # NoObj /\ notebooks'[n].owner = notebooks[n].owner
             /\ notebooks'[n].kind = notebooks[n].kind
    BY <1>1, <2>1
    DEF RunInv, OwnRow, IndInv, CoreInv, TypeOK, StoreTypeOK, Notebook, Live
  <2>2. ASSUME NEW w \in Workers, CreateNotebook(w), job[w].name = n,
               notebooks'[n].owner = job[w].id, notebooks'[n].kind = job[w].kind
        PROVE  /\ job[w].id \in Live /\ rows[job[w].id].name = n
               /\ rows[job[w].id].kind = job[w].kind
    <3>1. job[w] # NoJob
      BY <1>1, <2>2, JobType DEF CreateNotebook, Waiting, IndInv
    <3>. QED
      BY <1>1, <2>2, <3>1, JobLive DEF RunInv, JobKind
  <2>. QED
    BY <1>1, <2>1, <2>2, NotebookMove DEF SameNotebook
<1>. QED
  BY <1>1, <1>2, RowsKeep DEF Live

\* How a request comes to count, to start and to run.
LEMMA RequestRuns ==
    ASSUME IndInv, [Next]_vars, NEW r \in Requests
    PROVE  /\ apiPc'[r] = "running" =>
                \/ apiPc[r] \in {"totals", "running"} /\ apiSeen'[r] = apiSeen[r]
                \/ apiSeen'[r] = Snapshot /\ UNCHANGED rows
           /\ Starts(r)' =>
                \/ Starts(r) /\ apiCall'[r] = apiCall[r]
                \/ /\ UNCHANGED rows
                   /\ \E i \in Live :
                        rows[i].name = apiCall'[r].name /\ rows[i].kind = apiCall'[r].kind
           /\ Runs(r)' =>
                /\ apiCall'[r] = apiCall[r]
                /\ \/ Runs(r)
                   \/ /\ apiPc[r] = "running"
                      /\ Running(r, apiCall[r].kind) < MaxRunning[apiCall[r].kind]
<1>1. /\ apiPc \in [Requests -> ApiPcs] /\ apiCall \in [Requests -> Call \cup {NoCall}]
      /\ apiSeen \in [Requests -> SUBSET Row]
  BY DEF IndInv, CoreInv, TypeOK, ApiTypeOK
<1>2. CASE apiPc'[r] = apiPc[r] /\ apiCall'[r] = apiCall[r] /\ apiSeen'[r] = apiSeen[r]
  BY <1>2 DEF Starts, Runs
<1>3. CASE Reply(r)
  BY <1>1, <1>3 DEF Reply, Starts, Runs
<1>4. CASE Begins(r)
  <2>1. ASSUME NEW op, NEW n, NEW k, NEW pc \in ApiPcs, Begin(r, op, n, k, pc)
        PROVE  apiPc'[r] = pc /\ apiCall'[r].op = op
    BY <1>1, <2>1 DEF Begin
  <2>2. ASSUME NEW n \in Names, NEW k \in Kinds, CreateLock(r, n, k) \/ StartLock(r, n)
        PROVE  apiPc'[r] = "rows"
    BY <2>1, <2>2 DEF CreateLock, StartLock, ApiPcs, Locked
  <2>3. ASSUME NEW n \in Names, StopRead(r, n)
        PROVE  apiPc'[r] = "get" /\ apiCall'[r].op = "stop"
    BY <2>1, <2>3 DEF StopRead, ApiPcs
  <2>4. ASSUME NEW n \in Names, DeleteRead(r, n)
        PROVE  apiPc'[r] \in Deleting
    BY <2>1, <2>4 DEF DeleteRead, ApiPcs, Deleting
  <2>. QED
    BY <1>4, <2>2, <2>3, <2>4 DEF Begins, Starts, Runs, Deleting, Kinds
<1>5. ASSUME NEW pc \in ApiPcs, Goto(r, pc)
      PROVE  apiPc'[r] = pc
  BY <1>1, <1>5 DEF Goto
<1>6. CASE CreateRead(r)
  BY <1>5, <1>6 DEF CreateRead, ApiPcs, Locked, Starts, Runs
<1>7. CASE ListTotals(r)
  <2>1. apiPc[r] = "totals" /\ apiPc'[r] \in {"running", "over"} /\ UNCHANGED <<apiCall, apiSeen>>
    BY <1>5, <1>7 DEF ListTotals, ApiPcs, Locked
  <2>2. apiCall[r].op = "create"
    BY <2>1 DEF IndInv, CoreInv, CallShape
  <2>. QED
    BY <2>1, <2>2 DEF Starts, Runs
<1>8. CASE ListRunning(r)
  <2>1. CASE /\ apiPc[r] = "running"
             /\ Running(r, apiCall[r].kind) < MaxRunning[apiCall[r].kind]
             /\ Goto(r, IF apiCall[r].op = "create" THEN "insert" ELSE "get")
             /\ UNCHANGED <<apiCall, apiSeen>>
    BY <1>5, <2>1 DEF ApiPcs, Locked, Starts, Runs
  <2>. QED
    BY <1>3, <1>8, <2>1 DEF ListRunning
<1>9. CASE StartRead(r)
  <2>1. ASSUME NEW i \in Named(apiCall[r].name),
               apiCall' = [apiCall EXCEPT ![r].kind = rows[i].kind],
               apiSeen' = [apiSeen EXCEPT ![r] = Snapshot], Goto(r, "running")
        PROVE  /\ apiPc'[r] = "running" /\ apiSeen'[r] = Snapshot
               /\ rows[i].name = apiCall'[r].name /\ rows[i].kind = apiCall'[r].kind
    <3>1. apiCall[r] \in Call
      BY <1>9, CallType DEF StartRead, IndInv
    <3>2. apiCall'[r] = [apiCall[r] EXCEPT !.kind = rows[i].kind]
      BY <1>1, <2>1
    <3>3. apiCall'[r].name = apiCall[r].name /\ apiCall'[r].kind = rows[i].kind
      BY <3>1, <3>2 DEF Call
    <3>. QED
      BY <1>1, <1>5, <2>1, <3>3 DEF Named, ApiPcs, Locked
  <2>. QED
    BY <1>3, <1>9, <2>1 DEF StartRead, Starts, Runs, Named
<1>10. CASE GetNotebook(r)
  BY <1>3, <1>5, <1>10 DEF GetNotebook, ApiPcs, Starts, Runs
<1>11. CASE DeleteRow(r) \/ DeleteNotebook(r)
  BY <1>3, <1>5, <1>11 DEF DeleteRow, DeleteNotebook, ApiPcs, Deleting, Starts, Runs
<1>12. CASE Insert(r) \/ UpdateNotebook(r) \/ DeleteClaim(r) \/ RefuseCredit(r) \/ ApiError(r)
  BY <1>3, <1>12 DEF Insert, UpdateNotebook, DeleteClaim, RefuseCredit, ApiError
<1>. QED
  BY <1>2, <1>4, <1>6, <1>7, <1>8, <1>9, <1>10, <1>11, <1>12, RequestActs DEF Handles, Proceed

LEMMA SeenStillStep ==
    ASSUME RunInv, [Next]_vars
    PROVE  SeenStill'
<1>. SUFFICES ASSUME NEW r \in Requests, apiPc'[r] = "running",
                     NEW i \in Live', rows'[i].event \notin Failures
              PROVE  \E nb \in apiSeen'[r] : Saw(nb, i)'
  BY DEF SeenStill
<1>1. IndInv /\ NeverDeletes
  BY DEF RunInv, LimitInv
<1>2. i \in Live
  <2>1. ASSUME NEW q \in Requests, Adds(q)
        PROVE  FALSE
    BY <1>1, <2>1, AddsAlone DEF Locked
  <2>. QED
    BY <1>1, <2>1, RowsStep, SameLive
<1>3. /\ rows'[i].name = rows[i].name /\ rows'[i].kind = rows[i].kind
      /\ rows[i].event \notin Failures
      /\ rows[i].event = "notebook-applied" => rows'[i].event = "notebook-applied"
  BY <1>1, <1>2, RowsKeep
<1>4. CASE apiPc[r] \in {"totals", "running"} /\ apiSeen'[r] = apiSeen[r]
  <2>1. PICK nb \in apiSeen[r] : Saw(nb, i)
    BY <1>2, <1>3, <1>4 DEF RunInv, LimitInv, SeenCovers, SeenStill
  <2>2. Saw(nb, i)'
    BY <1>3, <2>1 DEF Saw
  <2>. QED
    BY <1>4, <2>1, <2>2
<1>5. CASE apiSeen'[r] = Snapshot /\ UNCHANGED rows
  <2>1. PICK nb \in apiSeen'[r] : nb = rows[i]
    BY <1>2, <1>5 DEF Snapshot
  <2>2. Saw(nb, i)'
    BY <1>3, <1>5, <2>1 DEF Saw
  <2>. QED
    BY <2>1, <2>2 DEF Saw
<1>. QED
  BY <1>1, <1>4, <1>5, RequestRuns

LEMMA StartKindStep ==
    ASSUME RunInv, [Next]_vars
    PROVE  StartKind'
<1>. SUFFICES ASSUME NEW r \in Requests, Starts(r)'
              PROVE  \E i \in Live' :
                       rows'[i].name = apiCall'[r].name /\ rows'[i].kind = apiCall'[r].kind
  BY DEF StartKind
<1>1. IndInv /\ NeverDeletes
  BY DEF RunInv, LimitInv
<1>2. PICK i \in Live :
        rows[i].name = apiCall'[r].name /\ rows[i].kind = apiCall'[r].kind
  BY <1>1, RequestRuns DEF RunInv, StartKind
<1>. QED
  BY <1>1, <1>2, RowsKeep

-----------------------------------------------------------------------------
(* What comes to run.                                                      *)

\* A goroutine that has yet to create a Notebook had yet to, or has just fetched.
LEMMA EarlyStep ==
    ASSUME IndInv, [Next]_vars, NEW w \in Workers, workerPc'[w] \in Early
    PROVE  (job'[w] = job[w] /\ workerPc[w] \in Early) \/ Fetch(w)
<1>1. workerPc \in [Workers -> WorkerPcs] /\ job \in [Workers -> Job \cup {NoJob}]
  BY DEF IndInv, CoreInv, TypeOK, WorkerTypeOK
<1>2. ASSUME NEW pc, Step(w, pc) \/ Retry(w, pc)
      PROVE  job'[w] = job[w]
  BY <1>1, <1>2 DEF Step, Retry
<1>3. ASSUME NEW pc \in WorkerPcs \ Early, Step(w, pc)
      PROVE  FALSE
  BY <1>1, <1>3 DEF Step
<1>4. ASSUME Finish(w) \/ Exit(w) \/ Restart \/ Crash
      PROVE  FALSE
  BY <1>1, <1>4 DEF Finish, Exit, Restart, Crash, NewProcess, Early
<1>5. CASE MarkPicked(w) \/ CreatePVC(w) \/ MarkPVC(w) \/ CreateNotebook(w)
  BY <1>2, <1>5 DEF MarkPicked, CreatePVC, MarkPVC, CreateNotebook, Early
<1>6. ASSUME MarkPickedFails(w) \/ MarkNotebook(w) \/ MarkFailed(w)
             \/ CleanNotebook(w) \/ CleanPVC(w)
      PROVE  FALSE
  BY <1>3, <1>4, <1>6
  DEF MarkPickedFails, MarkNotebook, MarkFailed, CleanNotebook, CleanPVC, WorkerPcs, Early
<1>. QED
  BY <1>4, <1>5, <1>6, WorkerActs DEF Acts, Work

\* A row that comes to be awaited is a new one.
LEMMA AwaitedStep ==
    ASSUME LimitInv, [Next]_vars, NEW i \in Live, Awaited(i)'
    PROVE  Awaited(i)
<1>1. IndInv /\ NeverDeletes
  BY DEF LimitInv
<1>2. CASE rows'[i].event = "scheduled"
  <2>1. i \in Live'
    BY <1>1, RowsKeep
  <2>2. rows[i].event = "scheduled"
    BY <1>1, <1>2, <2>1, RowMove DEF EventSteps
  <2>. QED
    BY <2>2 DEF Awaited
<1>3. ASSUME NEW w \in Workers, workerPc'[w] \in Early, job'[w].id = i
      PROVE  Awaited(i)
  <2>1. CASE job'[w] = job[w] /\ workerPc[w] \in Early
    BY <1>3, <2>1 DEF Awaited
  <2>2. CASE Fetch(w)
    BY <1>1, <1>3, <2>2, Fetched DEF Fetchable, Awaited
  <2>. QED
    BY <1>1, <1>3, <2>1, <2>2, EarlyStep
<1>. QED
  BY <1>2, <1>3 DEF Awaited

\* A row that comes to run: an INSERT adds it, or a start un-stops its Notebook.
LEMMA ActiveStep ==
    ASSUME RunInv, [Next]_vars, NEW k, NEW i \in Active(k)', i \notin Active(k)
    PROVE  \/ \E r \in Requests : Adds(r) /\ i = nextId /\ apiCall[r].kind = k
           \/ /\ i \in Live
              /\ \E r \in Requests :
                   /\ UpdateNotebook(r) /\ apiCall[r].op = "start"
                   /\ apiCall[r].name = rows[i].name /\ apiCall[r].kind = k
<1>1. LimitInv /\ IndInv /\ NeverDeletes /\ UniqueNames
  BY DEF RunInv, LimitInv
<1>2. CASE i \notin Live
  <2>1. PICK r \in Requests : Adds(r) /\ i = nextId
    BY <1>1, <1>2, NewRow DEF Active
  <2>2. rows'[i].kind = k /\ rows'[nextId].kind = apiCall[r].kind
    BY <1>1, <2>1, AddsRow DEF Active
  <2>. QED
    BY <2>1, <2>2
<1>3. CASE i \in Live
  <2>1. PICK n \in Names : n = rows[i].name
    BY <1>1, <1>3 DEF IndInv, CoreInv, TypeOK, StoreTypeOK, Live, Row
  <2>2. rows'[i].name = n /\ rows[i].kind = k /\ rows[i].event \notin Failures
    BY <1>1, <1>3, <2>1, RowsKeep DEF Active
  <2>3. ~ IF notebooks[n] = NoObj THEN Awaited(i) ELSE ~ notebooks[n].stopped
    BY <1>3, <2>1, <2>2 DEF Active
  <2>4. IF notebooks'[n] = NoObj THEN Awaited(i)' ELSE ~ notebooks'[n].stopped
    BY <2>2 DEF Active
  <2>5. ASSUME NEW w \in Workers, job[w] # NoJob, job[w].name = n
        PROVE  job[w].id = i
    BY <1>1, <1>3, <2>1, <2>5, JobLive DEF UniqueNames
  <2>6. CASE notebooks'[n] = NoObj
    <3>1. Awaited(i)
      BY <1>1, <1>3, <2>4, <2>6, AwaitedStep
    <3>2. PICK w \in Workers : CleanNotebook(w) /\ job[w].name = n
      <4>1. notebooks[n] # NoObj
        BY <2>3, <3>1
      <4>2. ASSUME NEW r \in Requests, DeleteNotebook(r)
            PROVE  FALSE
        BY <1>1, <4>2 DEF NeverDeletes, DeleteNotebook, Deleting
      <4>. QED
        BY <1>1, <2>6, <4>1, <4>2, NotebookMove
    <3>3. workerPc[w] = "cleanNotebook" /\ job[w] # NoJob
      BY <1>1, <3>2, JobType DEF CleanNotebook, Waiting, IndInv
    <3>4. job[w].id = i
      BY <2>5, <3>2, <3>3
    <3>5. rows[i].event # "scheduled"
      BY <1>1, <1>3, <3>3, <3>4 DEF IndInv, ClaimInv, JobStage, Live
    <3>6. ASSUME NEW v \in Workers, workerPc[v] \in Early, job[v].id = i
          PROVE  FALSE
      <4>1. job[v] # NoJob
        BY <1>1, <3>6, JobType DEF Early, Waiting, IndInv
      <4>2. v = w
        BY <1>1, <3>3, <3>4, <3>6, <4>1 DEF IndInv, ClaimInv, SingleClaim
      <4>. QED
        BY <3>3, <3>6, <4>2 DEF Early
    <3>. QED
      BY <3>1, <3>5, <3>6 DEF Awaited
  <2>7. CASE notebooks'[n] # NoObj
    <3>1. ASSUME NEW w \in Workers, CreateNotebook(w), job[w].name = n, notebooks[n] = NoObj
          PROVE  FALSE
      <4>1. workerPc[w] \in Early /\ job[w] # NoJob
        BY <1>1, <3>1, JobType DEF CreateNotebook, Waiting, IndInv, Early
      <4>2. Awaited(i)
        BY <2>5, <3>1, <4>1 DEF Awaited
      <4>. QED
        BY <2>3, <3>1, <4>2
    <3>2. ASSUME NEW r \in Requests, UpdateNotebook(r), apiCall[r].name = n,
                 apiCall[r].op # "stop"
          PROVE  apiCall[r].op = "start" /\ apiCall[r].kind = k
      <4>1. apiPc[r] = "update" /\ apiCall[r].op = "start"
        BY <1>1, <3>2 DEF UpdateNotebook, IndInv, CoreInv, CallShape
      <4>2. PICK j \in Live : rows[j].name = n /\ rows[j].kind = apiCall[r].kind
        BY <3>2, <4>1 DEF RunInv, StartKind, Starts
      <4>3. j = i
        BY <1>1, <1>3, <2>1, <4>2 DEF UniqueNames
      <4>. QED
        BY <2>2, <4>1, <4>2, <4>3
    <3>3. notebooks'[n] # notebooks[n]
      BY <2>3, <2>4, <2>7
    <3>. QED
      BY <1>1, <1>3, <2>1, <2>3, <2>4, <2>7, <3>1, <3>2, <3>3, NotebookMove DEF SameNotebook
  <2>. QED
    BY <2>6, <2>7
<1>. QED
  BY <1>2, <1>3

\* Only a request that has counted adds to what runs, one row at a time, and it
\* unlocks the profile with that.
LEMMA ActiveGrows ==
    ASSUME RunInv, [Next]_vars, NEW k
    PROVE  \/ Active(k)' \subseteq Active(k)
           \/ /\ profileLock' = NoOne
              /\ \E r \in Requests : Runs(r) /\ apiCall[r].kind = k
              /\ \E i : Active(k)' \subseteq Active(k) \cup {i}
<1>1. IndInv /\ UniqueNames
  BY DEF RunInv, LimitInv
<1>. SUFFICES ASSUME NEW i \in Active(k)', i \notin Active(k)
              PROVE  /\ profileLock' = NoOne
                     /\ \E r \in Requests : Runs(r) /\ apiCall[r].kind = k
                     /\ Active(k)' \subseteq Active(k) \cup {i}
  OBVIOUS
<1>2. ASSUME NEW r \in Requests, Adds(r)
      PROVE  profileLock' = NoOne /\ Runs(r)
  BY <1>1, <1>2, AddsRow DEF Runs
<1>3. ASSUME NEW r \in Requests, UpdateNotebook(r), apiCall[r].op = "start"
      PROVE  profileLock' = NoOne /\ Runs(r) /\ UNCHANGED rows /\ apiPc[r] = "update"
  BY <1>3 DEF UpdateNotebook, Reply, HoldsProfile, Runs
<1>4. ASSUME NEW j \in Active(k)', j \notin Active(k)
      PROVE  j = i
  <2>1. CASE i \notin Live
    <3>1. PICK r \in Requests : Adds(r) /\ i = nextId
      BY <2>1, ActiveStep
    <3>2. ~ UNCHANGED rows
      BY <1>1, <3>1, AddsRow, StoreAssumption DEF Live
    <3>. QED
      BY <1>3, <1>4, <3>1, <3>2, ActiveStep
  <2>2. CASE i \in Live
    <3>1. PICK r \in Requests :
            /\ UpdateNotebook(r) /\ apiCall[r].op = "start"
            /\ apiCall[r].name = rows[i].name
      <4>1. ASSUME NEW r \in Requests, Adds(r), i = nextId
            PROVE  FALSE
        BY <1>1, <2>2, <4>1, AddsRow DEF Live
      <4>. QED
        BY <2>2, <4>1, ActiveStep
    <3>2. UNCHANGED rows
      BY <1>3, <3>1
    <3>3. PICK q \in Requests :
            /\ UpdateNotebook(q) /\ apiCall[q].op = "start" /\ j \in Live
            /\ apiCall[q].name = rows[j].name
      <4>1. ASSUME NEW q \in Requests, Adds(q)
            PROVE  FALSE
        BY <1>1, <3>2, <4>1, AddsRow DEF Live
      <4>. QED
        BY <1>4, <4>1, ActiveStep
    <3>4. q = r
      BY <1>1, <3>1, <3>3, StoreAssumption
      DEF UpdateNotebook, IndInv, CoreInv, LockDiscipline, HoldsProfile
    <3>. QED
      BY <1>1, <2>2, <3>1, <3>3, <3>4 DEF UniqueNames
  <2>. QED
    BY <2>1, <2>2
<1>. QED
  BY <1>2, <1>3, <1>4, ActiveStep

LEMMA RunsKind ==
    ASSUME RunInv, NEW r \in Requests, Runs(r) \/ apiPc[r] = "running"
    PROVE  apiCall[r].kind \in Kinds /\ MaxRunning[apiCall[r].kind] \in Nat
<1>1. IndInv
  BY DEF RunInv, LimitInv
<1>2. CASE apiCall[r].op = "create"
  BY <1>1, <1>2, ApiAssumption DEF Runs, IndInv, CoreInv, CallShape
<1>3. CASE apiCall[r].op = "start"
  <2>1. PICK i \in Live : rows[i].kind = apiCall[r].kind
    BY <1>3 DEF RunInv, StartKind, Starts, Runs
  <2>. QED
    BY <1>1, <2>1, ApiAssumption DEF IndInv, CoreInv, TypeOK, StoreTypeOK, Live, Row
<1>4. apiCall[r].op \in {"create", "start"}
  BY <1>1 DEF Runs, IndInv, CoreInv, CallShape
<1>. QED
  BY <1>2, <1>3, <1>4, ApiAssumption

LEMMA ActiveShrinks ==
    ASSUME NEW k, Active(k)' \subseteq Active(k)
    PROVE  Cardinality(Active(k)') <= Cardinality(Active(k)) /\ Cardinality(Active(k)') \in Nat
  BY ActiveFinite, FS_Subset, FS_CardinalityType

LEMMA RunsFitStep ==
    ASSUME RunInv, [Next]_vars
    PROVE  RunsFit'
<1>. SUFFICES ASSUME NEW r \in Requests, Runs(r)'
              PROVE  (Cardinality(Active(apiCall[r].kind)) < MaxRunning[apiCall[r].kind])'
  BY DEF RunsFit
<1>. PICK k : k = apiCall[r].kind
  OBVIOUS
<1>1. IndInv /\ IndInv'
  BY IndStep DEF RunInv, LimitInv
<1>2. apiCall'[r] = apiCall[r]
  BY <1>1, RequestRuns
<1>3. Cardinality(Active(k)) < MaxRunning[k] /\ k \in Kinds /\ MaxRunning[k] \in Nat
  <2>1. CASE Runs(r)
    BY <2>1, RunsKind DEF RunInv, RunsFit
  <2>2. CASE apiPc[r] = "running" /\ Running(r, k) < MaxRunning[k]
    <3>1. k \in Kinds /\ MaxRunning[k] \in Nat
      BY <2>2, RunsKind
    <3>2. Cardinality(Active(k)) <= Running(r, k)
      BY <2>2, <3>1, RunningCovers
    <3>3. Running(r, k) \in Nat
      BY FS_Subset, FS_CardinalityType DEF Running, RunInv, LimitInv, SeenFinite
    <3>. QED
      BY <2>2, <3>1, <3>2, <3>3, ActiveFinite
  <2>. QED
    BY <1>1, <2>1, <2>2, RequestRuns
<1>4. Active(k)' \subseteq Active(k)
  <2>1. profileLock' # NoOne
    BY <1>1, StoreAssumption
    DEF Runs, IndInv, CoreInv, LockDiscipline, HoldsProfile, Locked
  <2>. QED
    BY <2>1, ActiveGrows
<1>5. Cardinality(Active(k)') < MaxRunning[k]
  BY <1>3, <1>4, ActiveShrinks, ActiveFinite
<1>6. Active(apiCall[r].kind)' = Active(k)'
  BY <1>2 DEF Active
<1>. QED
  BY <1>2, <1>5, <1>6

LEMMA ActiveLimitStep ==
    ASSUME RunInv, [Next]_vars
    PROVE  ActiveLimit'
<1>. SUFFICES ASSUME NEW k \in Kinds
              PROVE  Cardinality(Active(k)') <= MaxRunning[k]
  BY DEF ActiveLimit
<1>1. MaxRunning[k] \in Nat /\ Cardinality(Active(k)) <= MaxRunning[k]
  BY ApiAssumption DEF RunInv, ActiveLimit
<1>2. CASE Active(k)' \subseteq Active(k)
  BY <1>1, <1>2, ActiveShrinks, ActiveFinite
<1>3. ASSUME NEW r \in Requests, Runs(r), apiCall[r].kind = k,
             NEW i, Active(k)' \subseteq Active(k) \cup {i}
      PROVE  Cardinality(Active(k)') <= MaxRunning[k]
  <2>1. Cardinality(Active(k)) < MaxRunning[k]
    BY <1>3 DEF RunInv, RunsFit
  <2>2. /\ IsFiniteSet(Active(k) \cup {i})
        /\ Cardinality(Active(k) \cup {i}) <= Cardinality(Active(k)) + 1
        /\ Cardinality(Active(k) \cup {i}) \in Nat
    BY ActiveFinite, FS_AddElement, FS_CardinalityType
  <2>3. /\ Cardinality(Active(k)') <= Cardinality(Active(k) \cup {i})
        /\ Cardinality(Active(k)') \in Nat
    BY <1>3, <2>2, FS_Subset, FS_CardinalityType
  <2>. QED
    BY <1>1, <2>1, <2>2, <2>3, ActiveFinite
<1>. QED
  BY <1>2, <1>3, ActiveGrows

\* What runs is among the rows counted.
LEMMA ActiveCovers ==
    ASSUME RunInv, NEW k \in Kinds
    PROVE  /\ Cardinality({n \in RunningNow(k) : ~ GivenUp(n)}) <= Cardinality(Active(k))
           /\ Cardinality({n \in RunningNow(k) : ~ GivenUp(n)}) \in Nat
<1> DEFINE N == {n \in RunningNow(k) : ~ GivenUp(n)}
           f == [n \in N |-> notebooks[n].owner]
<1>1. ASSUME NEW n \in N
      PROVE  f[n] \in Active(k) /\ rows[f[n]].name = n
  <2>1. /\ n \in Names /\ notebooks[n] # NoObj /\ notebooks[n].kind = k
        /\ ~ notebooks[n].stopped /\ ~ GivenUp(n)
    BY <1>1 DEF RunningNow
  <2>2. PICK i \in Live : /\ i = notebooks[n].owner /\ rows[i].name = n /\ rows[i].kind = k
    BY <2>1
    DEF RunInv, OwnRow, LimitInv, IndInv, CoreInv, TypeOK, StoreTypeOK, Notebook, Live
  <2>3. f[n] = i
    BY <2>2
  <2>4. i \in Active(k)
    BY <2>1, <2>2 DEF Active, GivenUp, Live
  <2>. QED
    BY <2>2, <2>3, <2>4
<1>2. f \in Injection(N, Active(k))
  <2>1. f \in [N -> Active(k)]
    BY <1>1
  <2>2. \A m, n \in N : f[m] = f[n] => m = n
    <3>. HIDE DEF f, N
    <3>. QED
      BY <1>1
  <2>. QED
    BY <2>1, <2>2 DEF Injection, IsInjective
<1>. QED
  BY <1>2, ActiveFinite, FS_Injection, FS_CardinalityType

LEMMA RunInit == Init => RunInv
<1>. SUFFICES ASSUME Init PROVE RunInv
  OBVIOUS
<1>1. OwnRow /\ JobKind /\ SeenStill /\ StartKind /\ RunsFit
  BY DEF Init, StoreInit, ApiInit, WorkerInit, OwnRow, JobKind, SeenStill, StartKind, Starts,
         RunsFit, Runs
<1>2. ASSUME NEW k \in Kinds
      PROVE  Cardinality(Active(k)) <= MaxRunning[k]
  <2>1. Active(k) = {}
    BY DEF Init, StoreInit, Active, Live
  <2>. QED
    BY <2>1, FS_EmptySet, ApiAssumption
<1>. QED
  BY <1>1, <1>2, LimitInit DEF RunInv, ActiveLimit

LEMMA RunStep ==
    ASSUME "delete" \notin Ops, RunInv, [Next]_vars
    PROVE  RunInv'
<1>1. LimitInv'
  BY LimitStep DEF RunInv
<1>. QED
  BY <1>1, OwnRowStep, JobKindStep, SeenStillStep, StartKindStep, RunsFitStep,
     ActiveLimitStep DEF RunInv

\* A user who deletes nothing never has more notebooks running than the limit,
\* other than those whose row has failed and whose cleanup is due, however creates,
\* starts, stops, culling and the worker's steps interleave
\* (CountEffectiveRunningNotebooks under the lock of the profile row).
THEOREM RunningWithinLimit ==
    ASSUME "delete" \notin Ops
    PROVE  Spec => []RunningLimit
<1>1. RunInv => RunningLimit
  <2>. SUFFICES ASSUME RunInv, NEW k \in Kinds
                PROVE  Cardinality({n \in RunningNow(k) : ~ GivenUp(n)}) <= MaxRunning[k]
    BY DEF RunningLimit
  <2>1. Cardinality({n \in RunningNow(k) : ~ GivenUp(n)}) <= Cardinality(Active(k))
    BY ActiveCovers
  <2>2. Cardinality(Active(k)) <= MaxRunning[k] /\ MaxRunning[k] \in Nat
    BY ApiAssumption DEF RunInv, ActiveLimit
  <2>. QED
    BY <2>1, <2>2, ActiveCovers, ActiveFinite
<1>. QED
  BY <1>1, RunInit, RunStep, PTL DEF Spec
=============================================================================
