--------------------------- MODULE SandboxProofs ---------------------------
(***************************************************************************)
(* Theorems about Sandbox, for every number of requests, goroutines, names *)
(* and rows, and however often calls fail or processes crash.              *)
(***************************************************************************)
EXTENDS Sandbox, TLAPS

-----------------------------------------------------------------------------
(* What the helpers of the API's steps keep.                               *)

ApiPart ==
    ApiTypeOK /\ profileLock \in Requests \cup {NoOne} /\ CallShape /\ LockDiscipline

LEMMA ReplyPart ==
    ASSUME NEW r \in Requests, ApiPart, Reply(r)
    PROVE  ApiPart'
<1>1. ApiTypeOK' /\ profileLock' \in Requests \cup {NoOne}
  BY DEF ApiPart, ApiTypeOK, ApiPcs, Reply
<1>2. CallShape'
  BY DEF ApiPart, ApiTypeOK, CallShape, Reply
<1>3. ASSUME NEW q \in Requests
      PROVE  (HoldsProfile(q) <=> profileLock = q)'
  <2>1. CASE q = r
    <3>1. ~ HoldsProfile(q)'
      BY <2>1 DEF ApiPart, ApiTypeOK, HoldsProfile, Locked, Reply
    <3>2. profileLock' # q
      BY <2>1, StoreAssumption DEF ApiPart, LockDiscipline, Reply
    <3>. QED
      BY <3>1, <3>2
  <2>2. CASE q # r
    <3>1. HoldsProfile(q)' <=> HoldsProfile(q)
      BY <2>2 DEF ApiPart, ApiTypeOK, HoldsProfile, Reply
    <3>2. (profileLock' = q) <=> (profileLock = q)
      BY <2>2, StoreAssumption DEF ApiPart, LockDiscipline, Reply
    <3>. QED
      BY <3>1, <3>2 DEF ApiPart, LockDiscipline
  <2>. QED
    BY <2>1, <2>2
<1>. QED
  BY <1>1, <1>2, <1>3 DEF ApiPart, LockDiscipline

\* A step of r that neither takes nor frees the profile row.
LEMMA SamePart ==
    ASSUME NEW r \in Requests, NEW pc \in ApiPcs, NEW call \in Call,
           NEW seen \in SUBSET Row, ApiPart,
           apiPc' = [apiPc EXCEPT ![r] = pc],
           apiCall' = [apiCall EXCEPT ![r] = call],
           apiSeen' = [apiSeen EXCEPT ![r] = seen],
           UNCHANGED profileLock,
           pc # "idle",
           pc \in {"rows", "running"} => call.op \in {"create", "start"},
           pc \in {"totals", "over", "insert"} => call.op = "create",
           pc \in {"get", "update"} => call.op \in {"start", "stop"},
           call.op = "create" => call.kind \in Kinds,
           HoldsProfile(r) <=>
               pc \in Locked \/ (pc \in {"get", "update"} /\ call.op = "start")
    PROVE  ApiPart'
<1>1. ApiTypeOK'
  BY DEF ApiPart, ApiTypeOK
<1>2. CallShape'
  BY CallAssumption DEF ApiPart, ApiTypeOK, CallShape
<1>3. ASSUME NEW q \in Requests
      PROVE  HoldsProfile(q)' <=> HoldsProfile(q)
  BY DEF ApiPart, ApiTypeOK, HoldsProfile
<1>. QED
  BY <1>1, <1>2, <1>3 DEF ApiPart, LockDiscipline

\* A step of r within one call.
LEMMA GotoPart ==
    ASSUME NEW r \in Requests, NEW pc \in ApiPcs, ApiPart,
           apiPc[r] # "idle", Goto(r, pc),
           UNCHANGED <<apiCall, apiSeen, profileLock>>,
           pc # "idle",
           pc \in {"rows", "running"} => apiCall[r].op \in {"create", "start"},
           pc \in {"totals", "over", "insert"} => apiCall[r].op = "create",
           pc \in {"get", "update"} => apiCall[r].op \in {"start", "stop"},
           HoldsProfile(r) <=>
               pc \in Locked \/ (pc \in {"get", "update"} /\ apiCall[r].op = "start")
    PROVE  ApiPart'
<1>1. apiCall[r] \in Call /\ apiCall[r] # NoCall
  BY CallAssumption DEF ApiPart, ApiTypeOK, CallShape
<1>2. apiSeen[r] \in SUBSET Row /\ apiSeen' = [apiSeen EXCEPT ![r] = apiSeen[r]]
  BY DEF ApiPart, ApiTypeOK
<1>3. apiCall' = [apiCall EXCEPT ![r] = apiCall[r]]
  BY DEF ApiPart, ApiTypeOK
<1>4. apiCall[r].op = "create" => apiCall[r].kind \in Kinds
  BY <1>1 DEF ApiPart, CallShape
<1>. QED
  BY <1>1, <1>2, <1>3, <1>4, SamePart DEF Goto

LEMMA LockPart ==
    ASSUME NEW r \in Requests, NEW n \in Names, NEW op \in {"create", "start"},
           NEW k \in Kinds \cup {"unknown"}, op = "create" => k \in Kinds,
           ApiPart, Begin(r, op, n, k, "rows"), LockProfile(r)
    PROVE  ApiPart'
<1>1. [op |-> op, name |-> n, kind |-> k] \in Call
  BY DEF Begin, Call
<1>2. ApiTypeOK' /\ profileLock' \in Requests \cup {NoOne}
  BY <1>1 DEF ApiPart, ApiTypeOK, ApiPcs, Locked, Begin, LockProfile
<1>3. CallShape'
  BY <1>1, CallAssumption DEF ApiPart, ApiTypeOK, CallShape, Begin
<1>4. ASSUME NEW q \in Requests
      PROVE  (HoldsProfile(q) <=> profileLock = q)'
  <2>1. CASE q = r
    BY <2>1 DEF ApiPart, ApiTypeOK, HoldsProfile, Locked, Begin, LockProfile
  <2>2. CASE q # r
    <3>1. HoldsProfile(q)' <=> HoldsProfile(q)
      BY <2>2 DEF ApiPart, ApiTypeOK, HoldsProfile, Begin
    <3>. QED
      BY <2>2, <3>1, StoreAssumption DEF ApiPart, LockDiscipline, LockProfile
  <2>. QED
    BY <2>1, <2>2
<1>. QED
  BY <1>2, <1>3, <1>4 DEF ApiPart, LockDiscipline

-----------------------------------------------------------------------------
(* What the helpers of the worker and of the store leave typed.            *)

LEMMA StepType ==
    ASSUME NEW w \in Workers, NEW pc \in WorkerPcs, TypeOK, Step(w, pc)
    PROVE  WorkerTypeOK'
  BY WorkerAssumption DEF TypeOK, WorkerTypeOK, Step

LEMMA FinishType ==
    ASSUME NEW w \in Workers, TypeOK, Finish(w)
    PROVE  WorkerTypeOK'
  BY WorkerAssumption DEF TypeOK, WorkerTypeOK, WorkerPcs, Finish

LEMMA RetryType ==
    ASSUME NEW w \in Workers, NEW pc \in WorkerPcs, TypeOK, Retry(w, pc)
    PROVE  WorkerTypeOK'
<1>1. CASE attempt[w] + 1 < MaxAttempts
  BY <1>1, WorkerAssumption DEF TypeOK, WorkerTypeOK, Retry
<1>2. CASE ~ (attempt[w] + 1 < MaxAttempts)
  BY <1>2, StepType DEF Retry
<1>. QED
  BY <1>1, <1>2

LEMMA NewProcessType ==
    ASSUME TypeOK, NewProcess
    PROVE  WorkerTypeOK'
<1>1. attempt' \in [Workers -> 0..(MaxAttempts - 1)]
  BY WorkerAssumption DEF NewProcess
<1>2. stopping' \in BOOLEAN
  BY DEF NewProcess
<1>. QED
  BY <1>1, <1>2 DEF WorkerTypeOK, WorkerPcs, NewProcess

LEMMA SetEventType ==
    ASSUME NEW i \in Ids, NEW e \in Events, TypeOK, SetEvent(i, e)
    PROVE  rows' \in [Ids -> Row \cup {NoRow}]
  BY DEF TypeOK, StoreTypeOK, SetEvent, Row

LEMMA FaultType ==
    ASSUME TypeOK, Fault
    PROVE  faults' \in 0..MaxFaults
  BY StoreAssumption DEF TypeOK, StoreTypeOK, Fault

LEMMA DropNotebookType ==
    ASSUME NEW n \in Names, TypeOK, DropNotebook(n)
    PROVE  /\ notebooks' \in [Names -> Notebook \cup {NoObj}]
           /\ current' \in [Names -> SUBSET Requests]
  BY DEF TypeOK, StoreTypeOK, DropNotebook

LEMMA DropClaimType ==
    ASSUME NEW n \in Names, TypeOK, DropClaim(n)
    PROVE  pvcs' \in [Names -> Claim \cup {NoObj}]
  BY DEF TypeOK, StoreTypeOK, DropClaim, Claim

-----------------------------------------------------------------------------
(* The API's steps.                                                        *)

KubePart ==
    /\ notebooks \in [Names -> Notebook \cup {NoObj}]
    /\ current \in [Names -> SUBSET Requests]
    /\ pvcs \in [Names -> Claim \cup {NoObj}]
    /\ faults \in 0..MaxFaults
    /\ CopiesExist

LEMMA CoreParts == CoreInv => ApiPart /\ KubePart
  BY DEF CoreInv, TypeOK, StoreTypeOK, ApiPart, KubePart

\* A step that leaves the table and the worker alone.
LEMMA ApiFrame ==
    ASSUME CoreInv, ApiPart', KubePart', RoomToInsert',
           UNCHANGED <<rows, nextId, rowLock>>, UNCHANGED workerVars
    PROVE  CoreInv'
<1>1. TypeOK'
  BY DEF CoreInv, TypeOK, StoreTypeOK, ApiPart, KubePart, WorkerTypeOK, workerVars
<1>2. FreshIds' /\ JobShape'
  BY DEF CoreInv, FreshIds, JobShape, workerVars
<1>. QED
  BY <1>1, <1>2 DEF CoreInv, ApiPart, KubePart

LEMMA SnapshotType == CoreInv => Snapshot \subseteq Row
  BY DEF CoreInv, TypeOK, StoreTypeOK, Snapshot, Live

\* The name and the kind of the call of a request that has begun.
LEMMA CallType ==
    ASSUME CoreInv, NEW r \in Requests, apiPc[r] # "idle"
    PROVE  apiCall[r] \in Call
  BY DEF CoreInv, TypeOK, ApiTypeOK, CallShape

LEMMA ApiStep ==
    ASSUME CoreInv, ApiNext
    PROVE  CoreInv'
<1>. USE CoreParts DEF dbVars, k8sVars
<1>1. ASSUME NEW r \in Requests, NEW n \in Names, NEW k \in Kinds, CreateLock(r, n, k), UNCHANGED workerVars
      PROVE  CoreInv'
  <2>1. ApiPart'
    BY <1>1, LockPart DEF CreateLock
  <2>2. KubePart'
    BY <1>1 DEF CreateLock, KubePart, CopiesExist
  <2>3. RoomToInsert'
    BY <1>1 DEF CreateLock, Begin, CoreInv, TypeOK, ApiTypeOK, RoomToInsert, Locked
  <2>. QED
    BY <1>1, <2>1, <2>2, <2>3, ApiFrame DEF CreateLock
<1>2. ASSUME NEW r \in Requests, NEW n \in Names, StartLock(r, n), UNCHANGED workerVars
      PROVE  CoreInv'
  <2>1. ApiPart'
    BY <1>2, LockPart DEF StartLock
  <2>2. KubePart'
    BY <1>2 DEF StartLock, KubePart, CopiesExist
  <2>3. RoomToInsert'
    BY <1>2 DEF StartLock, Begin, CoreInv, TypeOK, ApiTypeOK, RoomToInsert, Locked
  <2>. QED
    BY <1>2, <2>1, <2>2, <2>3, ApiFrame DEF StartLock
<1>3. ASSUME NEW r \in Requests, NEW n \in Names, StopRead(r, n), UNCHANGED workerVars
      PROVE  CoreInv'
  <2>1. ApiPart'
    <3>1. [op |-> "stop", name |-> n, kind |-> "unknown"] \in Call
      BY <1>3 DEF StopRead, Begin, Call
    <3>2. ~ HoldsProfile(r)
      BY <1>3 DEF StopRead, Begin, HoldsProfile, Locked
    <3>. QED
      BY <1>3, <3>1, <3>2, SamePart DEF StopRead, Begin, ApiPart, ApiTypeOK, ApiPcs, Locked
  <2>2. KubePart'
    BY <1>3 DEF StopRead, KubePart, CopiesExist
  <2>3. RoomToInsert'
    BY <1>3 DEF StopRead, Begin, CoreInv, TypeOK, ApiTypeOK, RoomToInsert, Locked
  <2>. QED
    BY <1>3, <2>1, <2>2, <2>3, ApiFrame DEF StopRead
<1>4. ASSUME NEW r \in Requests, NEW n \in Names, DeleteRead(r, n), UNCHANGED workerVars
      PROVE  CoreInv'
  <2>1. ApiPart'
    <3>1. [op |-> "delete", name |-> n, kind |-> "unknown"] \in Call
      BY <1>4 DEF DeleteRead, Begin, Call
    <3>2. ~ HoldsProfile(r)
      BY <1>4 DEF DeleteRead, Begin, HoldsProfile, Locked
    <3>. QED
      <4>1. PICK pc \in {"deleteFailedRow", "deleteRow"} : Begin(r, "delete", n, "unknown", pc)
        BY <1>4 DEF DeleteRead
      <4>2. apiSeen[r] \in SUBSET Row /\ apiSeen' = [apiSeen EXCEPT ![r] = apiSeen[r]]
        BY <4>1 DEF Begin, ApiPart, ApiTypeOK
      <4>3. UNCHANGED profileLock
        BY <1>4 DEF DeleteRead
      <4>. QED
        BY <3>1, <3>2, <4>1, <4>2, <4>3, SamePart DEF Begin, ApiPcs, Locked, Deleting
  <2>2. KubePart'
    BY <1>4 DEF DeleteRead, KubePart, CopiesExist
  <2>3. RoomToInsert'
    BY <1>4 DEF DeleteRead, Begin, CoreInv, TypeOK, ApiTypeOK, RoomToInsert, Locked
  <2>. QED
    BY <1>4, <2>1, <2>2, <2>3, ApiFrame DEF DeleteRead
<1>5. ASSUME NEW r \in Requests, CreateRead(r), UNCHANGED workerVars
      PROVE  CoreInv'
  <2>1. ApiPart'
    <3>1. apiCall[r] \in Call
      BY <1>5, CallType DEF CreateRead
    <3>. QED
      BY <1>5, <3>1, SamePart, SnapshotType DEF CreateRead, Goto, ApiPart, ApiTypeOK, CallShape, ApiPcs, Locked, HoldsProfile
  <2>2. KubePart'
    BY <1>5 DEF CreateRead, KubePart, CopiesExist
  <2>3. RoomToInsert'
    BY <1>5 DEF CreateRead, Goto, CoreInv, TypeOK, ApiTypeOK, RoomToInsert, Locked
  <2>. QED
    BY <1>5, <2>1, <2>2, <2>3, ApiFrame DEF CreateRead
<1>6. ASSUME NEW r \in Requests, ListTotals(r), UNCHANGED workerVars
      PROVE  CoreInv'
  <2>1. ApiPart'
    <3>1. apiCall[r].op = "create" /\ apiPc[r] = "totals"
      BY <1>6 DEF ListTotals, CoreInv, CallShape
    <3>2. PICK pc \in {"running", "over"} : Goto(r, pc)
      BY <1>6 DEF ListTotals
    <3>. QED
      BY <1>6, <3>1, <3>2, GotoPart DEF ListTotals, ApiPcs, Locked, HoldsProfile
  <2>2. KubePart'
    BY <1>6 DEF ListTotals, KubePart, CopiesExist
  <2>3. RoomToInsert'
    BY <1>6 DEF ListTotals, Goto, CoreInv, TypeOK, ApiTypeOK, RoomToInsert, Locked
  <2>. QED
    BY <1>6, <2>1, <2>2, <2>3, ApiFrame DEF ListTotals
<1>7. ASSUME NEW r \in Requests, ListRunning(r), UNCHANGED workerVars
      PROVE  CoreInv'
  <2>1. ApiPart'
    <3>1. CASE Reply(r)
      BY <1>7, <3>1, ReplyPart
    <3>2. CASE Goto(r, IF apiCall[r].op = "create" THEN "insert" ELSE "get") /\ apiPc[r] = "running"
               /\ UNCHANGED <<apiCall, apiSeen, profileLock>>
      <4>1. apiCall[r].op \in {"create", "start"}
        BY <1>7, <3>2 DEF CoreInv, CallShape
      <4>. QED
        BY <3>2, <4>1, GotoPart DEF ApiPcs, Locked, HoldsProfile
    <3>. QED
      BY <1>7, <3>1, <3>2 DEF ListRunning
  <2>2. KubePart'
    BY <1>7 DEF ListRunning, KubePart, CopiesExist
  <2>3. RoomToInsert'
    BY <1>7 DEF ListRunning, Goto, Reply, CoreInv, TypeOK, ApiTypeOK, RoomToInsert, Locked
  <2>. QED
    BY <1>7, <2>1, <2>2, <2>3, ApiFrame DEF ListRunning
<1>8. ASSUME NEW r \in Requests, RefuseCredit(r), UNCHANGED workerVars
      PROVE  CoreInv'
  <2>1. ApiPart'
    BY <1>8, ReplyPart DEF RefuseCredit
  <2>2. KubePart'
    BY <1>8 DEF RefuseCredit, KubePart, CopiesExist
  <2>3. RoomToInsert'
    BY <1>8 DEF RefuseCredit, Reply, CoreInv, TypeOK, ApiTypeOK, RoomToInsert, Locked
  <2>. QED
    BY <1>8, <2>1, <2>2, <2>3, ApiFrame DEF RefuseCredit
<1>9. ASSUME NEW r \in Requests, Insert(r), UNCHANGED workerVars
      PROVE  CoreInv'
  <2>1. ApiPart'
    BY <1>9, ReplyPart DEF Insert
  <2>2. KubePart'
    BY <1>9 DEF Insert, KubePart, CopiesExist
  <2>3. CASE Named(apiCall[r].name) # {}
    <3>1. UNCHANGED <<rows, nextId, rowLock>>
      BY <1>9, <2>3 DEF Insert
    <3>2. RoomToInsert'
      BY <1>9, <3>1 DEF Insert, Reply, CoreInv, TypeOK, ApiTypeOK, RoomToInsert, Locked
    <3>. QED
      BY <1>9, <2>1, <2>2, <3>1, <3>2, ApiFrame
  <2>4. CASE Named(apiCall[r].name) = {}
    <3>1. /\ apiCall[r] \in Call /\ apiCall[r].op = "create"
          /\ apiCall[r].kind \in Kinds /\ apiCall[r].name \in Names
      BY <1>9, CallType DEF Insert, CoreInv, CallShape, Call
    <3>2. nextId \in Ids
      BY <1>9, <3>1 DEF Insert, CoreInv, TypeOK, StoreTypeOK, RoomToInsert, Locked, Ids
    <3>3. /\ nextId' = nextId + 1 /\ UNCHANGED rowLock
          /\ rows' = [rows EXCEPT ![nextId] = [name |-> apiCall[r].name,
                        kind |-> apiCall[r].kind, event |-> "scheduled"]]
      BY <1>9, <2>4 DEF Insert
    <3>4. TypeOK'
      <4>1. rows' \in [Ids -> Row \cup {NoRow}]
        BY <3>1, <3>2, <3>3 DEF CoreInv, TypeOK, StoreTypeOK, Row, Events
      <4>2. nextId' \in 1..(MaxRows + 1)
        BY <3>2, <3>3, StoreAssumption DEF Ids
      <4>. QED
        BY <1>9, <2>1, <2>2, <3>3, <4>1, <4>2
        DEF CoreInv, TypeOK, StoreTypeOK, KubePart, ApiPart, WorkerTypeOK, workerVars
    <3>5. RoomToInsert'
      <4>1. ASSUME NEW q \in Requests, apiPc'[q] \in Locked
            PROVE  FALSE
        <5>1. profileLock' = q
          BY <2>1, <4>1 DEF ApiPart, LockDiscipline, HoldsProfile
        <5>2. profileLock' = NoOne
          BY <1>9 DEF Insert, Reply, HoldsProfile, Locked
        <5>. QED
          BY <5>1, <5>2, StoreAssumption
      <4>. QED
        BY <4>1 DEF RoomToInsert
    <3>6. FreshIds'
      BY <3>2, <3>3 DEF CoreInv, FreshIds, TypeOK, StoreTypeOK, Ids
    <3>7. JobShape'
      BY <1>9, <3>2, <3>3 DEF CoreInv, JobShape, TypeOK, WorkerTypeOK, workerVars, Job, Ids
    <3>. QED
      BY <2>1, <2>2, <3>4, <3>5, <3>6, <3>7 DEF CoreInv, ApiPart, KubePart
  <2>. QED
    BY <2>3, <2>4
<1>10. ASSUME NEW r \in Requests, StartRead(r), UNCHANGED workerVars
      PROVE  CoreInv'
  <2>1. ApiPart'
    <3>1. CASE Reply(r)
      BY <1>10, <3>1, ReplyPart
    <3>2. ASSUME NEW i \in Live, apiCall' = [apiCall EXCEPT ![r].kind = rows[i].kind],
                 apiSeen' = [apiSeen EXCEPT ![r] = Snapshot], Goto(r, "running"),
                 UNCHANGED profileLock
          PROVE  ApiPart'
      <4>1. apiCall[r] \in Call /\ rows[i].kind \in Kinds
        BY <1>10, CallType DEF StartRead, Live, CoreInv, TypeOK, StoreTypeOK, Row
      <4>2. [apiCall[r] EXCEPT !.kind = rows[i].kind] \in Call
        BY <4>1 DEF Call
      <4>. QED
        BY <1>10, <3>2, <4>1, <4>2, SamePart, SnapshotType
        DEF StartRead, Goto, ApiPart, ApiTypeOK, CallShape, ApiPcs, Locked, HoldsProfile, Call
    <3>. QED
      BY <1>10, <3>1, <3>2 DEF StartRead, Named
  <2>2. KubePart'
    BY <1>10 DEF StartRead, KubePart, CopiesExist
  <2>3. RoomToInsert'
    <3>1. apiCall[r] \in Call /\ apiCall[r].op = "start"
      BY <1>10, CallType DEF StartRead
    <3>2. apiCall'[r] = NoCall \/ apiCall'[r].op = "start"
      BY <1>10, <3>1 DEF StartRead, Reply, CoreInv, TypeOK, ApiTypeOK, Call
    <3>3. \A q \in Requests \ {r} : apiCall'[q] = apiCall[q] /\ apiPc'[q] = apiPc[q]
      BY <1>10 DEF StartRead, Goto, Reply, CoreInv, TypeOK, ApiTypeOK
    <3>4. apiCall'[r] = NoCall => apiPc'[r] = "idle"
      BY <2>1 DEF ApiPart, CallShape
    <3>. QED
      BY <1>10, <3>2, <3>3, <3>4 DEF StartRead, CoreInv, RoomToInsert, Locked
  <2>. QED
    BY <1>10, <2>1, <2>2, <2>3, ApiFrame DEF StartRead
<1>11. ASSUME NEW r \in Requests, GetNotebook(r), UNCHANGED workerVars
      PROVE  CoreInv'
  <2>1. ApiPart'
    <3>1. CASE Reply(r)
      BY <1>11, <3>1, ReplyPart
    <3>2. CASE Goto(r, "update") /\ UNCHANGED <<apiCall, apiSeen, profileLock>>
      <4>1. apiCall[r].op \in {"start", "stop"} /\ apiPc[r] = "get"
        BY <1>11 DEF GetNotebook, CoreInv, CallShape
      <4>. QED
        BY <3>2, <4>1, GotoPart DEF ApiPcs, Locked, HoldsProfile
    <3>. QED
      BY <1>11, <3>1, <3>2 DEF GetNotebook
  <2>2. KubePart'
    BY <1>11 DEF GetNotebook, NeedsUpdate, KubePart, CopiesExist
  <2>3. RoomToInsert'
    BY <1>11 DEF GetNotebook, Goto, Reply, CoreInv, TypeOK, ApiTypeOK, RoomToInsert, Locked
  <2>. QED
    BY <1>11, <2>1, <2>2, <2>3, ApiFrame DEF GetNotebook
<1>12. ASSUME NEW r \in Requests, UpdateNotebook(r), UNCHANGED workerVars
      PROVE  CoreInv'
  <2>1. ApiPart'
    BY <1>12, ReplyPart DEF UpdateNotebook
  <2>2. KubePart'
    <3>1. apiCall[r].name \in Names
      BY <1>12, CallType DEF UpdateNotebook, Call
    <3>2. CASE r \notin current[apiCall[r].name]
      BY <1>12, <3>2 DEF UpdateNotebook, KubePart, CopiesExist
    <3>3. CASE r \in current[apiCall[r].name]
      <4>1. notebooks[apiCall[r].name] \in Notebook
        BY <3>1, <3>3 DEF KubePart, CopiesExist
      <4>2. \A b \in BOOLEAN : [notebooks[apiCall[r].name] EXCEPT !.stopped = b] \in Notebook
        BY <4>1 DEF Notebook
      <4>3. (apiCall[r].op = "stop") \in BOOLEAN
        OBVIOUS
      <4>4. /\ notebooks' = [notebooks EXCEPT ![apiCall[r].name] =
                              [@ EXCEPT !.stopped = (apiCall[r].op = "stop")]]
            /\ current' = [current EXCEPT ![apiCall[r].name] = {}]
            /\ UNCHANGED <<pvcs, faults>>
        BY <1>12, <3>3 DEF UpdateNotebook
      <4>. QED
        BY <3>1, <4>2, <4>3, <4>4 DEF KubePart, CopiesExist
    <3>. QED
      BY <3>2, <3>3
  <2>3. RoomToInsert'
    BY <1>12 DEF UpdateNotebook, Reply, CoreInv, TypeOK, ApiTypeOK, RoomToInsert, Locked
  <2>. QED
    BY <1>12, <2>1, <2>2, <2>3, ApiFrame DEF UpdateNotebook
<1>13. ASSUME NEW r \in Requests, DeleteRow(r), UNCHANGED workerVars
      PROVE  CoreInv'
  <2>1. ApiPart'
    <3>1. CASE Reply(r)
      BY <1>13, <3>1, ReplyPart
    <3>2. CASE Goto(r, "deleteNotebook") /\ UNCHANGED <<apiCall, apiSeen, profileLock>>
      BY <1>13, <3>2, GotoPart DEF DeleteRow, ApiPcs, Locked, Deleting, HoldsProfile
    <3>. QED
      BY <1>13, <3>1, <3>2 DEF DeleteRow
  <2>2. KubePart'
    BY <1>13 DEF DeleteRow, KubePart, CopiesExist
  <2>3. rows' \in [Ids -> Row \cup {NoRow}] /\ UNCHANGED <<nextId, rowLock>>
    BY <1>13 DEF DeleteRow, CoreInv, TypeOK, StoreTypeOK
  <2>4. TypeOK'
    BY <1>13, <2>1, <2>2, <2>3
    DEF CoreInv, TypeOK, StoreTypeOK, KubePart, ApiPart, WorkerTypeOK, workerVars
  <2>5. RoomToInsert'
    BY <1>13, <2>3 DEF DeleteRow, Goto, Reply, CoreInv, TypeOK, ApiTypeOK, RoomToInsert, Locked
  <2>6. FreshIds' /\ JobShape'
    BY <1>13, <2>3 DEF DeleteRow, CoreInv, FreshIds, JobShape, workerVars
  <2>. QED
    BY <2>1, <2>2, <2>4, <2>5, <2>6 DEF CoreInv, ApiPart, KubePart
<1>14. ASSUME NEW r \in Requests, DeleteNotebook(r), UNCHANGED workerVars
      PROVE  CoreInv'
  <2>1. ApiPart'
    BY <1>14, GotoPart DEF DeleteNotebook, ApiPcs, Locked, Deleting, HoldsProfile
  <2>2. KubePart'
    BY <1>14 DEF DeleteNotebook, DropNotebook, KubePart, CopiesExist
  <2>3. RoomToInsert'
    BY <1>14 DEF DeleteNotebook, Goto, CoreInv, TypeOK, ApiTypeOK, RoomToInsert, Locked
  <2>. QED
    BY <1>14, <2>1, <2>2, <2>3, ApiFrame DEF DeleteNotebook
<1>15. ASSUME NEW r \in Requests, DeleteClaim(r), UNCHANGED workerVars
      PROVE  CoreInv'
  <2>1. ApiPart'
    BY <1>15, ReplyPart DEF DeleteClaim
  <2>2. KubePart'
    BY <1>15 DEF DeleteClaim, DropClaim, KubePart, CopiesExist, Claim
  <2>3. RoomToInsert'
    BY <1>15 DEF DeleteClaim, Reply, CoreInv, TypeOK, ApiTypeOK, RoomToInsert, Locked
  <2>. QED
    BY <1>15, <2>1, <2>2, <2>3, ApiFrame DEF DeleteClaim
<1>16. ASSUME NEW r \in Requests, ApiError(r), UNCHANGED workerVars
      PROVE  CoreInv'
  <2>1. ApiPart'
    BY <1>16, ReplyPart DEF ApiError
  <2>2. KubePart'
    BY <1>16, StoreAssumption DEF ApiError, Fault, KubePart, CopiesExist
  <2>3. RoomToInsert'
    BY <1>16 DEF ApiError, Reply, CoreInv, TypeOK, ApiTypeOK, RoomToInsert, Locked
  <2>. QED
    BY <1>16, <2>1, <2>2, <2>3, ApiFrame DEF ApiError
<1>. QED
  BY <1>1, <1>2, <1>3, <1>4, <1>5, <1>6, <1>7, <1>8, <1>9, <1>10, <1>11, <1>12, <1>13, <1>14, <1>15, <1>16 DEF ApiNext

-----------------------------------------------------------------------------
(* The worker's steps.                                                     *)

\* What a step of goroutine w leaves of it: typed, with a job unless it waits.
WorkerPart == WorkerTypeOK /\ JobShape

LEMMA StepPart ==
    ASSUME NEW w \in Workers, NEW pc \in WorkerPcs \ Waiting, CoreInv,
           workerPc[w] \notin Waiting, UNCHANGED nextId,
           Step(w, pc) \/ Retry(w, pc)
    PROVE  WorkerPart'
<1>1. WorkerTypeOK'
  BY StepType, RetryType DEF CoreInv
<1>2. job' = job /\ workerPc' \in {workerPc, [workerPc EXCEPT ![w] = pc]}
  BY DEF Step, Retry
<1>3. JobShape'
  BY <1>2 DEF CoreInv, TypeOK, WorkerTypeOK, JobShape
<1>. QED
  BY <1>1, <1>3 DEF WorkerPart

LEMMA FinishPart ==
    ASSUME NEW w \in Workers, CoreInv, UNCHANGED nextId, Finish(w)
    PROVE  WorkerPart'
<1>1. WorkerTypeOK'
  BY FinishType DEF CoreInv
<1>2. JobShape'
  BY DEF CoreInv, TypeOK, WorkerTypeOK, JobShape, Finish, Waiting
<1>. QED
  BY <1>1, <1>2 DEF WorkerPart

LEMMA NewProcessPart ==
    ASSUME CoreInv, NewProcess
    PROVE  WorkerPart'
<1>1. WorkerTypeOK'
  BY NewProcessType DEF CoreInv
<1>2. JobShape'
  BY DEF JobShape, NewProcess, Waiting
<1>. QED
  BY <1>1, <1>2 DEF WorkerPart

\* The job of a goroutine that has one.
LEMMA JobType ==
    ASSUME CoreInv, NEW w \in Workers, workerPc[w] \notin Waiting
    PROVE  /\ job[w] \in Job /\ job[w] # NoJob
           /\ job[w].id \in Ids /\ job[w].name \in Names /\ job[w].kind \in Kinds
  BY DEF CoreInv, TypeOK, WorkerTypeOK, JobShape, Job

\* A new event neither adds a row nor removes one.
LEMMA SetEventRows ==
    ASSUME NEW i \in Ids, NEW e \in Events, CoreInv, SetEvent(i, e)
    PROVE  /\ rows' \in [Ids -> Row \cup {NoRow}]
           /\ \A j \in Ids : rows'[j] = NoRow <=> rows[j] = NoRow
           /\ \A j \in Ids \ {i} : rows'[j] = rows[j]
           /\ rows[i] # NoRow => rows'[i].event = e
<1>1. rows \in [Ids -> Row \cup {NoRow}] /\ rows' \in [Ids -> Row \cup {NoRow}]
  BY SetEventType DEF CoreInv, TypeOK, StoreTypeOK
<1>2. CASE rows[i] = NoRow
  BY <1>1, <1>2 DEF SetEvent
<1>3. CASE rows[i] # NoRow
  <2>1. rows[i] \in Row
    BY <1>1, <1>3
  <2>2. [rows[i] EXCEPT !.event = e] \in Row /\ [rows[i] EXCEPT !.event = e].event = e
    BY <2>1 DEF Row
  <2>3. rows' = [rows EXCEPT ![i] = [rows[i] EXCEPT !.event = e]]
    BY <1>3 DEF SetEvent
  <2>. QED
    BY <1>1, <1>3, <2>2, <2>3, SentinelAssumption
<1>. QED
  BY <1>2, <1>3

\* A step that leaves the API's requests alone and neither adds nor removes rows.
LEMMA WorkerFrame ==
    ASSUME CoreInv, WorkerPart', KubePart', UNCHANGED <<nextId, profileLock>>,
           rows' \in [Ids -> Row \cup {NoRow}],
           \A j \in Ids : rows'[j] = NoRow <=> rows[j] = NoRow,
           rowLock' \in [Ids -> Workers \cup {NoOne}], UNCHANGED apiVars
    PROVE  CoreInv'
<1>1. TypeOK'
  BY DEF CoreInv, TypeOK, StoreTypeOK, ApiTypeOK, WorkerPart, KubePart, apiVars
<1>2. CallShape' /\ LockDiscipline' /\ RoomToInsert'
  BY DEF CoreInv, CallShape, LockDiscipline, HoldsProfile, RoomToInsert, apiVars
<1>3. FreshIds'
  BY DEF CoreInv, FreshIds
<1>. QED
  BY <1>1, <1>2, <1>3 DEF CoreInv, WorkerPart, KubePart

\* The same with the database as it is.
LEMMA KubeFrame ==
    ASSUME CoreInv, WorkerPart', KubePart', UNCHANGED dbVars, UNCHANGED apiVars
    PROVE  CoreInv'
  BY WorkerFrame DEF CoreInv, TypeOK, StoreTypeOK, dbVars

LEMMA WorkerStep ==
    ASSUME CoreInv, WorkerNext
    PROVE  CoreInv'
<1>. USE DEF k8sVars, dbVars
<1>a. KubePart /\ rows \in [Ids -> Row \cup {NoRow}]
      /\ rowLock \in [Ids -> Workers \cup {NoOne}] /\ TypeOK
  BY CoreParts DEF CoreInv, TypeOK, StoreTypeOK
<1>1. ASSUME NEW w \in Workers, Fetch(w), UNCHANGED apiVars
      PROVE  CoreInv'
  <2>1. PICK i \in Fetchable :
          /\ rowLock' = [rowLock EXCEPT ![i] = w]
          /\ job' = [job EXCEPT ![w] = [id |-> i, name |-> rows[i].name, kind |-> rows[i].kind]]
    BY <1>1 DEF Fetch
  <2>2. i \in Ids /\ rows[i] \in Row
    BY <1>a DEF Fetchable, Live
  <2>3. [id |-> i, name |-> rows[i].name, kind |-> rows[i].kind] \in Job
    BY <2>2 DEF Row, Job
  <2>4. i < nextId
    BY <2>2, SentinelAssumption DEF CoreInv, FreshIds, TypeOK, StoreTypeOK, Ids
  <2>5. WorkerPart'
    <3>1. WorkerTypeOK'
      BY <1>1, <2>1, <2>3 DEF Fetch, CoreInv, TypeOK, WorkerTypeOK, WorkerPcs
    <3>2. JobShape'
      BY <1>1, <2>1, <2>3, <2>4, JobAssumption
      DEF Fetch, CoreInv, TypeOK, WorkerTypeOK, JobShape, Waiting
    <3>. QED
      BY <3>1, <3>2 DEF WorkerPart
  <2>6. KubePart'
    BY <1>1, <1>a DEF Fetch, KubePart, CopiesExist
  <2>7. rowLock' \in [Ids -> Workers \cup {NoOne}]
    BY <1>a, <2>1
  <2>. QED
    BY <1>1, <1>a, <2>5, <2>6, <2>7, WorkerFrame DEF Fetch
<1>2. ASSUME NEW w \in Workers, MarkPicked(w), UNCHANGED apiVars
      PROVE  CoreInv'
  <2>1. workerPc[w] \notin Waiting /\ UNCHANGED <<nextId, profileLock, k8sVars, faults>>
    BY <1>2 DEF MarkPicked, Waiting
  <2>2. WorkerPart'
    BY <1>2, <2>1, StepPart DEF MarkPicked, WorkerPcs, Waiting
  <2>3. KubePart'
    BY <2>1, <1>a DEF KubePart, CopiesExist
  <2>4. rowLock' \in [Ids -> Workers \cup {NoOne}]
    BY <1>2, <1>a DEF MarkPicked, Unlock
  <2>. QED
    BY <1>2, <2>1, <2>2, <2>3, <2>4, JobType, SetEventRows, WorkerFrame DEF MarkPicked, Events
<1>3. ASSUME NEW w \in Workers, MarkPickedFails(w), UNCHANGED apiVars
      PROVE  CoreInv'
  <2>1. workerPc[w] \notin Waiting /\ UNCHANGED <<nextId, profileLock, k8sVars>>
    BY <1>3 DEF MarkPickedFails, Waiting
  <2>2. WorkerPart'
    BY <1>3, <2>1, FinishPart DEF MarkPickedFails
  <2>3. KubePart'
    BY <1>3, <2>1, <1>a, FaultType DEF MarkPickedFails, KubePart, CopiesExist
  <2>4. rowLock' \in [Ids -> Workers \cup {NoOne}]
    BY <1>3, <1>a DEF MarkPickedFails, Unlock
  <2>5. /\ rows' \in [Ids -> Row \cup {NoRow}]
        /\ \A j \in Ids : rows'[j] = NoRow <=> rows[j] = NoRow
    BY <1>3, <1>a, <2>1, JobType, SetEventRows DEF MarkPickedFails, Events
  <2>. QED
    BY <1>3, <2>1, <2>2, <2>3, <2>4, <2>5, WorkerFrame
<1>4. ASSUME NEW w \in Workers, CreatePVC(w), UNCHANGED apiVars
      PROVE  CoreInv'
  <2>1. workerPc[w] \notin Waiting /\ UNCHANGED <<dbVars, notebooks, current>>
    BY <1>4 DEF CreatePVC, Waiting
  <2>2. WorkerPart'
    BY <1>4, <2>1, StepPart DEF CreatePVC, WorkerPcs, Waiting
  <2>3. pvcs' = pvcs \/ PutClaim(w)
    BY <1>4 DEF CreatePVC
  <2>4. pvcs' \in [Names -> Claim \cup {NoObj}]
    BY <1>a, <2>1, <2>3, JobType DEF PutClaim, Claim, KubePart
  <2>5. KubePart'
    BY <1>4, <1>a, <2>1, <2>4, FaultType DEF CreatePVC, KubePart, CopiesExist
  <2>. QED
    BY <1>4, <2>1, <2>2, <2>5, KubeFrame
<1>5. ASSUME NEW w \in Workers, MarkPVC(w), UNCHANGED apiVars
      PROVE  CoreInv'
  <2>1. workerPc[w] \notin Waiting /\ UNCHANGED <<nextId, rowLock, profileLock, k8sVars>>
    BY <1>5 DEF MarkPVC, Waiting
  <2>2. WorkerPart'
    BY <1>5, <2>1, StepPart DEF MarkPVC, WorkerPcs, Waiting
  <2>3. KubePart'
    BY <1>5, <2>1, <1>a, FaultType DEF MarkPVC, KubePart, CopiesExist
  <2>4. /\ rows' \in [Ids -> Row \cup {NoRow}]
        /\ \A j \in Ids : rows'[j] = NoRow <=> rows[j] = NoRow
    BY <1>5, <1>a, <2>1, JobType, SetEventRows DEF MarkPVC, Events
  <2>. QED
    BY <1>5, <1>a, <2>1, <2>2, <2>3, <2>4, WorkerFrame
<1>6. ASSUME NEW w \in Workers, CreateNotebook(w), UNCHANGED apiVars
      PROVE  CoreInv'
  <2>1. workerPc[w] \notin Waiting /\ UNCHANGED <<dbVars, current, pvcs>>
    BY <1>6 DEF CreateNotebook, Waiting
  <2>2. WorkerPart'
    BY <1>6, <2>1, StepPart DEF CreateNotebook, WorkerPcs, Waiting
  <2>3. UNCHANGED notebooks \/ (notebooks[job[w].name] = NoObj /\ PutNotebook(w))
    BY <1>6 DEF CreateNotebook
  <2>4. notebooks' \in [Names -> Notebook \cup {NoObj}]
    <3>1. [owner |-> job[w].id, kind |-> job[w].kind, stopped |-> FALSE] \in Notebook
      BY <2>1, JobType DEF Notebook
    <3>. QED
      BY <1>a, <2>3, <3>1 DEF PutNotebook, KubePart
  <2>5. \A n \in Names : notebooks[n] # NoObj => notebooks'[n] # NoObj
    BY <1>a, <2>3 DEF PutNotebook, KubePart
  <2>6. KubePart'
    BY <1>6, <1>a, <2>1, <2>4, <2>5, FaultType DEF CreateNotebook, KubePart, CopiesExist
  <2>. QED
    BY <1>6, <2>1, <2>2, <2>6, KubeFrame
<1>7. ASSUME NEW w \in Workers, MarkNotebook(w), UNCHANGED apiVars
      PROVE  CoreInv'
  <2>1. workerPc[w] \notin Waiting /\ UNCHANGED <<nextId, rowLock, profileLock, k8sVars>>
    BY <1>7 DEF MarkNotebook, Waiting
  <2>2. WorkerPart'
    BY <1>7, <2>1, FinishPart DEF MarkNotebook
  <2>3. KubePart'
    BY <1>7, <2>1, <1>a, FaultType DEF MarkNotebook, KubePart, CopiesExist
  <2>4. /\ rows' \in [Ids -> Row \cup {NoRow}]
        /\ \A j \in Ids : rows'[j] = NoRow <=> rows[j] = NoRow
    BY <1>7, <1>a, <2>1, JobType, SetEventRows DEF MarkNotebook, Events
  <2>. QED
    BY <1>7, <1>a, <2>1, <2>2, <2>3, <2>4, WorkerFrame
<1>8. ASSUME NEW w \in Workers, MarkFailed(w), UNCHANGED apiVars
      PROVE  CoreInv'
  <2>1. workerPc[w] \notin Waiting /\ UNCHANGED <<nextId, rowLock, profileLock, k8sVars>>
    BY <1>8 DEF MarkFailed, Waiting
  <2>2. WorkerPart'
    BY <1>8, <2>1, StepPart DEF MarkFailed, WorkerPcs, Waiting
  <2>3. KubePart'
    BY <1>8, <2>1, <1>a, FaultType DEF MarkFailed, KubePart, CopiesExist
  <2>4. /\ rows' \in [Ids -> Row \cup {NoRow}]
        /\ \A j \in Ids : rows'[j] = NoRow <=> rows[j] = NoRow
    BY <1>8, <1>a, <2>1, JobType, SetEventRows DEF MarkFailed, Events, Failures
  <2>. QED
    BY <1>8, <1>a, <2>1, <2>2, <2>3, <2>4, WorkerFrame
<1>9. ASSUME NEW w \in Workers, CleanNotebook(w), UNCHANGED apiVars
      PROVE  CoreInv'
  <2>1. workerPc[w] \notin Waiting /\ UNCHANGED <<dbVars, pvcs>>
    BY <1>9 DEF CleanNotebook, Waiting
  <2>2. WorkerPart'
    BY <1>9, <2>1, StepPart DEF CleanNotebook, WorkerPcs, Waiting
  <2>3. KubePart'
    BY <1>9, <2>1, <1>a, JobType, FaultType DEF CleanNotebook, DropNotebook, KubePart, CopiesExist
  <2>. QED
    BY <1>9, <2>1, <2>2, <2>3, KubeFrame
<1>10. ASSUME NEW w \in Workers, CleanPVC(w), UNCHANGED apiVars
      PROVE  CoreInv'
  <2>1. workerPc[w] \notin Waiting /\ UNCHANGED <<dbVars, notebooks, current>>
    BY <1>10 DEF CleanPVC, Waiting
  <2>2. WorkerPart'
    BY <1>10, <2>1, FinishPart DEF CleanPVC
  <2>3. pvcs' \in [Names -> Claim \cup {NoObj}]
    BY <1>10, <2>1, <1>a, JobType, DropClaimType DEF CleanPVC, KubePart
  <2>4. KubePart'
    BY <1>10, <2>1, <2>3, <1>a, FaultType DEF CleanPVC, KubePart, CopiesExist
  <2>. QED
    BY <1>10, <2>1, <2>2, <2>4, KubeFrame
<1>11. ASSUME NEW w \in Workers, Exit(w), UNCHANGED apiVars
      PROVE  CoreInv'
  <2>1. WorkerPart'
    <3>1. stopping' \in BOOLEAN
      BY <1>11, <1>a DEF Exit, TypeOK, WorkerTypeOK
    <3>2. WorkerTypeOK'
      BY <1>11, <1>a, <3>1 DEF Exit, TypeOK, WorkerTypeOK, WorkerPcs
    <3>3. JobShape'
      BY <1>11, <1>a DEF Exit, CoreInv, TypeOK, WorkerTypeOK, JobShape, Waiting
    <3>. QED
      BY <3>2, <3>3 DEF WorkerPart
  <2>2. KubePart'
    BY <1>11, <1>a DEF Exit, KubePart, CopiesExist
  <2>. QED
    BY <1>11, <2>1, <2>2, KubeFrame DEF Exit
<1>12. ASSUME Sigterm, UNCHANGED apiVars
      PROVE  CoreInv'
  <2>1. WorkerPart'
    <3>1. stopping' \in BOOLEAN
      BY <1>12 DEF Sigterm
    <3>2. WorkerTypeOK'
      BY <1>12, <1>a, <3>1 DEF Sigterm, TypeOK, WorkerTypeOK
    <3>3. JobShape'
      BY <1>12 DEF Sigterm, CoreInv, JobShape
    <3>. QED
      BY <3>2, <3>3 DEF WorkerPart
  <2>2. KubePart'
    BY <1>12, <1>a DEF Sigterm, KubePart, CopiesExist
  <2>. QED
    BY <1>12, <2>1, <2>2, KubeFrame DEF Sigterm
<1>13. ASSUME Restart, UNCHANGED apiVars
      PROVE  CoreInv'
  <2>1. WorkerPart'
    BY <1>13, NewProcessPart DEF Restart
  <2>2. KubePart'
    BY <1>13, <1>a DEF Restart, KubePart, CopiesExist
  <2>. QED
    BY <1>13, <2>1, <2>2, KubeFrame DEF Restart
<1>14. ASSUME Crash, UNCHANGED apiVars
      PROVE  CoreInv'
  <2>1. WorkerPart'
    BY <1>14, NewProcessPart DEF Crash
  <2>2. KubePart'
    BY <1>14, <1>a, FaultType DEF Crash, KubePart, CopiesExist
  <2>3. rowLock' \in [Ids -> Workers \cup {NoOne}]
    BY <1>14 DEF Crash
  <2>. QED
    BY <1>14, <1>a, <2>1, <2>2, <2>3, WorkerFrame DEF Crash
<1>. QED
  BY <1>1, <1>2, <1>3, <1>4, <1>5, <1>6, <1>7, <1>8, <1>9, <1>10, <1>11, <1>12, <1>13, <1>14 DEF WorkerNext

-----------------------------------------------------------------------------
(* The cluster's steps, and the invariant of the whole.                    *)

LEMMA ClusterStep ==
    ASSUME CoreInv, ClusterNext
    PROVE  CoreInv'
<1>1. UNCHANGED <<dbVars, faults, apiVars, workerVars>>
  BY DEF ClusterNext, ClaimGone, Cull, WriteStatus
<1>2. KubePart /\ WorkerPart
  BY CoreParts DEF CoreInv, TypeOK, WorkerPart
<1>3. WorkerPart'
  BY <1>1, <1>2 DEF WorkerPart, WorkerTypeOK, JobShape, workerVars, dbVars
<1>4. KubePart'
  <2>1. ASSUME NEW n \in Names, ClaimGone(n)
        PROVE  KubePart'
    BY <1>1, <1>2, <2>1 DEF ClaimGone, KubePart, CopiesExist
  <2>2. ASSUME NEW n \in Names, Cull(n)
        PROVE  KubePart'
    <3>1. notebooks[n] \in Notebook
      BY <1>2, <2>2 DEF Cull, KubePart
    <3>2. [notebooks[n] EXCEPT !.stopped = TRUE] \in Notebook
      BY <3>1 DEF Notebook
    <3>. QED
      BY <1>2, <2>2, <3>2 DEF Cull, KubePart, CopiesExist
  <2>3. ASSUME NEW n \in Names, WriteStatus(n)
        PROVE  KubePart'
    BY <1>2, <2>3 DEF WriteStatus, KubePart, CopiesExist
  <2>. QED
    BY <2>1, <2>2, <2>3 DEF ClusterNext
<1>. QED
  BY <1>1, <1>3, <1>4, KubeFrame

LEMMA CoreInit == Init => CoreInv
<1>. SUFFICES ASSUME Init PROVE CoreInv
  OBVIOUS
<1>1. TypeOK
  <2>1. stopping \in BOOLEAN
    BY DEF Init, WorkerInit
  <2>2. StoreTypeOK
    BY StoreAssumption DEF Init, StoreInit, StoreTypeOK
  <2>3. ApiTypeOK
    BY DEF Init, ApiInit, ApiTypeOK, ApiPcs
  <2>4. WorkerTypeOK
    BY <2>1, WorkerAssumption DEF Init, WorkerInit, WorkerTypeOK, WorkerPcs
  <2>. QED
    BY <2>2, <2>3, <2>4 DEF TypeOK
<1>2. CallShape /\ LockDiscipline /\ RoomToInsert
  BY StoreAssumption
  DEF Init, StoreInit, ApiInit, CallShape, LockDiscipline, HoldsProfile, RoomToInsert, Locked
<1>3. FreshIds /\ CopiesExist /\ JobShape
  BY DEF Init, StoreInit, WorkerInit, FreshIds, CopiesExist, JobShape, Waiting
<1>. QED
  BY <1>1, <1>2, <1>3 DEF CoreInv

LEMMA CoreStutter ==
    ASSUME CoreInv, UNCHANGED vars
    PROVE  CoreInv'
<1>. USE DEF vars, dbVars, k8sVars, apiVars, workerVars
<1>1. TypeOK'
  <2>1. WorkerTypeOK'
    BY DEF CoreInv, TypeOK, WorkerTypeOK
  <2>. QED
    BY <2>1 DEF CoreInv, TypeOK, StoreTypeOK, ApiTypeOK
<1>2. CallShape' /\ LockDiscipline' /\ RoomToInsert'
  BY DEF CoreInv, CallShape, LockDiscipline, HoldsProfile, RoomToInsert
<1>3. FreshIds' /\ CopiesExist' /\ JobShape'
  BY DEF CoreInv, FreshIds, CopiesExist, JobShape
<1>. QED
  BY <1>1, <1>2, <1>3 DEF CoreInv

LEMMA CoreStep == CoreInv /\ [Next]_vars => CoreInv'
  BY ApiStep, WorkerStep, ClusterStep, CoreStutter DEF Next

\* The core invariant holds in every reachable state.
THEOREM CoreInvariant == Spec => []CoreInv
  BY CoreInit, CoreStep, PTL DEF Spec

\* Every variable keeps its type: the events the code appends, ids below the
\* serial, at most MaxAttempts attempts of a Kubernetes call.
THEOREM TypeCorrect == Spec => []TypeOK
<1>1. CoreInv => TypeOK
  BY DEF CoreInv
<1>. QED
  BY <1>1, CoreInvariant, PTL

\* create and start hold the profile row from their first statement to the
\* answer, one request at a time, and every way out of a handler frees it.
THEOREM ProfileLockExclusive == Spec => []LockDiscipline
<1>1. CoreInv => LockDiscipline
  BY DEF CoreInv
<1>. QED
  BY <1>1, CoreInvariant, PTL

-----------------------------------------------------------------------------
(* One goroutine per row.                                                  *)

\* Steps of the API and of the cluster: they take rows that nobody locked, and
\* they add rows, but change none.
LEMMA ClaimSame ==
    ASSUME CoreInv, ClaimInv, UNCHANGED <<rowLock, workerVars>>,
           \A i \in Ids : i < nextId => rows'[i] = NoRow \/ rows'[i] = rows[i],
           \A i \in Ids : rowLock[i] # NoOne => rows'[i] = rows[i]
    PROVE  ClaimInv'
<1>1. RowLocked' /\ SingleClaim'
  BY DEF ClaimInv, RowLocked, SingleClaim, workerVars
<1>2. ASSUME NEW w \in Workers, job[w] # NoJob
      PROVE  /\ job[w].id \in Ids /\ job[w].id < nextId
             /\ workerPc[w] = "marking" => rows'[job[w].id] = rows[job[w].id]
             /\ rows'[job[w].id] = NoRow \/ rows'[job[w].id] = rows[job[w].id]
  <2>1. job[w].id \in Ids /\ job[w].id < nextId
    BY <1>2 DEF CoreInv, TypeOK, WorkerTypeOK, Job, JobShape
  <2>2. workerPc[w] = "marking" => rowLock[job[w].id] # NoOne
    BY <2>1, StoreAssumption DEF ClaimInv, RowLocked
  <2>. QED
    BY <2>1, <2>2
<1>3. JobStage'
  BY <1>2 DEF ClaimInv, JobStage, CoreInv, JobShape, Waiting, workerVars
<1>. QED
  BY <1>1, <1>3 DEF ClaimInv

\* A step of goroutine w within its job, or the last of it.
LEMMA ClaimMove ==
    ASSUME NEW w \in Workers, CoreInv, ClaimInv, workerPc[w] \notin Waiting,
           NEW pc \in WorkerPcs \ {"marking"},
           workerPc' = [workerPc EXCEPT ![w] = pc],
           IF pc \in Waiting THEN job' = [job EXCEPT ![w] = NoJob] ELSE UNCHANGED job,
           \A i \in Ids \ {job[w].id} : rows'[i] = rows[i],
           rowLock' = [rowLock EXCEPT ![job[w].id] = NoOne],
           pc \notin Waiting /\ rows'[job[w].id] # NoRow =>
               /\ rows'[job[w].id].event # "scheduled"
               /\ pc \in {"createPVC", "markPVC", "markPVCFailed"} =>
                    rows'[job[w].id].event = "picked"
               /\ pc \in {"createNotebook", "markNotebook", "markNotebookFailed"} =>
                    rows'[job[w].id].event = "pvc-applied"
    PROVE  ClaimInv'
<1>1. job[w].id \in Ids /\ job[w] # NoJob
  BY JobType
<1>2. /\ workerPc \in [Workers -> WorkerPcs] /\ job \in [Workers -> Job \cup {NoJob}]
      /\ rowLock \in [Ids -> Workers \cup {NoOne}]
  BY DEF CoreInv, TypeOK, WorkerTypeOK, StoreTypeOK
<1>3. \A v \in Workers \ {w} :
        workerPc'[v] = workerPc[v] /\ job'[v] = job[v]
        /\ (job[v] # NoJob => job[v].id \in Ids /\ job[v].id # job[w].id)
  BY <1>1, <1>2 DEF ClaimInv, SingleClaim, Job
<1>4. workerPc'[w] = pc /\ (pc \in Waiting => job'[w] = NoJob)
      /\ (pc \notin Waiting => job'[w] = job[w])
  BY <1>2
<1>5. SingleClaim'
  BY <1>3, <1>4 DEF ClaimInv, SingleClaim
<1>6. ASSUME NEW i \in Ids, NEW v \in Workers
      PROVE  (rowLock[i] = v <=> workerPc[v] = "marking" /\ job[v].id = i)'
  <2>1. CASE i = job[w].id
    <3>1. rowLock'[i] = NoOne
      BY <1>1, <1>2, <2>1
    <3>2. ~ (workerPc'[v] = "marking" /\ job'[v].id = i)
      BY <1>3, <1>4, <2>1 DEF CoreInv, JobShape, Waiting
    <3>. QED
      BY <3>1, <3>2, StoreAssumption
  <2>2. CASE i # job[w].id
    <3>1. rowLock'[i] = rowLock[i]
      BY <1>2, <2>2
    <3>2. (workerPc'[v] = "marking" /\ job'[v].id = i)
            <=> (workerPc[v] = "marking" /\ job[v].id = i)
      BY <1>3, <1>4, <2>2
    <3>. QED
      BY <3>1, <3>2 DEF ClaimInv, RowLocked
  <2>. QED
    BY <2>1, <2>2
<1>7. RowLocked'
  BY <1>6 DEF RowLocked
<1>8. JobStage'
  <2>1. ASSUME NEW v \in Workers, v # w, job[v] # NoJob
        PROVE  rows'[job[v].id] = rows[job[v].id]
    BY <1>3, <2>1
  <2>2. \A v \in Workers : workerPc[v] = "marking" => job[v] # NoJob
    BY DEF CoreInv, JobShape, Waiting
  <2>. QED
    BY <1>3, <1>4, <2>1, <2>2 DEF ClaimInv, JobStage, Waiting
<1>. QED
  BY <1>5, <1>7, <1>8 DEF ClaimInv

LEMMA ClaimApi ==
    ASSUME CoreInv, ClaimInv, ApiNext
    PROVE  ClaimInv'
<1>1. UNCHANGED workerVars
  BY DEF ApiNext
<1>2. ASSUME NEW r \in Requests, Insert(r)
      PROVE  ClaimInv'
  <2>1. UNCHANGED rowLock
    BY <1>2 DEF Insert
  <2>2. \A i \in Ids : i # nextId => rows'[i] = rows[i]
    BY <1>2 DEF Insert, CoreInv, TypeOK, StoreTypeOK
  <2>3. nextId \in Nat /\ \A i \in Ids : i < nextId => i # nextId
    BY DEF CoreInv, TypeOK, StoreTypeOK, Ids
  <2>4. nextId \in Ids => rowLock[nextId] = NoOne
    <3>1. ASSUME nextId \in Ids, NEW w \in Workers
          PROVE  rowLock[nextId] # w
      <4>1. job[w] # NoJob => job[w].id \in Ids /\ job[w].id < nextId
        BY DEF CoreInv, TypeOK, WorkerTypeOK, Job, JobShape
      <4>2. workerPc[w] = "marking" => job[w] # NoJob
        BY DEF CoreInv, JobShape, Waiting
      <4>. QED
        BY <2>3, <3>1, <4>1, <4>2 DEF ClaimInv, RowLocked
    <3>. QED
      BY <3>1 DEF CoreInv, TypeOK, StoreTypeOK
  <2>. QED
    BY <1>1, <2>1, <2>2, <2>3, <2>4, ClaimSame
<1>3. ASSUME NEW r \in Requests, DeleteRow(r)
      PROVE  ClaimInv'
  <2>1. /\ UNCHANGED rowLock
        /\ \A i \in Named(apiCall[r].name) : rowLock[i] = NoOne
        /\ \A i \in Ids : rows'[i] = IF i \in Named(apiCall[r].name) THEN NoRow ELSE rows[i]
    BY <1>3 DEF DeleteRow
  <2>. QED
    BY <1>1, <2>1, ClaimSame
<1>4. CASE UNCHANGED <<rows, rowLock>>
  BY <1>1, <1>4, ClaimSame
<1>5. \/ UNCHANGED <<rows, rowLock>>
      \/ \E r \in Requests : Insert(r) \/ DeleteRow(r)
  BY DEF ApiNext, CreateLock, StartLock, StopRead, DeleteRead, CreateRead, ListTotals,
         ListRunning, RefuseCredit, StartRead, GetNotebook, UpdateNotebook,
         DeleteNotebook, DeleteClaim, ApiError, dbVars
<1>. QED
  BY <1>2, <1>3, <1>4, <1>5

\* Outside "marking" no transaction of the goroutine is open.
LEMMA JobUnlocked ==
    ASSUME CoreInv, ClaimInv, NEW w \in Workers, workerPc[w] \notin Waiting,
           workerPc[w] # "marking"
    PROVE  /\ rowLock[job[w].id] = NoOne
           /\ rowLock = [rowLock EXCEPT ![job[w].id] = NoOne]
<1>1. job[w].id \in Ids /\ job[w] # NoJob
  BY JobType
<1>2. ASSUME NEW v \in Workers
      PROVE  rowLock[job[w].id] # v
  <2>1. workerPc[v] = "marking" => job[v] # NoJob
    BY DEF CoreInv, JobShape, Waiting
  <2>. QED
    BY <1>1, <2>1 DEF ClaimInv, RowLocked, SingleClaim
<1>. QED
  BY <1>1, <1>2 DEF CoreInv, TypeOK, StoreTypeOK

\* The same for a step outside "marking" that sets no event.
LEMMA ClaimQuiet ==
    ASSUME NEW w \in Workers, CoreInv, ClaimInv, UNCHANGED <<rows, rowLock>>,
           workerPc[w] \notin Waiting, workerPc[w] # "marking",
           NEW pc \in WorkerPcs \ {"marking"},
           workerPc' = [workerPc EXCEPT ![w] = pc],
           IF pc \in Waiting THEN job' = [job EXCEPT ![w] = NoJob] ELSE UNCHANGED job,
           pc \in {"createPVC", "markPVC", "markPVCFailed"} =>
               workerPc[w] \in {"createPVC", "markPVC", "markPVCFailed"},
           pc \in {"createNotebook", "markNotebook", "markNotebookFailed"} =>
               workerPc[w] \in {"createNotebook", "markNotebook", "markNotebookFailed"}
    PROVE  ClaimInv'
<1>1. job[w] # NoJob
  BY JobType
<1>. QED
  BY <1>1, JobUnlocked, ClaimMove DEF ClaimInv, JobStage

LEMMA ClaimRetry ==
    ASSUME NEW w \in Workers, CoreInv, ClaimInv, UNCHANGED <<rows, rowLock>>,
           NEW from \in {"createPVC", "createNotebook"}, workerPc[w] = from,
           NEW pc \in WorkerPcs,
           from = "createPVC" => pc \in {"markPVC", "markPVCFailed"},
           from = "createNotebook" => pc \in {"markNotebook", "markNotebookFailed"},
           Step(w, pc) \/ Retry(w, pc)
    PROVE  ClaimInv'
<1>1. CASE Step(w, pc)
  BY <1>1, ClaimQuiet DEF Step, Waiting
<1>2. CASE UNCHANGED <<workerPc, job>>
  <2>1. workerPc' = [workerPc EXCEPT ![w] = from]
    BY <1>2 DEF CoreInv, TypeOK, WorkerTypeOK
  <2>. QED
    BY <1>2, <2>1, ClaimQuiet DEF WorkerPcs, Waiting
<1>. QED
  BY <1>1, <1>2 DEF Retry

LEMMA ClaimWorker ==
    ASSUME CoreInv, ClaimInv, WorkerNext
    PROVE  ClaimInv'
<1>. USE DEF dbVars
<1>1. ASSUME NEW w \in Workers, Fetch(w)
      PROVE  ClaimInv'
  <2>1. PICK i \in Fetchable :
          /\ rowLock' = [rowLock EXCEPT ![i] = w]
          /\ job' = [job EXCEPT ![w] = [id |-> i, name |-> rows[i].name, kind |-> rows[i].kind]]
    BY <1>1 DEF Fetch
  <2>2. /\ i \in Ids /\ rows[i] # NoRow /\ rows[i].event = "scheduled"
        /\ rowLock[i] = NoOne /\ UNCHANGED rows
        /\ workerPc[w] = "poll" /\ workerPc' = [workerPc EXCEPT ![w] = "marking"]
    BY <1>1 DEF Fetch, Fetchable, Live
  <2>3. /\ workerPc \in [Workers -> WorkerPcs] /\ job \in [Workers -> Job \cup {NoJob}]
        /\ rowLock \in [Ids -> Workers \cup {NoOne}]
    BY DEF CoreInv, TypeOK, WorkerTypeOK, StoreTypeOK
  <2>4. [id |-> i, name |-> rows[i].name, kind |-> rows[i].kind] \in Job
    BY <2>2 DEF CoreInv, TypeOK, StoreTypeOK, Row, Job
  <2>5. job'[w].id = i /\ job'[w] # NoJob /\ workerPc'[w] = "marking"
    BY <2>1, <2>2, <2>3, <2>4, JobAssumption
  <2>6. \A v \in Workers \ {w} : job'[v] = job[v] /\ workerPc'[v] = workerPc[v]
    BY <2>1, <2>2, <2>3
  <2>7. ASSUME NEW v \in Workers, job[v] # NoJob
        PROVE  job[v].id # i
    <3>1. CASE workerPc[v] = "marking"
      BY <2>2, <2>7, <3>1, StoreAssumption DEF ClaimInv, RowLocked
    <3>2. CASE workerPc[v] # "marking"
      BY <2>2, <2>7, <3>2 DEF ClaimInv, JobStage
    <3>. QED
      BY <3>1, <3>2
  <2>8. job[w] = NoJob
    BY <2>2 DEF CoreInv, JobShape, Waiting
  <2>9. SingleClaim'
    BY <2>5, <2>6, <2>7 DEF ClaimInv, SingleClaim
  <2>10. ASSUME NEW j \in Ids, NEW v \in Workers
         PROVE  (rowLock[j] = v <=> workerPc[v] = "marking" /\ job[v].id = j)'
    <3>1. workerPc[v] = "marking" => job[v] # NoJob
      BY DEF CoreInv, JobShape, Waiting
    <3>2. CASE v = w
      <4>1. rowLock[j] # w
        BY <2>2 DEF ClaimInv, RowLocked
      <4>. QED
        BY <2>1, <2>2, <2>3, <2>5, <3>2, <4>1
    <3>3. CASE v # w
      <4>1. rowLock'[j] = v <=> rowLock[j] = v
        BY <2>1, <2>2, <2>3, <3>3, StoreAssumption
      <4>. QED
        BY <2>6, <3>3, <4>1 DEF ClaimInv, RowLocked
    <3>. QED
      BY <3>2, <3>3
  <2>11. RowLocked'
    BY <2>10 DEF RowLocked
  <2>12. JobStage'
    BY <2>2, <2>5, <2>6 DEF ClaimInv, JobStage
  <2>. QED
    BY <2>9, <2>11, <2>12 DEF ClaimInv
<1>2. ASSUME NEW w \in Workers, MarkPicked(w)
      PROVE  ClaimInv'
  <2>1. /\ workerPc[w] \notin Waiting /\ workerPc' = [workerPc EXCEPT ![w] = "createPVC"]
        /\ UNCHANGED job /\ rowLock' = [rowLock EXCEPT ![job[w].id] = NoOne]
    BY <1>2 DEF MarkPicked, Step, Unlock, Waiting
  <2>2. /\ \A i \in Ids \ {job[w].id} : rows'[i] = rows[i]
        /\ rows'[job[w].id] # NoRow => rows'[job[w].id].event = "picked"
    BY <1>2, <2>1, JobType, SetEventRows DEF MarkPicked, Events
  <2>. QED
    BY <2>1, <2>2, ClaimMove DEF WorkerPcs, Waiting
<1>3. ASSUME NEW w \in Workers, MarkPickedFails(w)
      PROVE  ClaimInv'
  <2>1. PICK pc \in Waiting :
          /\ workerPc[w] \notin Waiting /\ workerPc' = [workerPc EXCEPT ![w] = pc]
          /\ job' = [job EXCEPT ![w] = NoJob]
          /\ rowLock' = [rowLock EXCEPT ![job[w].id] = NoOne]
    BY <1>3 DEF MarkPickedFails, Finish, Unlock, Waiting
  <2>2. \A i \in Ids \ {job[w].id} : rows'[i] = rows[i]
    BY <1>3, <2>1, JobType, SetEventRows DEF MarkPickedFails, Events
  <2>. QED
    BY <2>1, <2>2, ClaimMove DEF WorkerPcs, Waiting
<1>4. ASSUME NEW w \in Workers, CreatePVC(w)
      PROVE  ClaimInv'
  BY <1>4, ClaimRetry DEF CreatePVC, WorkerPcs
<1>5. ASSUME NEW w \in Workers, MarkPVC(w)
      PROVE  ClaimInv'
  <2>1. /\ workerPc[w] = "markPVC" /\ workerPc[w] \notin Waiting /\ UNCHANGED <<job, rowLock>>
        /\ job[w].id \in Ids /\ job[w] # NoJob
    BY <1>5, JobType DEF MarkPVC, Step, Waiting
  <2>2. rowLock' = [rowLock EXCEPT ![job[w].id] = NoOne]
    BY <2>1, JobUnlocked
  <2>3. \A i \in Ids \ {job[w].id} : rows'[i] = rows[i]
    BY <1>5, <2>1, SetEventRows DEF MarkPVC, Events
  <2>4. CASE Step(w, "createNotebook") /\ SetEvent(job[w].id, "pvc-applied")
    <3>1. rows'[job[w].id] # NoRow => rows'[job[w].id].event = "pvc-applied"
      BY <2>1, <2>4, SetEventRows DEF Events
    <3>. QED
      BY <2>1, <2>2, <2>3, <2>4, <3>1, ClaimMove DEF Step, WorkerPcs, Waiting
  <2>5. CASE Step(w, "cleanNotebook")
    <3>1. rows[job[w].id] # NoRow => rows[job[w].id].event = "picked"
      BY <2>1 DEF ClaimInv, JobStage
    <3>2. rows'[job[w].id] # NoRow => rows'[job[w].id].event # "scheduled"
      BY <1>5, <2>1, <3>1, SetEventRows DEF MarkPVC, Events
    <3>. QED
      BY <2>1, <2>2, <2>3, <2>5, <3>2, ClaimMove DEF Step, WorkerPcs, Waiting
  <2>. QED
    BY <1>5, <2>4, <2>5 DEF MarkPVC
<1>6. ASSUME NEW w \in Workers, CreateNotebook(w)
      PROVE  ClaimInv'
  BY <1>6, ClaimRetry DEF CreateNotebook, WorkerPcs
<1>7. ASSUME NEW w \in Workers, MarkNotebook(w)
      PROVE  ClaimInv'
  <2>1. PICK pc \in Waiting :
          /\ workerPc[w] = "markNotebook" /\ workerPc' = [workerPc EXCEPT ![w] = pc]
          /\ job' = [job EXCEPT ![w] = NoJob] /\ UNCHANGED rowLock
    BY <1>7 DEF MarkNotebook, Finish, Waiting
  <2>2. /\ workerPc[w] \notin Waiting
        /\ rowLock' = [rowLock EXCEPT ![job[w].id] = NoOne]
    BY <2>1, JobUnlocked DEF Waiting
  <2>3. \A i \in Ids \ {job[w].id} : rows'[i] = rows[i]
    BY <1>7, <2>2, JobType, SetEventRows DEF MarkNotebook, Events
  <2>. QED
    BY <2>1, <2>2, <2>3, ClaimMove DEF WorkerPcs, Waiting
<1>8. ASSUME NEW w \in Workers, MarkFailed(w)
      PROVE  ClaimInv'
  <2>1. /\ workerPc[w] \in {"markPVCFailed", "markNotebookFailed"}
        /\ workerPc[w] \notin Waiting /\ UNCHANGED <<job, rowLock>>
        /\ workerPc' = [workerPc EXCEPT ![w] = "cleanNotebook"]
        /\ job[w].id \in Ids /\ job[w] # NoJob
    BY <1>8, JobType DEF MarkFailed, Step, Waiting
  <2>2. rowLock' = [rowLock EXCEPT ![job[w].id] = NoOne]
    BY <2>1, JobUnlocked
  <2>3. \A i \in Ids \ {job[w].id} : rows'[i] = rows[i]
    BY <1>8, <2>1, SetEventRows DEF MarkFailed, Events, Failures
  <2>4. rows[job[w].id] # NoRow => rows[job[w].id].event # "scheduled"
    BY <2>1 DEF ClaimInv, JobStage
  <2>5. rows'[job[w].id] # NoRow => rows'[job[w].id].event # "scheduled"
    BY <1>8, <2>1, <2>4, SetEventRows DEF MarkFailed, Events, Failures
  <2>. QED
    BY <2>1, <2>2, <2>3, <2>5, ClaimMove DEF WorkerPcs, Waiting
<1>9. ASSUME NEW w \in Workers, CleanNotebook(w)
      PROVE  ClaimInv'
  BY <1>9, ClaimQuiet DEF CleanNotebook, Step, WorkerPcs, Waiting
<1>10. ASSUME NEW w \in Workers, CleanPVC(w)
       PROVE  ClaimInv'
  <2>1. PICK pc \in Waiting :
          workerPc' = [workerPc EXCEPT ![w] = pc] /\ job' = [job EXCEPT ![w] = NoJob]
    BY <1>10 DEF CleanPVC, Finish, Waiting
  <2>. QED
    BY <1>10, <2>1, ClaimQuiet DEF CleanPVC, WorkerPcs, Waiting
<1>11. ASSUME NEW w \in Workers, Exit(w)
       PROVE  ClaimInv'
  <2>1. /\ workerPc[w] = "poll" /\ workerPc' = [workerPc EXCEPT ![w] = "exited"]
        /\ UNCHANGED <<job, rows, rowLock>>
    BY <1>11 DEF Exit
  <2>2. job[w] = NoJob
    BY <2>1 DEF CoreInv, JobShape, Waiting
  <2>3. \A v \in Workers \ {w} : workerPc'[v] = workerPc[v]
    BY <2>1 DEF CoreInv, TypeOK, WorkerTypeOK
  <2>4. workerPc'[w] = "exited"
    BY <2>1 DEF CoreInv, TypeOK, WorkerTypeOK
  <2>5. RowLocked'
    BY <2>1, <2>3, <2>4 DEF ClaimInv, RowLocked
  <2>6. JobStage'
    BY <2>1, <2>2, <2>3, <2>4 DEF ClaimInv, JobStage
  <2>7. SingleClaim'
    BY <2>1 DEF ClaimInv, SingleClaim
  <2>. QED
    BY <2>5, <2>6, <2>7 DEF ClaimInv
<1>12. CASE Sigterm
  BY <1>12 DEF Sigterm, ClaimInv, RowLocked, JobStage, SingleClaim
<1>13. CASE Restart
  <2>1. /\ workerPc' = [w \in Workers |-> "poll"] /\ job' = [w \in Workers |-> NoJob]
        /\ UNCHANGED <<rows, rowLock>> /\ \A w \in Workers : workerPc[w] = "exited"
    BY <1>13 DEF Restart, NewProcess
  <2>. QED
    BY <2>1 DEF ClaimInv, RowLocked, JobStage, SingleClaim
<1>14. CASE Crash
  <2>1. /\ workerPc' = [w \in Workers |-> "poll"] /\ job' = [w \in Workers |-> NoJob]
        /\ rowLock' = [i \in Ids |-> NoOne]
    BY <1>14 DEF Crash, NewProcess
  <2>. QED
    BY <2>1, StoreAssumption DEF ClaimInv, RowLocked, JobStage, SingleClaim
<1>. QED
  BY <1>1, <1>2, <1>3, <1>4, <1>5, <1>6, <1>7, <1>8, <1>9, <1>10, <1>11, <1>12, <1>13, <1>14
  DEF WorkerNext

LEMMA ClaimCluster ==
    ASSUME CoreInv, ClaimInv, ClusterNext \/ UNCHANGED vars
    PROVE  ClaimInv'
<1>1. UNCHANGED <<rows, rowLock, workerVars>>
  BY DEF ClusterNext, ClaimGone, Cull, WriteStatus, dbVars, vars
<1>. QED
  BY <1>1, ClaimSame

LEMMA ClaimInit == Init => ClaimInv
  BY StoreAssumption
  DEF Init, StoreInit, WorkerInit, ClaimInv, RowLocked, JobStage, SingleClaim

LEMMA IndInit == Init => IndInv
  BY CoreInit, ClaimInit DEF IndInv

LEMMA IndStep == IndInv /\ [Next]_vars => IndInv'
  BY CoreStep, ClaimApi, ClaimWorker, ClaimCluster DEF IndInv, Next

\* The inductive invariant of the composition holds in every reachable state.
THEOREM Inductive == Spec => []IndInv
  BY IndInit, IndStep, PTL DEF Spec

\* Two goroutines never work on the same row: FOR UPDATE SKIP LOCKED while one
\* marks it, picked_at from then on, across failures, crashes and restarts.
THEOREM OneGoroutinePerRow == Spec => []SingleClaim
<1>1. IndInv => SingleClaim
  BY DEF IndInv, ClaimInv
<1>. QED
  BY <1>1, Inductive, PTL

-----------------------------------------------------------------------------
(* The order of a row's events.                                            *)

OrderedStep ==
    \A i \in Ids :
        \/ rows[i] = NoRow \/ rows'[i] = NoRow
        \/ rows'[i].event = rows[i].event
        \/ <<rows[i].event, rows'[i].event>> \in EventSteps

\* The event of a goroutine's step follows the one its row has.
LEMMA OrderedSet ==
    ASSUME IndInv, NEW w \in Workers, workerPc[w] \notin Waiting, NEW e \in Events,
           SetEvent(job[w].id, e),
           rows[job[w].id] # NoRow => <<rows[job[w].id].event, e>> \in EventSteps
    PROVE  OrderedStep
  BY JobType, SetEventRows DEF IndInv, OrderedStep

LEMMA OrderedNext ==
    ASSUME IndInv, [Next]_vars
    PROVE  OrderedStep
<1>1. CASE UNCHANGED rows
  BY <1>1 DEF OrderedStep
<1>2. CASE ApiNext
  <2>1. ASSUME NEW r \in Requests, Insert(r)
        PROVE  OrderedStep
    <3>1. nextId \in Ids => rows[nextId] = NoRow
      BY DEF IndInv, CoreInv, FreshIds, TypeOK, StoreTypeOK, Ids
    <3>2. \A i \in Ids : i # nextId => rows'[i] = rows[i]
      BY <2>1 DEF Insert, IndInv, CoreInv, TypeOK, StoreTypeOK
    <3>. QED
      BY <3>1, <3>2 DEF OrderedStep
  <2>2. ASSUME NEW r \in Requests, DeleteRow(r)
        PROVE  OrderedStep
    BY <2>2 DEF DeleteRow, OrderedStep
  <2>3. UNCHANGED rows \/ \E r \in Requests : Insert(r) \/ DeleteRow(r)
    BY <1>2
    DEF ApiNext, CreateLock, StartLock, StopRead, DeleteRead, CreateRead, ListTotals,
        ListRunning, RefuseCredit, StartRead, GetNotebook, UpdateNotebook,
        DeleteNotebook, DeleteClaim, ApiError, dbVars
  <2>. QED
    BY <1>1, <2>1, <2>2, <2>3
<1>3. ASSUME NEW w \in Workers, MarkPicked(w) \/ MarkPickedFails(w)
      PROVE  OrderedStep
  <2>1. workerPc[w] = "marking"
    BY <1>3 DEF MarkPicked, MarkPickedFails
  <2>2. rows[job[w].id] # NoRow => rows[job[w].id].event = "scheduled"
    BY <2>1 DEF IndInv, ClaimInv, JobStage
  <2>3. UNCHANGED rows \/ SetEvent(job[w].id, "picked")
    BY <1>3 DEF MarkPicked, MarkPickedFails
  <2>. QED
    BY <1>1, <2>1, <2>2, <2>3, OrderedSet DEF Events, EventSteps, Waiting
<1>4. ASSUME NEW w \in Workers, MarkPVC(w)
      PROVE  OrderedStep
  <2>1. workerPc[w] = "markPVC" /\ workerPc[w] \notin Waiting
    BY <1>4 DEF MarkPVC, Waiting
  <2>2. rows[job[w].id] # NoRow => rows[job[w].id].event = "picked"
    BY <2>1, JobType DEF IndInv, ClaimInv, JobStage
  <2>3. UNCHANGED rows \/ SetEvent(job[w].id, "pvc-applied")
    BY <1>4 DEF MarkPVC
  <2>. QED
    BY <1>1, <2>1, <2>2, <2>3, OrderedSet DEF Events, EventSteps
<1>5. ASSUME NEW w \in Workers, MarkNotebook(w)
      PROVE  OrderedStep
  <2>1. workerPc[w] = "markNotebook" /\ workerPc[w] \notin Waiting
    BY <1>5 DEF MarkNotebook, Waiting
  <2>2. rows[job[w].id] # NoRow => rows[job[w].id].event = "pvc-applied"
    BY <2>1, JobType DEF IndInv, ClaimInv, JobStage
  <2>3. UNCHANGED rows \/ SetEvent(job[w].id, "notebook-applied")
    BY <1>5 DEF MarkNotebook
  <2>. QED
    BY <1>1, <2>1, <2>2, <2>3, OrderedSet DEF Events, EventSteps
<1>6. ASSUME NEW w \in Workers, MarkFailed(w)
      PROVE  OrderedStep
  <2>1. CASE workerPc[w] = "markPVCFailed"
    <3>1. rows[job[w].id] # NoRow => rows[job[w].id].event = "picked"
      BY <2>1, JobType DEF IndInv, ClaimInv, JobStage, Waiting
    <3>2. UNCHANGED rows \/ SetEvent(job[w].id, "pvc-apply-failed")
      BY <1>6, <2>1 DEF MarkFailed
    <3>. QED
      BY <1>1, <2>1, <3>1, <3>2, OrderedSet DEF Events, Failures, EventSteps, Waiting
  <2>2. CASE workerPc[w] = "markNotebookFailed"
    <3>1. rows[job[w].id] # NoRow => rows[job[w].id].event = "pvc-applied"
      BY <2>2, JobType DEF IndInv, ClaimInv, JobStage, Waiting
    <3>2. UNCHANGED rows \/ SetEvent(job[w].id, "notebook-apply-failed")
      BY <1>6, <2>2 DEF MarkFailed
    <3>. QED
      BY <1>1, <2>2, <3>1, <3>2, OrderedSet DEF Events, Failures, EventSteps, Waiting
  <2>. QED
    BY <1>6, <2>1, <2>2 DEF MarkFailed
<1>7. CASE WorkerNext
  <2>1. \/ UNCHANGED rows
        \/ \E w \in Workers : \/ MarkPicked(w) \/ MarkPickedFails(w) \/ MarkPVC(w)
                              \/ MarkNotebook(w) \/ MarkFailed(w)
    BY <1>7 DEF WorkerNext, Fetch, CreatePVC, CreateNotebook, CleanNotebook, CleanPVC,
                Exit, Sigterm, Restart, Crash, dbVars
  <2>. QED
    BY <1>1, <1>3, <1>4, <1>5, <1>6, <2>1
<1>8. CASE ClusterNext \/ UNCHANGED vars
  BY <1>1, <1>8 DEF ClusterNext, ClaimGone, Cull, WriteStatus, dbVars, vars
<1>. QED
  BY <1>2, <1>7, <1>8 DEF Next

\* A row's events come in the worker's order, and a row that was applied or
\* failed keeps that event until it is deleted: no late status update of another
\* goroutine, of a crashed one or of a retry overwrites it.
THEOREM EventsInOrder == Spec => EventOrder
<1>1. IndInv /\ [Next]_vars => [OrderedStep]_vars
  BY OrderedNext
<1>. QED
  BY <1>1, Inductive, PTL DEF Spec, EventOrder, OrderedStep

-----------------------------------------------------------------------------
(* What a step may change, and who does it.                                *)

\* No row comes, goes or changes its name or kind.
SameRows ==
    \A i \in Ids :
        /\ rows'[i] = NoRow <=> rows[i] = NoRow
        /\ rows[i] # NoRow => rows'[i].name = rows[i].name /\ rows'[i].kind = rows[i].kind

LEMMA SetEventSame ==
    ASSUME CoreInv, NEW i \in Ids, NEW e \in Events, SetEvent(i, e)
    PROVE  SameRows
<1>1. CASE rows[i] = NoRow
  BY <1>1 DEF SetEvent, SameRows
<1>2. CASE rows[i] # NoRow
  <2>1. rows[i] \in Row /\ rows \in [Ids -> Row \cup {NoRow}]
    BY <1>2 DEF CoreInv, TypeOK, StoreTypeOK
  <2>2. rows' = [rows EXCEPT ![i] = [rows[i] EXCEPT !.event = e]]
    BY <1>2 DEF SetEvent
  <2>3. /\ [rows[i] EXCEPT !.event = e] \in Row
        /\ [rows[i] EXCEPT !.event = e].name = rows[i].name
        /\ [rows[i] EXCEPT !.event = e].kind = rows[i].kind
    BY <2>1 DEF Row
  <2>. QED
    BY <1>2, <2>1, <2>2, <2>3, SentinelAssumption DEF SameRows
<1>. QED
  BY <1>1, <1>2

\* The INSERT that adds a row, under a name that is free.
Adds(r) == Insert(r) /\ Named(apiCall[r].name) = {} /\ UNCHANGED workerVars

LEMMA SameLive == SameRows => Live' = Live
  BY DEF SameRows, Live

\* The row that an INSERT adds.
LEMMA AddsRow ==
    ASSUME IndInv, NEW r \in Requests, Adds(r)
    PROVE  /\ nextId \in Ids /\ rows[nextId] = NoRow /\ Live' = Live \cup {nextId}
           /\ \A i \in Ids \ {nextId} : rows'[i] = rows[i]
           /\ rows'[nextId].name = apiCall[r].name /\ rows'[nextId].kind = apiCall[r].kind
           /\ rows'[nextId].event = "scheduled"
           /\ apiPc[r] = "insert" /\ apiCall[r].op = "create"
           /\ apiCall[r].kind \in Kinds /\ apiCall[r].name \in Names
           /\ profileLock = r /\ profileLock' = NoOne
           /\ apiPc' = [apiPc EXCEPT ![r] = "idle"]
<1>1. /\ apiPc[r] = "insert" /\ apiCall[r] \in Call /\ apiCall[r].op = "create"
      /\ apiCall[r].kind \in Kinds /\ apiCall[r].name \in Names
  BY CallType DEF Adds, Insert, IndInv, CoreInv, CallShape, Call
<1>2. nextId \in Ids /\ rows[nextId] = NoRow
  BY <1>1 DEF IndInv, CoreInv, TypeOK, StoreTypeOK, RoomToInsert, FreshIds, Locked, Ids
<1>3. rows' = [rows EXCEPT ![nextId] = [name |-> apiCall[r].name, kind |-> apiCall[r].kind,
                                        event |-> "scheduled"]]
  BY DEF Adds, Insert
<1>4. [name |-> apiCall[r].name, kind |-> apiCall[r].kind, event |-> "scheduled"] \in Row
  BY <1>1 DEF Row, Events
<1>5. /\ \A i \in Ids \ {nextId} : rows'[i] = rows[i]
      /\ rows'[nextId] = [name |-> apiCall[r].name, kind |-> apiCall[r].kind,
                          event |-> "scheduled"]
  BY <1>2, <1>3 DEF IndInv, CoreInv, TypeOK, StoreTypeOK
<1>6. Live' = Live \cup {nextId}
  BY <1>2, <1>4, <1>5, SentinelAssumption DEF Live
<1>7. /\ profileLock = r /\ profileLock' = NoOne /\ apiPc' = [apiPc EXCEPT ![r] = "idle"]
  BY <1>1 DEF Adds, Insert, Reply, HoldsProfile, Locked, IndInv, CoreInv, LockDiscipline
<1>. QED
  BY <1>1, <1>2, <1>5, <1>6, <1>7

\* The steps of one goroutine, and those of one request.
Acts(w) == Work(w) \/ MarkPickedFails(w) \/ Exit(w)

Begins(r) ==
    \/ \E n \in Names, k \in Kinds : CreateLock(r, n, k)
    \/ \E n \in Names : StartLock(r, n) \/ StopRead(r, n) \/ DeleteRead(r, n)
Handles(r) == Begins(r) \/ Proceed(r) \/ RefuseCredit(r) \/ ApiError(r)

LEMMA RowsMove ==
    ASSUME [Next]_vars
    PROVE  \/ UNCHANGED rows
           \/ \E r \in Requests : Adds(r)
           \/ \E r \in Requests : DeleteRow(r)
           \/ \E w \in Workers, e \in Events :
                workerPc[w] \notin Waiting /\ Acts(w) /\ SetEvent(job[w].id, e)
<1>1. CASE ApiNext
  <2>1. ASSUME NEW r \in Requests, Insert(r), UNCHANGED workerVars
        PROVE  UNCHANGED rows \/ Adds(r)
    BY <2>1 DEF Insert, Adds
  <2>2. UNCHANGED rows \/ \E r \in Requests : (Insert(r) /\ UNCHANGED workerVars) \/ DeleteRow(r)
    BY <1>1
    DEF ApiNext, CreateLock, StartLock, StopRead, DeleteRead, CreateRead, ListTotals,
        ListRunning, RefuseCredit, StartRead, GetNotebook, UpdateNotebook,
        DeleteNotebook, DeleteClaim, ApiError, dbVars
  <2>. QED
    BY <2>1, <2>2
<1>2. CASE WorkerNext
  BY <1>2 DEF WorkerNext, Fetch, MarkPicked, MarkPickedFails, CreatePVC, MarkPVC,
              CreateNotebook, MarkNotebook, MarkFailed, CleanNotebook, CleanPVC,
              Exit, Sigterm, Restart, Crash, dbVars, Events, Failures, Waiting, Acts, Work
<1>3. CASE ClusterNext \/ UNCHANGED vars
  BY <1>3 DEF ClusterNext, ClaimGone, Cull, WriteStatus, dbVars, vars
<1>. QED
  BY <1>1, <1>2, <1>3 DEF Next

\* What becomes of a row: a DELETE takes it, or its event goes forward.
LEMMA RowMove ==
    ASSUME IndInv, [Next]_vars, NEW i \in Live
    PROVE  \/ /\ i \in Live'
              /\ rows'[i].name = rows[i].name /\ rows'[i].kind = rows[i].kind
              /\ \/ rows'[i].event = rows[i].event
                 \/ <<rows[i].event, rows'[i].event>> \in EventSteps
           \/ \E r \in Requests :
                DeleteRow(r) /\ i \in Named(apiCall[r].name) /\ i \notin Live'
<1>1. i \in Ids /\ rows[i] # NoRow
  BY DEF Live
<1>2. ASSUME NEW r \in Requests, DeleteRow(r), rows'[i] # rows[i]
      PROVE  i \in Named(apiCall[r].name) /\ i \notin Live'
  BY <1>1, <1>2 DEF DeleteRow, Live
<1>3. ASSUME NEW r \in Requests, Adds(r)
      PROVE  rows'[i] = rows[i]
  BY <1>1, <1>3, AddsRow
<1>4. ASSUME NEW w \in Workers, NEW e \in Events, workerPc[w] \notin Waiting,
             SetEvent(job[w].id, e)
      PROVE  SameRows
  BY <1>4, JobType, SetEventSame DEF IndInv
<1>5. CASE SameRows
  BY <1>1, <1>5, OrderedNext DEF OrderedStep, SameRows, Live
<1>6. CASE rows'[i] = rows[i]
  BY <1>1, <1>6 DEF Live
<1>. QED
  BY <1>2, <1>3, <1>4, <1>5, <1>6, RowsMove

LEMMA NewRow ==
    ASSUME IndInv, [Next]_vars, NEW i \in Live', i \notin Live
    PROVE  \E r \in Requests : Adds(r) /\ i = nextId
<1>1. ASSUME NEW r \in Requests, DeleteRow(r)
      PROVE  FALSE
  BY <1>1 DEF DeleteRow, Live
<1>2. ASSUME NEW w \in Workers, NEW e \in Events, workerPc[w] \notin Waiting,
             SetEvent(job[w].id, e)
      PROVE  FALSE
  BY <1>2, JobType, SetEventSame, SameLive DEF IndInv
<1>3. CASE UNCHANGED rows
  BY <1>3 DEF Live
<1>. QED
  BY <1>1, <1>2, <1>3, RowsMove, AddsRow

\* A row gets its outcome from the goroutine that works on it.
LEMMA OutcomeBy ==
    ASSUME IndInv, [Next]_vars, NEW i \in Live \cap Live', rows'[i].event # rows[i].event
    PROVE  \E w \in Workers, e \in Events :
             /\ workerPc[w] \notin Waiting /\ Acts(w) /\ job[w].id = i
             /\ SetEvent(i, e) /\ rows'[i].event = e
<1>1. i \in Ids /\ rows[i] # NoRow /\ rows'[i] # NoRow
  BY DEF Live
<1>2. ASSUME NEW r \in Requests, DeleteRow(r)
      PROVE  FALSE
  BY <1>1, <1>2 DEF DeleteRow
<1>3. ASSUME NEW r \in Requests, Adds(r)
      PROVE  FALSE
  BY <1>1, <1>3, AddsRow
<1>4. PICK w \in Workers, e \in Events :
        workerPc[w] \notin Waiting /\ Acts(w) /\ SetEvent(job[w].id, e)
  BY <1>2, <1>3, RowsMove
<1>5. job[w].id \in Ids
  BY <1>4, JobType DEF IndInv
<1>6. job[w].id = i /\ rows'[i].event = e
  BY <1>1, <1>4, <1>5, SetEventRows DEF IndInv
<1>. QED
  BY <1>4, <1>6

\* Nobody else moves a goroutine, except the process as a whole.
LEMMA WorkerActs ==
    ASSUME IndInv, [Next]_vars, NEW w \in Workers
    PROVE  \/ workerPc'[w] = workerPc[w] /\ job'[w] = job[w]
           \/ Restart \/ Crash
           \/ Acts(w)
<1>1. workerPc \in [Workers -> WorkerPcs] /\ job \in [Workers -> Job \cup {NoJob}]
  BY DEF IndInv, CoreInv, TypeOK, WorkerTypeOK
<1>2. ASSUME NEW v \in Workers \ {w}, Acts(v)
      PROVE  workerPc'[w] = workerPc[w] /\ job'[w] = job[w]
  <2>1. ASSUME NEW pc, Step(v, pc) \/ Retry(v, pc) \/ Finish(v)
        PROVE  workerPc'[w] = workerPc[w] /\ job'[w] = job[w]
    BY <1>1, <2>1 DEF Step, Retry, Finish
  <2>2. CASE Fetch(v) \/ Exit(v)
    BY <1>1, <2>2 DEF Fetch, Exit
  <2>3. CASE ~ Fetch(v) /\ ~ Exit(v)
    BY <1>2, <2>1, <2>3
    DEF Acts, Work, MarkPicked, MarkPickedFails, CreatePVC, MarkPVC, CreateNotebook,
        MarkNotebook, MarkFailed, CleanNotebook, CleanPVC
  <2>. QED
    BY <2>2, <2>3
<1>3. CASE WorkerNext
  <2>1. Sigterm \/ Restart \/ Crash \/ \E v \in Workers : Acts(v)
    BY <1>3 DEF WorkerNext, Acts, Work
  <2>. QED
    BY <1>2, <2>1 DEF Sigterm
<1>4. CASE ApiNext \/ ClusterNext \/ UNCHANGED vars
  BY <1>4 DEF ApiNext, ClusterNext, workerVars, vars
<1>. QED
  BY <1>3, <1>4 DEF Next

LEMMA RequestActs ==
    ASSUME IndInv, [Next]_vars, NEW r \in Requests
    PROVE  \/ apiPc'[r] = apiPc[r] /\ apiCall'[r] = apiCall[r] /\ apiSeen'[r] = apiSeen[r]
           \/ Handles(r) /\ UNCHANGED workerVars
<1>1. /\ apiPc \in [Requests -> ApiPcs] /\ apiCall \in [Requests -> Call \cup {NoCall}]
      /\ apiSeen \in [Requests -> SUBSET Row]
  BY DEF IndInv, CoreInv, TypeOK, ApiTypeOK
<1>. DEFINE Same == apiPc'[r] = apiPc[r] /\ apiCall'[r] = apiCall[r] /\ apiSeen'[r] = apiSeen[r]
<1>2. ASSUME NEW q \in Requests \ {r}, Handles(q)
      PROVE  Same
  <2>1. CASE Reply(q)
    BY <1>1, <2>1 DEF Reply
  <2>2. ASSUME NEW pc, Goto(q, pc), UNCHANGED <<apiCall, apiSeen>>
        PROVE  Same
    BY <1>1, <2>2 DEF Goto
  <2>3. CASE Begins(q)
    BY <1>1, <2>3 DEF Begins, CreateLock, StartLock, StopRead, DeleteRead, Begin
  <2>4. CASE CreateRead(q) \/ StartRead(q)
    BY <1>1, <2>1, <2>4 DEF CreateRead, StartRead, Goto
  <2>5. CASE ListTotals(q) \/ ListRunning(q) \/ RefuseCredit(q) \/ Insert(q)
    BY <2>1, <2>2, <2>5 DEF ListTotals, ListRunning, RefuseCredit, Insert
  <2>6. CASE GetNotebook(q) \/ UpdateNotebook(q) \/ ApiError(q)
    BY <2>1, <2>2, <2>6 DEF GetNotebook, UpdateNotebook, ApiError
  <2>7. CASE DeleteRow(q) \/ DeleteNotebook(q) \/ DeleteClaim(q)
    BY <2>1, <2>2, <2>7 DEF DeleteRow, DeleteNotebook, DeleteClaim
  <2>. QED
    BY <1>2, <2>3, <2>4, <2>5, <2>6, <2>7 DEF Handles, Proceed
<1>3. CASE ApiNext
  <2>1. \E q \in Requests : Handles(q) /\ UNCHANGED workerVars
    BY <1>3 DEF ApiNext, Handles, Begins, Proceed
  <2>. QED
    BY <1>2, <2>1
<1>4. CASE WorkerNext \/ ClusterNext \/ UNCHANGED vars
  BY <1>4 DEF WorkerNext, ClusterNext, apiVars, vars
<1>. QED
  BY <1>3, <1>4 DEF Next

\* What becomes of a Notebook: it is stopped or started, somebody deletes it by
\* its name, or a goroutine creates it where none was.
SameNotebook(n) ==
    /\ notebooks'[n].owner = notebooks[n].owner /\ notebooks'[n].kind = notebooks[n].kind
    /\ \/ notebooks'[n].stopped
       \/ \E r \in Requests :
            UpdateNotebook(r) /\ apiCall[r].name = n /\ apiCall[r].op # "stop"

LEMMA NotebookMove ==
    ASSUME IndInv, [Next]_vars, NEW n \in Names
    PROVE  \/ notebooks'[n] = notebooks[n]
           \/ notebooks[n] # NoObj /\ notebooks'[n] # NoObj /\ SameNotebook(n)
           \/ /\ notebooks'[n] = NoObj
              /\ \/ \E r \in Requests : DeleteNotebook(r) /\ apiCall[r].name = n
                 \/ \E w \in Workers : CleanNotebook(w) /\ job[w].name = n
           \/ /\ notebooks[n] = NoObj /\ notebooks'[n] # NoObj
              /\ \E w \in Workers :
                   /\ CreateNotebook(w) /\ job[w].name = n
                   /\ notebooks'[n].owner = job[w].id /\ notebooks'[n].kind = job[w].kind
<1>1. notebooks \in [Names -> Notebook \cup {NoObj}]
  BY DEF IndInv, CoreInv, TypeOK, StoreTypeOK
<1>2. CASE UNCHANGED notebooks
  BY <1>2
<1>3. ASSUME NEW m \in Names, notebooks[m] # NoObj, NEW s \in BOOLEAN,
             notebooks' = [notebooks EXCEPT ![m].stopped = s]
      PROVE  \/ notebooks'[n] = notebooks[n]
             \/ /\ m = n /\ notebooks[n] # NoObj /\ notebooks'[n] # NoObj
                /\ notebooks'[n].owner = notebooks[n].owner
                /\ notebooks'[n].kind = notebooks[n].kind
                /\ notebooks'[n].stopped = s
  <2>1. CASE m = n
    <3>1. notebooks[n] \in Notebook
      BY <1>1, <1>3, <2>1
    <3>2. notebooks'[n] = [notebooks[n] EXCEPT !.stopped = s]
      BY <1>1, <1>3, <2>1
    <3>. QED
      BY <2>1, <3>1, <3>2, SentinelAssumption DEF Notebook
  <2>2. CASE m # n
    BY <1>1, <1>3, <2>2
  <2>. QED
    BY <2>1, <2>2
<1>4. ASSUME NEW r \in Requests, UpdateNotebook(r)
      PROVE  notebooks'[n] = notebooks[n] \/ (notebooks[n] # NoObj /\ notebooks'[n] # NoObj /\ SameNotebook(n))
  <2>1. apiCall[r].name \in Names
    BY <1>4, CallType DEF UpdateNotebook, Call, IndInv
  <2>2. CASE r \in current[apiCall[r].name]
    <3>1. notebooks[apiCall[r].name] # NoObj
      BY <2>1, <2>2 DEF IndInv, CoreInv, CopiesExist
    <3>2. notebooks' = [notebooks EXCEPT ![apiCall[r].name].stopped = (apiCall[r].op = "stop")]
      BY <1>4, <2>2 DEF UpdateNotebook
    <3>. QED
      BY <1>3, <1>4, <2>1, <3>1, <3>2 DEF SameNotebook
  <2>. QED
    BY <1>2, <1>4, <2>2 DEF UpdateNotebook
<1>5. ASSUME NEW w \in Workers, CreateNotebook(w), notebooks'[n] # notebooks[n]
      PROVE  /\ notebooks[n] = NoObj /\ notebooks'[n] # NoObj /\ job[w].name = n
             /\ notebooks'[n].owner = job[w].id /\ notebooks'[n].kind = job[w].kind
  <2>1. [owner |-> job[w].id, kind |-> job[w].kind, stopped |-> FALSE] \in Notebook
    BY <1>5, JobType DEF CreateNotebook, Waiting, IndInv, Notebook
  <2>2. /\ notebooks[job[w].name] = NoObj
        /\ notebooks' = [notebooks EXCEPT ![job[w].name] =
                           [owner |-> job[w].id, kind |-> job[w].kind, stopped |-> FALSE]]
    BY <1>2, <1>5 DEF CreateNotebook, PutNotebook
  <2>3. job[w].name = n /\ notebooks'[n] = [owner |-> job[w].id, kind |-> job[w].kind, stopped |-> FALSE]
    BY <1>1, <1>5, <2>2
  <2>4. notebooks'[n] # NoObj
    BY <2>1, <2>3, SentinelAssumption
  <2>5. notebooks'[n].owner = job[w].id /\ notebooks'[n].kind = job[w].kind
    BY <2>3
  <2>. QED
    BY <2>2, <2>3, <2>4, <2>5
<1>6. ASSUME NEW m \in Names, DropNotebook(m)
      PROVE  notebooks'[n] = notebooks[n] \/ (m = n /\ notebooks'[n] = NoObj)
  BY <1>1, <1>6 DEF DropNotebook
<1>7. CASE ApiNext
  <2>1. ASSUME NEW r \in Requests, DeleteNotebook(r)
        PROVE  notebooks'[n] = notebooks[n] \/ (apiCall[r].name = n /\ notebooks'[n] = NoObj)
    <3>1. apiCall[r].name \in Names
      BY <2>1, CallType DEF DeleteNotebook, Call, IndInv
    <3>. QED
      BY <1>6, <2>1, <3>1 DEF DeleteNotebook
  <2>2. UNCHANGED notebooks \/ \E r \in Requests : UpdateNotebook(r) \/ DeleteNotebook(r)
    BY <1>7
    DEF ApiNext, CreateLock, StartLock, StopRead, DeleteRead, CreateRead, ListTotals,
        ListRunning, RefuseCredit, Insert, StartRead, GetNotebook, DeleteRow,
        DeleteClaim, ApiError, k8sVars
  <2>. QED
    BY <1>2, <1>4, <2>1, <2>2
<1>8. CASE WorkerNext
  <2>1. ASSUME NEW w \in Workers, CleanNotebook(w)
        PROVE  notebooks'[n] = notebooks[n] \/ (job[w].name = n /\ notebooks'[n] = NoObj)
    <3>1. job[w].name \in Names
      BY <2>1, JobType DEF CleanNotebook, Waiting, IndInv
    <3>. QED
      BY <1>2, <1>6, <2>1, <3>1 DEF CleanNotebook
  <2>2. UNCHANGED notebooks \/ \E w \in Workers : CreateNotebook(w) \/ CleanNotebook(w)
    BY <1>8 DEF WorkerNext, Fetch, MarkPicked, MarkPickedFails, CreatePVC, MarkPVC,
                MarkNotebook, MarkFailed, CleanPVC, Exit, Sigterm, Restart, Crash, k8sVars
  <2>. QED
    BY <1>2, <1>5, <2>1, <2>2
<1>9. CASE ClusterNext \/ UNCHANGED vars
  <2>1. ASSUME NEW m \in Names, Cull(m)
        PROVE  notebooks'[n] = notebooks[n] \/ (notebooks[n] # NoObj /\ notebooks'[n] # NoObj /\ SameNotebook(n))
    BY <1>3, <2>1 DEF Cull, SameNotebook
  <2>2. UNCHANGED notebooks \/ \E m \in Names : Cull(m)
    BY <1>9 DEF ClusterNext, ClaimGone, WriteStatus, k8sVars, vars
  <2>. QED
    BY <1>2, <2>1, <2>2
<1>. QED
  BY <1>7, <1>8, <1>9 DEF Next

\* What becomes of a claim.
LEMMA PvcMove ==
    ASSUME IndInv, [Next]_vars, NEW n \in Names
    PROVE  \/ pvcs'[n] = pvcs[n]
           \/ pvcs[n] # NoObj /\ pvcs[n].phase = "terminating" /\ pvcs'[n] = NoObj
           \/ /\ pvcs[n] # NoObj /\ pvcs'[n] # NoObj
              /\ pvcs'[n].owner = pvcs[n].owner /\ pvcs'[n].phase = "terminating"
              /\ \/ \E r \in Requests : DeleteClaim(r) /\ apiCall[r].name = n
                 \/ \E w \in Workers : CleanPVC(w) /\ job[w].name = n
           \/ /\ pvcs[n] = NoObj
              /\ \E w \in Workers :
                   /\ CreatePVC(w) /\ job[w].name = n
                   /\ pvcs'[n] = [owner |-> job[w].id, phase |-> "bound"]
<1>1. pvcs \in [Names -> Claim \cup {NoObj}]
  BY DEF IndInv, CoreInv, TypeOK, StoreTypeOK
<1>2. CASE UNCHANGED pvcs
  BY <1>2
<1>3. ASSUME NEW m \in Names, DropClaim(m), pvcs'[n] # pvcs[n]
      PROVE  /\ m = n /\ pvcs[n] # NoObj /\ pvcs'[n] # NoObj
             /\ pvcs'[n].owner = pvcs[n].owner /\ pvcs'[n].phase = "terminating"
  <2>1. pvcs[m] # NoObj /\ pvcs' = [pvcs EXCEPT ![m].phase = "terminating"]
    BY <1>3 DEF DropClaim
  <2>2. m = n /\ pvcs[n] \in Claim /\ pvcs'[n] = [pvcs[n] EXCEPT !.phase = "terminating"]
    BY <1>1, <1>3, <2>1
  <2>. QED
    BY <2>1, <2>2, SentinelAssumption DEF Claim
<1>4. ASSUME NEW w \in Workers, CreatePVC(w), pvcs'[n] # pvcs[n]
      PROVE  /\ pvcs[n] = NoObj /\ job[w].name = n
             /\ pvcs'[n] = [owner |-> job[w].id, phase |-> "bound"]
  <2>1. pvcs[job[w].name] = NoObj /\ PutClaim(w)
    BY <1>2, <1>4 DEF CreatePVC
  <2>. QED
    BY <1>1, <1>4, <2>1 DEF PutClaim
<1>5. CASE ApiNext
  <2>1. ASSUME NEW r \in Requests, DeleteClaim(r), pvcs'[n] # pvcs[n]
        PROVE  /\ apiCall[r].name = n /\ pvcs[n] # NoObj /\ pvcs'[n] # NoObj
               /\ pvcs'[n].owner = pvcs[n].owner /\ pvcs'[n].phase = "terminating"
    <3>1. apiCall[r].name \in Names
      BY <2>1, CallType DEF DeleteClaim, Call, IndInv
    <3>. QED
      BY <1>3, <2>1, <3>1 DEF DeleteClaim
  <2>2. UNCHANGED pvcs \/ \E r \in Requests : DeleteClaim(r)
    BY <1>5
    DEF ApiNext, CreateLock, StartLock, StopRead, DeleteRead, CreateRead, ListTotals,
        ListRunning, RefuseCredit, Insert, StartRead, GetNotebook, DeleteRow,
        UpdateNotebook, DeleteNotebook, ApiError, k8sVars
  <2>. QED
    BY <1>2, <2>1, <2>2
<1>6. CASE WorkerNext
  <2>1. ASSUME NEW w \in Workers, CleanPVC(w), pvcs'[n] # pvcs[n]
        PROVE  /\ job[w].name = n /\ pvcs[n] # NoObj /\ pvcs'[n] # NoObj
               /\ pvcs'[n].owner = pvcs[n].owner /\ pvcs'[n].phase = "terminating"
    <3>1. job[w].name \in Names
      BY <2>1, JobType DEF CleanPVC, Waiting, IndInv
    <3>. QED
      BY <1>3, <2>1, <3>1 DEF CleanPVC
  <2>2. UNCHANGED pvcs \/ \E w \in Workers : CreatePVC(w) \/ CleanPVC(w)
    BY <1>6 DEF WorkerNext, Fetch, MarkPicked, MarkPickedFails, MarkPVC, CreateNotebook,
                MarkNotebook, MarkFailed, CleanNotebook, Exit, Sigterm, Restart, Crash, k8sVars
  <2>. QED
    BY <1>2, <1>4, <2>1, <2>2
<1>7. CASE ClusterNext \/ UNCHANGED vars
  <2>1. ASSUME NEW m \in Names, ClaimGone(m), pvcs'[n] # pvcs[n]
        PROVE  pvcs[n] # NoObj /\ pvcs[n].phase = "terminating" /\ pvcs'[n] = NoObj
    BY <1>1, <2>1 DEF ClaimGone
  <2>2. UNCHANGED pvcs \/ \E m \in Names : ClaimGone(m)
    BY <1>7 DEF ClusterNext, Cull, WriteStatus, k8sVars, vars
  <2>. QED
    BY <1>2, <2>1, <2>2
<1>. QED
  BY <1>5, <1>6, <1>7 DEF Next

\* A goroutine keeps its job until the end, or has just fetched one.
LEMMA JobKept ==
    ASSUME IndInv, [Next]_vars, NEW w \in Workers, job'[w] # NoJob
    PROVE  job'[w] = job[w] \/ Fetch(w)
<1>1. job \in [Workers -> Job \cup {NoJob}]
  BY DEF IndInv, CoreInv, TypeOK, WorkerTypeOK
<1>2. CASE Restart \/ Crash
  BY <1>2 DEF Restart, Crash, NewProcess
<1>3. ASSUME NEW pc, Step(w, pc) \/ Retry(w, pc) \/ Finish(w)
      PROVE  job'[w] = job[w]
  BY <1>1, <1>3 DEF Step, Retry, Finish
<1>4. CASE Acts(w) /\ ~ Fetch(w) /\ ~ Exit(w)
  BY <1>3, <1>4
  DEF Acts, Work, MarkPicked, MarkPickedFails, CreatePVC, MarkPVC, CreateNotebook,
      MarkNotebook, MarkFailed, CleanNotebook, CleanPVC
<1>. QED
  BY <1>2, <1>4, WorkerActs DEF Exit

LEMMA Fetched ==
    ASSUME IndInv, NEW w \in Workers, Fetch(w)
    PROVE  /\ UNCHANGED <<rows, nextId>>
           /\ \E i \in Fetchable :
                job'[w].id = i /\ job'[w].name = rows[i].name /\ job'[w].kind = rows[i].kind
<1>1. PICK i \in Fetchable :
        job' = [job EXCEPT ![w] = [id |-> i, name |-> rows[i].name, kind |-> rows[i].kind]]
  BY DEF Fetch
<1>2. job'[w] = [id |-> i, name |-> rows[i].name, kind |-> rows[i].kind]
  BY <1>1 DEF IndInv, CoreInv, TypeOK, WorkerTypeOK
<1>. QED
  BY <1>2 DEF Fetch

\* PostgreSQL keeps the names of a user's notebooks apart.
UniqueNames == \A i, j \in Live : rows[i].name = rows[j].name => i = j

LEMMA UniqueStep ==
    ASSUME IndInv, UniqueNames, [Next]_vars
    PROVE  UniqueNames'
<1>. SUFFICES ASSUME NEW i \in Live', NEW j \in Live', rows'[i].name = rows'[j].name
              PROVE  i = j
  BY DEF UniqueNames
<1>1. \A k \in Live : k \in Live' => rows'[k].name = rows[k].name
  BY RowMove
<1>2. ASSUME NEW r \in Requests, Adds(r), NEW k \in Live
      PROVE  rows'[k].name # rows'[nextId].name
  <2>1. k \in Ids \ {nextId} /\ rows[k].name # apiCall[r].name
    BY <1>2, AddsRow DEF Adds, Named, Live
  <2>. QED
    BY <1>2, <2>1, AddsRow
<1>. QED
  BY <1>1, <1>2, NewRow DEF UniqueNames
=============================================================================
