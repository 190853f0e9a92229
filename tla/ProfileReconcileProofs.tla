----------------------- MODULE ProfileReconcileProofs -----------------------
(***************************************************************************)
(* ReconcileInv is inductive for any users, requests and bounds.  The job  *)
(* and the API share only rows and Profiles, and neither takes one away:   *)
(* what one of them knows, no step of the other makes false.  So each step *)
(* is proved against the invariant of its own side alone.                  *)
(***************************************************************************)
EXTENDS ProfileReconcile, TLAPS

\* What the job has read and done so far of user u.
JobKnows(u) ==
    /\ pc = "listK8s" =>
         db[u] = 0 /\ handled[u] = 0 /\ reread = FALSE
    /\ pc = "readDb" =>
         /\ k8s[u] <= 1 /\ handled[u] = 0
         /\ u \in seen => k8s[u] > 0 \/ row[u]
         /\ db[u] > 0 => row[u]
         /\ ~ reread => db[u] = 0
    /\ pc = "addDb" =>
         /\ k8s[u] <= 1 /\ handled[u] = 0
         /\ u \in seen => k8s[u] > 0 \/ db[u] > 0
         /\ db[u] > 0 => row[u]
         /\ k8s[u] > 0 => row[u] \/ todo[u] > 0
         /\ ~ reread => db[u] <= 1
    /\ pc = "addK8s" =>
         /\ handled[u] = 0
         /\ k8s[u] > 0 \/ todo[u] > 0 => row[u]
         /\ u \in seen => k8s[u] + todo[u] > 0
         /\ ~ reread => k8s[u] + todo[u] <= 1
    /\ pc = "token" =>
         /\ handled[u] = 0
         /\ k8s[u] > 0 => row[u]
         /\ u \in seen => k8s[u] > 0
         /\ ~ reread => k8s[u] <= 1
    /\ pc = "process" =>
         /\ todo[u] > 0 => row[u]
         /\ u \in seen => handled[u] + todo[u] > 0
         /\ ~ reread => handled[u] + todo[u] <= 1
    /\ pc = "finished" =>
         /\ u \in seen => handled[u] > 0
         /\ ~ reread => handled[u] <= 1

JobInv == \A u \in Users : JobKnows(u)

ApiInv ==
    \A r \in Requests :
        /\ stage[r] = "done" => row[user[r]]
        /\ stage[r] \in {"insert", "done"} /\ kind[r] = "profile" /\ r \notin removed =>
             namespace[user[r]] # "absent"

\* The job is beyond a first attempt only after a call that failed.
Retried == pc \notin Ended /\ attempt > 1 => Job \in hit

ReconcileInv == TypeOK /\ JobInv /\ ApiInv /\ RacesHarmless /\ Retried

-----------------------------------------------------------------------------
(* What both sides rely on.                                                *)

\* Rows and Profiles are only added.
Grows ==
    /\ \A u \in Users : row[u] => row'[u]
    /\ \A u \in Users : namespace[u] # "absent" => namespace'[u] # "absent"

LEMMA PutNamespaceAdds ==
    ASSUME TypeOK, NEW u \in Users, PutNamespace(u)
    PROVE  /\ namespace' \in [Users -> {"absent", "good", "bad"}]
           /\ namespace'[u] # "absent"
           /\ \A v \in Users : namespace[v] # "absent" => namespace'[v] # "absent"
  BY DEF TypeOK, PutNamespace

LEMMA PutRowAdds ==
    ASSUME TypeOK, NEW u \in Users, PutRow(u)
    PROVE  /\ row' \in [Users -> BOOLEAN]
           /\ row'[u]
           /\ \A v \in Users : row[v] => row'[v]
  BY DEF TypeOK, PutRow

LEMMA JobKept == JobInv /\ Grows /\ UNCHANGED jobVars => JobInv'
  BY DEF JobInv, JobKnows, Grows, jobVars

LEMMA ApiKept == TypeOK /\ ApiInv /\ Grows /\ UNCHANGED apiVars => ApiInv'
  BY DEF TypeOK, ApiInv, Grows, apiVars

\* The loops reach a user of their list and take him off it.
LEMMA CurrentListed ==
    ASSUME TypeOK, Reaches
    PROVE  /\ Current \in Users /\ todo[Current] \in Nat /\ todo[Current] > 0
           /\ Passed \in Bag /\ Passed[Current] = todo[Current] - 1
           /\ \A u \in Users : u # Current => Passed[u] = todo[u]
  <1>1. Current \in Users /\ todo[Current] > 0
    BY DEF Reaches, Current
  <1>2. todo[Current] - 1 \in Nat
    BY <1>1 DEF TypeOK, Bag
  <1> QED
    BY <1>1, <1>2 DEF TypeOK, Bag, Passed

LEMMA AgainTyped ==
    ASSUME TypeOK, Again
    PROVE  attempt' \in 1..MaxAttempts /\ pc' \in {pc, "exited"}
  BY ReconcileAssumption DEF TypeOK, Again

LEMMA FaultTyped ==
    ASSUME TypeOK, NEW w \in Requests \cup {Job}, Fault(w)
    PROVE  /\ faults' \in 0..MaxFaults /\ hit' \subseteq Requests \cup {Job}
           /\ w \in hit' /\ hit \subseteq hit'
  BY ReconcileAssumption DEF TypeOK, Fault

LEMMA NoneIsBag == None \in Bag
  BY DEF None, Bag

LEMMA ReconcileInit == Init => ReconcileInv
  <1> SUFFICES ASSUME Init PROVE ReconcileInv
    OBVIOUS
  <1>1. TypeOK
    <2>1. attempt \in 1..MaxAttempts /\ tries \in [Requests -> 1..MaxAttempts]
      BY ReconcileAssumption DEF Init
    <2>2. k8s \in Bag /\ db \in Bag /\ todo \in Bag /\ handled \in Bag
      BY NoneIsBag DEF Init
    <2>3. admin \in 0..MaxAdmin /\ faults \in 0..MaxFaults
      BY ReconcileAssumption DEF Init
    <2>4. reread \in BOOLEAN
      BY DEF Init
    <2> QED
      BY <2>1, <2>2, <2>3, <2>4 DEF Init, TypeOK, Ended
  <1>2. JobInv
    BY DEF Init, JobInv, JobKnows
  <1>3. ApiInv /\ RacesHarmless
    BY DEF Init, ApiInv, RacesHarmless
  <1>4. Retried
    BY DEF Init, Retried
  <1> QED
    BY <1>1, <1>2, <1>3, <1>4 DEF ReconcileInv

-----------------------------------------------------------------------------
(* The job.                                                                *)

\* A step of the job that adds and leaves the requests alone keeps all but what
\* the job itself knows.
LEMMA JobStep ==
    ASSUME ReconcileInv, Grows, UNCHANGED apiVars, TypeOK', JobInv', hit \subseteq hit',
           pc' = "exited" => Job \in hit',
           Job \in hit' \/ attempt' = 1 \/ (attempt' = attempt /\ pc \notin Ended)
    PROVE  ReconcileInv'
  <1>1. Retried'
    BY DEF ReconcileInv, Retried, TypeOK
  <1> QED
    BY <1>1, ApiKept DEF ReconcileInv, RacesHarmless, apiVars

LEMMA StartKeeps == ReconcileInv /\ Start => ReconcileInv'
  <1> SUFFICES ASSUME ReconcileInv, Start PROVE ReconcileInv'
    OBVIOUS
  <1>1. TypeOK'
    <2>1. k8s' \in Bag /\ db' \in Bag /\ todo' \in Bag /\ handled' \in Bag
      BY NoneIsBag DEF Start
    <2>2. attempt' \in 1..MaxAttempts
      BY ReconcileAssumption DEF Start
    <2>3. reread' \in BOOLEAN
      BY DEF Start
    <2> QED
      BY <2>1, <2>2, <2>3 DEF ReconcileInv, TypeOK, Start, apiVars
  <1>2. JobInv'
    BY DEF JobInv, JobKnows, Start, None
  <1>3. ApiInv'
    BY ApiKept DEF ReconcileInv, Start, Grows, TypeOK
  <1>4. RacesHarmless'
    BY ReconcileAssumption DEF ReconcileInv, RacesHarmless, Start, apiVars
  <1>5. Retried'
    BY DEF Retried, Start
  <1> QED
    BY <1>1, <1>2, <1>3, <1>4, <1>5 DEF ReconcileInv

LEMMA ListK8sKeeps == ReconcileInv /\ ListK8s => ReconcileInv'
  <1> SUFFICES ASSUME ReconcileInv, ListK8s PROVE ReconcileInv'
    OBVIOUS
  <1>1. TypeOK'
    BY ReconcileAssumption DEF ReconcileInv, TypeOK, ListK8s, Bag, apiVars, Ended
  <1>2. JobInv'
    BY DEF ReconcileInv, TypeOK, JobInv, JobKnows, ListK8s, Bag
  <1> QED
    BY <1>1, <1>2, JobStep DEF ListK8s, Grows

\* Failed calls of the job, whatever they did.
LEMMA FailsTyped ==
    ASSUME TypeOK, Fails
    PROVE  /\ attempt' \in 1..MaxAttempts /\ pc' \in {pc, "exited"}
           /\ faults' \in 0..MaxFaults /\ hit' \subseteq Requests \cup {Job}
           /\ Job \in hit' /\ hit \subseteq hit'
           /\ UNCHANGED <<k8s, todo, handled, seen, apiVars, admin>>
  BY AgainTyped, FaultTyped DEF Fails

LEMMA FailsKeeps ==
    ASSUME ReconcileInv, Fails, Grows, UNCHANGED <<db, reread>>,
           namespace' \in [Users -> {"absent", "good", "bad"}], row' \in [Users -> BOOLEAN]
    PROVE  ReconcileInv'
  <1>1. TypeOK'
    BY FailsTyped DEF ReconcileInv, TypeOK, apiVars, Ended
  <1>2. JobInv'
    <2> SUFFICES ASSUME NEW u \in Users PROVE JobKnows(u)'
      BY DEF JobInv
    <2>1. JobKnows(u) /\ (row[u] => row'[u]) /\ pc' \in {pc, "exited"}
          /\ UNCHANGED <<db, reread, k8s, todo, handled, seen>>
      BY FailsTyped DEF ReconcileInv, JobInv, Grows
    <2> QED
      BY <2>1 DEF JobKnows
  <1> QED
    BY <1>1, <1>2, FailsTyped, JobStep DEF ReconcileInv

LEMMA ListK8sFailsKeeps == ReconcileInv /\ ListK8sFails => ReconcileInv'
  BY FailsKeeps DEF ListK8sFails, Grows, ReconcileInv, TypeOK

LEMMA ReadDbKeeps == ReconcileInv /\ ReadDb => ReconcileInv'
  <1> SUFFICES ASSUME ReconcileInv, ReadDb PROVE ReconcileInv'
    OBVIOUS
  <1>1. db' \in Bag /\ todo' \in Bag
    BY DEF ReconcileInv, TypeOK, ReadDb, K8sOrphans, Bag
  <1>2. TypeOK'
    BY <1>1, ReconcileAssumption DEF ReconcileInv, TypeOK, ReadDb, apiVars, Ended
  <1>3. JobInv'
    BY <1>1 DEF ReconcileInv, TypeOK, JobInv, JobKnows, ReadDb, K8sOrphans, Bag
  <1> QED
    BY <1>2, <1>3, JobStep DEF ReadDb, Grows

LEMMA ReadDbFailsKeeps == ReconcileInv /\ ReadDbFails => ReconcileInv'
  <1> SUFFICES ASSUME ReconcileInv, ReadDbFails PROVE ReconcileInv'
    OBVIOUS
  <1>1. PICK read \in SUBSET {u \in Users : row[u]} :
          /\ db' = [u \in Users |-> IF u \in read THEN db[u] + 1 ELSE db[u]]
          /\ reread' = (reread \/ read # {})
    BY DEF ReadDbFails
  <1>2. TypeOK'
    <2>1. db' \in Bag /\ reread' \in BOOLEAN
      BY <1>1 DEF ReconcileInv, TypeOK, Bag
    <2> QED
      BY <2>1, FailsTyped DEF ReconcileInv, TypeOK, ReadDbFails, apiVars, Ended
  <1>3. JobInv'
    <2> SUFFICES ASSUME NEW u \in Users PROVE JobKnows(u)'
      BY DEF JobInv
    <2>1. /\ JobKnows(u) /\ pc = "readDb" /\ pc' \in {"readDb", "exited"}
          /\ UNCHANGED <<k8s, handled, seen, row>> /\ db[u] \in Nat
      BY FailsTyped DEF ReconcileInv, JobInv, TypeOK, Bag, ReadDbFails
    <2>2. /\ db'[u] > 0 => row[u]
          /\ ~ reread' => ~ reread /\ db'[u] = db[u]
      BY <1>1, <2>1 DEF JobKnows
    <2> QED
      BY <2>1, <2>2 DEF JobKnows
  <1> QED
    BY <1>2, <1>3, FailsTyped, JobStep DEF ReconcileInv, ReadDbFails, Grows

LEMMA AddToDbKeeps == ReconcileInv /\ AddToDb => ReconcileInv'
  <1> SUFFICES ASSUME ReconcileInv, AddToDb PROVE ReconcileInv'
    OBVIOUS
  <1>1. /\ row' \in [Users -> BOOLEAN] /\ row'[Current]
        /\ \A u \in Users : row[u] => row'[u]
    BY CurrentListed, PutRowAdds DEF ReconcileInv, AddToDb
  <1>2. TypeOK'
    BY <1>1, CurrentListed, ReconcileAssumption
       DEF ReconcileInv, TypeOK, AddToDb, apiVars
  <1>3. JobInv'
    <2> SUFFICES ASSUME NEW u \in Users PROVE JobKnows(u)'
      BY DEF JobInv
    <2>1. u = Current \/ todo'[u] = todo[u]
      BY CurrentListed DEF ReconcileInv, AddToDb
    <2>2. JobKnows(u) /\ (u = Current => row'[u])
      BY <1>1 DEF ReconcileInv, JobInv
    <2> QED
      BY <1>1, <2>1, <2>2 DEF JobKnows, AddToDb
  <1> QED
    BY <1>1, <1>2, <1>3, JobStep DEF AddToDb, Grows

LEMMA AddToDbFailsKeeps == ReconcileInv /\ AddToDbFails => ReconcileInv'
  BY FailsKeeps, CurrentListed, PutRowAdds DEF ReconcileInv, TypeOK, AddToDbFails, Grows

LEMMA DbAddedKeeps == ReconcileInv /\ DbAdded => ReconcileInv'
  <1> SUFFICES ASSUME ReconcileInv, DbAdded PROVE ReconcileInv'
    OBVIOUS
  <1>1. todo' \in Bag
    BY DEF ReconcileInv, TypeOK, DbAdded, DbOrphans, Bag
  <1>2. TypeOK'
    BY <1>1, ReconcileAssumption DEF ReconcileInv, TypeOK, DbAdded, apiVars
  <1>3. JobInv'
    <2> SUFFICES ASSUME NEW u \in Users PROVE JobKnows(u)'
      BY DEF JobInv
    <2>1. /\ JobKnows(u) /\ pc = "addDb" /\ ~ (todo[u] > 0)
          /\ todo'[u] = IF k8s[u] = 0 THEN db[u] ELSE 0
          /\ k8s[u] \in Nat /\ db[u] \in Nat
      BY DEF ReconcileInv, JobInv, DbAdded, Reaches, DbOrphans, TypeOK, Bag
    <2> QED
      BY <2>1 DEF JobKnows, DbAdded
  <1> QED
    BY <1>2, <1>3, JobStep DEF DbAdded, Grows

LEMMA AddToK8sKeeps == ReconcileInv /\ AddToK8s => ReconcileInv'
  <1> SUFFICES ASSUME ReconcileInv, AddToK8s PROVE ReconcileInv'
    OBVIOUS
  <1>1. /\ namespace' \in [Users -> {"absent", "good", "bad"}]
        /\ \A u \in Users : namespace[u] # "absent" => namespace'[u] # "absent"
    BY CurrentListed, PutNamespaceAdds DEF ReconcileInv, AddToK8s
  <1>2. k8s' \in Bag
    BY CurrentListed DEF ReconcileInv, TypeOK, AddToK8s, Bag
  <1>3. TypeOK'
    BY <1>1, <1>2, CurrentListed, ReconcileAssumption
       DEF ReconcileInv, TypeOK, AddToK8s, apiVars
  <1>4. JobInv'
    <2> SUFFICES ASSUME NEW u \in Users PROVE JobKnows(u)'
      BY DEF JobInv
    <2>1. JobKnows(u) /\ k8s[u] \in Nat /\ todo[u] \in Nat
      BY DEF ReconcileInv, JobInv, TypeOK, Bag
    <2>2. CASE u = Current
      <3>1. todo[u] > 0 /\ todo'[u] = todo[u] - 1 /\ k8s'[u] = k8s[u] + 1
        BY <2>2, CurrentListed DEF ReconcileInv, TypeOK, Bag, AddToK8s
      <3> QED
        BY <2>1, <3>1 DEF JobKnows, AddToK8s
    <2>3. CASE u # Current
      <3>1. todo'[u] = todo[u] /\ k8s'[u] = k8s[u]
        BY <2>3, CurrentListed DEF ReconcileInv, TypeOK, Bag, AddToK8s
      <3> QED
        BY <2>1, <3>1 DEF JobKnows, AddToK8s
    <2> QED
      BY <2>2, <2>3
  <1> QED
    BY <1>1, <1>3, <1>4, JobStep DEF AddToK8s, Grows

LEMMA AddToK8sFailsKeeps == ReconcileInv /\ AddToK8sFails => ReconcileInv'
  BY FailsKeeps, CurrentListed, PutNamespaceAdds
     DEF ReconcileInv, TypeOK, AddToK8sFails, Grows

LEMMA K8sAddedKeeps == ReconcileInv /\ K8sAdded => ReconcileInv'
  <1> SUFFICES ASSUME ReconcileInv, K8sAdded PROVE ReconcileInv'
    OBVIOUS
  <1>1. TypeOK'
    BY ReconcileAssumption DEF ReconcileInv, TypeOK, K8sAdded, apiVars
  <1>2. JobInv'
    <2> SUFFICES ASSUME NEW u \in Users PROVE JobKnows(u)'
      BY DEF JobInv
    <2>1. JobKnows(u) /\ todo[u] = 0 /\ k8s[u] \in Nat
      BY DEF ReconcileInv, JobInv, K8sAdded, Reaches, TypeOK, Bag
    <2> QED
      BY <2>1 DEF JobKnows, K8sAdded
  <1> QED
    BY <1>1, <1>2, JobStep DEF K8sAdded, Grows

LEMMA TokenKeeps == ReconcileInv /\ Token => ReconcileInv'
  <1> SUFFICES ASSUME ReconcileInv, Token PROVE ReconcileInv'
    OBVIOUS
  <1>1. TypeOK'
    BY DEF ReconcileInv, TypeOK, Token, apiVars
  <1>2. JobInv'
    <2> SUFFICES ASSUME NEW u \in Users PROVE JobKnows(u)'
      BY DEF JobInv
    <2>1. JobKnows(u) /\ k8s[u] \in Nat
      BY DEF ReconcileInv, JobInv, TypeOK, Bag
    <2> QED
      BY <2>1 DEF JobKnows, Token
  <1> QED
    BY <1>1, <1>2, JobStep DEF Token, Grows, Ended

LEMMA TokenFailsKeeps == ReconcileInv /\ TokenFails => ReconcileInv'
  <1> SUFFICES ASSUME ReconcileInv, TokenFails PROVE ReconcileInv'
    OBVIOUS
  <1>1. /\ faults' \in 0..MaxFaults /\ hit' \subseteq Requests \cup {Job}
        /\ Job \in hit' /\ hit \subseteq hit'
    <2>1. CASE Fault(Job)
      BY <2>1, FaultTyped DEF ReconcileInv
    <2>2. CASE attempt > 1 /\ UNCHANGED <<hit, faults>>
      BY <2>2 DEF ReconcileInv, Retried, TokenFails, Ended, TypeOK
    <2> QED
      BY <2>1, <2>2 DEF TokenFails
  <1>2. TypeOK'
    BY <1>1, AgainTyped DEF ReconcileInv, TypeOK, TokenFails, apiVars, Ended
  <1>3. JobInv'
    <2>1. pc' \in {"token", "exited"}
      BY AgainTyped DEF ReconcileInv, TokenFails
    <2> QED
      BY <2>1 DEF ReconcileInv, JobInv, JobKnows, TokenFails
  <1> QED
    BY <1>1, <1>2, <1>3, JobStep DEF ReconcileInv, TokenFails, Grows, RacesHarmless

LEMMA ProcessKeeps == ReconcileInv /\ Process => ReconcileInv'
  <1> SUFFICES ASSUME ReconcileInv, Process PROVE ReconcileInv'
    OBVIOUS
  <1>1. handled' \in Bag
    BY CurrentListed DEF ReconcileInv, TypeOK, Process, Bag
  <1>2. TypeOK'
    BY <1>1, CurrentListed DEF ReconcileInv, TypeOK, Process, apiVars
  <1>3. JobInv'
    <2> SUFFICES ASSUME NEW u \in Users PROVE JobKnows(u)'
      BY DEF JobInv
    <2>1. JobKnows(u) /\ handled[u] \in Nat /\ todo[u] \in Nat
      BY DEF ReconcileInv, JobInv, TypeOK, Bag
    <2>2. CASE u = Current
      <3>1. todo[u] > 0 /\ todo'[u] = todo[u] - 1 /\ handled'[u] = handled[u] + 1
        BY <2>2, CurrentListed DEF ReconcileInv, TypeOK, Bag, Process
      <3> QED
        BY <2>1, <3>1 DEF JobKnows, Process
    <2>3. CASE u # Current
      <3>1. todo'[u] = todo[u] /\ handled'[u] = handled[u]
        BY <2>3, CurrentListed DEF ReconcileInv, TypeOK, Bag, Process
      <3> QED
        BY <2>1, <3>1 DEF JobKnows, Process
    <2> QED
      BY <2>2, <2>3
  <1> QED
    BY <1>2, <1>3, JobStep DEF Process, Grows, Ended

LEMMA FinishKeeps == ReconcileInv /\ Finish => ReconcileInv'
  <1> SUFFICES ASSUME ReconcileInv, Finish PROVE ReconcileInv'
    OBVIOUS
  <1>1. TypeOK'
    BY DEF ReconcileInv, TypeOK, Finish, apiVars, Ended
  <1>2. JobInv'
    <2> SUFFICES ASSUME NEW u \in Users PROVE JobKnows(u)'
      BY DEF JobInv
    <2>1. JobKnows(u) /\ todo[u] = 0 /\ handled[u] \in Nat
      BY DEF ReconcileInv, JobInv, Finish, Reaches, TypeOK, Bag
    <2> QED
      BY <2>1 DEF JobKnows, Finish
  <1> QED
    BY <1>1, <1>2, JobStep DEF Finish, Grows, Ended

LEMMA CrashKeeps == ReconcileInv /\ Crash => ReconcileInv'
  <1> SUFFICES ASSUME ReconcileInv, Crash PROVE ReconcileInv'
    OBVIOUS
  <1>1. TypeOK'
    BY FaultTyped DEF ReconcileInv, TypeOK, Crash, apiVars, Ended
  <1>2. JobInv'
    BY DEF JobInv, JobKnows, Crash
  <1> QED
    BY <1>1, <1>2, FaultTyped, JobStep DEF Crash, Grows, ReconcileInv

-----------------------------------------------------------------------------
(* The API and the administrators.                                         *)

LEMMA RetryCallTyped ==
    ASSUME TypeOK, NEW r \in Requests, RetryCall(r)
    PROVE  /\ stage' \in [Requests -> {"free", "k8s", "insert", "done", "failed"}]
           /\ tries' \in [Requests -> 1..MaxAttempts]
           /\ stage'[r] \in {stage[r], "failed"}
           /\ \A q \in Requests : q # r => stage'[q] = stage[q]
  BY ReconcileAssumption DEF TypeOK, RetryCall

\* A step of the requests that adds keeps what the job knows.
LEMMA ApiStep ==
    ASSUME ReconcileInv, Grows, UNCHANGED jobVars, TypeOK', ApiInv', hit \subseteq hit',
           \A r \in Requests : stage'[r] = "failed" => stage[r] = "failed" \/ r \in hit'
    PROVE  ReconcileInv'
  BY JobKept DEF ReconcileInv, RacesHarmless, Retried, jobVars

LEMMA CreateProfileKeeps ==
    ASSUME ReconcileInv, NEW r \in Requests, CreateProfile(r) PROVE ReconcileInv'
  <1>1. TypeOK'
    BY DEF ReconcileInv, TypeOK, CreateProfile, jobVars
  <1>2. ApiInv'
    BY DEF ReconcileInv, TypeOK, ApiInv, CreateProfile
  <1> QED
    BY <1>1, <1>2, ApiStep DEF ReconcileInv, TypeOK, CreateProfile, Grows

LEMMA CreateNotebookKeeps ==
    ASSUME ReconcileInv, NEW r \in Requests, CreateNotebook(r) PROVE ReconcileInv'
  <1>1. TypeOK'
    BY DEF ReconcileInv, TypeOK, CreateNotebook, jobVars
  <1>2. ApiInv'
    BY DEF ReconcileInv, TypeOK, ApiInv, CreateNotebook
  <1> QED
    BY <1>1, <1>2, ApiStep DEF ReconcileInv, TypeOK, CreateNotebook, Grows

LEMMA PutProfileKeeps ==
    ASSUME ReconcileInv, NEW r \in Requests, PutProfile(r) PROVE ReconcileInv'
  <1>1. user[r] \in Users /\ TypeOK
    BY DEF ReconcileInv, TypeOK
  <1>2. /\ namespace' \in [Users -> {"absent", "good", "bad"}]
        /\ namespace'[user[r]] # "absent"
        /\ \A v \in Users : namespace[v] # "absent" => namespace'[v] # "absent"
    BY <1>1, PutNamespaceAdds DEF PutProfile
  <1>3. TypeOK'
    BY <1>2, ReconcileAssumption DEF ReconcileInv, TypeOK, PutProfile, jobVars
  <1>4. ApiInv'
    BY <1>2 DEF ReconcileInv, TypeOK, ApiInv, PutProfile
  <1> QED
    BY <1>2, <1>3, <1>4, ApiStep DEF ReconcileInv, TypeOK, PutProfile, Grows

LEMMA PutProfileFailsKeeps ==
    ASSUME ReconcileInv, NEW r \in Requests, PutProfileFails(r) PROVE ReconcileInv'
  <1>1. user[r] \in Users /\ TypeOK
    BY DEF ReconcileInv, TypeOK
  <1>2. /\ namespace' \in [Users -> {"absent", "good", "bad"}]
        /\ \A v \in Users : namespace[v] # "absent" => namespace'[v] # "absent"
    BY <1>1, PutNamespaceAdds DEF PutProfileFails, TypeOK
  <1>3. TypeOK'
    BY <1>1, <1>2, RetryCallTyped, FaultTyped DEF TypeOK, PutProfileFails, jobVars
  <1>4. ApiInv'
    BY <1>1, <1>2, RetryCallTyped DEF ReconcileInv, TypeOK, ApiInv, PutProfileFails
  <1> QED
    BY <1>1, <1>2, <1>3, <1>4, RetryCallTyped, FaultTyped, ApiStep
       DEF PutProfileFails, Grows

LEMMA InsertKeeps ==
    ASSUME ReconcileInv, NEW r \in Requests, Insert(r) PROVE ReconcileInv'
  <1>1. user[r] \in Users /\ TypeOK
    BY DEF ReconcileInv, TypeOK
  <1>2. /\ row' \in [Users -> BOOLEAN] /\ row'[user[r]]
        /\ \A v \in Users : row[v] => row'[v]
    BY <1>1, PutRowAdds DEF Insert
  <1>3. /\ stage' \in [Requests -> {"free", "k8s", "insert", "done", "failed"}]
        /\ tries' \in [Requests -> 1..MaxAttempts]
        /\ stage[r] = "insert" /\ stage'[r] \in {"insert", "done"}
        /\ \A q \in Requests : q # r => stage'[q] = stage[q]
    BY ReconcileAssumption DEF ReconcileInv, TypeOK, Insert
  <1>4. TypeOK'
    BY <1>2, <1>3 DEF ReconcileInv, TypeOK, Insert, jobVars
  <1>5. ApiInv'
    BY <1>2, <1>3 DEF ReconcileInv, TypeOK, ApiInv, Insert
  <1> QED
    BY <1>2, <1>3, <1>4, <1>5, ApiStep DEF Insert, Grows

LEMMA InsertFailsKeeps ==
    ASSUME ReconcileInv, NEW r \in Requests, InsertFails(r) PROVE ReconcileInv'
  <1>1. user[r] \in Users /\ TypeOK
    BY DEF ReconcileInv, TypeOK
  <1>2. /\ row' \in [Users -> BOOLEAN]
        /\ \A v \in Users : row[v] => row'[v]
    BY <1>1, PutRowAdds DEF InsertFails, TypeOK
  <1>3. TypeOK'
    BY <1>1, <1>2, RetryCallTyped, FaultTyped DEF TypeOK, InsertFails, jobVars
  <1>4. ApiInv'
    BY <1>1, <1>2, RetryCallTyped DEF ReconcileInv, TypeOK, ApiInv, InsertFails
  <1> QED
    BY <1>1, <1>2, <1>3, <1>4, RetryCallTyped, FaultTyped, ApiStep
       DEF InsertFails, Grows

LEMMA AdminKeeps ==
    ASSUME ReconcileInv, NEW u \in Users, AdminCreate(u) \/ AdminDelete(u)
    PROVE  ReconcileInv'
  <1>1. TypeOK'
    BY ReconcileAssumption
       DEF ReconcileInv, TypeOK, AdminCreate, AdminDelete, jobVars, apiVars
  <1>2. JobInv'
    BY DEF ReconcileInv, JobInv, JobKnows, AdminCreate, AdminDelete, jobVars
  <1>3. ApiInv'
    BY DEF ReconcileInv, TypeOK, ApiInv, AdminCreate, AdminDelete, apiVars
  <1>4. RacesHarmless' /\ Retried'
    BY DEF ReconcileInv, RacesHarmless, Retried, AdminCreate, AdminDelete, jobVars, apiVars
  <1> QED
    BY <1>1, <1>2, <1>3, <1>4 DEF ReconcileInv

LEMMA ReconcileStutter == ReconcileInv /\ UNCHANGED vars => ReconcileInv'
  BY DEF ReconcileInv, TypeOK, JobInv, JobKnows, ApiInv, RacesHarmless, Retried,
         vars, jobVars, apiVars

LEMMA ReconcileStep == ReconcileInv /\ [Next]_vars => ReconcileInv'
  <1> SUFFICES ASSUME ReconcileInv, Next PROVE ReconcileInv'
    BY ReconcileStutter
  <1>1. CASE Runs
    BY <1>1, StartKeeps, ListK8sKeeps, ReadDbKeeps, AddToDbKeeps, DbAddedKeeps,
       AddToK8sKeeps, K8sAddedKeeps, TokenKeeps, ProcessKeeps, FinishKeeps DEF Runs
  <1>2. CASE Breaks
    BY <1>2, ListK8sFailsKeeps, ReadDbFailsKeeps, AddToDbFailsKeeps, AddToK8sFailsKeeps,
       TokenFailsKeeps, CrashKeeps DEF Breaks
  <1>3. CASE \E r \in Requests : Call(r)
    BY <1>3, CreateProfileKeeps, CreateNotebookKeeps, PutProfileKeeps, InsertKeeps DEF Call
  <1>4. CASE \E r \in Requests : CallFails(r)
    BY <1>4, PutProfileFailsKeeps, InsertFailsKeeps DEF CallFails
  <1>5. CASE \E u \in Users : AdminCreate(u) \/ AdminDelete(u)
    BY <1>5, AdminKeeps
  <1> QED
    BY <1>1, <1>2, <1>3, <1>4, <1>5 DEF Next

-----------------------------------------------------------------------------
\* What the job and the API know of rows and Profiles stays true.
THEOREM ReconcileInvariant == Spec => []ReconcileInv
  BY ReconcileInit, ReconcileStep, PTL DEF Spec

\* Every variable keeps to its range, the attempts to their limit.
THEOREM ReconcileTyped == Spec => []TypeOK
  BY ReconcileInvariant, PTL DEF ReconcileInv

\* A 201 means a row and, unless an administrator deleted it, a Profile.
THEOREM CreatedIsBoth == Spec => []CreatedMeansBoth
  <1>1. ReconcileInv => CreatedMeansBoth
    BY DEF ReconcileInv, ApiInv, CreatedMeansBoth
  <1> QED
    BY <1>1, ReconcileInvariant, PTL

\* No run and no request fails for a race.
THEOREM NoRaceFails == Spec => []RacesHarmless
  BY ReconcileInvariant, PTL DEF ReconcileInv

\* A finished run billed everybody it saw, and nobody twice unless it read the
\* table again.
THEOREM EveryoneBilledOnce == Spec => []BilledOnce
  <1>1. ReconcileInv => BilledOnce
    BY DEF ReconcileInv, JobInv, JobKnows, BilledOnce
  <1> QED
    BY <1>1, ReconcileInvariant, PTL

\* Billing finds the row it locks.
THEOREM BilledRowsExist == Spec => []BilledHasRow
  <1>1. ReconcileInv => BilledHasRow
    BY DEF ReconcileInv, JobInv, JobKnows, BilledHasRow
  <1> QED
    BY <1>1, ReconcileInvariant, PTL
=============================================================================
