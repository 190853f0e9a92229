-------------------------- MODULE ProfileReconcile --------------------------
(***************************************************************************)
(* A profile is a row of the table profiles and a Kubeflow Profile, whose  *)
(* namespace has the same name.  The sync job (main) reads both sides,     *)
(* adds what one of them lacks, and bills everybody.  Meanwhile the API    *)
(* creates profiles (createProfile, the head of createNotebook) and        *)
(* administrators create and delete them.  Billing is one step per user    *)
(* here; CreditSync looks into it.                                         *)
(***************************************************************************)
EXTENDS Naturals

CONSTANTS
    Users,
    Requests,
    Job,           \* the sync job, beside the requests
    MaxAttempts,   \* DBMaxAttempts, K8sMaxAttempts, externalApiMaxAttempts
    MaxAdmin,      \* bound: steps of administrators
    MaxFaults      \* bound: failed calls and crashes

ASSUME ReconcileAssumption ==
    /\ Users # {} /\ Job \notin Requests
    /\ MaxAttempts \in Nat \ {0} /\ MaxAdmin \in Nat /\ MaxFaults \in Nat

VARIABLES
    namespace,   \* the Profile object; "bad": without owner, unreadable for the job
    row,         \* is there a row?
    pc,          \* where the job is
    attempt,
    k8s, db,     \* k8sProfiles and dbProfiles: how often each user is in them
    todo,        \* what the loop of this phase has not reached
    handled,     \* how often the job came to bill each user
    stage, user, kind, tries,   \* the requests
    seen,        \* history: users with a row or a readable Profile at the List
    reread,      \* history: a read of the table failed midway
    removed,     \* history: requests whose Profile an administrator deleted
    hit,         \* history: requests, and the job, with a failed call
    admin, faults

jobVars == <<pc, attempt, k8s, db, todo, handled, seen, reread>>
apiVars == <<stage, user, kind, tries, removed>>
vars == <<namespace, row, jobVars, apiVars, hit, admin, faults>>

Bag == [Users -> Nat]
None == [u \in Users |-> 0]
Ended == {"idle", "exited", "finished"}

TypeOK ==
    /\ namespace \in [Users -> {"absent", "good", "bad"}]
    /\ row \in [Users -> BOOLEAN]
    /\ pc \in Ended \cup {"listK8s", "readDb", "addDb", "addK8s", "token", "process"}
    /\ attempt \in 1..MaxAttempts
    /\ k8s \in Bag /\ db \in Bag /\ todo \in Bag /\ handled \in Bag
    /\ stage \in [Requests -> {"free", "k8s", "insert", "done", "failed"}]
    /\ user \in [Requests -> Users]
    /\ kind \in [Requests -> {"profile", "notebook"}]
    /\ tries \in [Requests -> 1..MaxAttempts]
    /\ seen \subseteq Users /\ reread \in BOOLEAN
    /\ removed \subseteq Requests /\ hit \subseteq Requests \cup {Job}
    /\ admin \in 0..MaxAdmin /\ faults \in 0..MaxFaults

Init ==
    /\ namespace \in [Users -> {"absent", "good", "bad"}]
    /\ row \in [Users -> BOOLEAN]
    /\ pc = "idle" /\ attempt = 1
    /\ k8s = None /\ db = None /\ todo = None /\ handled = None
    /\ stage = [r \in Requests |-> "free"]
    /\ user \in [Requests -> Users]
    /\ kind \in [Requests -> {"profile", "notebook"}]
    /\ tries = [r \in Requests |-> 1]
    /\ seen = {} /\ reread = FALSE /\ removed = {} /\ hit = {}
    /\ admin = MaxAdmin /\ faults = MaxFaults

Fault(who) == faults > 0 /\ faults' = faults - 1 /\ hit' = hit \cup {who}

\* Create of a Profile that may be there; INSERT ... ON CONFLICT DO NOTHING.
PutNamespace(u) ==
    namespace' = [namespace EXCEPT ![u] = IF @ = "absent" THEN "good" ELSE @]
PutRow(u) == row' = [row EXCEPT ![u] = TRUE]

-----------------------------------------------------------------------------
(* The job.                                                                *)

\* One run at a time (concurrencyPolicy Forbid), after failures too.
Start ==
    /\ pc \in Ended
    /\ pc' = "listK8s" /\ attempt' = 1
    /\ k8s' = None /\ db' = None /\ todo' = None /\ handled' = None
    /\ seen' = {} /\ reread' = FALSE /\ hit' = hit \ {Job}
    /\ UNCHANGED <<namespace, row, apiVars, admin, faults>>

\* Mutant: one attempt too many.
AgainPastLast ==
    \/ attempt <= MaxAttempts /\ attempt' = attempt + 1 /\ UNCHANGED pc
    \/ pc' = "exited" /\ UNCHANGED attempt

\* The next attempt, or the end of the run: the last attempt or the deadline.
Again ==
    \/ attempt < MaxAttempts /\ attempt' = attempt + 1 /\ UNCHANGED pc
    \/ pc' = "exited" /\ UNCHANGED attempt

\* An error, or an answer that is lost.
Fails == Fault(Job) /\ Again /\ UNCHANGED <<k8s, todo, handled, seen, apiVars, admin>>

ListK8s ==
    /\ pc = "listK8s"
    /\ pc' = "readDb" /\ attempt' = 1
    /\ k8s' = [u \in Users |-> IF namespace[u] = "good" THEN 1 ELSE 0]
    /\ seen' = {u \in Users : row[u] \/ namespace[u] = "good"}
    /\ UNCHANGED <<namespace, row, db, todo, handled, reread, apiVars, hit, admin, faults>>

ListK8sFails == pc = "listK8s" /\ Fails /\ UNCHANGED <<namespace, row, db, reread>>

\* Mutant: what Kubernetes has more is overlooked.
K8sOrphansNone(d) == None

\* Mutants: a match is never found, always found.
DbOrphansAll(d) == d
DbOrphansNone(d) == None

\* findOrphanProfiles.
K8sOrphans(d) == [u \in Users |-> IF d[u] = 0 THEN k8s[u] ELSE 0]
DbOrphans(d) == [u \in Users |-> IF k8s[u] = 0 THEN d[u] ELSE 0]

\* The slice is declared outside the closure: rows of a failed attempt stay.
ReadDb ==
    /\ pc = "readDb"
    /\ pc' = "addDb" /\ attempt' = 1
    /\ db' = [u \in Users |-> IF row[u] THEN db[u] + 1 ELSE db[u]]
    /\ todo' = K8sOrphans(db')
    /\ UNCHANGED <<namespace, row, k8s, handled, seen, reread, apiVars, hit, admin, faults>>

ReadDbFails ==
    /\ pc = "readDb"
    /\ Fails
    /\ \E read \in SUBSET {u \in Users : row[u]} :
         /\ db' = [u \in Users |-> IF u \in read THEN db[u] + 1 ELSE db[u]]
         /\ reread' = (reread \/ read # {})
    /\ UNCHANGED <<namespace, row>>

\* The loops take their list in some order, one at a time.
Current == CHOOSE u \in Users : todo[u] > 0
Reaches == \E u \in Users : todo[u] > 0
Passed == [todo EXCEPT ![Current] = @ - 1]

\* Mutant: no SELECT after an INSERT that met a row.
AddToDbNoSelect ==
    /\ pc = "addDb" /\ Reaches
    /\ IF row[Current]
       THEN Again /\ UNCHANGED <<row, todo>>
       ELSE PutRow(Current) /\ todo' = Passed /\ attempt' = 1 /\ UNCHANGED pc
    /\ UNCHANGED <<namespace, k8s, db, handled, seen, reread, apiVars, hit, admin, faults>>

AddToDb ==
    /\ pc = "addDb" /\ Reaches
    /\ PutRow(Current)
    /\ todo' = Passed /\ attempt' = 1
    /\ UNCHANGED <<namespace, pc, k8s, db, handled, seen, reread, apiVars, hit, admin, faults>>

AddToDbFails ==
    /\ pc = "addDb" /\ Reaches
    /\ Fails
    /\ PutRow(Current) \/ UNCHANGED row
    /\ UNCHANGED <<namespace, db, reread>>

\* dbOrphans was computed before the rows were added; they are no part of it.
DbAdded ==
    /\ pc = "addDb" /\ ~ Reaches
    /\ pc' = "addK8s" /\ todo' = DbOrphans(db) /\ attempt' = 1
    /\ UNCHANGED <<namespace, row, k8s, db, handled, seen, reread, apiVars, hit, admin, faults>>

AddToK8s ==
    /\ pc = "addK8s" /\ Reaches
    /\ PutNamespace(Current)
    /\ k8s' = [k8s EXCEPT ![Current] = @ + 1]
    /\ todo' = Passed /\ attempt' = 1
    /\ UNCHANGED <<row, pc, db, handled, seen, reread, apiVars, hit, admin, faults>>

AddToK8sFails ==
    /\ pc = "addK8s" /\ Reaches
    /\ Fails
    /\ PutNamespace(Current) \/ UNCHANGED namespace
    /\ UNCHANGED <<row, db, reread>>

K8sAdded ==
    /\ pc = "addK8s" /\ ~ Reaches
    /\ pc' = "token" /\ attempt' = 1
    /\ UNCHANGED <<namespace, row, k8s, db, todo, handled, seen, reread, apiVars, hit, admin, faults>>

Token ==
    /\ pc = "token"
    /\ pc' = "process" /\ todo' = k8s
    /\ UNCHANGED <<namespace, row, attempt, k8s, db, handled, seen, reread, apiVars, hit, admin, faults>>

\* A retry sends the request again whose body the first attempt has read: it
\* may fail although Keycloak is well.
TokenFails ==
    /\ pc = "token"
    /\ Fault(Job) \/ (attempt > 1 /\ UNCHANGED <<hit, faults>>)
    /\ Again
    /\ UNCHANGED <<namespace, row, k8s, db, todo, handled, seen, reread, apiVars, admin>>

\* Billed, or given up after its retries: the loop goes on.
Process ==
    /\ pc = "process" /\ Reaches
    /\ handled' = [handled EXCEPT ![Current] = @ + 1]
    /\ todo' = Passed
    /\ UNCHANGED <<namespace, row, pc, attempt, k8s, db, seen, reread, apiVars, hit, admin, faults>>

Finish ==
    /\ pc = "process" /\ ~ Reaches
    /\ pc' = "finished"
    /\ UNCHANGED <<namespace, row, attempt, k8s, db, todo, handled, seen, reread, apiVars, hit, admin, faults>>

\* A crash, or a signal, which processProfiles heeds between two users.
Crash ==
    /\ pc \notin Ended
    /\ Fault(Job)
    /\ pc' = "idle"
    /\ UNCHANGED <<namespace, row, attempt, k8s, db, todo, handled, seen, reread, apiVars, admin>>

Runs ==
    \/ Start \/ ListK8s \/ ReadDb \/ AddToDb \/ DbAdded
    \/ AddToK8s \/ K8sAdded \/ Token \/ Process \/ Finish

Breaks ==
    \/ ListK8sFails \/ ReadDbFails \/ AddToDbFails \/ AddToK8sFails \/ TokenFails \/ Crash

-----------------------------------------------------------------------------
(* The API.                                                                *)

CreateProfile(r) ==
    /\ stage[r] = "free" /\ kind[r] = "profile"
    /\ stage' = [stage EXCEPT ![r] = "k8s"]
    /\ UNCHANGED <<namespace, row, jobVars, user, kind, tries, removed, hit, admin, faults>>

\* createNotebook asks the table only.
CreateNotebook(r) ==
    /\ stage[r] = "free" /\ kind[r] = "notebook"
    /\ stage' = [stage EXCEPT ![r] = IF row[user[r]] THEN "done" ELSE "k8s"]
    /\ UNCHANGED <<namespace, row, jobVars, user, kind, tries, removed, hit, admin, faults>>

\* Mutant: what createKubeflowProfile returns is not looked at.
RetryCallIgnored(r) ==
    \/ /\ tries[r] < MaxAttempts
       /\ tries' = [tries EXCEPT ![r] = @ + 1] /\ UNCHANGED stage
    \/ stage' = [stage EXCEPT ![r] = "insert"] /\ UNCHANGED tries

\* The next attempt, or an error for the client.
RetryCall(r) ==
    \/ /\ tries[r] < MaxAttempts
       /\ tries' = [tries EXCEPT ![r] = @ + 1] /\ UNCHANGED stage
    \/ stage' = [stage EXCEPT ![r] = "failed"] /\ UNCHANGED tries

PutProfile(r) ==
    /\ stage[r] = "k8s"
    /\ PutNamespace(user[r])
    /\ stage' = [stage EXCEPT ![r] = "insert"]
    /\ tries' = [tries EXCEPT ![r] = 1]
    /\ removed' = removed \ {r}
    /\ UNCHANGED <<row, jobVars, user, kind, hit, admin, faults>>

PutProfileFails(r) ==
    /\ stage[r] = "k8s"
    /\ Fault(r)
    /\ PutNamespace(user[r]) \/ UNCHANGED namespace
    /\ RetryCall(r)
    /\ UNCHANGED <<row, jobVars, user, kind, removed, admin>>

\* createProfile takes "no rows" for an error, tries to the last and then
\* ignores it.
Insert(r) ==
    /\ stage[r] = "insert"
    /\ PutRow(user[r])
    /\ IF row[user[r]] /\ kind[r] = "profile" /\ tries[r] < MaxAttempts
       THEN tries' = [tries EXCEPT ![r] = @ + 1] /\ UNCHANGED stage
       ELSE stage' = [stage EXCEPT ![r] = "done"] /\ UNCHANGED tries
    /\ UNCHANGED <<namespace, jobVars, user, kind, removed, hit, admin, faults>>

\* Also the deadline, which hides "no rows"; createNotebook inserts once.
InsertFails(r) ==
    /\ stage[r] = "insert"
    /\ Fault(r)
    /\ PutRow(user[r]) \/ UNCHANGED row
    /\ RetryCall(r)
    /\ kind[r] = "notebook" => stage'[r] = "failed"
    /\ UNCHANGED <<namespace, jobVars, user, kind, removed, admin>>

Call(r) == CreateProfile(r) \/ CreateNotebook(r) \/ PutProfile(r) \/ Insert(r)
CallFails(r) == PutProfileFails(r) \/ InsertFails(r)

-----------------------------------------------------------------------------
(* Administrators.                                                         *)

AdminCreate(u) ==
    /\ namespace[u] = "absent" /\ admin > 0
    /\ \E n \in {"good", "bad"} : namespace' = [namespace EXCEPT ![u] = n]
    /\ admin' = admin - 1
    /\ UNCHANGED <<row, jobVars, apiVars, hit, faults>>

AdminDelete(u) ==
    /\ namespace[u] # "absent" /\ admin > 0
    /\ namespace' = [namespace EXCEPT ![u] = "absent"]
    /\ admin' = admin - 1
    /\ removed' = removed \cup {r \in Requests : user[r] = u}
    /\ UNCHANGED <<row, jobVars, stage, user, kind, tries, hit, faults>>

Next ==
    \/ Runs \/ Breaks
    \/ \E r \in Requests : Call(r) \/ CallFails(r)
    \/ \E u \in Users : AdminCreate(u) \/ AdminDelete(u)

Spec == Init /\ [][Next]_vars

\* The schedule starts the job again and every call returns or times out.
FairSpec == Spec /\ WF_vars(Runs)

-----------------------------------------------------------------------------
\* A 201, or a createNotebook that goes on, means that the user has a row, and
\* a 201 that he has the Profile too unless an administrator deleted it since.
\* No race with the job or another request makes the answer wrong.
CreatedMeansBoth ==
    \A r \in Requests :
        stage[r] = "done" =>
            /\ row[user[r]]
            /\ kind[r] = "profile" /\ r \notin removed => namespace[user[r]] # "absent"

\* Whoever comes first, nobody fails for having met what the other created:
\* an error means that a call failed.
RacesHarmless ==
    /\ pc = "exited" => Job \in hit
    /\ \A r \in Requests : stage[r] = "failed" => r \in hit

\* A run that finishes came to everybody who had a row or a readable Profile at
\* its List, and to nobody twice unless a read of the table failed midway.
BilledOnce ==
    pc = "finished" =>
        \A u \in Users :
            /\ u \in seen => handled[u] > 0
            /\ ~ reread => handled[u] <= 1

\* Billing locks a row by user_id: everybody it comes to has one.
BilledHasRow == pc = "process" => \A u \in Users : todo[u] > 0 => row[u]

\* The job mends what requests, crashes and administrators leave behind.
Converges ==
    \A u \in Users :
        /\ row[u] ~> namespace[u] # "absent"
        /\ namespace[u] = "good" ~> row[u] \/ namespace[u] # "good"
=============================================================================
