------------------------------ MODULE GpuStop ------------------------------
(***************************************************************************)
(* The sync stops the GPU notebooks of a user who owes more than he has    *)
(* (stopAllGPUNotebooksInNamespace): one List, then for each GPU notebook  *)
(* of the list an Update of the copy it holds, under Kubernetes' check of  *)
(* the resourceVersion, with retries.  CreditSync takes all of it as one   *)
(* step.  A start is impossible meanwhile, as it needs the profile row the *)
(* sync holds; the worker, other stops, deletes and the status updates of  *)
(* the notebook controller take no lock.  The user owes all the time here. *)
(***************************************************************************)
EXTENDS Naturals

CONSTANTS
    Names,         \* notebook names of the namespace
    Absent,
    MaxAttempts,   \* K8sMaxAttempts
    MaxCreates,    \* bound: Notebooks the worker creates
    MaxFaults      \* bound: failed calls and crashes

Object == [kind: {"cpu", "gpu"}, state: {"running", "stopped"}]

ASSUME StopAssumption ==
    /\ MaxAttempts \in Nat \ {0} /\ MaxCreates \in Nat /\ MaxFaults \in Nat
    /\ Absent \notin Object

VARIABLES
    object,    \* the Notebooks of the namespace
    creates,   \* creates left
    pc,        \* where the sync is
    todo,      \* listed notebooks not yet seen to
    nb,        \* the one stopNotebook works on
    copy,      \* the sync's copies
    fresh,     \* names whose copy has the resourceVersion of the object
    attempt,   \* of the List or of stopNotebook
    answer,    \* what stopNotebook returned
    listed,    \* history: names whose object is still the one listed
    hit,       \* history: names with a failed call in this run
    faults     \* faults left

syncVars == <<pc, todo, nb, copy, attempt, answer, hit, faults>>
vars == <<object, creates, fresh, listed, syncVars>>

TypeOK ==
    /\ object \in [Names -> Object \cup {Absent}]
    /\ creates \in 0..MaxCreates
    /\ pc \in {"idle", "list", "next", "try", "get"}
    /\ todo \subseteq Names /\ fresh \subseteq Names
    /\ listed \subseteq Names /\ hit \subseteq Names
    /\ nb \in Names
    /\ copy \in [Names -> Object \cup {Absent}]
    /\ attempt \in 1..MaxAttempts
    /\ answer \in [Names -> {"none", "stopped", "failed"}]
    /\ faults \in 0..MaxFaults

Present == {n \in Names : object[n] # Absent}

Init ==
    /\ object \in [Names -> Object \cup {Absent}]
    /\ creates = MaxCreates
    /\ pc = "idle" /\ todo = {} /\ nb \in Names
    /\ copy = [n \in Names |-> Absent]
    /\ fresh = {} /\ listed = {} /\ hit = {}
    /\ attempt = 1
    /\ answer = [n \in Names |-> "none"]
    /\ faults = MaxFaults

-----------------------------------------------------------------------------
Fault == faults > 0 /\ faults' = faults - 1

Stopped(o) == [kind |-> o.kind, state |-> "stopped"]

Answer(a) ==
    /\ answer' = [answer EXCEPT ![nb] = a]
    /\ todo' = todo \ {nb}
    /\ pc' = "next"
    /\ UNCHANGED attempt

\* Mutant: one attempt too many.
RetryPastLast ==
    IF attempt <= MaxAttempts
    THEN attempt' = attempt + 1 /\ pc' = "try" /\ UNCHANGED <<answer, todo>>
    ELSE Answer("failed")

\* Mutant: an attempt that fails is not counted.
RetryForFree == pc' = "try" /\ UNCHANGED <<attempt, answer, todo>>

\* WithK8sRetry: the closure returned RetryContinue.
Retry ==
    IF attempt < MaxAttempts
    THEN attempt' = attempt + 1 /\ pc' = "try" /\ UNCHANGED <<answer, todo>>
    ELSE Answer("failed")

\* Zero or partial balance, every run while the user owes.
Begin ==
    /\ pc = "idle"
    /\ pc' = "list" /\ attempt' = 1
    /\ answer' = [n \in Names |-> "none"]
    /\ todo' = {} /\ listed' = {} /\ hit' = {}
    /\ UNCHANGED <<object, creates, nb, copy, fresh, faults>>

List ==
    /\ pc = "list"
    /\ pc' = "next"
    /\ copy' = object
    /\ todo' = Present /\ fresh' = Present /\ listed' = Present
    /\ UNCHANGED <<object, creates, nb, attempt, answer, hit, faults>>

ListFails ==
    /\ pc = "list"
    /\ Fault
    /\ IF attempt < MaxAttempts
       THEN attempt' = attempt + 1 /\ UNCHANGED pc
       ELSE pc' = "idle" /\ UNCHANGED attempt
    /\ UNCHANGED <<object, creates, todo, nb, copy, fresh, answer, listed, hit>>

\* Mutant: no notebook is found to have a GPU.
SkipAny(n) == n \in todo

\* Mutant: every notebook is taken for one with a GPU.
SkipNone(n) == n \in {}

\* hasGPUResource.
Skips(n) == n \in todo /\ copy[n].kind = "cpu"

Skip(n) ==
    /\ pc = "next" /\ Skips(n)
    /\ todo' = todo \ {n}
    /\ UNCHANGED <<object, creates, pc, nb, copy, fresh, attempt, answer, listed, hit, faults>>

Take(n) ==
    /\ pc = "next" /\ n \in todo /\ ~ Skips(n)
    /\ pc' = "try" /\ nb' = n /\ attempt' = 1
    /\ UNCHANGED <<object, creates, todo, copy, fresh, answer, listed, hit, faults>>

End ==
    /\ pc = "next" /\ todo = {}
    /\ pc' = "idle"
    /\ UNCHANGED <<object, creates, todo, nb, copy, fresh, attempt, answer, listed, hit, faults>>

-----------------------------------------------------------------------------
(* stopNotebook: one attempt.                                              *)

\* The copy already carries the annotation, be it from the list or from an
\* attempt whose Update did not get through.
AlreadyStopped ==
    /\ pc = "try" /\ copy[nb].state = "stopped"
    /\ Answer("stopped")
    /\ UNCHANGED <<object, creates, nb, copy, fresh, listed, hit, faults>>

\* The annotation goes into the copy, and the copy to Kubernetes.
Annotate ==
    /\ pc = "try" /\ copy[nb].state = "running"
    /\ copy' = [copy EXCEPT ![nb] = Stopped(@)]

\* Kubernetes takes an Update of the latest version only.
Writes(n) == n \in Present /\ n \in fresh

Write(n) ==
    /\ Writes(n)
    /\ object' = [object EXCEPT ![n] = copy'[n]]
    /\ fresh' = fresh \ {n}

UpdateStops ==
    /\ Annotate
    /\ Write(nb)
    /\ Answer("stopped")
    /\ UNCHANGED <<creates, nb, listed, hit, faults>>

\* No answer, or an error; the Update may have been made.
UpdateFails ==
    /\ Annotate
    /\ Fault
    /\ Write(nb) \/ UNCHANGED <<object, fresh>>
    /\ Retry
    /\ hit' = hit \cup {nb}
    /\ UNCHANGED <<creates, nb, listed>>

\* Not found is no conflict: it is retried.
UpdateGone ==
    /\ Annotate
    /\ nb \notin Present
    /\ Retry
    /\ UNCHANGED <<object, creates, nb, fresh, listed, hit, faults>>

Conflict ==
    /\ Annotate
    /\ nb \in Present /\ ~ Writes(nb)
    /\ pc' = "get"
    /\ UNCHANGED <<object, creates, todo, nb, fresh, attempt, answer, listed, hit, faults>>

\* Mutant: the next attempt has the new resourceVersion on the old copy.
KeepCopy == UNCHANGED copy

\* *notebook = *latestNotebook
ReplaceCopy == copy' = [copy EXCEPT ![nb] = object[nb]]

GetLatest ==
    /\ pc = "get" /\ nb \in Present
    /\ ReplaceCopy
    /\ fresh' = fresh \cup {nb}
    /\ Retry
    /\ UNCHANGED <<object, creates, nb, listed, hit, faults>>

GetGone ==
    /\ pc = "get" /\ nb \notin Present
    /\ Answer("stopped")
    /\ UNCHANGED <<object, creates, nb, copy, fresh, listed, hit, faults>>

\* The copy keeps the annotation: the next attempt finds it "already stopped".
GetFails ==
    /\ pc = "get"
    /\ Fault
    /\ Retry
    /\ hit' = hit \cup {nb}
    /\ UNCHANGED <<object, creates, nb, copy, fresh, listed>>

Crash ==
    /\ pc # "idle"
    /\ Fault
    /\ pc' = "idle"
    /\ UNCHANGED <<object, creates, todo, nb, copy, fresh, attempt, answer, listed, hit>>

-----------------------------------------------------------------------------
(* Everybody else.                                                         *)

\* The worker: rows that were queued, or notebooks without a GPU.
Create(n) ==
    /\ n \notin Present /\ creates > 0
    /\ \E k \in {"cpu", "gpu"} :
         object' = [object EXCEPT ![n] = [kind |-> k, state |-> "running"]]
    /\ creates' = creates - 1
    /\ UNCHANGED <<fresh, listed, syncVars>>

Delete(n) ==
    /\ n \in Present
    /\ object' = [object EXCEPT ![n] = Absent]
    /\ fresh' = fresh \ {n} /\ listed' = listed \ {n}
    /\ UNCHANGED <<creates, syncVars>>

\* stopNotebook of the API, or the culling.
OtherStop(n) ==
    /\ n \in Present /\ object[n].state = "running"
    /\ object' = [object EXCEPT ![n] = Stopped(@)]
    /\ fresh' = fresh \ {n}
    /\ UNCHANGED <<creates, listed, syncVars>>

WriteStatus(n) ==
    /\ n \in fresh
    /\ fresh' = fresh \ {n}
    /\ UNCHANGED <<object, creates, listed, syncVars>>

-----------------------------------------------------------------------------
Sync ==
    \/ Begin \/ List \/ ListFails \/ End
    \/ \E n \in Names : Skip(n) \/ Take(n)
    \/ AlreadyStopped \/ UpdateStops \/ UpdateFails \/ UpdateGone
    \/ Conflict \/ GetLatest \/ GetGone \/ GetFails

Others == \E n \in Names : Create(n) \/ Delete(n) \/ OtherStop(n) \/ WriteStatus(n)

Next == Sync \/ Crash \/ Others

Spec == Init /\ [][Next]_vars

\* Every call returns or times out and the schedule starts the sync again.
FairSpec == Spec /\ WF_vars(Sync)

-----------------------------------------------------------------------------
\* What the sync knows of the notebooks it still has to see to.
CopyTrue ==
    pc \in {"next", "try", "get"} =>
        \A n \in todo :
            /\ copy[n] \in Object
            /\ n \in listed => copy[n].kind = object[n].kind
            /\ n \in listed \ hit /\ copy[n].state = "stopped" =>
                 object[n].state = "stopped" \/ (pc = "get" /\ n = nb)

Working ==
    pc \in {"try", "get"} => nb \in todo /\ (nb \in listed => copy[nb].kind = "gpu")

\* A notebook that is answered "stopped" is stopped, unless a call for it failed:
\* no conflict, delete or concurrent stop makes the answer false.
AnswerTrue ==
    \A n \in listed \ hit : answer[n] = "stopped" => object[n].state = "stopped"

StopInv ==
    /\ TypeOK
    /\ listed \subseteq Present
    /\ pc = "list" => \A n \in Names : answer[n] = "none"
    /\ CopyTrue /\ Working /\ AnswerTrue

\* The sync changes a notebook without a GPU only if that took the name of a
\* listed one in the meantime.
CpuSpared ==
    [][\A n \in listed : Sync /\ object'[n] # object[n] => object[n].kind = "gpu"]_vars

\* However often the notebook changes under its hands, the sync gets through
\* the list: the transaction and with it the profile row are not held for ever.
StopEnds == pc # "idle" ~> pc = "idle"

Runs(n) == object[n] # Absent /\ object[n].kind = "gpu" /\ object[n].state = "running"

\* A user who owes and has no credit does not keep a GPU notebook running,
\* though single runs miss one; unless status updates beat every Update for ever.
OwingUserStops ==
    \A n \in Names : SF_vars(nb = n /\ UpdateStops) => (Runs(n) ~> ~ Runs(n))
=============================================================================
