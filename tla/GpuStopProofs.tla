--------------------------- MODULE GpuStopProofs ---------------------------
(***************************************************************************)
(* StopInv is inductive for any set of names and any bounds.  The heart is *)
(* CopyTrue: a copy that carries the annotation while its object does not  *)
(* exists only between a conflict and the Get that replaces it, or after a *)
(* call that failed.                                                       *)
(***************************************************************************)
EXTENDS GpuStop, TLAPS

LEMMA StoppedShape ==
    ASSUME NEW o \in Object
    PROVE  /\ Stopped(o) \in Object /\ Stopped(o) # Absent
           /\ Stopped(o).kind = o.kind /\ Stopped(o).state = "stopped"
  BY StopAssumption DEF Stopped, Object

LEMMA StopInit == Init => StopInv
  BY StopAssumption DEF Init, StopInv, TypeOK, Present, CopyTrue, Working, AnswerTrue

LEMMA StopStutter == StopInv /\ UNCHANGED vars => StopInv'
  BY DEF StopInv, TypeOK, Present, CopyTrue, Working, AnswerTrue, vars, syncVars

-----------------------------------------------------------------------------
(* How the attempts end.                                                   *)

\* Answering needs the answer to be true, and leaves the rest of the list alone.
LEMMA AnswerTyped ==
    ASSUME TypeOK, NEW a \in {"stopped", "failed"}, Answer(a)
    PROVE  /\ answer' \in [Names -> {"none", "stopped", "failed"}]
           /\ todo' \subseteq Names /\ pc' = "next" /\ attempt' \in 1..MaxAttempts
           /\ \A n \in Names : n # nb => answer'[n] = answer[n]
           /\ answer'[nb] = a /\ todo' = todo \ {nb}
  BY DEF TypeOK, Answer

\* A retry goes on with the same notebook or answers "failed".
LEMMA RetryTyped ==
    ASSUME TypeOK, Retry
    PROVE  /\ answer' \in [Names -> {"none", "stopped", "failed"}]
           /\ todo' \subseteq todo /\ attempt' \in 1..MaxAttempts
           /\ \/ pc' = "try" /\ todo' = todo
              \/ pc' = "next" /\ nb \notin todo'
           /\ \A n \in Names : answer'[n] = "stopped" => answer[n] = "stopped"
  <1>1. CASE attempt < MaxAttempts
    BY <1>1, StopAssumption DEF TypeOK, Retry
  <1>2. CASE ~ (attempt < MaxAttempts)
    <2>1. Answer("failed")
      BY <1>2 DEF Retry
    <2> QED
      BY <2>1 DEF TypeOK, Answer
  <1> QED
    BY <1>1, <1>2

LEMMA FaultTyped == TypeOK /\ Fault => faults' \in 0..MaxFaults
  BY StopAssumption DEF TypeOK, Fault

\* The annotated copy is a stopped notebook of the same kind.
LEMMA AnnotateTyped ==
    ASSUME StopInv, Annotate
    PROVE  /\ copy' \in [Names -> Object \cup {Absent}]
           /\ pc = "try" /\ nb \in todo /\ nb \in Names
           /\ copy'[nb] \in Object /\ copy'[nb] # Absent
           /\ copy'[nb].kind = copy[nb].kind /\ copy'[nb].state = "stopped"
           /\ \A n \in Names : n # nb => copy'[n] = copy[n]
  <1>1. pc = "try" /\ nb \in todo /\ nb \in Names /\ copy[nb] \in Object
    BY DEF StopInv, Annotate, Working, CopyTrue, TypeOK
  <1>2. copy' = [copy EXCEPT ![nb] = Stopped(copy[nb])]
    BY DEF Annotate
  <1> QED
    BY <1>1, <1>2, StoppedShape DEF StopInv, TypeOK

-----------------------------------------------------------------------------
(* The actions.                                                            *)

LEMMA BeginKeeps == StopInv /\ Begin => StopInv'
  BY StopAssumption DEF StopInv, TypeOK, Present, CopyTrue, Working, AnswerTrue, Begin

LEMMA ListKeeps == StopInv /\ List => StopInv'
  BY DEF StopInv, TypeOK, Present, CopyTrue, Working, AnswerTrue, List

LEMMA ListFailsKeeps == StopInv /\ ListFails => StopInv'
  BY StopAssumption, FaultTyped
     DEF StopInv, TypeOK, Present, CopyTrue, Working, AnswerTrue, ListFails

LEMMA SkipKeeps == ASSUME StopInv, NEW n \in Names, Skip(n) PROVE StopInv'
  BY DEF StopInv, TypeOK, Present, CopyTrue, Working, AnswerTrue, Skip

LEMMA TakeKeeps == ASSUME StopInv, NEW n \in Names, Take(n) PROVE StopInv'
  <1>1. copy[n] \in Object /\ copy[n].kind # "cpu"
    BY DEF StopInv, CopyTrue, Take, Skips
  <1>2. copy[n].kind = "gpu"
    BY <1>1 DEF Object
  <1> QED
    BY <1>2, StopAssumption DEF StopInv, TypeOK, Present, CopyTrue, Working, AnswerTrue, Take

LEMMA EndKeeps == StopInv /\ End => StopInv'
  BY DEF StopInv, TypeOK, Present, CopyTrue, Working, AnswerTrue, End

LEMMA CrashKeeps == StopInv /\ Crash => StopInv'
  BY FaultTyped DEF StopInv, TypeOK, Present, CopyTrue, Working, AnswerTrue, Crash

LEMMA AlreadyStoppedKeeps == StopInv /\ AlreadyStopped => StopInv'
  <1> SUFFICES ASSUME StopInv, AlreadyStopped PROVE StopInv'
    OBVIOUS
  <1>1. nb \in todo /\ (nb \in listed \ hit => object[nb].state = "stopped")
    BY DEF StopInv, Working, CopyTrue, AlreadyStopped
  <1> QED
    BY <1>1, AnswerTyped
       DEF StopInv, TypeOK, Present, CopyTrue, Working, AnswerTrue, AlreadyStopped

LEMMA GetGoneKeeps == StopInv /\ GetGone => StopInv'
  BY AnswerTyped DEF StopInv, TypeOK, Present, CopyTrue, Working, AnswerTrue, GetGone

LEMMA UpdateStopsKeeps == StopInv /\ UpdateStops => StopInv'
  <1> SUFFICES ASSUME StopInv, UpdateStops PROVE StopInv'
    OBVIOUS
  <1>1. /\ object' = [object EXCEPT ![nb] = copy'[nb]]
        /\ fresh' = fresh \ {nb}
    BY DEF UpdateStops, Write
  <1>2. TypeOK'
    BY <1>1, AnnotateTyped, AnswerTyped DEF StopInv, TypeOK, UpdateStops
  <1>3. (listed \subseteq Present)'
    BY <1>1, AnnotateTyped DEF StopInv, TypeOK, UpdateStops, Present
  <1>4. CopyTrue' /\ Working' /\ AnswerTrue'
    BY <1>1, AnnotateTyped, AnswerTyped
       DEF StopInv, TypeOK, CopyTrue, Working, AnswerTrue, UpdateStops
  <1> QED
    BY <1>2, <1>3, <1>4, AnswerTyped DEF StopInv, UpdateStops

\* A call for nb failed: nothing is claimed of it any more.
LEMMA UpdateFailsKeeps == StopInv /\ UpdateFails => StopInv'
  <1> SUFFICES ASSUME StopInv, UpdateFails PROVE StopInv'
    OBVIOUS
  <1>1. /\ \/ object' = [object EXCEPT ![nb] = copy'[nb]] /\ fresh' = fresh \ {nb}
           \/ UNCHANGED <<object, fresh>>
        /\ hit' = hit \cup {nb} /\ UNCHANGED <<creates, nb, listed>>
        /\ Annotate
    BY DEF UpdateFails, Write
  <1>2. TypeOK'
    BY <1>1, AnnotateTyped, RetryTyped, FaultTyped DEF StopInv, TypeOK, UpdateFails
  <1>3. (listed \subseteq Present)'
    BY <1>1, AnnotateTyped DEF StopInv, TypeOK, Present
  <1>4. nb \in listed => object'[nb].kind = object[nb].kind
    BY <1>1, AnnotateTyped DEF StopInv, TypeOK, CopyTrue
  <1>5. \A n \in Names : n # nb => object'[n] = object[n]
    BY <1>1 DEF StopInv, TypeOK
  <1>6. CopyTrue' /\ Working' /\ AnswerTrue'
    BY <1>1, <1>4, <1>5, AnnotateTyped, RetryTyped
       DEF StopInv, TypeOK, CopyTrue, Working, AnswerTrue, UpdateFails
  <1> QED
    BY <1>2, <1>3, <1>6, RetryTyped DEF StopInv, UpdateFails

LEMMA UpdateGoneKeeps == StopInv /\ UpdateGone => StopInv'
  <1> SUFFICES ASSUME StopInv, UpdateGone PROVE StopInv'
    OBVIOUS
  <1>1. nb \notin listed /\ UNCHANGED <<object, creates, nb, fresh, listed, hit, faults>>
    BY DEF StopInv, UpdateGone
  <1>2. TypeOK' /\ (listed \subseteq Present)'
    BY <1>1, AnnotateTyped, RetryTyped DEF StopInv, TypeOK, Present, UpdateGone
  <1>3. CopyTrue' /\ Working' /\ AnswerTrue'
    BY <1>1, AnnotateTyped, RetryTyped
       DEF StopInv, TypeOK, CopyTrue, Working, AnswerTrue, UpdateGone
  <1> QED
    BY <1>2, <1>3, RetryTyped DEF StopInv, UpdateGone

LEMMA ConflictKeeps == StopInv /\ Conflict => StopInv'
  <1> SUFFICES ASSUME StopInv, Conflict PROVE StopInv'
    OBVIOUS
  <1>1. /\ UNCHANGED <<object, creates, todo, nb, fresh, attempt, answer, listed, hit, faults>>
        /\ pc' = "get"
    BY DEF Conflict
  <1> QED
    BY <1>1, AnnotateTyped
       DEF StopInv, TypeOK, Present, CopyTrue, Working, AnswerTrue, Conflict

LEMMA GetLatestKeeps == StopInv /\ GetLatest => StopInv'
  <1> SUFFICES ASSUME StopInv, GetLatest PROVE StopInv'
    OBVIOUS
  <1>1. /\ copy' = [copy EXCEPT ![nb] = object[nb]] /\ fresh' = fresh \cup {nb}
        /\ object[nb] \in Object
        /\ UNCHANGED <<object, creates, nb, listed, hit, faults>>
    BY DEF StopInv, TypeOK, GetLatest, ReplaceCopy, Present
  <1>2. nb \in todo /\ (nb \in listed => copy[nb].kind = object[nb].kind /\ copy[nb].kind = "gpu")
    BY DEF StopInv, CopyTrue, Working, GetLatest
  <1>3. TypeOK' /\ (listed \subseteq Present)'
    BY <1>1, RetryTyped DEF StopInv, TypeOK, Present, GetLatest
  <1>4. CopyTrue' /\ Working' /\ AnswerTrue'
    BY <1>1, <1>2, RetryTyped
       DEF StopInv, TypeOK, CopyTrue, Working, AnswerTrue, GetLatest
  <1> QED
    BY <1>3, <1>4, RetryTyped DEF StopInv, GetLatest

LEMMA GetFailsKeeps == StopInv /\ GetFails => StopInv'
  BY RetryTyped, FaultTyped
     DEF StopInv, TypeOK, Present, CopyTrue, Working, AnswerTrue, GetFails

\* What the others do to a notebook takes it off the list, stops it, or changes
\* neither its kind nor its state.
LEMMA OthersKeep == StopInv /\ Others => StopInv'
  <1> SUFFICES ASSUME StopInv, NEW n \in Names,
                      Create(n) \/ Delete(n) \/ OtherStop(n) \/ WriteStatus(n)
               PROVE  StopInv'
    BY DEF Others
  <1>1. CASE Create(n)
    BY <1>1, StopAssumption DEF StopInv, TypeOK, Present, CopyTrue, Working, AnswerTrue,
                                Create, syncVars, Object
  <1>2. CASE Delete(n)
    BY <1>2 DEF StopInv, TypeOK, Present, CopyTrue, Working, AnswerTrue, Delete, syncVars
  <1>3. CASE OtherStop(n)
    BY <1>3, StoppedShape
       DEF StopInv, TypeOK, Present, CopyTrue, Working, AnswerTrue, OtherStop, syncVars
  <1>4. CASE WriteStatus(n)
    BY <1>4 DEF StopInv, TypeOK, Present, CopyTrue, Working, AnswerTrue, WriteStatus, syncVars
  <1> QED
    BY <1>1, <1>2, <1>3, <1>4

LEMMA StopStep == StopInv /\ [Next]_vars => StopInv'
  <1> SUFFICES ASSUME StopInv, Next PROVE StopInv'
    BY StopStutter
  <1> QED
    BY BeginKeeps, ListKeeps, ListFailsKeeps, SkipKeeps, TakeKeeps, EndKeeps, CrashKeeps,
       AlreadyStoppedKeeps, UpdateStopsKeeps, UpdateFailsKeeps, UpdateGoneKeeps, ConflictKeeps,
       GetLatestKeeps, GetGoneKeeps, GetFailsKeeps, OthersKeep
       DEF Next, Sync

-----------------------------------------------------------------------------
\* The invariant of the stop, for any names, attempts, creates and faults.
THEOREM StopInvariant == Spec => []StopInv
  BY StopInit, StopStep, PTL DEF Spec

\* TypeOK of the run, for every instance.
THEOREM StopTyped == Spec => []TypeOK
  <1>1. StopInv => TypeOK
    BY DEF StopInv
  <1> QED
    BY <1>1, StopInvariant, PTL

\* The answer "stopped" of stopNotebook is true unless a call for the notebook
\* failed.
THEOREM StoppedMeansStopped == Spec => []AnswerTrue
  <1>1. StopInv => AnswerTrue
    BY DEF StopInv
  <1> QED
    BY <1>1, StopInvariant, PTL

\* A step of the sync writes the notebook it works on and no other.
LEMMA SyncWritesOne ==
    ASSUME StopInv, Sync
    PROVE  \/ object' = object
           \/ pc = "try" /\ \A n \in Names : n # nb => object'[n] = object[n]
  BY DEF StopInv, TypeOK, Sync, Begin, List, ListFails, End, Skip, Take, AlreadyStopped,
         UpdateStops, UpdateFails, UpdateGone, Conflict, GetLatest, GetGone, GetFails,
         Annotate, Write

\* No step of the sync changes a listed notebook that has no GPU.
THEOREM CpuNotebooksSpared == Spec => CpuSpared
  <1> DEFINE Spares == \A n \in listed : Sync /\ object'[n] # object[n] => object[n].kind = "gpu"
  <1>1. StopInv /\ [Next]_vars => [Spares]_vars
    <2> SUFFICES ASSUME StopInv, NEW n \in listed, Sync, object'[n] # object[n]
                 PROVE  object[n].kind = "gpu"
      OBVIOUS
    <2>1. n \in Names /\ n = nb /\ pc = "try"
      BY SyncWritesOne DEF StopInv, TypeOK
    <2> QED
      BY <2>1 DEF StopInv, Working, CopyTrue
  <1> QED
    BY <1>1, StopInvariant, PTL DEF Spec, CpuSpared
=============================================================================
