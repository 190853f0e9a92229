--------------------------- MODULE ListNotebooks ---------------------------
(***************************************************************************)
(* listNotebooks, asked page after page by one client.  A request reads a  *)
(* page of rows and starts a goroutine for each row whose Notebook should  *)
(* exist; three at a time ask Kubernetes, send what they got into a        *)
(* channel, and the handler collects it.  Rows and Notebooks change all    *)
(* the while.                                                              *)
(*                                                                         *)
(* Each request has its own context, semaphore and channel.  What is left  *)
(* of its goroutines when it has answered touches no other request, so     *)
(* the model lets them end before the client asks again.                   *)
(***************************************************************************)
EXTENDS Integers, FiniteSets, Sequences, SequencesExt

CONSTANTS
    Names,         \* notebook names of the namespace
    Limit,         \* rows of a page
    Permits,       \* capacity of the semaphore
    MaxAttempts,   \* K8sMaxAttempts
    MaxChanges,    \* bound: changes of rows and Notebooks
    MaxFaults      \* bound: failed calls and deadlines

ASSUME ListAssumption ==
    /\ IsFiniteSet(Names)
    /\ Limit \in Nat \ {0} /\ Permits \in Nat \ {0} /\ MaxAttempts \in Nat \ {0}
    /\ MaxChanges \in Nat /\ MaxFaults \in Nat

VARIABLES
    table,      \* the rows, by created_at in the order the client asks for
    event,      \* the latest event of a row
    object,     \* the Notebooks
    offset,     \* of the next page
    pc,         \* the handler: "idle" or "collect"
    page, read, \* notebooks: their names, their events
    g,          \* the goroutines
    semaphore,  \* permits taken
    tries, answer,
    resultChan, \* what goroutines sent; the order of the channel plays no part
    left,       \* results the handler waits for
    k8sResults, \* what it has, by the index of the row
    cancelled,  \* k8sCtx was cancelled
    expired,    \* the context of the request is done
    reply, shown, \* the states of the rows of the page
    had,        \* history: states each row of the page has had since it was read
    start,      \* history: rows there when the client asked for the first page
    got,        \* history: names it was shown in this pass
    dropped,    \* history: a row was deleted in this pass
    complete,   \* history: the last reply had no next page
    changes, faults

clientVars == <<offset, start, got, complete>>
handlerVars == <<pc, page, read, left, k8sResults, cancelled, reply, shown>>
taskVars == <<g, semaphore, tries, answer>>
worldVars == <<table, event, object, dropped, changes>>
vars == <<clientVars, handlerVars, taskVars, worldVars, resultChan, expired, had, faults>>

Events == {"pending", "applied", "failed"}
Objects == {"absent", "opening", "running", "stopped"}
States == {"failed", "opening", "orphaned", "running", "stopped"}

\* k8sResult, with "error" for its err.
K8sResult == [index : 1..Limit, object : Objects \cup {"error"}]

TypeOK ==
    /\ table \in Seq(Names) /\ IsInjective(table)
    /\ event \in [Names -> Events] /\ read \in [Names -> Events]
    /\ object \in [Names -> Objects]
    /\ offset \in Nat
    /\ pc \in {"idle", "collect"}
    /\ page \in Seq(Names) /\ Len(page) <= Limit
    /\ g \in [Names -> {"none", "wait", "check", "get", "send"}]
    /\ semaphore \in 0..Permits
    /\ tries \in [Names -> 1..MaxAttempts]
    /\ answer \in [Names -> Objects \cup {"error"}]
    /\ resultChan \subseteq K8sResult
    /\ k8sResults \in [1..Limit -> Objects \cup {"none"}]
    /\ left \in 0..Limit
    /\ cancelled \in BOOLEAN /\ expired \in BOOLEAN
    /\ reply \in {"none", "ok", "error"}
    /\ shown \in [1..Limit -> States] /\ had \in [Names -> SUBSET States]
    /\ start \subseteq Names /\ got \subseteq Names
    /\ dropped \in BOOLEAN /\ complete \in BOOLEAN
    /\ changes \in 0..MaxChanges /\ faults \in 0..MaxFaults

\* Rows whose Notebooks run; the other cases come from the steps below.  No
\* name is special, so one order of them will do.
Init ==
    /\ \E rows \in SUBSET Names : table = SetToSeq(rows)
    /\ event = [n \in Names |-> IF Contains(table, n) THEN "applied" ELSE "pending"]
    /\ object = [n \in Names |-> IF Contains(table, n) THEN "running" ELSE "absent"]
    /\ offset = 0
    /\ pc = "idle" /\ page = << >>
    /\ read = [n \in Names |-> "pending"]
    /\ g = [n \in Names |-> "none"]
    /\ semaphore = 0
    /\ tries = [n \in Names |-> 1]
    /\ answer = [n \in Names |-> "absent"]
    /\ resultChan = {} /\ left = 0 /\ k8sResults = [i \in 1..Limit |-> "none"]
    /\ cancelled = FALSE /\ expired = FALSE
    /\ reply = "none" /\ shown = [i \in 1..Limit |-> "opening"]
    /\ had = [n \in Names |-> {}]
    /\ start = {} /\ got = {} /\ dropped = FALSE /\ complete = FALSE
    /\ changes = MaxChanges /\ faults = MaxFaults

Fault == faults > 0 /\ faults' = faults - 1

\* determineNotebookState.
State(e, o) ==
    CASE o \in {"opening", "running", "stopped"} -> o
      [] o = "absent" /\ e = "failed"  -> "failed"
      [] o = "absent" /\ e = "pending" -> "opening"
      [] o = "absent" /\ e = "applied" -> "orphaned"

\* The state of a row: its Notebook counts once the event says it was made.
StateOf(e, o) == State(e, IF e = "applied" THEN o ELSE "absent")

-----------------------------------------------------------------------------
(* The handler.                                                            *)

\* ORDER BY created_at LIMIT OFFSET.
Upto(n) == IF n < Len(table) THEN n ELSE Len(table)

ReadPage ==
    /\ pc = "idle" /\ \A n \in Names : g[n] = "none"
    /\ pc' = "collect"
    /\ page' = SubSeq(table, offset + 1, Upto(offset + Limit))
    /\ read' = [n \in Names |-> IF n \in Range(page') THEN event[n] ELSE "pending"]
    /\ LET toCheck == {i \in 1..Len(page') : event[page'[i]] = "applied"} IN
         /\ g' = [n \in Names |-> IF \E i \in toCheck : page'[i] = n THEN "wait" ELSE "none"]
         /\ left' = Cardinality(toCheck)
    /\ had' = [n \in Names |->
                 IF n \in Range(page') THEN {StateOf(event[n], object[n])} ELSE {}]
    /\ k8sResults' = [i \in 1..Limit |-> "none"] /\ resultChan' = {} /\ semaphore' = 0
    /\ cancelled' = FALSE /\ expired' = FALSE
    /\ reply' = "none" /\ complete' = FALSE
    /\ shown' = [i \in 1..Limit |-> "opening"]
    /\ answer' = [n \in Names |-> "absent"]
    /\ IF offset = 0
       THEN start' = Range(table) /\ got' = {} /\ dropped' = FALSE
       ELSE UNCHANGED <<start, got, dropped>>
    /\ UNCHANGED <<table, event, object, offset, tries, changes, faults>>

\* The query, or the scan of one of its rows, which closes them.
ReadFails ==
    /\ pc = "idle" /\ \A n \in Names : g[n] = "none"
    /\ Fault
    /\ reply' = "error" /\ offset' = 0 /\ complete' = FALSE
    /\ UNCHANGED <<start, got, pc, page, read, left, k8sResults, cancelled, shown,
                   taskVars, worldVars, resultChan, expired, had>>

\* 500: the deferred cancel runs, and the client starts over.
Refuse ==
    /\ pc' = "idle" /\ cancelled' = TRUE /\ reply' = "error"
    /\ offset' = 0
    /\ UNCHANGED <<page, read, k8sResults, shown, start, got, complete>>

Collect(result) ==
    /\ pc = "collect"
    /\ resultChan' = resultChan \ {result}
    /\ left' = left - 1
    /\ IF result.object = "error"
       THEN Refuse
       ELSE /\ k8sResults' = [k8sResults EXCEPT ![result.index] = result.object]
            /\ UNCHANGED <<pc, page, read, cancelled, reply, shown, clientVars>>
    /\ UNCHANGED <<taskVars, worldVars, expired, had, faults>>

TimeOut ==
    /\ pc = "collect" /\ left > 0 /\ expired
    /\ Refuse
    /\ UNCHANGED <<left, taskVars, worldVars, resultChan, expired, had, faults>>

\* Mutant: the next page starts one row too far.
NextOffsetSkips == offset + Limit + 1

\* nextOffset of a full page.
NextOffset == offset + Limit

\* nil for a row that was not asked for.
Result(i) == IF k8sResults[i] = "none" THEN "absent" ELSE k8sResults[i]

Reply ==
    /\ pc = "collect" /\ left = 0
    /\ pc' = "idle" /\ cancelled' = TRUE /\ reply' = "ok"
    /\ shown' = [i \in 1..Limit |->
                   IF i <= Len(page) THEN State(read[page[i]], Result(i)) ELSE shown[i]]
    /\ got' = got \cup Range(page)
    /\ complete' = (Len(page) # Limit)
    /\ offset' = IF Len(page) = Limit THEN NextOffset ELSE 0
    /\ UNCHANGED <<page, read, left, k8sResults, start, taskVars, worldVars, resultChan,
                   expired, had, faults>>

\* The deadline, or the client hangs up.
Expire ==
    /\ pc = "collect" /\ ~ expired
    /\ Fault
    /\ expired' = TRUE
    /\ UNCHANGED <<clientVars, handlerVars, taskVars, worldVars, resultChan, had>>

-----------------------------------------------------------------------------
(* A goroutine.                                                            *)

Done == cancelled \/ expired

Move(n, s) == g' = [g EXCEPT ![n] = s]

\* Where a select finds both ready, either may be taken.
Acquire(n) ==
    /\ g[n] = "wait" /\ semaphore < Permits
    /\ semaphore' = semaphore + 1
    /\ Move(n, "check")
    /\ UNCHANGED <<clientVars, handlerVars, worldVars, tries, answer, resultChan, expired, had, faults>>

\* Mutant: the defer stands before the select.
QuitWaitingReleases(n) ==
    /\ g[n] = "wait" /\ Done
    /\ Move(n, "none") /\ semaphore' = semaphore - 1
    /\ UNCHANGED <<clientVars, handlerVars, worldVars, tries, answer, resultChan,
                   expired, had, faults>>

QuitWaiting(n) ==
    /\ g[n] = "wait" /\ Done
    /\ Move(n, "none")
    /\ UNCHANGED <<clientVars, handlerVars, worldVars, semaphore, tries, answer, resultChan,
                   expired, had, faults>>

\* Mutant: the permit goes back before the call.
CheckReleases(n) ==
    /\ g[n] = "check"
    /\ Move(n, IF Done THEN "none" ELSE "get")
    /\ semaphore' = semaphore - 1
    /\ UNCHANGED <<clientVars, handlerVars, worldVars, tries, answer, resultChan, expired, had, faults>>

Check(n) ==
    /\ g[n] = "check"
    /\ Move(n, IF Done THEN "none" ELSE "get")
    /\ semaphore' = IF Done THEN semaphore - 1 ELSE semaphore
    /\ UNCHANGED <<clientVars, handlerVars, worldVars, tries, answer, resultChan, expired, had, faults>>

Answer(n, a) ==
    /\ answer' = [answer EXCEPT ![n] = a]
    /\ tries' = [tries EXCEPT ![n] = 1]
    /\ Move(n, "send")

\* Mutant: attempts are not counted.
RetryForEver(n, a) ==
    IF ~ Done THEN UNCHANGED <<tries, g, answer>> ELSE Answer(n, a)

\* Every error is retried, "not found" too.
Retry(n, a) ==
    IF tries[n] < MaxAttempts /\ ~ Done
    THEN tries' = [tries EXCEPT ![n] = @ + 1] /\ UNCHANGED <<g, answer>>
    ELSE Answer(n, a)

Get(n) ==
    /\ g[n] = "get"
    /\ IF object[n] = "absent"
       THEN Retry(n, IF tries[n] < MaxAttempts THEN "error" ELSE "absent")
       ELSE Answer(n, object[n])
    /\ UNCHANGED <<clientVars, handlerVars, worldVars, semaphore, resultChan, expired, had, faults>>

\* Mutant: a failed call counts as "not found".
GetFailsAbsent(n) ==
    /\ g[n] = "get"
    /\ Fault \/ (Done /\ UNCHANGED faults)
    /\ Retry(n, "absent")
    /\ UNCHANGED <<clientVars, handlerVars, worldVars, semaphore, resultChan, expired, had>>

\* A context that is done fails the call.
GetFails(n) ==
    /\ g[n] = "get"
    /\ Fault \/ (Done /\ UNCHANGED faults)
    /\ Retry(n, "error")
    /\ UNCHANGED <<clientVars, handlerVars, worldVars, semaphore, resultChan, expired, had>>

\* What the goroutine was given with the name; the page stays while it lives.
Index(n) == CHOOSE i \in 1..Len(page) : page[i] = n

Post(n, i) ==
    /\ g[n] = "send"
    /\ resultChan' = resultChan \cup {[index |-> i, object |-> answer[n]]}
    /\ Move(n, "none") /\ semaphore' = semaphore - 1
    /\ UNCHANGED <<clientVars, handlerVars, worldVars, tries, answer, expired, had, faults>>

\* Mutant: the goroutine takes the index from the loop, which has moved on.
SendLast(n) == Post(n, Len(page))

\* The channel has room for all of them.
Send(n) == Post(n, Index(n))

QuitSending(n) ==
    /\ g[n] = "send" /\ Done
    /\ Move(n, "none") /\ semaphore' = semaphore - 1
    /\ UNCHANGED <<clientVars, handlerVars, worldVars, tries, answer, resultChan, expired, had, faults>>

-----------------------------------------------------------------------------
(* Everybody else.                                                         *)

Change == changes > 0 /\ changes' = changes - 1

Watch ==
    had' = [n \in Names |-> IF pc = "collect" /\ Contains(page, n)
                            THEN had[n] \cup {StateOf(read[n], object'[n])} ELSE had[n]]

\* created_at is the time the transaction began, so a row may come in before
\* rows that were there already.
Insert(n) ==
    /\ ~ Contains(table, n)
    /\ Change
    /\ \E i \in 1..Len(table) + 1 : table' = InsertAt(table, i, n)
    /\ event' = [event EXCEPT ![n] = "pending"]
    /\ UNCHANGED <<object, dropped, clientVars, handlerVars, taskVars, resultChan, expired, had, faults>>

\* The worker makes the Notebook and notes it, or fails.
Apply(n) ==
    /\ Contains(table, n) /\ event[n] = "pending"
    /\ Change
    /\ \/ object' = [object EXCEPT ![n] = "opening"] /\ event' = [event EXCEPT ![n] = "applied"]
       \/ event' = [event EXCEPT ![n] = "failed"] /\ UNCHANGED object
    /\ Watch
    /\ UNCHANGED <<table, dropped, clientVars, handlerVars, taskVars, resultChan, expired, faults>>

Delete(n) ==
    /\ event[n] # "pending"
    /\ Change
    /\ \E i \in 1..Len(table) : table[i] = n /\ table' = RemoveAt(table, i)
    /\ dropped' = TRUE
    /\ UNCHANGED <<event, object, clientVars, handlerVars, taskVars, resultChan, expired, had, faults>>

\* Started, stopped, deleted, ready.
SetObject(n) ==
    /\ object[n] # "absent"
    /\ Change
    /\ \E o \in Objects \ {object[n]} : object' = [object EXCEPT ![n] = o]
    /\ Watch
    /\ UNCHANGED <<table, event, dropped, clientVars, handlerVars, taskVars, resultChan, expired, faults>>

-----------------------------------------------------------------------------
Handler == ReadPage \/ TimeOut \/ Reply \/ \E result \in resultChan : Collect(result)

Task(n) ==
    \/ Acquire(n) \/ QuitWaiting(n) \/ Check(n)
    \/ Get(n) \/ GetFails(n) \/ Send(n) \/ QuitSending(n)

World == \E n \in Names : Insert(n) \/ Apply(n) \/ Delete(n) \/ SetObject(n)

Next == Handler \/ ReadFails \/ Expire \/ (\E n \in Names : Task(n)) \/ World

Spec == Init /\ [][Next]_vars

\* The scheduler runs every goroutine, and a call returns.  No deadline is
\* needed for any of it.
FairSpec == Spec /\ WF_vars(TimeOut \/ Reply \/ \E result \in resultChan : Collect(result))
                 /\ \A n \in Names : WF_vars(Task(n))

-----------------------------------------------------------------------------
\* No request has more than three calls at Kubernetes, though a goroutine can
\* leave in four ways, three of which give a permit back.
CallsBounded == Cardinality({n \in Names : g[n] = "get"}) <= Permits

\* A listed state is one the notebook had while the request ran: no answer goes
\* to another row, and a failed call makes no notebook an orphan.
ShownWasTrue ==
    reply = "ok" => \A i \in 1..Len(page) : shown[i] \in had[page[i]]

\* A client that goes on to the last page has been shown every row that was
\* there when it began, whatever was created since, unless one was deleted.
NoneSkipped == complete /\ ~ dropped => start \subseteq got

\* The handler answers, and no goroutine stays behind: not at the semaphore,
\* not at a channel that nobody reads any more.
RequestEnds == pc = "collect" ~> pc = "idle"
TasksEnd == \A n \in Names : g[n] # "none" ~> g[n] = "none"
=============================================================================
