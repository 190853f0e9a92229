----------------------------- MODULE CreditSync -----------------------------
(***************************************************************************)
(* The credit of one user: the scheduled sync (cmd/cron) and the GPU       *)
(* creates and starts of the API (tryRestoreGPUAccess) charge the GPU cost *)
(* OpenCost reports to the AAA account and keep the books in the profile   *)
(* row.  A step is one database statement or one HTTP call with the code   *)
(* up to the next one.  Amounts are exact numbers of a smallest unit, one  *)
(* above the 1e-10 up to which normalizeValue takes an amount as 0.        *)
(***************************************************************************)
EXTENDS Naturals

CONSTANTS
    Cron,          \* the sync: one job at a time (concurrencyPolicy Forbid)
    Requests,      \* GPU creates and starts of the user
    NoOne,
    Gpus,          \* names of GPU notebooks
    MaxAttempts,   \* ProfileProcessingMaxAttempts
    MaxCalls,      \* externalApiMaxAttempts, of the deduction
    MaxMeter,      \* bound: GPU cost that accrues
    MaxCredit,     \* bound: credit the user buys
    MaxFaults      \* bound: failed calls, lost answers and crashes

Parties == {Cron} \cup Requests

ASSUME CreditAssumption ==
    /\ Cron \notin Requests /\ NoOne \notin Parties
    /\ MaxAttempts \in Nat \ {0} /\ MaxCalls \in Nat \ {0}
    /\ MaxMeter \in Nat /\ MaxCredit \in Nat /\ MaxFaults \in Nat

VARIABLES
    profile,       \* the committed profile row
    profileLock,   \* who holds it FOR UPDATE
    recent,        \* the last sync is less than 3 minutes ago
    gpu,           \* what each GPU notebook does
    meter,         \* GPU cost so far (OpenCost)
    bought,        \* credit bought so far
    account,       \* the user's balance (AAA)
    charged,       \* what the AAA server has deducted for this system
    pc, txn,       \* what each party does next, and its open transaction
    attempt,       \* attempts of executeProfileProcessing
    calls,         \* calls of the sync's deduction
    faults         \* faults left

syncVars == <<pc, txn, attempt, calls>>
outside == <<gpu, meter, bought, account, charged>>
books == <<profile, recent>>
vars == <<profile, profileLock, recent, gpu, meter, bought, account,
          charged, pc, txn, attempt, calls, faults>>

\* billedTo is aaa_and_opencost_synced_at as the cost metered by then.  skipped
\* is a history field: the cost of windows under 3 minutes, taken as 0.
Profile == [canCreate: BOOLEAN, pending: Nat, paid: Nat, billedTo: Nat, skipped: Nat]
Txn == [row: Profile, amount: Nat, short: BOOLEAN]

\* The columns of UPDATE profiles SET, and the history field.
Row(canCreate, pending, paid, billedTo, skipped) ==
    [canCreate |-> canCreate, pending |-> pending, paid |-> paid,
     billedTo |-> billedTo, skipped |-> skipped]

Opened(row) == [row |-> row, amount |-> 0, short |-> FALSE]
NewProfile == Row(TRUE, 0, 0, 0, 0)
NoTxn == Opened(NewProfile)

Holding == {"cost", "balance", "deduct", "save", "grant"}
GpuStates == {"absent", "queued", "running", "stopped"}

TypeOK ==
    /\ profile \in Profile
    /\ profileLock \in Parties \cup {NoOne}
    /\ recent \in BOOLEAN
    /\ gpu \in [Gpus -> GpuStates]
    /\ meter \in Nat /\ bought \in Nat /\ account \in Nat /\ charged \in Nat
    /\ pc \in [Parties -> Holding \cup {"idle", "lock"}]
    /\ txn \in [Parties -> Txn]
    /\ attempt \in 1..MaxAttempts /\ calls \in 1..MaxCalls
    /\ faults \in 0..MaxFaults

\* A profile may be added for a namespace that is old and has notebooks
\* (addProfileToDbFull), or new (createNotebook's INSERT).
Init ==
    /\ profile = NewProfile
    /\ profileLock = NoOne
    /\ recent \in BOOLEAN
    /\ gpu \in [Gpus -> GpuStates]
    /\ meter = 0 /\ bought = 0 /\ account = 0 /\ charged = 0
    /\ pc = [p \in Parties |-> "idle"]
    /\ txn = [p \in Parties |-> NoTxn]
    /\ attempt = 1 /\ calls = 1
    /\ faults = MaxFaults

-----------------------------------------------------------------------------
Fault == faults > 0 /\ faults' = faults - 1

Goto(p, next) == pc' = [pc EXCEPT ![p] = next]
Set(p, t) == txn' = [txn EXCEPT ![p] = t]

\* The transaction ends; what it read is forgotten.
Close(p) == profileLock' = NoOne /\ Set(p, NoTxn)

Again(p) == p = Cron /\ attempt < MaxAttempts

\* Rollback.  The sync tries the profile again; a request is answered.
GiveUp(p) ==
    /\ Goto(p, IF Again(p) THEN "lock" ELSE "idle")
    /\ attempt' = IF Again(p) THEN attempt + 1 ELSE attempt
    /\ UNCHANGED calls

Commit(p) ==
    /\ profile' = txn[p].row
    /\ recent' = IF p # Cron /\ profile.canCreate THEN recent ELSE TRUE

-----------------------------------------------------------------------------
(* The profile row.                                                        *)

CronBegin ==
    /\ pc[Cron] = "idle"
    /\ Goto(Cron, "lock")
    /\ attempt' = 1
    /\ UNCHANGED <<books, profileLock, outside, txn, calls, faults>>

\* FOR UPDATE waits.
CronLock ==
    /\ pc[Cron] = "lock" /\ profileLock = NoOne
    /\ profileLock' = Cron
    /\ Set(Cron, Opened(profile))
    /\ Goto(Cron, "cost")
    /\ UNCHANGED <<books, outside, attempt, calls, faults>>

\* No connection, or the lock is not free for 30 seconds (lockCtx).
CronLockFails ==
    /\ pc[Cron] = "lock"
    /\ Fault
    /\ GiveUp(Cron)
    /\ UNCHANGED <<books, profileLock, outside, txn>>

\* FOR UPDATE NOWAIT; a user with the right is not synced.
ApiLock(r) ==
    /\ pc[r] = "idle" /\ profileLock = NoOne
    /\ profileLock' = r
    /\ Set(r, Opened(profile))
    /\ Goto(r, IF profile.canCreate THEN "grant" ELSE "cost")
    /\ UNCHANGED <<books, outside, attempt, calls, faults>>

-----------------------------------------------------------------------------
(* The sync of one profile: executeProfileProcessing, tryRestoreGPUAccess. *)

\* Mutant: the time of the last sync does not move.
OwingAgain(row, cost) == [row EXCEPT !.pending = @ + cost]

\* The window up to now is on the books: owed, or skipped.
Owing(row, cost) ==
    Row(row.canCreate, row.pending + cost, row.paid, meter,
        row.skipped + ((meter - row.billedTo) - cost))

Unpaid(row) == Row(FALSE, row.pending, row.paid, row.billedTo, row.skipped)

\* Cost of the window since the last sync.  Nothing owed: the sync leaves the
\* right as it is; tryRestoreGPUAccess starts from FALSE.
Cost(p) ==
    /\ pc[p] = "cost"
    /\ LET row  == txn[p].row
           cost == IF recent THEN 0 ELSE meter - row.billedTo
           owed == Owing(row, cost)
       IN IF owed.pending = 0
          THEN /\ Set(p, Opened(IF p = Cron THEN owed ELSE Unpaid(owed)))
               /\ Goto(p, "save")
          ELSE /\ Set(p, Opened(owed))
               /\ Goto(p, "balance")
    /\ UNCHANGED <<books, profileLock, outside, attempt, calls, faults>>

\* OpenCost stays unreachable: the attempt, or the request, ends in an error.
CostFails(p) ==
    /\ pc[p] = "cost" /\ ~ recent
    /\ Fault
    /\ GiveUp(p) /\ Close(p)
    /\ UNCHANGED <<books, outside>>

\* Mutant: a partial balance only.
StopsPartial(owed) == account > 0 /\ account < owed

\* Zero or partial balance: the sync stops the GPU notebooks first.
Stops(owed) == account < owed

\* Mutant: <= in the test for a partial balance.
ShortOrEqual(owed) == account <= owed

Short(owed) == account < owed

Stopped(S) == [g \in Gpus |-> IF g \in S /\ gpu[g] = "running" THEN "stopped" ELSE gpu[g]]

\* stopAllGPUNotebooksInNamespace; notebooks it cannot stop are only logged.
StopGpus ==
    \/ gpu' = Stopped(Gpus) /\ UNCHANGED faults
    \/ Fault /\ \E S \in SUBSET Gpus : gpu' = Stopped(S)

Balance(p) ==
    /\ pc[p] = "balance"
    /\ LET row == txn[p].row
           short == Short(row.pending)
       IN /\ IF account = 0
             THEN Set(p, Opened(Unpaid(row))) /\ Goto(p, "save")
             ELSE /\ Set(p, [row |-> row, short |-> short,
                             amount |-> IF short THEN account ELSE row.pending])
                  /\ Goto(p, "deduct")
          /\ IF p = Cron /\ Stops(row.pending)
             THEN StopGpus
             ELSE UNCHANGED <<gpu, faults>>
    /\ calls' = 1
    /\ UNCHANGED <<books, profileLock, meter, bought, account, charged, attempt>>

\* The sync records the cost as owed and takes the right away, without stopping
\* a notebook; a request ends in an error.
BalanceFails(p) ==
    /\ pc[p] = "balance"
    /\ Fault
    /\ IF p = Cron
       THEN /\ Set(p, Opened(Unpaid(txn[p].row))) /\ Goto(p, "save")
            /\ UNCHANGED <<profileLock, attempt, calls>>
       ELSE GiveUp(p) /\ Close(p)
    /\ UNCHANGED <<books, outside>>

\* The AAA server takes the amount from an account that has it.
Take(amount) ==
    /\ amount <= account
    /\ account' = account - amount
    /\ charged' = charged + amount

\* Mutant: a partial deduction gives the right back.
PaidInPart(t) ==
    Row(TRUE, t.row.pending - t.amount, t.row.paid + t.amount, t.row.billedTo, t.row.skipped)

\* Mutant: what was paid is not added up.
PaidForgotten(t) ==
    Row(~ t.short, t.row.pending - t.amount, t.row.paid, t.row.billedTo, t.row.skipped)

\* The row after a deduction: all of it is paid, or what the balance allowed.
Paid(t) ==
    Row(~ t.short, t.row.pending - t.amount, t.row.paid + t.amount,
        t.row.billedTo, t.row.skipped)

Deduct(p) ==
    /\ pc[p] = "deduct"
    /\ Take(txn[p].amount)
    /\ Set(p, [txn[p] EXCEPT !.row = Paid(txn[p])])
    /\ Goto(p, "save")
    /\ UNCHANGED <<books, profileLock, gpu, meter, bought, attempt, calls, faults>>

\* Mutant: a failed deduction is booked.
BookedAnyway(p) == Set(p, [txn[p] EXCEPT !.row = Paid(txn[p])])

\* The error branches of the deduction keep the whole amount pending.
Booked(p) == Set(p, [txn[p] EXCEPT !.row = Unpaid(txn[p].row)])

\* The balance has changed since it was read: a client error, not tried again.
DeductRefused(p) ==
    /\ pc[p] = "deduct" /\ txn[p].amount > account
    /\ Booked(p) /\ Goto(p, "save")
    /\ UNCHANGED <<books, profileLock, outside, attempt, calls, faults>>

\* No good answer, whether or not the server took the amount.  The sync sends
\* the request again, as a new one; the API does not.
DeductFails(p) ==
    /\ pc[p] = "deduct"
    /\ Fault
    /\ Take(txn[p].amount) \/ UNCHANGED <<account, charged>>
    /\ IF p = Cron /\ calls < MaxCalls
       THEN calls' = calls + 1 /\ UNCHANGED <<pc, txn>>
       ELSE Booked(p) /\ Goto(p, "save") /\ UNCHANGED calls
    /\ UNCHANGED <<books, profileLock, gpu, meter, bought, attempt>>

\* UPDATE and, for the sync, COMMIT.  A request whose user has no right now is
\* answered 403: its transaction, with the UPDATE, is rolled back.
Save(p) ==
    /\ pc[p] = "save"
    /\ CASE p = Cron -> Commit(p) /\ Close(p) /\ Goto(p, "idle")
         [] p # Cron /\ txn[p].row.canCreate ->
                Goto(p, "grant") /\ UNCHANGED <<books, profileLock, txn>>
         [] OTHER -> Close(p) /\ Goto(p, "idle") /\ UNCHANGED books
    /\ UNCHANGED <<outside, attempt, calls, faults>>

\* UPDATE or COMMIT fails; a COMMIT may have happened all the same.
SaveFails(p) ==
    /\ pc[p] = "save"
    /\ Fault
    /\ (p = Cron /\ Commit(p)) \/ UNCHANGED books
    /\ GiveUp(p) /\ Close(p)
    /\ UNCHANGED outside

-----------------------------------------------------------------------------
(* What a request does with the right, and how it ends.                    *)

Move(g, from, to) == gpu[g] \in from /\ gpu' = [gpu EXCEPT ![g] = to]

\* createNotebook's INSERT, startNotebook's annotation; then COMMIT.
Grant(r) ==
    /\ pc[r] = "grant"
    /\ \E g \in Gpus : Move(g, {"absent"}, "queued") \/ Move(g, {"stopped", "running"}, "running")
    /\ Commit(r) /\ Close(r) /\ Goto(r, "idle")
    /\ UNCHANGED <<meter, bought, account, charged, attempt, calls, faults>>

\* The name is taken (409): rollback.
Conflict(r) ==
    /\ pc[r] = "grant"
    /\ \E g \in Gpus : gpu[g] # "absent"
    /\ Close(r) /\ Goto(r, "idle")
    /\ UNCHANGED <<books, outside, attempt, calls, faults>>

\* The annotation may be gone when the COMMIT fails.
GrantFails(r) ==
    /\ pc[r] = "grant"
    /\ Fault
    /\ (\E g \in Gpus : Move(g, {"stopped"}, "running")) \/ UNCHANGED gpu
    /\ Close(r) /\ Goto(r, "idle")
    /\ UNCHANGED <<books, meter, bought, account, charged, attempt, calls>>

\* The process dies, or the client of a request goes away.
Crash(p) ==
    /\ pc[p] # "idle"
    /\ Fault
    /\ Goto(p, "idle") /\ Set(p, NoTxn)
    /\ profileLock' = IF profileLock = p THEN NoOne ELSE profileLock
    /\ UNCHANGED <<books, outside, attempt, calls>>

-----------------------------------------------------------------------------
(* Outside.                                                                *)

Inside == <<profile, profileLock, syncVars, faults>>

\* A running GPU notebook costs.
Use ==
    /\ meter < MaxMeter /\ \E g \in Gpus : gpu[g] = "running"
    /\ meter' = meter + 1
    /\ UNCHANGED <<Inside, recent, gpu, bought, account, charged>>

BuyCredit ==
    /\ bought < MaxCredit
    /\ bought' = bought + 1 /\ account' = account + 1
    /\ UNCHANGED <<Inside, recent, gpu, meter, charged>>

SpendElsewhere ==
    /\ account > 0
    /\ account' = account - 1
    /\ UNCHANGED <<Inside, recent, gpu, meter, bought, charged>>

\* The worker creates a queued notebook; the user or the culling stops one.
WorkerStarts(g) ==
    Move(g, {"queued"}, "running") /\ UNCHANGED <<Inside, recent, meter, bought, account, charged>>
StopNotebook(g) ==
    Move(g, {"running"}, "stopped") /\ UNCHANGED <<Inside, recent, meter, bought, account, charged>>

ThreeMinutes == recent /\ recent' = FALSE /\ UNCHANGED <<Inside, outside>>

-----------------------------------------------------------------------------
SyncStep(p) ==
    \/ Cost(p)    \/ CostFails(p)
    \/ Balance(p) \/ BalanceFails(p)
    \/ Deduct(p)  \/ DeductRefused(p) \/ DeductFails(p)
    \/ Save(p)    \/ SaveFails(p)

Next ==
    \/ CronBegin \/ CronLock \/ CronLockFails
    \/ \E p \in Parties : SyncStep(p) \/ Crash(p)
    \/ \E r \in Requests : ApiLock(r) \/ Grant(r) \/ Conflict(r) \/ GrantFails(r)
    \/ Use \/ BuyCredit \/ SpendElsewhere \/ ThreeMinutes
    \/ \E g \in Gpus : WorkerStarts(g) \/ StopNotebook(g)

Spec == Init /\ [][Next]_vars

\* The schedule starts the sync again and again, PostgreSQL queues its lock
\* request, and every call returns or times out.
Fairness ==
    /\ WF_vars(CronBegin) /\ SF_vars(CronLock)
    /\ WF_vars(SyncStep(Cron))
    /\ \A r \in Requests :
         WF_vars(SyncStep(r)) /\ WF_vars(Grant(r) \/ Conflict(r) \/ GrantFails(r))

FairSpec == Spec /\ Fairness

-----------------------------------------------------------------------------
\* The right to use GPUs is withheld exactly from those who owe: nobody keeps it
\* with a debt, and nobody without a debt is locked out, through every error
\* branch, crash and rollback of both programs.
AccessPaid == profile.canCreate <=> profile.pending = 0

Balanced(row) == row.paid + row.pending + row.skipped = row.billedTo

\* Every unit of GPU cost up to the last sync is paid, owed or in a window under
\* 3 minutes: no retry, rollback or failure loses or doubles a unit in the row.
Ledger == Balanced(profile) /\ profile.billedTo <= meter

\* total_paid_credit never says more than the AAA server deducted.
PaidIsBacked == profile.paid <= charged

\* One party at a time is in the sync of the profile.
LockDiscipline == \A p \in Parties : pc[p] \in Holding <=> profileLock = p

\* What an open transaction is about to write, at each of its stages.
TxnShape(p) ==
    LET row == txn[p].row IN
    /\ pc[p] \in Holding =>
         Balanced(row) /\ row.billedTo <= meter /\ row.paid <= charged
    /\ pc[p] = "cost" => row = profile /\ (p # Cron => ~ row.canCreate)
    /\ pc[p] \in {"balance", "deduct"} => row.pending > 0
    /\ pc[p] = "deduct" =>
         IF txn[p].short THEN txn[p].amount < row.pending
                         ELSE txn[p].amount = row.pending
    /\ pc[p] \in {"save", "grant"} => (row.canCreate <=> row.pending = 0)
    /\ pc[p] = "grant" => p # Cron
    /\ pc[p] = "lock" => p = Cron

TxnInv == \A p \in Parties : TxnShape(p)

BillingInv == TypeOK /\ LockDiscipline /\ AccessPaid /\ Ledger /\ PaidIsBacked /\ TxnInv

\* What the server took and neither the row nor the open transaction knows of.
Unbooked ==
    charged - (IF profileLock = NoOne THEN profile.paid ELSE txn[profileLock].row.paid)

\* The user pays twice for a unit only after a failure or the rollback of a
\* request: the sync itself books all it takes, whoever uses the account.
BooksWhatItTakes ==
    [][Unbooked' > Unbooked =>
         \/ faults' < faults
         \/ \E r \in Requests : profileLock = r /\ profileLock' = NoOne]_vars

\* The user is not charged more than was used.
NeverOvercharged == charged <= meter

Owed == profile.pending + (meter - profile.billedTo)

\* A user whose credit covers the debt is not kept out for ever.
Regained == []<>(profile.canCreate \/ account < Owed)

\* A GPU notebook that runs without the right, be it because a call failed or
\* because it was queued when the right went, is stopped by a later sync.
GpuSettles ==
    \A g \in Gpus :
        gpu[g] = "running" /\ ~ profile.canCreate ~> gpu[g] # "running" \/ profile.canCreate
=============================================================================
