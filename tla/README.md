# The sandbox-connect API in TLA+

This directory is a verification development of the sandbox-connect backend: the
HTTP API (`src/cmd/api`), the worker that builds notebooks (`src/cmd/worker`) and
the credit sync (`src/cmd/cron/profile-credit-sync`). It holds TLA+ models of the
code, TLC configurations that check them on small instances, and TLAPS proofs of
the safety properties that matter most.

The root `README.md` of the repository also speaks of bookings, time slots and a
`slot-lifecycle` job. None of that is in this tree, so none of it is modelled.

## 1. The system

| part | code | state it keeps | operations |
|---|---|---|---|
| notebook table and namespace | `src/db.sql`, the user's Kubernetes namespace | rows of `notebooks` (name, kind, array of events, `picked_at`); `Notebook` and `PersistentVolumeClaim` objects | inserted, marked and deleted by the API and the worker; stopped by Kubeflow's culling; claims terminate on their own time |
| notebook API | `cmd/api/handlers.go`, `cmd/api/k8s.go` | none of its own: a request holds a transaction and what it read, a list its goroutines, semaphore and channel | create, start, stop, delete; list page by page; create a profile; status checks |
| worker | `cmd/worker/*.go`, `pkg/utils/backoff.go` | goroutine slots, the job of each, a cancelled context | fetch and mark a row, create claim and Notebook, record each step, clean up after a failure |
| API billing | `cmd/api/utils.go` (`tryRestoreGPUAccess`), `cmd/api/billing.go` | the open transaction on the profile row | sync of one profile inside a GPU create or start |
| profile credit sync | `cmd/cron/profile-credit-sync/*.go` | `profiles` (`can_create_gpu_notebook`, `pending_deduction`, `total_paid_credit`, time of the last sync) | reconcile profiles with namespaces; for each profile cost, balance, deduction, UPDATE; stop GPU notebooks |
| API middleware | `cmd/api/middleware.go`, rate limiter in `cmd/api/utils.go` | map of addresses to counters, under a mutex | authentication, roles, rate limit |
| retries | `pkg/utils/backoff.go` | none | exponential backoff around every external call |
| wiring | `main.go`, `router.go`, `pkg/db`, `pkg/k8s`, `pkg/s3` | configuration | start-up |
| deployment, generated docs | `infra/`, `docs/` | | |

How they meet:

* API and worker never call each other. They share PostgreSQL rows and the
  objects of the user's namespace. A create only inserts a row whose latest event
  is `scheduled`; a worker goroutine finds it with `FOR UPDATE SKIP LOCKED`,
  appends `picked`, and from then on works without any lock, appending one event
  per step. The latest event is the only thing the API knows of the progress.
* Creates and starts of one user exclude each other by the profile row
  (`FOR UPDATE NOWAIT`, answered 429). Stop and delete take no lock.
* API and sync both create profiles: a Kubeflow Profile (which owns the namespace)
  and a row. Each looks at one side and adds what it misses there; nothing but
  `ON CONFLICT` and "already exists" keeps them apart.
* API and sync both charge a user, under the same row lock. What they ask of the
  AAA server and of OpenCost happens inside the open transaction, and is not
  undone by its rollback.
* Kubernetes answers by name. It does not know which row an object belongs to.

What is hard in this code, and where the properties aim:

* two stores with no common transaction (row and objects, row and AAA account):
  every handler is a sequence of steps that may stop after any of them;
* a delete that decides on an event it read earlier, and then acts by name;
* a lost answer: a COMMIT, a Kubernetes create or a deduction that took effect but
  is reported as failed, and is then tried again;
* cleanups that run after the failure is already visible to the user;
* limits that compare rows read in a transaction with two later lists of the
  cluster, which the worker, the culling and a stop keep changing;
* a sync whose retry starts again from the committed row;
* a sync that stops notebooks from a list made earlier, with local copies that it
  changes before Kubernetes accepts the change;
* a comparison of two stores read one after the other, acted on later;
* a fan-out of goroutines that share a semaphore and a channel with a handler that
  may have answered already;
* SIGTERM in the middle of jobs.

`PROJECT.json` lists the hazards one by one with their source lines. What makes
each part correct: a row is worked on by one goroutine only and its events only go
forward; the limits hold; an applied row has its objects and an object has a row;
every accepted notebook reaches an outcome; a user's right to GPUs follows the
debt; no unit of cost is lost or booked twice in the row; a payment on the row was
made; a user who pays gets the right back, one who does not has no GPU running; a
notebook reported stopped is stopped, and only GPU notebooks are; rows and Profiles
converge, and everybody known at a run's start is billed, once; a list shows no
state the notebook did not have, skips no row, and leaves no goroutine behind.

## 2. The modules

### Notebooks

`NotebookStore` holds the shared state and what Kubernetes and Kubeflow do to it.
`NotebookApi` and `NotebookWorker` extend it with one process per request and per
goroutine slot. `Sandbox` composes them, one step of one of them at a time, and
states the properties. `NotebookLifecycle` is the abstract promise to the user:
a name is absent, pending, applied or failed, and moves only along four edges.
`MCSandbox` gives the limits values and the symmetries.

One user is modelled. Every query and every Kubernetes call names the user's
namespace, so users do not touch each other's rows or objects.

| TLA+ | code |
|---|---|
| `rows`, `nextId` | table `notebooks`, `BIGSERIAL`; the last element of `events` is `event`, as every query looks only at the last |
| `event = "scheduled"` | `picked_at IS NULL`: one UPDATE sets it and appends the next event |
| `rowLock`, `profileLock` | `FOR UPDATE SKIP LOCKED` of the worker, `FOR UPDATE NOWAIT` of create and start |
| `notebooks`, `pvcs` | the objects, with the row whose worker created them as `owner` (their UID) and the `kubeflow-resource-stopped` annotation as `stopped` |
| `current` | requests whose copy of a Notebook carries the present `resourceVersion` |
| `apiPc`, `apiCall`, `apiSeen` | where a handler is, its parameters, the rows its transaction read |
| `workerPc`, `job`, `attempt`, `stopping` | where `worker()` is, its Notebook, retries so far, the cancelled context |

A step is one database statement or one Kubernetes call with the code up to the
next one; that is the grain at which the real processes interleave.
`CreateLock`, `CreateRead`, `ListTotals`, `ListRunning`, `RefuseCredit`, `Insert`
are `createNotebook`; `StartLock`, `StartRead`, `ListRunning`, `GetNotebook`,
`UpdateNotebook` are `startNotebook`; `StopRead` with the last two is
`stopNotebook`; `DeleteRead`, `DeleteRow`, `DeleteNotebook`, `DeleteClaim` are
`deleteNotebook`. The UPDATE of a Kubernetes object fails on a stale
`resourceVersion`. `ApiError` ends a request at any step, with the rollback of
its deferred function. On the worker's side `Fetch`, `MarkPicked` are
`FetchAndMarkNotebook`; the others carry the names of the calls in `spawner.go`.
A failing call may have taken effect. `Crash` and `Restart` put fresh goroutines
in place of the old ones. The worker Deployment is one process with several
slots; two processes differ from it only in that a crash takes fewer slots down.

The sync appears here only through its effects: its lock makes a create answer 429,
which changes nothing, and its stop of a GPU notebook is what `Cull` does.

### Credit

`CreditSync` is the books of one user: the profile row, the AAA account, the cost
OpenCost meters, and the GPU notebooks that cause it. The scheduled sync and any
number of GPU creates and starts are processes over the profile row.
`SyncStep` is the code both share in shape (`executeProfileProcessing` and
`tryRestoreGPUAccess`): `Cost`, `Balance`, `Deduct`, `Save`, each with its failure.
Where the two programs differ the action says so: the sync tries a deduction again
and the API does not; the sync records a failed balance lookup and the API answers
500; only the sync stops notebooks; a request whose user still has no right rolls its
transaction back, and with it the UPDATE.

* Amounts are exact natural numbers of a smallest unit, one above the `1e-10` up to
  which the sync's `normalizeValue` (`main.go:26`) takes a cost or a balance as 0. On
  such amounts it changes nothing; it also makes a negative balance 0, which is the
  empty account of the model.
* `billedTo` is `aaa_and_opencost_synced_at`, as the cost metered by that time.
  `recent` is the guard that takes the cost of a window under three minutes as 0;
  `skipped` is a history field that adds up what such windows cost.
* `charged` is what the AAA server has taken for this system. The account is also
  spent and topped up elsewhere.
* `stopAllGPUNotebooksInNamespace` is one step: a start cannot come between, as it
  would need the profile row. Each notebook may fail to stop.
* `failed_aaa_requests` and `last_sync_balance` are written and never decide
  anything; they are left out.
* A profile can be added for a namespace that already has notebooks
  (`addProfileToDbFull`), so `Init` lets every GPU notebook be in any state.

### Stopping GPU notebooks

`GpuStop` opens the step `StopGpus` of `CreditSync`:
`stopAllGPUNotebooksInNamespace` of one user who owes, against everybody who takes
no lock. It is a module beside `CreditSync` and not a refinement of it. There the stop
is atomic since only starts matter to the books; here deletes, creates, other stops and
status updates come between List and Update.

| TLA+ | code |
|---|---|
| `object` | the Notebooks: a GPU or not, running or with the annotation |
| `copy` | the items of the List, changed in place by `stopNotebook` |
| `fresh` | names for which the copy's `resourceVersion` is still the object's; Kubernetes accepts an Update of these only |
| `List`, `ListFails`, `Skip`, `Take` | the List with its retry, the loop with `hasGPUResource` |
| `AlreadyStopped`, `UpdateStops`, `UpdateFails`, `UpdateGone`, `Conflict`, `GetLatest`, `GetGone`, `GetFails` | one attempt of `stopNotebook`, by what the copy and Kubernetes answer |
| `answer` | what `stopNotebook` returned for the name in this run |
| `listed`, `hit` | history: the object is still the listed one; a call for it failed |

The annotation is written into the copy before the Update. After a failed Update, or a
failed Get behind a conflict, the next attempt finds it there and reports success.
`AnswerTrue` is therefore about notebooks without a failed call, and
`OwingUserStops` says that later runs make up for the rest.

### Profiles

`ProfileReconcile` is the frame of the sync job (`main`): read Kubeflow Profiles, read
rows, add to the table what it lacks, add to Kubernetes what that lacks, get a token,
bill everybody. Beside it run the API's `createProfile` (kind "profile") and the head
of `createNotebook` (kind "notebook"), and administrators who create and delete Profiles.

| TLA+ | code |
|---|---|
| `namespace`, `row` | the Profile of a user ("bad": without an owner, skipped by the job), the row |
| `k8s`, `db` | `k8sProfiles`, `dbProfiles` as bags: a user may come twice, as the slice lives outside the retried closure |
| `todo`, `handled` | the rest of the loop; how often a user came to be billed |
| `attempt`, `Again`, `Fails` | `WithExponentialBackoff`; the last failure ends the process (`pc = "exited"`) |
| `Insert` | `INSERT ... ON CONFLICT DO NOTHING RETURNING`, where no row is an error that is retried and ignored at the end |

`DbOrphans` is taken from the rows as read, as in the code, so rows that `AddToDb` adds
are no part of it. A Profile that an administrator deletes while its row stays is
created again by the next run; `Converges` says so, and it is what the code means.

### Lists

`ListNotebooks` is `listNotebooks`, called page after page by one client, with a
goroutine per row whose Notebook should exist, a semaphore and a result channel.
`ReadPage` is the query and the start of the goroutines, `Collect`, `TimeOut`, `Reply`
the handler's `select`; `Acquire`, `QuitWaiting`, `Check`, `Get`, `GetFails`, `Send`,
`QuitSending` are the goroutine, each `select` with every ready branch.
A result carries the index of its row (`K8sResult`, `Index`); the handler
stores it under that index in `k8sResults` and looks up rows by position, so an answer
could reach another row: the mutant `SendLast` sends with the wrong index.
`Insert`, `Apply`, `Delete` and `SetObject` are the rest of the system. The
order of the rows is that of `created_at` in the direction the client asks for, with
distinct times. Goroutines left by a request share nothing with the next one, so
they end before the client asks again. `had` records which states each row of
the page had since it was read; the row's event is as read, since a listing promises
no more than a snapshot of the table.

### Rate limiter

`RateLimiter` is `isAllowed`: a fixed window per address. The mutex makes a request one
step. `log` is the history of admissions, `rate` any value of the setting.

## 3. What the runs check

Bounds are named constants of the modules. `MaxRows` is how many notebooks are ever
inserted, `MaxFaults` how many calls fail, answers get lost or processes die,
`MaxAttempts` the attempts of one call that is retried; `MaxMeter` and `MaxCredit` how
much cost and credit there ever is; `MaxCreates`, `MaxAdmin`, `MaxChanges` how often
others act.

| run | instance | checks |
|---|---|---|
| `concurrent` | 2 requests, 2 goroutines, 1 name, 3 rows, 2 faults, 2 attempts, SIGTERM | `TypeOK`; `LockDiscipline`: one request holds the profile row, and returns it on every path; `SingleClaim`: no row has two goroutines; `EventOrder` |
| `sequential` | 1 request, 1 goroutine, 2 names, 3 rows, 2 faults, 2 attempts | `AppliedBacked`; `KeepsLifecycle`: the composition implements `NotebookLifecycle`; `LostByFaultOnly`: an object loses its row, delete and cleanup only in a step that fails |
| `limits` | 2 requests, 2 goroutines, 3 names, 3 rows, 1 fault, no deletes | `RunningLimit` on what runs in the cluster, `TotalLimit` on the rows |
| `progress` | 2 requests, 2 goroutines, 1 name, 2 rows, SIGTERM, no faults, fairness | `GracefulStop`, `WorkerStops`, `RequestsEnd`, `RowsSettle` |
| `credit` | the sync, 2 requests, 2 GPU notebooks, 2 attempts, 2 calls, cost 2, credit 2, 2 faults, fairness | `AccessPaid`, `Ledger`, `PaidIsBacked`, `BooksWhatItTakes`, `BillingInv`; `Regained`: who can pay gets the right back; `GpuSettles`: a GPU notebook without the right stops |
| `gpu_stop` | 2 names, 2 attempts, 2 creates, 1 fault, fairness | `TypeOK`; `AnswerTrue`; `CpuSpared`: no listed notebook without a GPU is touched; `StopEnds`: no order of conflicts holds the profile row for ever; `OwingUserStops` |
| `reconcile` | 2 users, 1 request, 2 attempts, 1 step of an administrator, 2 faults, fairness | `TypeOK`; `CreatedMeansBoth`; `RacesHarmless`: nobody fails for having met what another created; `BilledOnce`; `BilledHasRow`; `Converges` |
| `list` | 3 names, pages of 2, 1 permit, 2 attempts, 2 changes, 1 fault, fairness | `TypeOK`; `CallsBounded`; `ShownWasTrue`; `NoneSkipped` by later pages; `RequestEnds`, `TasksEnd` |
| `rate_limit` | 2 addresses, rates 0 to 3, window 2, times 0 to 5, 6 admissions each | `TypeOK`; `SpansWindow`: twice the rate takes a window's time; `RefusesOnlyBusy` |

Why the instances are enough to mean something. Two requests and two goroutines give
every pairwise race; one name for both makes them meet, and the second and third
row let a name be deleted and created again while somebody still works for its
predecessor. Two faults allow a lost answer followed by a crash or by a failing
cleanup. Limits are 1 running of each kind and 2 (cpu) or 1 (gpu) in total in runs
with several names, so each limit is met, and by kinds that fill the sum. Cost 2 with
credit 2 gives a full, a partial and an empty balance, with a new debt in between. In
`gpu_stop` two creates let a name change its kind twice under the sync's hands, and two
attempts leave one after a conflict. In `reconcile` a fault may repeat the read of the
table and another may end the run. In `list` two goroutines compete for one permit, a
full page has a successor, and two changes are enough for an insert that shifts rows
to the next page, or for a row deleted and its Notebook gone. In `rate_limit`
six requests at rate 3 lie on both sides of a border.

Each passing run ends well inside its limit, with several hundred to one million
distinct states. Every action is taken in some run, and for every property
`PROJECT.json` names a mutant of the code, written next to the definition it mutates,
that makes TLC find the property violated.

Deadlock is checked in every passing run: whatever happens, someone can move. The
violation runs of `Sandbox` do not check it, as with creates and deletes only the
model ends when `MaxRows` is used up.

Three properties need narrower instances than the code's. `RunningLimit` is checked
without deletes (`find_limit_after_delete` shows why), and `AppliedBacked` with one
goroutine (`find_cleanup_takes_other`). `KeepsLifecycle` needs a user who waits for
each answer: `deleteNotebook` (`handlers.go:641-660`) reads the event and deletes by name
in separate statements, so two deletes with a create in between can delete a notebook
that is only scheduled, which `cmd/api/README.md:28` does not allow. `LostByFaultOnly`
speaks of failures because they do leave objects: when the Kubernetes call of a
delete fails the row is already gone and every later delete answers 404, although
`cmd/api/README.md:29-30` promises that delete removes the storage.

### Fairness

`Sandbox!Fairness`: goroutines that can move do (Go schedules them, and every call
has a deadline); the row lock that a DELETE waits for is handed to it (strong
fairness: PostgreSQL queues waiters, while goroutines lock and unlock the row again
and again when SIGTERM interrupts them); the Deployment restarts a process that
ended; Kubernetes finalizers end. Clients, faults, the culling controller and
SIGTERM are never forced. `RowsSettle` is stated for a worker that is never told to
stop: a cancelled context may cut off the answer to the COMMIT that marks a row
`picked`, and that row is never fetched again.

`CreditSync!Fairness`: the CronJob starts every 15 minutes
(`concurrencyPolicy: Forbid`, so one at a time); its `FOR UPDATE` waits in
PostgreSQL's queue (strong fairness) where requests use NOWAIT; steps of an open
transaction are weakly fair, as every HTTP call has a timeout. Use of notebooks,
buying credit, requests and failures are never forced. `Regained` and `GpuSettles`
speak of a bounded number of failures: if every sync fails, nobody regains anything.

`GpuStop` and `ProfileReconcile` assume weak fairness of the job's own steps and of
nothing else: calls return or time out, and the schedule starts it again.
`OwingUserStops` has a premise of its own, strong fairness of the accepted Update of
that notebook: without it, the status updates of a controller could beat every Update
for ever, in the model and in the cluster. `ListNotebooks` assumes weak fairness of the
handler and of each goroutine; the deadline is never forced, so `RequestEnds` and
`TasksEnd` hold without it. `RateLimiter` has no liveness to promise.

### Findings

Each is a run that TLC ends with a counterexample, against what a document or
comment of the repository says.

1. `find_limit_after_delete`: the row goes before the Notebook, so a create in
   between counts neither; one notebook too many runs (`cmd/api/README.md:43`).
2. `find_cleanup_takes_other`: the worker's deferred cleanup deletes by name after
   the failed event is visible. A user who deletes the failed notebook and creates
   it again may lose the new one's objects while its row says applied
   (`cmd/api/README.md:19`).
3. `find_overcharged`: after a partial deduction the request is refused and its
   rollback forgets that the account paid; the next sync takes the same cost again
   (`utils.go:316-347`). Nothing has to fail for it. `BooksWhatItTakes` says that
   failures and such rollbacks are the only way to this.

## 4. What is proved

TLAPS checks the theorems for every value of the constants that satisfies the named
assumptions (`StoreAssumption`, `SentinelAssumption`, `ApiAssumption`,
`CallAssumption`, `WorkerAssumption`, `JobAssumption`, `CreditAssumption`,
`StopAssumption`, `ReconcileAssumption`, `ListAssumption`, `LimiterAssumption`): numbers are numbers,
requests, goroutines and the job are different things, and the model values `NoRow`,
`NoJob`, `Absent` and so on are not records. TLC evaluates the same assumptions.

`SandboxProofs`, about `Sandbox!Spec`:

* `TypeCorrect`, `ProfileLockExclusive`, `OneGoroutinePerRow`, `EventsInOrder`, from
  `Inductive == Spec => []IndInv`.
* `SingleClaim` is not inductive by itself: that a goroutine's row cannot be fetched
  again needs its event to have left `scheduled`, which needs the row to be locked
  while it still is `scheduled`, which needs a lock to belong to the one goroutine that
  is marking (`RowLocked`, `JobStage`). Those facts survive an INSERT only because ids are
  not reused (`FreshIds`), and the INSERT stays within the table because nobody else
  inserts under the profile lock (`RoomToInsert`, `LockDiscipline`, `CallShape`).
  `IndInv` is the conjunction; `CoreInv` is shown first and is then
  available to the steps of `ClaimInv`.
* `EventsInOrder` reads `[][A]_vars` off the same invariant: a status update of a
  goroutine finds the row where `JobStage` says.

`SandboxLimitProofs`, about `Sandbox!Spec`, assuming `"delete" \notin Ops`:

* `TotalsWithinLimit == Spec => []TotalLimit`, from `LimitInv`. The list is read before the
  rows are counted, and the count is acted upon only at the INSERT; the argument
  is that what a create has read covers the rows that have not failed, whatever
  the worker did meanwhile (`SeenCovers`, then `RoomLeft`). An applied row is counted by its
  Notebook, which is there (`AppliedThere`, `MadeThere`): names are unique
  (`UniqueNames`), and a cleanup works for a row that is not applied (`JobRow`), so it takes
  no other row's Notebook. Nobody else inserts, since the create holds the profile lock.
* The assumption is needed: of two deletes that race, the second may take the Notebook
  of a row created since. The list then takes that row for an orphan and does not
  count it.
* `RunningWithinLimit == Spec => []RunningLimit`, from `RunInv`. A notebook runs because
  of a create or of a start, and the two counts are made of a list that may be old when
  they are used. What the limit has to cover is therefore not what runs but what runs or
  will without another request (`Active`: a running Notebook, or a row whose worker has
  yet to create one). The first List still covers all rows that have not failed when the
  second is counted (`SeenStill`), so the count is no less than `Active`
  (`RunningCovers`), and between it and the INSERT or Update no worker and no
  controller makes a row active that was not: only a request does, and the profile row is
  locked (`RunsFit`, `ActiveStep`, `ActiveGrows`). Rows whose create failed are the
  exception the property names: their Notebook is the cleanup's.
* Here too the assumption is needed (`find_limit_after_delete`).

`SandboxLifecycleProofs`, about `Sandbox!Spec`:

* `StopsClean == Spec => [](faults = 0 => GracefulStop)`. A row half way is in the hands of a
  goroutine unless something failed (`HalfDone`), and a goroutine leaves after SIGTERM
  only with nothing in its hands.
* `LifecycleKept == Spec => KeepsLifecycle`, the refinement, step by step, and
  `OnlyFaultsLose == Spec => LostByFaultOnly`, both assuming `Orderly`: the client waits for each
  answer, or deletes nothing. `DeletesDone` is what that buys: what a delete read of its row
  is still so at the DELETE, and a row that is gone has no successor until the delete is
  through with the Notebook and the claim. `RowThere` is the other half: while a worker has
  yet to write an outcome its row is there, so each status update finds it. A
  step touches the row of one name (`RowMove`, `NewRow`), and the phase of a name is
  read off its only row (`PhaseShape`). For `OnlyFaultsLose`, whoever ends a row's claim on its
  objects (a delete, a failed create) comes to the objects next (`DeleteGoesOn`,
  `CleanGoesOn`). Nothing is assumed of the number of goroutines.
* `AppliedIsBacked == Spec => []AppliedBacked`, assuming `Exclusive`: one request and one
  goroutine (`MAX_CONCURRENT_WORKER=1`), or no delete. What a goroutine created is there
  until it says so (`MadeClaim`, `MadeNotebook`), because nobody else cleans up under its name:
  with one goroutine trivially, without deletes because names are not reused
  (`NoNamesake`, `JobAlone`). With deletes and two goroutines it is false:
  `find_cleanup_takes_other`.

`SandboxProofs` ends with what those two modules share: what each step may change and
who takes it (`SameRows`, `RowMove`, `NewRow`, `WorkerActs`, `RequestActs`, `NotebookMove`,
`JobKept`), so that an invariant about rows, jobs or objects is proved against a few
shapes of step instead of against every action.

`CreditSyncProofs`, about `CreditSync!Spec`:

* `BooksInOrder == Spec => []BillingInv`, and from it `AccessFollowsDebt`,
  `NoUnitLost` and `PaymentsBacked`.
* The committed row changes only when a transaction commits, so the argument is
  about what an open transaction holds at each stage (`TxnShape`): a copy of the
  row before the cost is known, a balanced row with a debt before the deduction,
  an amount that is the debt or less than it, and at "save" a row whose right
  follows its debt. `InsidePart`, `ClosePart`, `OpenPart`, `WaitPart` and
  `OutsidePart` show once what each shape of step preserves; the lemma of an
  action only shows which shape it has.
* `TakenIsBooked == Spec => BooksWhatItTakes`: what the server took and nobody
  booked grows in no step but a failing one or a request's rollback.

`GpuStopProofs`, about `GpuStop!Spec`:

* `StopTyped`, `StoppedMeansStopped`, `CpuNotebooksSpared`, from `StopInv`. That an
  answer is true rests on what the copies of notebooks not yet answered say
  (`CopyTrue`): a copy of a listed object has its kind, and shows the annotation only if
  the object has it, except between a conflict and the Get that resolves it.
  `Working` carries "it has a GPU" from the list to the Update, which is what spares
  the others.

`ProfileReconcileProofs`, about `ProfileReconcile!Spec`:

* `CreatedIsBoth`, `NoRaceFails`, `EveryoneBilledOnce`, `BilledRowsExist`,
  `ReconcileTyped`, from `ReconcileInv`. `JobInv` says for each phase what the job knows
  of a user: whoever was known at the List is in one of the two bags or on the list of
  what is still to be added, and nobody is there twice unless a read was repeated. The
  job and the API share only rows and Profiles, and neither takes one away (`Grows`), so
  each step is proved against the invariant of its own side. Administrators delete
  Profiles, of which `JobInv` says nothing and `ApiInv` only with `removed`. `Retried`
  (a second attempt means that a call failed) excuses the retry of the token that
  fails by itself.

`RateLimiterProofs`, about `RateLimiter!Spec`:

* `TwiceTheRate`, `NobodyIdleRefused`, `LimiterTyped`, from `LimiterInv`. `WindowAt`
  says where the open window lies in the sorted log of an address: its requests are the
  last `count` entries, and an entry `rate` or more places before their first
  is a whole window older than the opening.

`ListNotebooksProofs`, about `ListNotebooks!Spec`:

* `ListTypeCorrect`, `CallsAreBounded`, `ShownWasTheCase`, `PagingSkipsNone`, from
  `ListInv`.
* The semaphore is the number of goroutines past it (`PermitsTaken`), so a permit can be
  given back only by one that holds it, and no more goroutines call than there are
  permits. `Moves` says once what any step of a goroutine may change; the four ways out
  only show that they have that shape.
* While the handler collects, the answer for each index it asked about is in at most one
  place: with its goroutine, in the channel, or in `k8sResults` (`AskedOnly`). `left` is the
  number of indexes without a result (`Missing`, `Waits`). So when it is 0 a position that
  `k8sResults` lacks is that of a row not asked about, and the others have an answer that was
  true of the row at that position (`HadStates`, `IndexRight`).
* `PagingSkipsNone` rests on where the rows not shown yet are: beyond the offset
  (`PassShape`). An INSERT moves a row towards the end, never towards the beginning;
  only a DELETE does the other, which is the property's exception. `InsertAtSeq`,
  `RemoveAtSeq`, `PageSeq` are the facts about sequences it takes.

Every safety invariant and every action property the passing runs check, and the
refinement, is stated by one of these theorems. Only model-checked are the
liveness properties (`RowsSettle`, `RequestsEnd`, `WorkerStops`, `Regained`, `GpuSettles`,
`StopEnds`, `OwingUserStops`, `Converges`, `RequestEnds`, `TasksEnd`): fairness is out of the
prover's reach.

The theorems' assumptions are needed, not convenient: with two requests that
create and delete, one goroutine and no failure, TLC finds `KeepsLifecycle` and
`LostByFaultOnly` violated with one name, `TotalLimit` and `RunningLimit` with two
(`find_limit_after_delete`). `AppliedBacked` needs no second request for that, only a
second goroutine (`find_cleanup_takes_other`).

## 5. Not modelled

* Token checks, roles, CORS, routing, parsing and answers (`middleware.go`,
  `router.go`, `types.go`): functions of one request, without state.
* `checkNotebookStatus`: one read of the row and of Kubernetes, changes nothing. It
  reports "orphaned" for any Kubernetes failure (`handlers.go:1092`), unlike
  `listNotebooks`; no document promises otherwise.
* `normalizeValue` below its `1e-10`, where the sync drops a cost or sees no balance and
  the API, which has no such step, counts both.
* Rounding: `pending_deduction` is `DECIMAL(26,15)` and the code computes in
  `float64`. What that does to sums needs numbers TLC cannot hold; small numbers would
  answer by their own rounding.
* The rate limiter's map is never pruned (`utils.go:170`), so it grows with the number
  of addresses; TLC's set of addresses is fixed. It is per process: a restart or a
  second replica opens fresh windows. The API's description speaks of 100 requests per
  minute (`cmd/api/main.go:13`), the deployed configuration sets 80 in 30 seconds.
* The delays between attempts: time nobody else observes, so every interleaving is
  allowed instead.
* `failed_aaa_requests`, `last_sync_balance`, S3, start-up and shutdown of the HTTP
  server, contents of manifests, logging, deployment files, generated documentation.
