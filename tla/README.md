# A TLA+ model of Horde

Horde is a daemon that runs plans of coding work. A *task* is a graph of
*steps*; the daemon dispatches each ready step to a managed *worker* (an agent
process in its own git worktree, or a command in the task's combined
workspace), records every invocation as an *attempt*, integrates the results
and delivers them. Everything durable is in one SQLite database. Around that
core are hosts that work for other hosts, fleets of containers and guests,
provider accounts that are paid for and refreshed, previews, deliveries and
releases, and the upkeep of the program itself. This directory holds TLA+
models of the parts of Horde whose correctness depends on the order of steps of
several actors, the TLC runs that check them on small instances, and TLAPS
proofs for every instance.

Paths below are relative to the crate's `src/` directory unless they begin
with `docs/`.

## 1. The system

| Component | State it keeps | Operations | What is hard |
|---|---|---|---|
| Scheduler (`runtime.rs`, `project_runtime.rs`) | `Scheduler.running` in memory; `tasks`, `steps`, `attempts`, `workers` | `tick` every 200 ms (abort, reap, settle, ready, dispatch), spawned `run_step` futures, `recover`, graceful stop | RPC threads commit between any two statements of the tick; crashes leave processes behind |
| Store and RPC (`store.rs`, `protocol.rs`, `protocol/*`) | all tables | submit, cancel, resume, add_steps, reconcile_worker, claims, mailbox, artifacts | several connections; some handlers are transactions, some are not |
| Delegation and questions (`delegation.rs`) | `task_tree`, `questions`, acceptances | delegate, ask, answer, escalate, accept | retried requests; an answer races what it answers |
| Mailbox (`store.rs`, `runtime.rs`) | `messages`, cursors, worker rows | send, steer, acknowledge, notices, follow-ups | a message between the last look and the end of a worker |
| Accounts (`accounts.rs`, `accounts/*`) | `accounts`, `account_grants`, `account_reservations` | choose, reserve, release, grant, revoke, remote leases, credential envelopes | limits across revocation and crash; lost replies of a remote owner |
| Budgets (`budget.rs`, `storage/control.rs`) | progress events, pause receipts | sample, rule, extend, hold, release | a deadline races a sample and a hold |
| Git (`git.rs`, `git/commit.rs`, `storage/cleanup.rs`) | worktrees, integration queue, receipts | allocate, commit, integrate, remove, restore | Git and the database change one after the other |
| Runs (`run.rs`, `run/*`, `github_sync.rs`) | run branch, events, checkpoints | reconcile, checkpoint, publish, recover, rebind | others push meanwhile; validation takes minutes |
| Preview (`preview/*`) | jobs, reservations, review bindings | review, enqueue, publish, retry, settle | lost answers of the admission service |
| Delivery (`delivery*.rs`) | preflight, authorizations, merge intent | pull request, authorize, merge, deploy | facts read one call at a time |
| Release (`package_release/*`) | intent, tag, run, publication | tag, watch, verify | the tag and the release can be changed by others |
| Upstream maintenance (`upstream_maintenance/*`) | policies, bindings, shared usage | register, revoke, submit, guard, reserve | revocation during an authorization |
| Decisions (`decision/*`) | `decisions`, cursor, two queues | scan, queue, prepare, call | a request that may have been charged |
| Federation (`federation*`, `remote_submit.rs`) | links, origins, snapshots | assign, sync, cancel, revise, revoke | a call fails and is carried out all the same |
| Control streams and names (`control.rs`, `worker_join.rs`, `runtime_directory.rs`) | registry, pending calls, names, aliases | open, replace, call, select | an old stream ends after the new one began |
| Enrolment (`fleet_enrollment/*`, `pairing.rs`, `enrollment.rs`) | members, packets, files on two machines | join, renew, revoke, pair | either side stops between two files |
| Fleets (`fleet*`, `lima*`) | operations, containers, guests, AX objects | create, update, replace, destroy, recover | the provider's effect is unknown after a crash |
| Environments (`environment.rs`) | `environments`, ports, processes | start, test, stop, sweep | pids that belong to others after a restart |
| Top-ups and signup (`provider_signup*`) | policy, ledger, records, saved replies | configure, check, sign up, cancel | paying twice, or forgetting a payment |
| Logins and tokens (`provider_login*`, `chatgpt_auth*`) | sessions, receipts, credential versions | log in, refresh, transfer | rotating tokens; shared credential stores |
| Storage (`storage.rs`, `storage/pressure.rs`) | pressure state, incidents | measure, hook, admit | hysteresis across restarts |
| Management (`management.rs`, `update*`, `skill_catalog.rs`) | requests, handoff, active pack | update, roll back, install | the helper dies with the daemon it replaces |
| Setup, projects, configuration, observations, knowledge, CLI | files, views | - | - |

`PROJECT.json` lists every component with its sources, its modules and what of
it is not modelled.

## 2. Modules

One module per component; none of them declares a RECURSIVE operator, so each
can be proved about.

| Module | What it is |
|---|---|
| `Scheduler`, `MCScheduler`, `SchedulerProofs`, `FlowProofs` | the event loop, its tables, worker processes and the requests that interleave with it; the plans TLC checks; theorems |
| `Topup`, `Signup`, `Payments`, `PaymentsProofs` | automatic top-ups and paid signup, the abstract payment that both implement, and theorems |
| `Login`, `Tokens`, `TokensProofs` | provider login processes; the rotating refresh token of a ChatGPT account, theorems |
| `Admission`, `Pairing`, `Directory`, `Control` | fleet enrolment; enrolment over SSH; names and aliases; the reverse control stream |
| `Leases`, `LeasesProofs`, `Quota` | project capacity, accounts and credentials that workers hold at their controller, theorems, and the abstract quota they implement |
| `Delegation`, `Mailbox`, `Budget` | the task tree and its questions; messages and follow-ups; progress budgets and holds |
| `Environment`, `Storage`, `Worktrees` | application environments; disk pressure; checkouts, commits, integration and cleanup |
| `RunBranch`, `Recover` | the branch of a Run; recovery of a failed step and rebinding of the model |
| `Preview`, `PreviewReview` | publication under a registry reservation; the review that lets a revision in |
| `Delivery`, `Release`, `Maintenance` | merge under authorization; package release; upstream maintenance policies |
| `Decision` | advisory reviews and routing decisions |
| `Federation` | a controller's tasks on a worker runtime |
| `Fleet`, `Lima`, `Ax` | containers; virtual machines of a project host; Tasks of an AX deployment |
| `Update`, `Catalog` | replacement of the program; skill packs |
| `MCCredentials`, `MCSharing`, `MCChanges`, `MCMachines`, `MCRecurring`, `MCConverging` | the instances TLC checks |
| `CredentialsProofs`, `SharingProofs` | theorems about two of these compositions, from those of their components |

Conventions common to all modules. A SQL transaction, an atomic file
replacement, a Git command and an HTTP call are each one step. A value that is
read before an `await`, an unlock or another process' turn and used after it is
in a variable, and reading and using it are two actions. A call that can fail at
the caller and be carried out all the same is two actions, the effect and the
answer, with an action that loses the answer. A crash is an action that clears
the memory and leaves the files and tables. Variables marked *history* only
record what happened and are read by properties alone. Every bound is a named
constant (`Max...`) that appears in a guard.

### Scheduler

State: the durable tables (`status`, `state`, `owner`/`astate` for the attempts
table, `worker`, `claims`, `asked`/`answered`, `resv`, `grant`); the event
loop's memory (`phase`, `cur` and `outcome` are the entries of
`Scheduler.running` and the futures behind them; `fin` is a `finish_ref`
between the reads it makes first and its transaction); the position of the
tick (`pc`, `left`, `task`, `snap`, `todo`, `sel`); `releasing`, the
`release_claims` calls between their checks and their `DELETE`; and the
operating system (`daemon`, `alive` processes, `recorded` pids).

Grain of atomicity. A SQL transaction is one step. A read whose value is used
by a later statement is a step of its own when another connection may commit
in between: `finish_ref` (`FinishRead`/`FinishCommit`), `settle`
(`SettleRead`/`SettleWrite`), `ready` (`ReadyRead`/`ReadyWrite`), the checks of
a row and `begin` (`Select`/`Begin`), `release_claims`
(`ReleaseCheck`/`ReleaseDelete`). The tick and the futures run on one thread,
so they interleave only where the code awaits (`Yielded`); RPC handlers run
on blocking threads and interleave everywhere.

Abstractions. A step has one managed worker and one scope; `Overlap` says which
scopes overlap (`store::overlaps` on path prefixes). There is one project, one
account and one host limit. Row order of `tasks` and `steps` is left open
(nondeterministic), which covers every order. `steps` that `add_steps` may
append are constants with state `absent`. A workflow condition, retry count and
fallback chain of a step are constants. `AttemptIds` bounds the attempts table
and `Ops` names the requests and failures an instance includes.
What an attempt returns is arbitrary (`ok`, `error`, `capacity`, `loop`).
The await points of the tick between the checks and `begin` exist only for
remote accounts and preview reviews; the model allows them for every step. The
tick also awaits where it reaps (`runtime.rs:718`, `776`-`780`), in its preview and
advice passes (`784`, `792`-`794`) and after a dispatch (`1027`); there the model lets
no future run. The futures write their outcome (`FinishCommit`) and their claims, and
the steps before and after those awaits are open to the RPC handlers all the same.
`HostActive` counts attempts; `project_runtime::host_active` adds preview jobs, which
only leaves fewer slots.
A worker's `notified` status (unread mail) is `idle` here and a state of
`Mailbox`.

### Topup, Signup and Payments

`provider_signup/topup.rs` pays for provider credit through a Link wallet, on
its own, within a limit per UTC month. Its durable state is private files, each
replaced atomically and fsynced (`receipt.rs`): the policy with its pending
attempt (`policy`), one file per settled charge (`ledger`), and the saved answer
to a payment (`reply`). A file lock is held from reading the policy to writing
it, so at most one request or check is under way: `check` says where it is and
holds the policy in its memory. `link` (the wallet's spend requests), `posted`
(payments sent), `stale` (expired quotes), `month` and `keyNow` are the world.

Every effect is a step: a quote becomes the pending attempt (`Quote`), the
wallet is asked (`Create`, whose reply may be lost) and read (`Declined`), the
fsynced transition to submitting (`Submit`), the paid POST (`Pay`, with or
without an answer), the saved answer (`SaveReply`), the ledger (`Finish`), the
policy file (`WritePolicy`). The process may die between any two (`TopupCrash`),
and the writes that the code survives may fail. The balance is not modelled: a
check may find it low or not. `posted` records the month of `submitted_at`, which
is what the limit is about. One organization; `configure` for another one is
refused while this one is enabled or unsettled. A policy whose `limit` is 0 does
not exist yet.

`Signup` is the same discipline for a new provider key, with one record per
request id, and with an operator who may replace the credential at any moment.
`Payments` says what both promise: an order is charged at most once, and one that
was given up is never charged. `TopupPays` and `SignupPays` are the refinements:
the charges are the posts sent, and an order is given up when its record is
cancelled, declined, expired or dropped; several may be dropped in one step, since a
crash loses every signup that was not yet written.

### The other modules

The comment at the head of each module says which files it models, what runs
concurrently in it and what is abstracted. Where a choice needs a reason:

- `Leases`: one lease is two reservations and two calls. A reply is matched to the
  request it answers. Calls are a set: one that is repeated merges with the copy
  still in flight, which the handlers, being idempotent, cannot tell apart; keeping
  the copies of given-up calls apart was too large for TLC. A request of a worker
  process that died is carried out before its successor asks, or never. `Quota`
  is the abstract specification: no more units held than the limit, work only on a
  unit that is held, a unit returned only when nothing runs on it.
  `FleetWithinLimit` shows that the capacity of a project over all workers
  implements it, through lost releases and releases that overtake acquires.
  A removal or retirement by the controller is handled in the order of the code (count
  of live attempts, count of grants, deletion of the file, the flag), and the worker's
  own scheduler runs between these. `account_control.rs:62`-`81` reserves an account,
  reads it back and provisions the credential; `AccountAcquire` does all three, so a
  provision that fails after the reservation (which leaves the account reserved until
  it is released) is not in it.
- `Delegation` splits handlers that read before their transaction in two. Its
  instances are a tree that grows and a tree of two generations already there.
- `Environment`: a row held for storage (`envHold`) is skipped by every pass until the
  receipt is gone, so `PendingIsCleaned` is about the other rows. A group whose leader
  is dead is killed by number, whoever is in it (`strays`): what a reused number does
  is in the model, and no property excludes it.
- `Budget`: a look that fails (a slow `git`, a file that vanished) is ignored and the
  rule applied without it. Idle time counts in units of the budget and saturates; the supervisor
  looks several times per unit.
- `Recover`: the state of the step, the tip, the tree and the dependents are read
  before the transactions that use them. `RecoveredOnNamedHead` and `DependentsReopened`
  therefore speak of what was read, and except a step whose agent worked again meanwhile.
- `RunBranch`: a commit is the set of commits it contains, so that ancestry is
  inclusion and a missing branch is the empty set.
- `Delivery`, `Release`, `PreviewReview`: what others change on GitHub is a
  version that only advances; a comparison of hashes is equality of versions.
- `Preview`: the admission service is external; a key it has seen before is
  answered as before. A lease expires by itself, also under a build, which the renewal
  notices later (`RenewLost`); an answer carries the state the service had when it gave it.
- `PreviewReview`: preparation and enqueueing read policy, head, main and feedback one
  after the other; `PreviewWasReviewed` covers the feedback there was when the enqueue
  looked for evidence.
- `Update`, `Ax`: a tick of the scheduler reads `draining` once and begins attempts after
  several awaits (`UpdTick`/`UpdWorkStarts`, `AxTickReads`/`AxBegins`). What holds in
  spite of that is in `HeldUntilVerified` and `DownMeansIdle`, the rest in section 5.
- `Login`: the two receipts of a verification (`process.rs:157`-`160`) are one flag.
- `Decision`: the evidence of a review is the plan revision it was built from.
- `Federation`: `wire` holds calls that the caller has given up; they may be
  carried out later, in any order. A terminal task with an environment that was not removed is synced
  like a running one (`SyncTerminal`); whether it has one is left open, so nothing makes
  this happen.
- `Lima`: commands that a dead daemon had started end before its successor looks.

### Runs

The modules of a composite have no variable in common: where two components meet
in the code, each module has the other's effect as an action of its own (the hold
of a full disk in `Budget`, the revocation of a grant in `Leases`, the context
version in `Federation`). Their product would only multiply states. So an MC module
holds several parts, `part` says which one a behaviour is of, and the others rest
in one initial state. Everything a part may do, it does in some behaviour.

| Run | Shows |
|---|---|
| `Recovery` | overlapping coding steps under hard crashes at any statement, orphan processes, cancellation, reconciliation and resumption: one live attempt per step, one writer per scope, a finished task stays quiet, uncertainty ends only by reconciliation |
| `Questions` | two tasks on one host slot; a worker asks and is answered or cancelled at every point of its invocation and of `finish_ref`, with crashes, holds and revocations |
| `Progress` | liveness of one task with retries, broken futures, capacity errors, crashes, stops and an appended exclusive step: it settles, and a cancellation stops its invocations. No resumption: each one starts attempts that nothing but the bound limits |
| `Credentials` | `Topup`, `Signup`, `Login`, `Tokens`, `Pairing`, `Admission`, `Directory`: nothing is paid or presented twice, no record contradicts what is installed, a revoked identity gets nothing |
| `Sharing` | `Leases`, `Delegation`, `Mailbox`, `Budget`, `Environment`, `Storage`, `Worktrees`: limits hold, capacity comes back, a wait has an open cause, what is removed was finished or can be restored |
| `Changes` | a plan with a failure branch, an appended exclusive command, retries and capacity fallbacks (`Scheduler`), then `RunBranch`, `Recover`, `Decision`, `Preview`, `PreviewReview`, `Delivery`, `Release`, `Maintenance`, `Update`, `Catalog`: only what was checked is recorded, published, merged, released, previewed or installed |
| `Machines` | two tasks and one account slot with revocation, regrant, crash and stop (`Scheduler`), then `Federation`, `Control`, `Fleet`, `Lima`, `Ax`: work is carried out once, machines are neither orphaned nor oversold |
| `Recurring` | liveness of the loops of one daemon: `Topup`, `Login`, `Mailbox`, `Budget`, `Environment`, `Storage`, `Maintenance`, `Preview`, `Decision` |
| `Converging` | liveness between hosts: `Admission`, `Pairing`, `Control`, `Federation`, `Fleet`, `Update`, `Ax`, `Catalog` |
| `OverlapDispatch`, `ReservationLeak`, `LostAuthorization` | the disagreements of section 5 |

Properties. Each component module states its invariants and action properties one by
one, each with its comment, and ends with the conjunction of its invariants
(`LoginInv`, `TreeInv`, `FedInv`, ...). A composite asserts of each part its
conjunction while that part moves, `[](part = "login" => LoginInv)`, and the action
properties beside it, and groups related parts (`LoginSafe`, `EnrolmentSafe`,
`TasksSafe`, `HostSafe`, `BranchSafe`, `ReviewSafe`, `DeliverySafe`, `UpkeepSafe`,
`FederationSafe`, `FleetsSafe`); likewise the liveness properties (`DaemonSettles`,
`AdviceSettles`, `WorkersSettle`, `MachinesSettle`). A conjunct is only evaluated in
the states of its part.

Bounds. For the scheduler, two to four steps and three to six attempts. Every
hazard involves at most two steps (the one that is disturbed and the one that
disturbs), one crash and one retry; three attempts are a first attempt, the
attempt after a recovery, and one more by another step. For `Topup`, two uuids
and two months: the second payment is the one that the first could break, in the
same month or the next; a limit of 5 admits both quotes (2 and 3) in one month, and
not the larger one twice. For the others, two of whatever can get in each other's way (two
callers, daemons, controllers, tasks, volumes, guests, requests), one or two
crashes and broken connections, and as many operations as it takes to have one
disturbed, one disturbing and one that finds what they left. Some instances are
split where two counters never meet, and a bound in the next-state relation of the
composite says so: `FedBound` (two tasks, or one task whose context or plan changes, not both),
`PvBound` (a preview that ages, or two that do not), `DcBound` (two reviews, or two
routing decisions beside a review), `DirBound` (a second worker whose name needs no
confirmation), `UpdBound` (liveness without a restart by command), the parts of
`Delegation` (`grow`, `ask`, `accept`) and of `Leases` (`lease`: one step and an operator,
and by `LeaseBound` two of a lost call, a new version and a new grant; `leases`: two steps
that compete, no lost calls). `Progress` begins
with one coding step and appends the exclusive check (`add`); `Questions` gives each
of two tasks one attempt.
The liveness runs use smaller
instances of the same modules, because TLC's liveness check is far more expensive;
they keep the crash, the lost message or the competitor the property is about.

Fairness. The 200 ms interval keeps ticking and the local task set polls every
spawned future between ticks, so `Tick` and `FinishCommit` are weakly fair and
the futures strongly fair (they can only run while the tick is not). An
invocation owes nothing by itself, since a worker may never return: `CancelStops`
holds without it, and `TaskSettles` is conditional on invocations that return,
which `budget::supervise` sees to. Operators, crashes, restarts by an operator and
lost messages owe nothing anywhere.

In `MCRecurring` and `MCConverging` every fair action is a loop, a timer or a
process the code keeps running, with its reason beside it: the minute check of
top-ups, the supervisor thread of a login, the sampler, the maintenance loop, the
pressure loop, the guard of a command, the preview scan, the reconnecting streams,
the reconcile ticks of federation, fleet and AX, the update helper. Weak fairness
is enough for all but four. `Finish` of a top-up, because a process that dies there
is restarted and does not die at the same place every time; `RuleRead` of a budget,
because the database is busy at one time and free at the next; the registration
of a request in the inbox of `Admission`, because not every request of a machine
is lost; `AcceptStart` of `Pairing`, because the daemon on the worker is not busy
every time the operator repeats the command.

## 3. Proofs

Every theorem is proved for all constants that satisfy the named assumptions of its
module, and each begins with an inductive invariant that TLC has also checked as an
invariant of the component on its small instance. Assumptions only say what the code
guarantees: the sets are nonempty, bounds are natural numbers, a limit covers a quote.

**Scheduler** (`SchedulerProofs`): type correctness, `OneLiveAttempt`,
`ReleaseNeverRefused`, `NoStrandedWait`, `HostCeiling`, `AccountCeiling`,
`UncertainNeedsReconcile` and `CancelWins`. `OneLiveAttempt` is not inductive: `begin`
only looks at the step's state. The strengthening `SafeInv` says which step states a
live attempt allows (`LivePinned`: never `pending`, so `begin` cannot start a second
one), that the running map names the live attempt of its step and a reaped entry has
none, that a snapshot of `settle` never shows as failed a step with a live attempt
(`SnapshotQuiet`: a retry would make it pending), and that the tick's position
variables agree with `pc`. `WaitInv` adds the relation of a pending `finish_ref` to the
questions; `CeilingInv` the relation of live attempts to reservations.

**What the tick may rely on** (`FlowProofs`): `ExclusiveAlone` and
`FinishedTaskIsQuiet` for every plan and request. `FlowInv` says which of the things
that the tick read and will act on are still true: a row it is about to dispatch can
have been cancelled meanwhile and nothing else (`PlanHolds`), what it may begin is alone
(`BeginAlone`), and a snapshot that lets `settle` finish a task shows every step that
is live (`SettleQuiet`). Three further results are for instances whose `Ops` exclude
requests that break them on purpose or by a race listed in section 5:

- `DependencyOrder` and `RetryBound` (`HelplessInv`) without `resume` and `ask`: a
  resumed or answered step runs again, whatever it has used up and whatever ran after it.
  The argument is that without them a settled step stays settled.
- `SoleWriter` (`WriterInv`) without `release`: the checks of `release_claims` and its
  `DELETE` are no transaction. The argument is that no process outlives its claim.

**Payments** (`PaymentsProofs`). For top-ups `NeverPaidTwice`,
`PaymentsAccounted`, `DisabledNeverPays` and the refinement `TopupPays`; for signups
`OnePaidUnsettled`, `ChargeAsQuoted`, `InstalledKeyIsSaved`, all of `SignupInv` and the
refinement `SignupPays`. None is inductive, because what a process holds in memory may
become the next file. `TopupInv` therefore asks of both that they are `Sound`: every
payment outside the ledger is their pending attempt, and an attempt that is not
submitted was never posted; between the fsynced transition and the saved answer the two
are equal (`Committed`). `SignupSafeInv` says the same place by place: how far a request
may be ahead of its record, and what a payment, a saved response and an installed key
leave in the record for ever. A refinement then follows step by step: a paid POST finds
its order uncharged and not given up.

**Tokens** (`TokensProofs`): all of `TokensInv` (`PresentedOnce`, `SoleRefreshOwner`,
`OldSignInStaysOut`) and `HoldsFollowRefresh`. `TokensSafeInv` says where a refresh token
can be: in force, on its way into force under the lock, carried by a sign-in that has not
ended, or gone. No two of these share a token; who is at work has the lock, so one at
most is on its way; and if the token in force was already presented, a later one was
issued and its answer lost (`Current`), which is the only reason to present it again. A
sign-in that was waiting when the account was closed began with an older version
(`Shutting`), so its commit finds another one.

**Leases** (`LeasesProofs`): all of `LeasesInv` (`RunsOnItsAccount`,
`ProjectCapacityReturned`, `RevokedGrantStaysOut`), the refinement
`FleetWithinLimit` of `Quota`, and its consequence `FleetNotOversold`. The argument of
`LeasesSafeInv`: a call that gives a reservation back is under way only when the lease
can no longer lead to an attempt (`LeasePlaces`), calls are for requests drawn so far and
older requests are over (`OldOver`), and so what an attempt runs on is still reserved
for it (`HeldWhileNeeded`) however late its calls are handled.

**Compositions** (`CredentialsProofs`, `SharingProofs`): a behaviour of the composition
is one of each component, so the properties of the runs, `SignupSafe`, `TokensSafe` and
`LeasesSafe`, hold for all constants.

Only model-checked: liveness and everything under fairness, and what needs `ENABLED`,
which are out of the prover's reach; `MonthlyLimit` (a sum over a set, which needs
induction); the safety of the modules without a proof module.

## 4. Plan

Everything section 1 names with a protocol of its own is modelled. Next are proofs,
in this order, since each rests on an invariant TLC already checks:

1. `Delivery` (`AuthorizedTogether`, `MergeSentOnce`) and `Release`
   (`OurTagHasIntent`), towards `DeliverySafe`.
2. `Fleet` (`NoOrphanContainer`) and `Federation` (`CarriedOutOnce`), towards
   `FleetsSafe` and `FederationSafe`.
3. `Admission` and `Directory`, which with `Pairing` make `EnrolmentSafe`; `Login`.
4. `Delegation` and `Mailbox` for `TasksSafe`.

Related proofs share a module, as those of `Topup` and `Signup` do.

## 5. Where the code and its documentation disagree

Shown by runs that end in a violation:

- `OverlapDispatch`: steps with overlapping scopes that are ready in one tick are both
  dispatched, since the claim is taken after `begin`; the second one fails.
  `docs/architecture.md` says that claims prevent it.
- `ReservationLeak`: a graceful stop never releases the account reservation of the
  attempts it finishes.
- `LostAuthorization`: a top-up whose wallet reply was lost has no spend id, so
  `disable` and an expired quote clear it without cancelling the authorization,
  against the comment of `cancel_unsubmitted_wallet`.

In the models, and not the subject of a run:

- A cancellation that commits between `ready` and `begin` makes `begin` fail, and
  the error ends the daemon; attempts of other tasks become uncertain.
  `docs/coordination.md` speaks of a hard crash.
- `settle` writes a task's status from steps it read earlier; a step appended in
  between stays pending in a succeeded task.
- The checks of `release_claims` and its `DELETE` are not one transaction, so a
  worker that starts in between loses the claim it has just taken: `SoleWriter` is
  checked and proved without this request.
- The update that blocks a task is not conditional on its status, so it can
  overwrite a cancellation that commits just before it; the steps stay cancelled.
- `budget::status` subtracts only pauses whose event was recorded, and a degraded
  hold records none: a report is then refused although no active time has passed
  (`docs/runtime-management.md:134`).
- `enrollment::activate` updates by runtime alone, so a revocation that commits
  after its read is overwritten (`docs/networking.md:232`).
- A failed `docker compose down` of the startup pass leaves the row in a state
  that the maintenance loop does not select (`docs/environments.md:134`).
- `update.rs` reads the schema before it switches the launcher back; a replacement
  that starts in between migrates the database, and the older binary cannot open it.
- `child_verified` compares the parent's context version only: a child that was
  revised and finished again meanwhile is accepted. `delegate` on an accepted child
  reopens it without dropping the acceptance.
- A delivery that recorded its merge intent and died before the merge was sent is
  refused from then on.
- A superseded preview revision that becomes current again never gets a job.
- A controller that dies before a project host heard of a runtime can never destroy
  it: the host refuses an unknown runtime. The stop of an AX worker that never
  enrolled waits for ever and blocks a later destroy.
- Recovery compares statuses at its end, so a step that was resumed and failed again
  meanwhile looks unchanged to it. It reads the skipped dependents before its last
  transaction (`recover.rs:596`): if the step was resumed by then, and fails again before
  the transaction, they stay skipped.
- A received credential is removed after a count of live attempts, in statements of
  their own; an attempt that begins after the count runs while its file is deleted. The
  comment says that removal follows the end of its invocations
  (`accounts/credentials.rs:268`).
- The cleanup of an environment kills the recorded process group when nobody has the
  recorded pid, without looking who is in it (`docs/environments.md:144`), and a
  crashed storage hold is left to the operator (`environment.rs:826`).
- A rule that is applied after a failed look (`budget.rs:248`) can stop an attempt that
  was at work.
- Feedback that arrives between the enqueue's look for evidence and its `INSERT` is
  not part of the review that lets the revision in. An artifact is published although
  its lease has expired, if the build ends before the next renewal.
- The daemon reads `draining` once in a tick (`runtime.rs:787`). An attempt may begin
  after `runtime_status` answered `drained`: under a recorded update handoff, where it
  is ended by the restart, and on an AX worker that is then suspended or deleted
  (`docs/ax.md`: stop drains the work first).
- `delete_aux` verifies the Gateway and the Workspace and then deletes both by name; an
  edit in between is deleted, against its comment that the deletion does not
  authorize deleting replacement resources (`fleet/ax.rs:314`).

## 6. Not modelled

Formats, prompts, wording and views; parsing and validation of templates,
submissions and configuration, whose result is the constants of the modules;
projects and the selection of executions; the sessions of executors and their wire
formats; processes whose pid was never recorded, which the code cannot see;
the qualification harness of deliveries; lookup of secrets, capabilities, browsers,
knowledge and skills; interactive setup, administration and provisioning; the
outbox of observations and notifications; archives of repositories sent between
hosts; capacity and wallet reports; the command line. In `Preview`, a request that
the service carries out after the client timed out, and a policy changed back to an
earlier one. In `Decision`, failures to open the store. Cryptography, TLS and file
permissions are taken to work. `PROJECT.json` gives the state of each part.
