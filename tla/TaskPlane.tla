---- MODULE TaskPlane ----
(***************************************************************************)
(* The durable task plane: the tasks table, its service-role RPCs          *)
(* (claim_tasks, heartbeat_task, complete_task, fail_task, defer_task,     *)
(* recover_expired_leases), its operator RPCs (approve_task, cancel_task,  *)
(* retry_task), the history pruner, and the processes that execute tasks:  *)
(* ticks (lib/tasks/runner.ts, internal and api modes) and remote browser  *)
(* executors (app/api/worker/v1, workers/browser-executor).                *)
(*                                                                         *)
(* An RPC is one transaction, hence one action.  What a process read or    *)
(* was handed before (a count, a claimed row) is state of the process and  *)
(* may be stale when it is used.  A process may stop at any step.          *)
(*                                                                         *)
(* Time is abstract: due[t] says that next_run_at has passed and           *)
(* leaseLive[t] that lease_expires_at has not.                             *)
(***************************************************************************)
EXTENDS Integers, FiniteSets

CONSTANTS
  Tasks,           \* row ids (each with its own idempotency key)
  BrowserTasks,    \* those whose execution_mode is browser; ticks run the others
  Ticks,           \* runs of GET /api/cron/tick, each with a fresh tick:<uuid>
  Executors,       \* remote browser executor processes
  Identities,      \* worker_identities; worker:<id> is the lease owner
  IdentityOf,      \* the identity whose token an executor uses
  NoOwner,         \* lease_owner is null
  MaxAttempts,     \* retry_policy.maxAttempts
  MaxDeps,         \* how many tasks one may depend on (a CHECK of the table)
  MaxResolves,     \* bound: operator resolutions of one task between two resets
  TickBatch,       \* MAX_BACKGROUND_WORKERS
  MaxBrowser,      \* MAX_BROWSER_CONCURRENCY
  MaxConcurrency   \* worker_identities.max_concurrency

ASSUME TaskPlaneAssumption ==
  /\ BrowserTasks \subseteq Tasks
  /\ IsFiniteSet(Tasks) /\ IsFiniteSet(Executors)
  /\ Ticks \cap Executors = {}
  /\ Ticks \cap Identities = {}
  /\ IdentityOf \in [Executors -> Identities]
  /\ NoOwner \notin Ticks \cup Identities
  /\ MaxAttempts \in Nat \ {0}
  /\ MaxDeps \in Nat
  /\ MaxResolves \in Nat
  /\ TickBatch \in Nat \ {0}
  /\ MaxBrowser \in Nat \ {0}
  /\ MaxConcurrency \in Nat \ {0}

VARIABLES
  \* columns of the tasks table
  state, attempts, due, leaseOwner, leaseLive, approval, intervention,
  deadLettered, startedAt, dependsOn,
  resolves,        \* history: waiting_for_user -> queued since the last reset
  \* the processes
  pc,              \* where a process stands in its claim
  exec,            \* exec[p][t]: the attempt of t that p is executing, 0 = none
  \* history of the counts POST /claim could not make
  uncounted,       \* executors whose claim under way was admitted on a failed count
  unseen           \* tasks leased by such a claim

rowVars  == <<state, attempts, due, leaseOwner, leaseLive, approval,
              intervention, deadLettered, startedAt, dependsOn, resolves>>
blindVars == <<uncounted, unseen>>
procVars == <<pc, exec, blindVars>>
vars == <<state, attempts, due, leaseOwner, leaseLive, approval, intervention,
          deadLettered, startedAt, dependsOn, resolves, pc, exec, uncounted, unseen>>

Processes == Ticks \cup Executors
Owners    == Ticks \cup Identities
Owner(p)  == IF p \in Ticks THEN p ELSE IdentityOf[p]

TaskStates == {"queued", "running", "waiting", "waiting_for_user", "retrying",
               "completed", "failed", "cancelled"}
RowStates  == TaskStates \cup {"absent", "pruned"}
Terminal   == {"completed", "failed", "cancelled"}
Exists(t)  == state[t] \in TaskStates

\* The table of task_transition_guard.
Allowed(from, to) ==
  \/ from = "queued"           /\ to \in {"running", "cancelled"}
  \/ from = "retrying"         /\ to \in {"running", "cancelled", "failed"}
  \/ from = "waiting"          /\ to \in {"running", "queued", "cancelled"}
  \/ from = "running"          /\ to \in {"completed", "waiting", "waiting_for_user",
                                          "retrying", "failed", "cancelled"}
  \/ from = "waiting_for_user" /\ to \in {"queued", "cancelled"}
  \/ from = "failed"           /\ to = "queued"

TypeOK ==
  /\ state \in [Tasks -> RowStates]
  /\ attempts \in [Tasks -> Nat]
  /\ due \in [Tasks -> BOOLEAN]
  /\ leaseOwner \in [Tasks -> Owners \cup {NoOwner}]
  /\ leaseLive \in [Tasks -> BOOLEAN]
  /\ approval \in [Tasks -> {"not_required", "pending", "approved", "rejected"}]
  /\ intervention \in [Tasks -> {"none", "requested", "resolved"}]
  /\ deadLettered \in [Tasks -> BOOLEAN]
  /\ startedAt \in [Tasks -> BOOLEAN]
  /\ dependsOn \in [Tasks -> SUBSET Tasks]
  /\ resolves \in [Tasks -> Nat]
  /\ pc \in [Processes -> {"idle", "ticking", "admitted", "counted"}]
  /\ exec \in [Processes -> [Tasks -> Nat]]
  /\ uncounted \subseteq Executors
  /\ unseen \subseteq Tasks

Init ==
  /\ state        = [t \in Tasks |-> "absent"]
  /\ attempts     = [t \in Tasks |-> 0]
  /\ due          = [t \in Tasks |-> FALSE]
  /\ leaseOwner   = [t \in Tasks |-> NoOwner]
  /\ leaseLive    = [t \in Tasks |-> FALSE]
  /\ approval     = [t \in Tasks |-> "not_required"]
  /\ intervention = [t \in Tasks |-> "none"]
  /\ deadLettered = [t \in Tasks |-> FALSE]
  /\ startedAt    = [t \in Tasks |-> FALSE]
  /\ dependsOn    = [t \in Tasks |-> {}]
  /\ resolves     = [t \in Tasks |-> 0]
  /\ pc           = [p \in Processes |-> "idle"]
  /\ exec         = [p \in Processes |-> [t \in Tasks |-> 0]]
  /\ uncounted    = {}
  /\ unseen       = {}

----
(* Creating rows. *)

\* enqueueTask: an upsert that ignores a duplicate key, so an existing row is
\* left alone.  Dependencies must exist; a gated task starts pending.
EnqueueTask(t, deps, gated, now) ==
  /\ state[t] = "absent"
  /\ Cardinality(deps) <= MaxDeps /\ \A d \in deps : Exists(d)
  /\ state'     = [state EXCEPT ![t] = "queued"]
  /\ dependsOn' = [dependsOn EXCEPT ![t] = deps]
  /\ approval'  = [approval EXCEPT ![t] = IF gated THEN "pending" ELSE "not_required"]
  /\ due'       = [due EXCEPT ![t] = now]
  /\ UNCHANGED <<attempts, leaseOwner, leaseLive, intervention, deadLettered,
                 startedAt, resolves, procVars>>

----
(* Claiming: claim_tasks and its two callers. *)

\* Mutants: the approval column is not looked at; expired leases are stolen in place.
Claimable_ungated(t) ==
  /\ state[t] \in {"queued", "retrying", "waiting"}
  /\ due[t]
  /\ \A d \in dependsOn[t] : Exists(d) => state[d] = "completed"

Claimable_steals(t) ==
  /\ state[t] \in {"queued", "retrying", "waiting"} \/ (state[t] = "running" /\ ~leaseLive[t])
  /\ due[t]
  /\ approval[t] \in {"not_required", "approved"}
  /\ \A d \in dependsOn[t] : Exists(d) => state[d] = "completed"

Claimable(t) ==
  /\ state[t] \in {"queued", "retrying", "waiting"}
  /\ due[t]
  /\ approval[t] \in {"not_required", "approved"}
  /\ \A d \in dependsOn[t] : Exists(d) => state[d] = "completed"

\* The update of claim_tasks: SKIP LOCKED makes the batch any subset S of the
\* candidates.  The caller executes what it was handed.
ClaimTasks(p, S) ==
  /\ \A t \in S : Claimable(t)
  /\ state'      = [t \in Tasks |-> IF t \in S THEN "running" ELSE state[t]]
  /\ attempts'   = [t \in Tasks |-> IF t \in S THEN attempts[t] + 1 ELSE attempts[t]]
  /\ leaseOwner' = [t \in Tasks |-> IF t \in S THEN Owner(p) ELSE leaseOwner[t]]
  /\ leaseLive'  = [t \in Tasks |-> IF t \in S THEN TRUE ELSE leaseLive[t]]
  /\ startedAt'  = [t \in Tasks |-> IF t \in S THEN TRUE ELSE startedAt[t]]
  /\ exec' = [exec EXCEPT ![p] = [t \in Tasks |-> IF t \in S THEN attempts[t] + 1 ELSE 0]]
  /\ UNCHANGED <<due, approval, intervention, deadLettered, dependsOn, resolves>>

Free(p) == \A t \in Tasks : exec[p][t] = 0

\* A tick draws a fresh uuid, so its id is one that no row carries.
TickStart(p) ==
  /\ pc[p] = "idle" /\ Free(p)
  /\ \A t \in Tasks : leaseOwner[t] # p
  /\ pc' = [pc EXCEPT ![p] = "ticking"]
  /\ UNCHANGED <<rowVars, exec, blindVars>>

\* One round of runTaskBatch: claim, then execute the whole batch.
TickClaim(p, S) ==
  /\ pc[p] = "ticking" /\ Free(p)
  /\ S # {} /\ Cardinality(S) <= TickBatch
  /\ S \cap BrowserTasks = {}
  /\ ClaimTasks(p, S)
  /\ UNCHANGED <<pc, blindVars>>

\* The queue is empty, the task limit or the time budget is reached.
TickEnd(p) ==
  /\ pc[p] = "ticking" /\ Free(p)
  /\ pc' = [pc EXCEPT ![p] = "idle"]
  /\ UNCHANGED <<rowVars, exec, blindVars>>

RunningOf(o)   == {t \in Tasks : state[t] = "running" /\ leaseOwner[t] = o}
RunningBrowser == {t \in BrowserTasks : state[t] = "running"}
MaxRunning     == IF MaxConcurrency < MaxBrowser THEN MaxConcurrency ELSE MaxBrowser

\* POST /claim reads the global count, before and outside the RPC; the error of
\* a count that fails is dropped and the count taken for zero ...
ClaimAdmit(p) ==
  /\ pc[p] = "idle" /\ Free(p)
  /\ \/ Cardinality(RunningBrowser) < MaxBrowser /\ UNCHANGED uncounted
     \/ uncounted' = uncounted \cup {p}
  /\ pc' = [pc EXCEPT ![p] = "admitted"]
  /\ UNCHANGED <<rowVars, exec, unseen>>

\* ... claim_tasks then counts the owner's running tasks in one statement ...
ClaimCount(p) ==
  LET below == Cardinality(RunningOf(Owner(p))) < MaxRunning IN
  /\ pc[p] = "admitted"
  /\ pc' = [pc EXCEPT ![p] = IF below THEN "counted" ELSE "idle"]
  /\ uncounted' = IF below THEN uncounted ELSE uncounted \ {p}
  /\ UNCHANGED <<rowVars, exec, unseen>>

\* The claim ends, and with it what its count knew.
ClaimEnds(p, S) ==
  /\ pc' = [pc EXCEPT ![p] = "idle"]
  /\ unseen' = IF p \in uncounted THEN unseen \cup S ELSE unseen \ S
  /\ uncounted' = uncounted \ {p}

\* Mutant: p_limit is two.
ClaimBrowser_pair(p, S) ==
  /\ pc[p] = "counted"
  /\ S \subseteq BrowserTasks /\ Cardinality(S) <= 2
  /\ ClaimTasks(p, S)
  /\ ClaimEnds(p, S)

\* ... and leases at most one task in the next one.
ClaimBrowser(p, S) ==
  /\ pc[p] = "counted"
  /\ S \subseteq BrowserTasks /\ Cardinality(S) <= 1
  /\ ClaimTasks(p, S)
  /\ ClaimEnds(p, S)

----
(* Executing: the lease-checked settlements. *)

\* Mutant: any running row will do.
HoldsLease_anyOwner(p, t) == state[t] = "running"

\* The where clause of heartbeat, complete, fail and defer: it asks for the
\* owner, not for the attempt and not for a lease that is still live.
HoldsLease(p, t) == state[t] = "running" /\ leaseOwner[t] = Owner(p)

Executing(p, t) == exec[p][t] # 0
Done(p, t)      == exec' = [exec EXCEPT ![p][t] = 0]

\* task_transition_guard nulls the lease when a row leaves running.
Leave(t, s) ==
  /\ state'      = [state EXCEPT ![t] = s]
  /\ leaseOwner' = [leaseOwner EXCEPT ![t] = NoOwner]
  /\ leaseLive'  = [leaseLive EXCEPT ![t] = FALSE]

HeartbeatTask(p, t) ==
  /\ Executing(p, t) /\ HoldsLease(p, t)
  /\ leaseLive' = [leaseLive EXCEPT ![t] = TRUE]
  /\ UNCHANGED <<state, attempts, due, leaseOwner, approval, intervention,
                 deadLettered, startedAt, dependsOn, resolves, procVars>>

CompleteTask(p, t) ==
  /\ Executing(p, t) /\ HoldsLease(p, t)
  /\ Leave(t, "completed")
  /\ intervention' = [intervention EXCEPT ![t] = IF @ = "requested" THEN "resolved" ELSE @]
  /\ Done(p, t)
  /\ UNCHANGED <<attempts, due, approval, deadLettered, startedAt, dependsOn, resolves, pc,
                 blindVars>>

Decisions == {"retry", "give_up", "needs_user"}

\* Mutants: one retry too many; a state the column does not know.
FailState_offByOne(t, decision) ==
  CASE decision = "needs_user" -> "waiting_for_user"
    [] decision = "retry" /\ attempts[t] <= MaxAttempts -> "retrying"
    [] OTHER -> "failed"

FailState_unknown(t, decision) ==
  CASE decision = "needs_user" -> "waiting_for_user"
    [] decision = "retry" /\ attempts[t] < MaxAttempts -> "retrying"
    [] OTHER -> "dead_lettered"

FailState(t, decision) ==
  CASE decision = "needs_user" -> "waiting_for_user"
    [] decision = "retry" /\ attempts[t] < MaxAttempts -> "retrying"
    [] OTHER -> "failed"

FailTask(p, t, decision) ==
  LET s == FailState(t, decision) IN
  /\ Executing(p, t) /\ HoldsLease(p, t)
  /\ Leave(t, s)
  /\ due'          = [due EXCEPT ![t] = IF s = "retrying" THEN FALSE ELSE @]
  /\ deadLettered' = [deadLettered EXCEPT ![t] = (s = "failed")]
  /\ intervention' = [intervention EXCEPT ![t] = IF s = "waiting_for_user" THEN "requested" ELSE @]
  /\ Done(p, t)
  /\ UNCHANGED <<attempts, approval, startedAt, dependsOn, resolves, pc,
                 blindVars>>

\* External progress pending: park the task without consuming an attempt.
DeferTask(p, t, now) ==
  /\ Executing(p, t) /\ HoldsLease(p, t)
  /\ Leave(t, "waiting")
  /\ attempts' = [attempts EXCEPT ![t] = IF @ > 0 THEN @ - 1 ELSE 0]
  /\ due'      = [due EXCEPT ![t] = now]
  /\ Done(p, t)
  /\ UNCHANGED <<approval, intervention, deadLettered, startedAt, dependsOn, resolves, pc,
                 blindVars>>

\* A settlement that finds the lease gone changes no row ("lost", or a 409); a
\* call that never reaches the database looks the same.
SettleLost(p, t) ==
  /\ Executing(p, t)
  /\ Done(p, t)
  /\ UNCHANGED <<rowVars, pc, blindVars>>

\* The process dies; its leases stay until they expire.
Crash(p) ==
  /\ pc[p] # "idle" \/ ~Free(p)
  /\ pc'   = [pc EXCEPT ![p] = "idle"]
  /\ exec' = [exec EXCEPT ![p] = [t \in Tasks |-> 0]]
  /\ uncounted' = uncounted \ {p}
  /\ UNCHANGED <<rowVars, unseen>>

----
(* The first stage of a tick: leases that expired are taken back. *)

Expired == {t \in Tasks : state[t] = "running" /\ ~leaseLive[t]}

\* Mutants: the dead-letter mark is forgotten; exhausted rows are passed over.
RecoverExpiredLeases_unmarked(S) ==
  /\ S # {} /\ S \subseteq Expired
  /\ state' = [t \in Tasks |-> IF t \notin S THEN state[t]
                               ELSE IF attempts[t] >= MaxAttempts THEN "failed" ELSE "retrying"]
  /\ leaseOwner' = [t \in Tasks |-> IF t \in S THEN NoOwner ELSE leaseOwner[t]]
  /\ due'        = [t \in Tasks |-> IF t \in S THEN TRUE ELSE due[t]]
  /\ UNCHANGED <<attempts, leaseLive, approval, intervention, deadLettered, startedAt,
                 dependsOn, resolves, procVars>>

RecoverExpiredLeases_retriable(S) ==
  /\ S # {} /\ S \subseteq Expired
  /\ \A t \in S : attempts[t] < MaxAttempts
  /\ state'      = [t \in Tasks |-> IF t \in S THEN "retrying" ELSE state[t]]
  /\ leaseOwner' = [t \in Tasks |-> IF t \in S THEN NoOwner ELSE leaseOwner[t]]
  /\ due'        = [t \in Tasks |-> IF t \in S THEN TRUE ELSE due[t]]
  /\ UNCHANGED <<attempts, leaseLive, approval, intervention, deadLettered, startedAt,
                 dependsOn, resolves, procVars>>

RecoverExpiredLeases(S) ==
  LET Exhausted(t) == attempts[t] >= MaxAttempts IN
  /\ S # {} /\ S \subseteq Expired
  /\ state' = [t \in Tasks |-> IF t \notin S THEN state[t]
                               ELSE IF Exhausted(t) THEN "failed" ELSE "retrying"]
  /\ leaseOwner'   = [t \in Tasks |-> IF t \in S THEN NoOwner ELSE leaseOwner[t]]
  /\ due'          = [t \in Tasks |-> IF t \in S THEN TRUE ELSE due[t]]
  /\ deadLettered' = [t \in Tasks |-> IF t \in S THEN Exhausted(t) ELSE deadLettered[t]]
  /\ UNCHANGED <<attempts, leaseLive, approval, intervention, startedAt, dependsOn,
                 resolves, procVars>>

----
(* Operators. *)

ApproveTask(t, approve) ==
  /\ Exists(t) /\ approval[t] = "pending" /\ state[t] \notin Terminal
  /\ approval' = [approval EXCEPT ![t] = IF approve THEN "approved" ELSE "rejected"]
  /\ IF approve THEN UNCHANGED <<state, leaseOwner, leaseLive>> ELSE Leave(t, "cancelled")
  /\ UNCHANGED <<attempts, due, intervention, deadLettered, startedAt, dependsOn,
                 resolves, procVars>>

\* Mutant: dead letters can be cancelled too.
CancelTask_deadLetters(t) ==
  /\ Exists(t) /\ state[t] \notin {"completed", "cancelled"}
  /\ Leave(t, "cancelled")
  /\ UNCHANGED <<attempts, due, approval, intervention, deadLettered, startedAt,
                 dependsOn, resolves, procVars>>

CancelTask(t) ==
  /\ Exists(t) /\ state[t] \notin Terminal
  /\ Leave(t, "cancelled")
  /\ UNCHANGED <<attempts, due, approval, intervention, deadLettered, startedAt,
                 dependsOn, resolves, procVars>>

\* Mutant: any finished row can be retried.
RetryFailed_anyFinished(t) ==
  /\ state[t] \in {"failed", "completed"}
  /\ state'        = [state EXCEPT ![t] = "queued"]
  /\ attempts'     = [attempts EXCEPT ![t] = 0]
  /\ deadLettered' = [deadLettered EXCEPT ![t] = FALSE]
  /\ due'          = [due EXCEPT ![t] = TRUE]
  /\ resolves'     = [resolves EXCEPT ![t] = 0]
  /\ UNCHANGED <<leaseOwner, leaseLive, approval, intervention, startedAt, dependsOn, procVars>>

\* An owner re-queues a dead letter: the attempts start over.
RetryFailed(t) ==
  /\ state[t] = "failed"
  /\ state'        = [state EXCEPT ![t] = "queued"]
  /\ attempts'     = [attempts EXCEPT ![t] = 0]
  /\ deadLettered' = [deadLettered EXCEPT ![t] = FALSE]
  /\ due'          = [due EXCEPT ![t] = TRUE]
  /\ resolves'     = [resolves EXCEPT ![t] = 0]
  /\ UNCHANGED <<leaseOwner, leaseLive, approval, intervention, startedAt, dependsOn, procVars>>

\* A member resolves an intervention: the attempts go on.
RetryResolved(t) ==
  /\ state[t] = "waiting_for_user"
  /\ resolves[t] < MaxResolves
  /\ state'        = [state EXCEPT ![t] = "queued"]
  /\ intervention' = [intervention EXCEPT ![t] = "resolved"]
  /\ due'          = [due EXCEPT ![t] = TRUE]
  /\ resolves'     = [resolves EXCEPT ![t] = @ + 1]
  /\ UNCHANGED <<attempts, leaseOwner, leaseLive, approval, deadLettered, startedAt,
                 dependsOn, procVars>>

\* maintenance.prune_history: old completed and cancelled rows are deleted, with
\* all their columns.  What depends on them keeps naming them.
PruneHistory(S) ==
  LET Reset(column, null) == [t \in Tasks |-> IF t \in S THEN null ELSE column[t]] IN
  /\ S # {}
  /\ \A t \in S : state[t] \in {"completed", "cancelled"}
  /\ state'        = Reset(state, "pruned")
  /\ attempts'     = Reset(attempts, 0)
  /\ due'          = Reset(due, FALSE)
  /\ approval'     = Reset(approval, "not_required")
  /\ intervention' = Reset(intervention, "none")
  /\ startedAt'    = Reset(startedAt, FALSE)
  /\ dependsOn'    = Reset(dependsOn, {})
  /\ resolves'     = Reset(resolves, 0)
  /\ UNCHANGED <<leaseOwner, leaseLive, deadLettered, procVars>>

----
(* Time. *)

BecomesDue(t) ==
  /\ Exists(t) /\ ~due[t]
  /\ due' = [due EXCEPT ![t] = TRUE]
  /\ UNCHANGED <<state, attempts, leaseOwner, leaseLive, approval, intervention,
                 deadLettered, startedAt, dependsOn, resolves, procVars>>

LeaseExpires(t) ==
  /\ state[t] = "running" /\ leaseLive[t]
  /\ leaseLive' = [leaseLive EXCEPT ![t] = FALSE]
  /\ UNCHANGED <<state, attempts, due, leaseOwner, approval, intervention,
                 deadLettered, startedAt, dependsOn, resolves, procVars>>

----
Settle(p, t) ==
  \/ CompleteTask(p, t)
  \/ \E decision \in Decisions : FailTask(p, t, decision)
  \/ \E now \in BOOLEAN : DeferTask(p, t, now)
  \/ SettleLost(p, t)

TickStep(p) ==
  \/ TickStart(p) \/ TickEnd(p)
  \/ \E S \in SUBSET Tasks : TickClaim(p, S)

ExecutorStep(p) ==
  \/ ClaimAdmit(p) \/ ClaimCount(p)
  \/ \E S \in SUBSET BrowserTasks : ClaimBrowser(p, S)
  \/ \E t \in Tasks : HeartbeatTask(p, t)

OperatorStep ==
  \E t \in Tasks :
    \/ \E deps \in SUBSET Tasks, gated, now \in BOOLEAN : EnqueueTask(t, deps, gated, now)
    \/ \E approve \in BOOLEAN : ApproveTask(t, approve)
    \/ CancelTask(t) \/ RetryFailed(t) \/ RetryResolved(t)

Recover == \E S \in SUBSET Tasks : RecoverExpiredLeases(S)

Next ==
  \/ \E p \in Ticks : TickStep(p)
  \/ \E p \in Executors : ExecutorStep(p)
  \/ \E p \in Processes : Crash(p) \/ \E t \in Tasks : Settle(p, t)
  \/ OperatorStep
  \/ Recover
  \/ \E S \in SUBSET Tasks : PruneHistory(S)
  \/ \E t \in Tasks : BecomesDue(t) \/ LeaseExpires(t)

Spec == Init /\ [][Next]_vars

\* The cron job keeps calling the tick, whose first stage locks and recovers
\* every expired row; a process that executes a task settles it or dies (handlers
\* have deadlines, functions and CI jobs have time limits); a lease nobody renews
\* runs out.  Nothing is assumed of claims, heartbeats or operators.
Fairness ==
  /\ \A t \in Tasks :
       /\ WF_vars(\E S \in SUBSET Tasks : t \in S /\ RecoverExpiredLeases(S))
       /\ WF_vars(LeaseExpires(t))
  /\ \A p \in Processes, t \in Tasks : WF_vars(Settle(p, t) \/ Crash(p))

FairSpec == Spec /\ Fairness

----
(* Properties. *)

\* What the Jobs page and the executors read off a row agrees with its state: a
\* lease on exactly the running rows (the CHECK of the tasks table, which would
\* otherwise abort the RPC), a dead-letter mark on exactly the failed ones
\* (written by three RPCs and cleared by two), an intervention request on every
\* row that waits for the operator.
RowConsistent ==
  \A t \in Tasks :
    /\ (leaseOwner[t] # NoOwner) <=> (state[t] = "running")
    /\ leaseLive[t] => state[t] = "running"
    /\ deadLettered[t] <=> (state[t] = "failed")
    /\ state[t] = "waiting_for_user" => intervention[t] = "requested"

\* A task that needs approval is never started before an owner approved it, on
\* any path: first claim, retry, resume after an intervention, lease recovery.
ApprovalGate ==
  \A t \in Tasks : startedAt[t] => approval[t] \in {"not_required", "approved"}

\* What a started task depends on has finished and stays finished: no retry,
\* recovery or late settlement takes a dependency back into work behind its
\* dependents.  (A pruned dependency counts, and the
\* pruner also deletes cancelled ones: their dependents are then released.)
DependenciesSettled ==
  \A t \in Tasks : startedAt[t] => \A d \in dependsOn[t] : state[d] \in {"completed", "pruned"}

\* The plane never starts an attempt beyond retry_policy.maxAttempts on its own:
\* every extra one is paid for by an operator who resolved an intervention
\* (retry_task leaves attempts as they are on that path).  Deferrals and lease
\* recoveries count and uncount attempts around this.
AttemptsBounded ==
  \A t \in Tasks : attempts[t] <= MaxAttempts + resolves[t]

\* A process nobody shares its lease owner with settles only the attempt it
\* claimed.  The RPCs compare the owner and not the attempt, so a process that
\* lost its lease and was overtaken must not be able to end the newer attempt.
SoleOwner(p) == \A q \in Processes : Owner(q) = Owner(p) => q = p

NoStaleSettlement ==
  [][\A p \in Processes, t \in Tasks :
       /\ SoleOwner(p) /\ Executing(p, t) /\ exec'[p][t] = 0
       /\ state[t] = "running" /\ state'[t] # "running"
       => exec[p][t] = attempts[t]]_vars

\* Every RPC moves a row along the table of task_transition_guard, so the
\* trigger never aborts one half-way (recover_expired_leases handles 200 rows
\* in one transaction: one illegal row would block all of them).
LegalMove(t) ==
  \/ state'[t] = state[t]
  \/ Allowed(state[t], state'[t])
  \/ state[t] = "absent" /\ state'[t] = "queued"
  \/ state[t] \in {"completed", "cancelled"} /\ state'[t] = "pruned"

TransitionsLegal == [][\A t \in Tasks : LegalMove(t)]_vars

\* POST /claim leases one task a call, so whatever the interleaving of its count
\* with other claims, each executor that was admitted before the cap was reached
\* overshoots it by at most one task.  Tasks leased by a claim whose own count
\* failed come on top: nothing but the caps of the identities bounds those.
OvershootBounded ==
  Executors # {} =>
    Cardinality(RunningBrowser \ unseen) <= MaxBrowser + Cardinality(Executors) - 1

\* An identity used by one process stays within its own cap, also when the
\* process died and its replacement finds the dead one's leases.
IdentityCap ==
  \A p \in Executors : SoleOwner(p) => Cardinality(RunningOf(Owner(p))) <= MaxRunning

\* EXECUTION_MODEL.md: "Browser leases are capped by MAX_BROWSER_CONCURRENCY
\* (count of running browser tasks per worker identity and globally)".  Stated
\* while no running or queued task is one that a failed count let in: the race of
\* counts that work is enough to exceed the cap.
GlobalBrowserCap == unseen = {} => Cardinality(RunningBrowser) <= MaxBrowser

\* "A crashed worker never strands work" (EXECUTION_MODEL.md): whatever happens to
\* the process that holds a task, also at its last attempt and also while another
\* process of the same identity keeps its lease alive, the task leaves running.
NoStrandedWork == \A t \in Tasks : state[t] = "running" ~> state[t] # "running"

\* The plane implements the lease service.
PhaseOf(s) ==
  CASE s = "absent"                     -> "absent"
    [] s = "failed"                     -> "dead"
    [] s \in {"completed", "cancelled"} -> "final"
    [] s = "pruned"                     -> "gone"
    [] OTHER                            -> "open"

Phase == [t \in Tasks |-> PhaseOf(state[t])]

Lease == INSTANCE LeaseService WITH Items <- Tasks, phase <- Phase, holder <- leaseOwner

ImplementsLease == Lease!Spec
====
