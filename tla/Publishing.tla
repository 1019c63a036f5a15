---- MODULE Publishing ----
(***************************************************************************)
(* Publishing one channel variant of a content item through an API         *)
(* provider: the scheduling and reconciliation RPCs (00033, 00038), the    *)
(* content.publish handler (lib/publishing/service.ts), the engine         *)
(* (lib/publishing/engine.ts), the reconciliation sweep                    *)
(* (lib/publishing/sweeps.ts) and the provider behind them.                *)
(*                                                                         *)
(* A schedule is a task of the durable task plane: the rows of the tasks   *)
(* table and the workers that lease them are those of TaskPlane, and every *)
(* step here that touches a task is a TaskPlane action, but for the one by *)
(* which an operator completes a task that waits (ResolvePublished).       *)
(*                                                                         *)
(* The engine has no transactions: each database call and each provider    *)
(* call is a step, a worker may die or a call may fail between any two,    *)
(* and the variant is written by its id alone, whatever it has become.     *)
(***************************************************************************)
EXTENDS Integers, FiniteSets, Sequences

CONSTANTS
  Keys,         \* schedule keys (publish:<variant>:v<version>:<time>), one task each
  Workers,      \* ticks that run content.publish
  NoOwner,      \* lease_owner is null
  NoKey,        \* idempotency_key is null
  Providers,    \* the kinds of provider one of which the platform has
  MaxAttempts,  \* retry_policy.maxAttempts
  MaxPolls,     \* MAX_POLLS, and the polls of MAX_ACCEPTED_AGE_MS
  MaxRetries    \* bound: times operators re-queue one job

ProviderKinds == {"gateway", "adapter", "polled"}

ASSUME PublishingAssumption ==
  /\ Providers \subseteq ProviderKinds
  /\ NoKey \notin Keys /\ NoOwner \notin Workers
  /\ MaxAttempts \in Nat \ {0}
  /\ MaxPolls \in Nat /\ MaxRetries \in Nat

VARIABLES
  \* the tasks table and the workers, as in TaskPlane
  state, attempts, due, leaseOwner, leaseLive, approval, intervention,
  deadLettered, startedAt, dependsOn, resolves, pc, exec,
  result,       \* tasks.result: skipped or published
  \* editorial_variants
  vstate,       \* publish_state
  vkey,         \* idempotency_key, and task_id with it
  receipts,     \* publish_receipts: receipts[k] maps attempts to statuses
  polls,        \* poll_count of the receipt being polled
  \* the provider
  provider,     \* its kind
  ops,          \* ops[k] maps attempts to what became of their submission
  \* the workers and the sweep
  job,          \* what a worker knows and where it stands
  sweep,        \* what the sweep has read
  \* history
  granted,      \* times the operator let the key be submitted again
  redriven,     \* times an owner re-queued its dead letter
  misread,      \* misread[k]: attempts a failed status read wrote off as failed
  overlooked    \* jobs whose last look at their variant failed and found nothing

Plane == INSTANCE TaskPlane WITH
  Tasks <- Keys, BrowserTasks <- {}, Ticks <- Workers, Executors <- {}, Identities <- {},
  IdentityOf <- [e \in {} |-> NoOwner], MaxDeps <- 0, MaxResolves <- MaxRetries,
  TickBatch <- 1, MaxBrowser <- 1, MaxConcurrency <- 1, uncounted <- {}, unseen <- {}

planeVars   == <<state, attempts, due, leaseOwner, leaseLive, approval, intervention,
                 deadLettered, startedAt, dependsOn, resolves, pc, exec>>
variantVars == <<vstate, vkey>>
history     == <<granted, redriven, misread, overlooked>>
vars == <<planeVars, result, variantVars, receipts, polls, provider, ops, job, sweep, history>>

----
(* Values. *)

PublishStates == {"draft", "scheduled", "queued", "publishing", "published",
                  "failed", "cancelled"}
Active        == {"scheduled", "queued", "publishing"}
Settled       == {"published", "partial", "failed"}
ReceiptStates == Settled \cup {"submitting", "accepted", "unknown"}
Decisions     == {"retry", "needs_user", "give_up"}
\* A failed outcome is the decision its error class and finality lead to.
Answers       == {"published", "accepted", "partial", "unknown"} \cup Decisions

\* What a kind of provider guarantees: the Gateway is idempotent, legacy adapters
\* are synchronous and have no status().
Idempotent == provider = "gateway"
HasStatus  == provider # "adapter"

\* publishPath knows the same transitions as variant_publish_guard ...
Legal(from) ==
  CASE from = "draft"      -> {"scheduled"}
    [] from = "scheduled"  -> {"draft", "queued", "publishing", "cancelled", "failed"}
    [] from = "queued"     -> {"draft", "publishing", "cancelled", "failed"}
    [] from = "publishing" -> {"published", "failed", "queued", "cancelled"}
    [] from = "published"  -> {}
    [] from = "failed"     -> {"draft", "scheduled", "cancelled"}
    [] from = "cancelled"  -> {"draft", "scheduled"}

\* ... and takes a shortest path through scheduled and publishing: its first hop.
NextHop(from, to) ==
  IF to \in Legal(from) THEN to
  ELSE IF "publishing" \in Legal(from) THEN "publishing" ELSE "scheduled"

\* An update of publish_state by id: the trigger and, for a draft (whose time and
\* mode are null), the scheduled_has_time check may abort it.
Accepts(from, to) == to = from \/ (from # "draft" /\ to \in Legal(from))

NoJob == [step |-> "idle", cleared |-> FALSE, seen |-> "draft", rec |-> 0,
          goal |-> "draft", next |-> "idle", answer |-> "unknown", settle |-> "lost"]
NoSweep == [seen |-> "draft", key |-> NoKey, todo |-> <<>>]

At(p, k, step) == Plane!Executing(p, k) /\ job[p].step = step

\* The receipt that decides: the latest attempt, 0 if there is none.
Latest(k) ==
  CHOOSE a \in DOMAIN receipts[k] \cup {0} : \A b \in DOMAIN receipts[k] : b <= a

\* Attempts of a key with one more.
With(f, a, s) == [b \in DOMAIN f \cup {a} |-> IF b = a THEN s ELSE f[b]]

----
Init ==
  /\ Plane!Init
  /\ result   = [k \in Keys |-> "none"]
  /\ vstate   = "draft"
  /\ vkey     = NoKey
  /\ receipts = [k \in Keys |-> <<>>]
  /\ polls    = [k \in Keys |-> 0]
  /\ provider \in Providers
  /\ ops      = [k \in Keys |-> <<>>]
  /\ job      = [p \in Workers |-> NoJob]
  /\ sweep    = NoSweep
  /\ granted  = [k \in Keys |-> 0]
  /\ redriven = [k \in Keys |-> 0]
  /\ misread  = [k \in Keys |-> {}]
  /\ overlooked = {}

TypeOK ==
  /\ Plane!TypeOK
  /\ result \in [Keys -> {"none", "skipped", "published"}]
  /\ vstate \in PublishStates /\ vkey \in Keys \cup {NoKey}
  /\ \A k \in Keys :
       /\ DOMAIN receipts[k] \subseteq Nat \ {0}
       /\ \A a \in DOMAIN receipts[k] : receipts[k][a] \in ReceiptStates
       /\ \A a \in DOMAIN ops[k] : a \in Nat \ {0} /\ ops[k][a] \in {"pending", "live", "dead"}
  /\ polls \in [Keys -> 0..MaxPolls]
  /\ provider \in Providers
  /\ \A p \in Workers :
       /\ job[p].step \in {"idle", "claimed", "loaded", "condemn", "moving", "insert",
                           "submit", "poll", "record", "settle"}
       /\ job[p].seen \in PublishStates /\ job[p].goal \in PublishStates
       /\ job[p].answer \in Answers
       /\ job[p].settle \in {"lost", "skipped", "complete", "defer"} \cup Decisions
       /\ job[p].step = "idle" <=> Plane!Free(p)
  /\ sweep.seen \in PublishStates /\ sweep.key \in Keys \cup {NoKey}
  /\ granted \in [Keys -> 0..MaxRetries] /\ redriven \in [Keys -> 0..MaxRetries]
  /\ misread \in [Keys -> SUBSET (Nat \ {0})] /\ overlooked \subseteq Keys

----
(* Operators. *)

\* schedule_content_item: a fresh key (every update of a variant bumps the version
\* in it) and its task.  An older task of a failed variant is left as it is.
Schedule(k) ==
  /\ vstate \in {"draft", "failed", "cancelled"}
  /\ Plane!EnqueueTask(k, {}, FALSE, FALSE)
  /\ vstate' = "scheduled" /\ vkey' = k
  /\ UNCHANGED <<result, receipts, polls, provider, ops, job, sweep, history>>

\* unschedule_content_item: cancels the task unless a worker has it.
Unschedule ==
  /\ vstate \in {"scheduled", "queued", "failed", "cancelled"}
  /\ IF vkey # NoKey /\ state[vkey] \in {"queued", "retrying", "waiting", "waiting_for_user"}
       THEN Plane!CancelTask(vkey)
       ELSE UNCHANGED planeVars
  /\ vstate' = "draft" /\ vkey' = NoKey
  /\ UNCHANGED <<result, receipts, polls, provider, ops, job, sweep, history>>

CancelJob(k) ==
  /\ Plane!CancelTask(k)
  /\ UNCHANGED <<result, variantVars, receipts, polls, provider, ops, job, sweep, history>>

Retried(k) == granted[k] + redriven[k]

\* retry_task on a job that waits for the operator lets it submit again.
RetryJob(k) ==
  /\ Retried(k) < MaxRetries
  /\ Plane!RetryResolved(k)
  /\ granted' = [granted EXCEPT ![k] = @ + 1]
  /\ UNCHANGED <<result, variantVars, receipts, polls, provider, ops, job, sweep, redriven,
                 misread, overlooked>>

\* retry_task on a dead letter does not.
RedriveJob(k) ==
  /\ Retried(k) < MaxRetries
  /\ Plane!RetryFailed(k)
  /\ redriven' = [redriven EXCEPT ![k] = @ + 1]
  /\ UNCHANGED <<result, variantVars, receipts, polls, provider, ops, job, sweep, granted,
                 misread, overlooked>>

\* resolve_publication(not_published): the operator looked and nothing is live.
ResolveNotPublished(k) ==
  /\ vstate = "failed" /\ vkey = k
  /\ Latest(k) # 0 /\ receipts[k][Latest(k)] = "unknown"
  /\ Retried(k) < MaxRetries
  /\ receipts' = [receipts EXCEPT ![k][Latest(k)] = "failed"]
  /\ granted'  = [granted EXCEPT ![k] = @ + 1]
  /\ IF state[k] = "waiting_for_user"
       THEN Plane!RetryResolved(k) /\ vstate' = "scheduled"
       ELSE UNCHANGED <<planeVars, vstate>>
  /\ UNCHANGED <<result, vkey, polls, provider, ops, job, sweep, redriven, misread, overlooked>>

\* Mutant: a finished task is completed once more.
ResolvePublished_anyTask(k) ==
  /\ vstate = "failed" /\ vkey = k
  /\ Latest(k) # 0 /\ receipts[k][Latest(k)] \in {"unknown", "partial"}
  /\ state'  = [state EXCEPT ![k] = "completed"]
  /\ result' = [result EXCEPT ![k] = "published"]
  /\ vstate'   = "published"
  /\ receipts' = [receipts EXCEPT ![k] = With(@, Latest(k) + 1, "published")]
  /\ UNCHANGED <<attempts, due, leaseOwner, leaseLive, approval, intervention, deadLettered,
                 startedAt, dependsOn, resolves, pc, exec, vkey, polls, provider, ops, job,
                 sweep, history>>

\* resolve_publication(published): the operator found the post live.  A task that
\* waits is run and completed by the human in the same transaction.
ResolvePublished(k) ==
  /\ vstate = "failed" /\ vkey = k
  /\ Latest(k) # 0 /\ receipts[k][Latest(k)] \in {"unknown", "partial"}
  /\ IF state[k] \in {"queued", "waiting_for_user"}
       THEN /\ state'     = [state EXCEPT ![k] = "completed"]
            /\ attempts'  = [attempts EXCEPT ![k] = @ + 1]
            /\ startedAt' = [startedAt EXCEPT ![k] = TRUE]
            /\ intervention' = [intervention EXCEPT ![k] = IF @ = "none" THEN @ ELSE "resolved"]
            /\ result'    = [result EXCEPT ![k] = "published"]
       ELSE UNCHANGED <<state, attempts, startedAt, intervention, result>>
  /\ vstate'   = "published"
  /\ receipts' = [receipts EXCEPT ![k] = With(@, Latest(k) + 1, "published")]
  /\ UNCHANGED <<due, leaseOwner, leaseLive, approval, deadLettered, dependsOn, resolves,
                 pc, exec, vkey, polls, provider, ops, job, sweep, history>>

OperatorStep ==
  \/ Unschedule
  \/ \E k \in Keys : \/ Schedule(k) \/ CancelJob(k) \/ RetryJob(k) \/ RedriveJob(k)
                     \/ ResolveNotPublished(k) \/ ResolvePublished(k)

----
(* content.publish: loading and deciding. *)

WorkerLeaves == <<result, variantVars, receipts, polls, provider, ops, sweep, history>>

\* A worker goes on with what the rest of the run needs of what it knows.
Becomes(p, j) == job' = [job EXCEPT ![p] = j]
SettleAs(p, s) == Becomes(p, [NoJob EXCEPT !.step = "settle", !.settle = s])
\* moveTo(goal), then end the run as s.
MoveAndSettle(p, goal, s) ==
  Becomes(p, [NoJob EXCEPT !.step = "moving", !.seen = job[p].seen, !.goal = goal,
                           !.next = "settle", !.settle = s])
Resume(p, step, a) == Becomes(p, [NoJob EXCEPT !.step = step, !.seen = job[p].seen, !.rec = a])

StartTick(p) ==
  /\ Plane!TickStart(p)
  /\ UNCHANGED <<WorkerLeaves, job>>

\* The claimed row carries the intervention to the engine.
Claim(p, k) ==
  /\ Plane!TickClaim(p, {k})
  /\ Becomes(p, [NoJob EXCEPT !.step = "claimed", !.cleared = (intervention[k] = "resolved")])
  /\ UNCHANGED WorkerLeaves

\* The handler reads the variant; a stale task or a settled variant is skipped.  The
\* errors of its queries are not looked at: content it could not read counts as
\* deleted, and the job is skipped too.
Load(p, k) ==
  LET wanted == vkey = k /\ vstate \in Active \cup {"failed"} IN
  /\ At(p, k, "claimed")
  /\ \/ /\ wanted
        /\ Becomes(p, [job[p] EXCEPT !.step = "loaded", !.seen = vstate])
        /\ overlooked' = overlooked \ {k}
     \/ /\ SettleAs(p, "skipped")
        /\ overlooked' = IF wanted THEN overlooked \cup {k} ELSE overlooked \ {k}
  /\ UNCHANGED <<planeVars, result, variantVars, receipts, polls, provider, ops, sweep,
                 granted, redriven, misread>>

\* No provider, a capability that is not available, content that breaks its rules,
\* media without a store: the variant fails, or is left as it is.  One that is
\* publishing is not validated again.
Reject(p, k) ==
  /\ At(p, k, "loaded")
  /\ \/ SettleAs(p, "needs_user")
     \/ MoveAndSettle(p, "failed", "needs_user")
     \/ job[p].seen # "publishing" /\ MoveAndSettle(p, "failed", "give_up")
  /\ UNCHANGED <<planeVars, WorkerLeaves>>

\* Mutants: an attempt that never got an answer, or an unknown one, is submitted again.
Ambiguous_unknown(p, prior, status) ==
  \/ status = "submitting"
  \/ status = "accepted" /\ ~HasStatus
  \/ prior = 0 /\ job[p].seen = "publishing"

Ambiguous_submitting(p, prior, status) ==
  \/ status = "accepted" /\ ~HasStatus
  \/ status = "unknown" /\ ~job[p].cleared
  \/ prior = 0 /\ job[p].seen = "publishing"

\* A previous attempt that may have published.
Ambiguous(p, prior, status) ==
  \/ status = "submitting"
  \/ status = "accepted" /\ ~HasStatus
  \/ status = "unknown" /\ ~job[p].cleared
  \/ prior = 0 /\ job[p].seen = "publishing"

\* The engine reads the latest receipt of the key and decides: finish, stop,
\* poll, ask the operator, or submit under a new attempt number.
Look(p, k) ==
  LET prior  == Latest(k)
      status == IF prior = 0 THEN "none" ELSE receipts[k][prior]
      fresh  == IF exec[p][k] > prior + 1 THEN exec[p][k] ELSE prior + 1
  IN /\ At(p, k, "loaded")
     /\ CASE status = "published"                -> MoveAndSettle(p, "published", "complete")
          [] status = "partial"                  -> MoveAndSettle(p, "failed", "give_up")
          [] status = "accepted" /\ HasStatus    -> Resume(p, "poll", prior)
          [] Ambiguous(p, prior, status) /\ ~Idempotent ->
               IF status \in {"submitting", "accepted"}
                 THEN Resume(p, "condemn", prior)
                 ELSE MoveAndSettle(p, "failed", "needs_user")
          [] OTHER ->
               Becomes(p, [NoJob EXCEPT !.step = "moving", !.seen = job[p].seen,
                                        !.goal = "publishing", !.next = "insert", !.rec = fresh])
     /\ UNCHANGED <<planeVars, WorkerLeaves>>

\* publish_receipt_guard: settled receipts are immutable.
SetReceipt(k, a, status) == receipts' = [receipts EXCEPT ![k][a] = status]

\* The unanswered attempt becomes unknown.
Condemn(p, k) ==
  LET a == job[p].rec IN
  /\ At(p, k, "condemn")
  /\ IF receipts[k][a] \in Settled
       THEN SettleAs(p, "retry") /\ UNCHANGED receipts
       ELSE SetReceipt(k, a, "unknown") /\ MoveAndSettle(p, "failed", "needs_user")
  /\ UNCHANGED <<planeVars, result, variantVars, polls, provider, ops, sweep, history>>

\* One update of moveTo: the hop is planned from the state the worker last knew
\* and written to the row as it is.  (At the goal, only the other columns are.)
Move(p, k) ==
  LET j    == job[p]
      hop  == IF j.seen = j.goal THEN vstate ELSE NextHop(j.seen, j.goal)
      seen == IF j.seen = j.goal THEN j.goal ELSE hop
  IN /\ At(p, k, "moving")
     /\ IF Accepts(vstate, hop)
          THEN /\ vstate' = hop
               /\ Becomes(p, IF seen # j.goal THEN [j EXCEPT !.seen = seen]
                             ELSE [NoJob EXCEPT !.step = j.next, !.seen = seen, !.rec = j.rec,
                                                !.settle = j.settle])
          ELSE SettleAs(p, "retry") /\ UNCHANGED vstate
     /\ UNCHANGED <<planeVars, result, vkey, receipts, polls, provider, ops, sweep, history>>

----
(* Submitting and polling. *)

\* The receipt goes first; its (key, attempt) is unique.
Insert(p, k) ==
  LET a == job[p].rec IN
  /\ At(p, k, "insert")
  /\ IF a \in DOMAIN receipts[k]
       THEN SettleAs(p, "needs_user") /\ UNCHANGED receipts
       ELSE /\ receipts' = [receipts EXCEPT ![k] = With(@, a, "submitting")]
            /\ Resume(p, "submit", a)
  /\ UNCHANGED <<planeVars, result, variantVars, polls, provider, ops, sweep, history>>

Answer(p, o) == Becomes(p, [job[p] EXCEPT !.step = "record", !.answer = o])

\* The operation a submission or a poll is about: an idempotent provider has one per key.
OpOf(k, a) == IF Idempotent /\ DOMAIN ops[k] # {} THEN CHOOSE b \in DOMAIN ops[k] : TRUE ELSE a

\* What a provider says of an operation in state s.
Report(s) == CASE s = "live" -> "published" [] s = "pending" -> "accepted" [] OTHER -> "give_up"

\* Mutant: an exception of any provider is a failure to retry.
Unanswered_retried == "retry"

\* outcomeFromError: a timeout or a broken connection is a failure to retry only
\* if submitting again is safe.
Unanswered == IF Idempotent THEN "retry" ELSE "unknown"

\* provider.submit: the provider takes the request (or finds it has it), or does
\* not; the answer may get lost, and any provider may say that it does not know.
Submit(p, k) ==
  LET a    == job[p].rec
      o    == OpOf(k, a)
      Take(s) == ops' = [ops EXCEPT ![k] = IF o \in DOMAIN @ THEN @ ELSE With(@, o, s)]
  IN /\ At(p, k, "submit")
     /\ \/ /\ \E s \in {"live", "pending"} :
                /\ Take(s)
                /\ \/ Answer(p, Report(ops'[k][o])) /\ (HasStatus \/ s = "live")
                   \/ \E w \in {Unanswered, "unknown"} : Answer(p, w)
        \/ ~Idempotent /\ Take("live") /\ Answer(p, "partial")
        \/ UNCHANGED ops /\ \E d \in Decisions \cup {Unanswered, "unknown"} : Answer(p, d)
     /\ UNCHANGED <<planeVars, result, variantVars, receipts, polls, provider, sweep, history>>

\* A status read that fails: transient problems keep polling, and what a provider
\* answers for itself, as the Gateway does for every other one, is unknown.
ReadFailed == {"accepted", "unknown"}

\* A status() that throws is taken at its class: one that is not retried comes out
\* as a failure of the publication.
Misreads(p, k) ==
  /\ ~Idempotent
  /\ \E d \in {"needs_user", "give_up"} : Answer(p, d)
  /\ misread' = [misread EXCEPT ![k] = @ \cup {job[p].rec}]

\* What a provider that has status() may say of the operation.
Reports(k, o) ==
  IF o \notin DOMAIN ops[k] THEN {}
  ELSE {Report(ops[k][o])} \cup
       (IF ops[k][o] = "live" /\ ~Idempotent THEN {"partial"} ELSE {})

\* Mutant: one poll too many.
Poll_offByOne(p, k) ==
  /\ At(p, k, "poll")
  /\ IF polls[k] > MaxPolls
       THEN Answer(p, "unknown") /\ UNCHANGED polls
       ELSE Answer(p, "accepted") /\ polls' = [polls EXCEPT ![k] = @ + 1]
  /\ UNCHANGED <<planeVars, result, variantVars, receipts, provider, ops, sweep, history>>

\* provider.status, bounded by the poll count and the age of the receipt.
Poll(p, k) ==
  /\ At(p, k, "poll")
  /\ IF polls[k] = MaxPolls
       THEN Answer(p, "unknown") /\ UNCHANGED <<polls, misread>>
       ELSE /\ \/ /\ \E ans \in ReadFailed \cup Reports(k, OpOf(k, job[p].rec)) : Answer(p, ans)
                  /\ UNCHANGED misread
               \/ Misreads(p, k)
            /\ polls' = [polls EXCEPT ![k] = @ + 1]
  /\ UNCHANGED <<planeVars, result, variantVars, receipts, provider, ops, sweep,
                 granted, redriven, overlooked>>

\* What the outcome makes of the receipt, the variant and the task.
ReceiptFor(answer) == IF answer \in Decisions THEN "failed" ELSE answer
SettleFor(answer) ==
  CASE answer = "published" -> "complete"
    [] answer = "accepted"  -> "defer"
    [] answer = "partial"   -> "give_up"
    [] answer = "unknown"   -> "needs_user"
    [] OTHER                -> answer
GoalFor(answer, attempt) ==
  CASE answer = "published" -> "published"
    [] answer = "accepted"  -> "publishing"
    [] answer = "retry" /\ attempt < MaxAttempts -> "queued"
    [] OTHER -> "failed"

\* The outcome is written to the receipt before the variant and the task hear of it.
Record(p, k) ==
  LET j == job[p]
      a == j.rec
  IN /\ At(p, k, "record")
     /\ IF receipts[k][a] \in Settled
          THEN SettleAs(p, "retry") /\ UNCHANGED receipts
          ELSE /\ SetReceipt(k, a, ReceiptFor(j.answer))
               /\ IF j.answer = "accepted" /\ j.seen = "publishing"
                    THEN SettleAs(p, "defer")
                    ELSE MoveAndSettle(p, GoalFor(j.answer, exec[p][k]), SettleFor(j.answer))
     /\ UNCHANGED <<planeVars, result, variantVars, polls, provider, ops, sweep, history>>

\* A call to the database fails, before or after it took effect.
Fault(p, k) ==
  /\ Plane!Executing(p, k)
  /\ SettleAs(p, "retry")
  /\ UNCHANGED <<planeVars, WorkerLeaves>>

\* executeClaimedTask settles the task through the lease-checked RPCs; the call
\* may find the lease gone or not get through.
Settle(p, k) ==
  LET s == job[p].settle IN
  /\ At(p, k, "settle")
  /\ \/ /\ s \in {"complete", "skipped"} /\ Plane!CompleteTask(p, k)
        /\ result' = [result EXCEPT ![k] = IF s = "complete" THEN "published" ELSE "skipped"]
     \/ s = "defer" /\ Plane!DeferTask(p, k, FALSE) /\ UNCHANGED result
     \/ s \in Decisions /\ Plane!FailTask(p, k, s) /\ UNCHANGED result
     \/ Plane!SettleLost(p, k) /\ UNCHANGED result
  /\ Becomes(p, NoJob)
  /\ UNCHANGED <<variantVars, receipts, polls, provider, ops, sweep, history>>

Crash(p) ==
  /\ Plane!Crash(p)
  /\ Becomes(p, NoJob)
  /\ UNCHANGED WorkerLeaves

EngineStep(p, k) ==
  \/ Load(p, k) \/ Reject(p, k) \/ Look(p, k) \/ Condemn(p, k) \/ Move(p, k)
  \/ Insert(p, k) \/ Submit(p, k) \/ Poll(p, k) \/ Record(p, k) \/ Settle(p, k)

----
(* reconcilePublishing: read the variant, read its task, write by id. *)

SweepLeaves == <<planeVars, result, vkey, receipts, polls, provider, ops, job, history>>

SweepVariant ==
  /\ sweep = NoSweep /\ vstate \in Active
  /\ sweep' = [NoSweep EXCEPT !.seen = vstate, !.key = vkey]
  /\ UNCHANGED <<SweepLeaves, vstate>>

\* Mutant: dead letters are passed over.
EndWrites_cancelledOnly(end) == IF end = "cancelled" THEN <<end>> ELSE <<>>

\* A dead letter fails the variant, a cancellation cancels it.
EndWrites(end) == <<end>>

\* Mutant: the result of a completed task is not looked at.
CompletedWrites_anyResult(seen, res) ==
  IF seen = "publishing" THEN <<"published">> ELSE <<"publishing", "published">>

CompletedWrites(seen, res) ==
  IF res = "skipped" THEN <<>> ELSE IF seen = "publishing" THEN <<"published">>
  ELSE <<"publishing", "published">>

\* What to write to a variant seen in one state whose task is in another.
SweepWrites(seen, task, res) ==
  CASE task = "missing"                        -> <<"failed">>
    [] task = "running" /\ seen # "publishing" -> <<"publishing">>
    [] task \in {"retrying", "waiting_for_user"} /\ seen = "publishing" -> <<"queued">>
    [] task \in {"failed", "cancelled"}        -> EndWrites(task)
    [] task = "completed"                      -> CompletedWrites(seen, res)
    [] OTHER                                   -> <<>>

\* The task query: an error is not looked at, so that every task seems missing.  A
\* variant that already shows why its job waits for the operator is left alone.
SweepTask ==
  /\ sweep.key # NoKey
  /\ \E task \in {state[sweep.key], "missing"} :
       \E todo \in {SweepWrites(sweep.seen, task, result[sweep.key])}
                     \cup (IF task = "waiting_for_user" THEN {<<>>} ELSE {}) :
         sweep' = [NoSweep EXCEPT !.todo = todo]
  /\ UNCHANGED <<SweepLeaves, vstate>>

\* Writes do not look at what the variant has become; one the trigger aborts is passed over.
SweepWrite ==
  /\ sweep.todo # <<>>
  /\ vstate' = IF Accepts(vstate, Head(sweep.todo)) THEN Head(sweep.todo) ELSE vstate
  /\ sweep'  = [sweep EXCEPT !.todo = Tail(@)]
  /\ UNCHANGED SweepLeaves

SweepStep == SweepVariant \/ SweepTask \/ SweepWrite

----
(* The plane, the provider and time. *)

Recover(k) ==
  /\ Plane!RecoverExpiredLeases({k})
  /\ UNCHANGED <<WorkerLeaves, job>>

BecomesDue(k) ==
  /\ Plane!BecomesDue(k)
  /\ UNCHANGED <<WorkerLeaves, job>>

\* The lease is twice the time budget of a tick and the provider calls end by its
\* deadline, so a lease runs out only on a worker that is gone.
LeaseExpires(k) ==
  /\ \A p \in Workers : ~Plane!Executing(p, k)
  /\ Plane!LeaseExpires(k)
  /\ UNCHANGED <<WorkerLeaves, job>>

\* An accepted operation ends.
OpEnds(k, a) ==
  /\ a \in DOMAIN ops[k] /\ ops[k][a] = "pending"
  /\ \E s \in {"live", "dead"} : ops' = [ops EXCEPT ![k][a] = s]
  /\ UNCHANGED <<planeVars, result, variantVars, receipts, polls, provider, job, sweep, history>>

Next ==
  \/ OperatorStep
  \/ \E p \in Workers : StartTick(p) \/ Crash(p)
  \/ \E p \in Workers, k \in Keys : Claim(p, k) \/ EngineStep(p, k) \/ Fault(p, k)
  \/ SweepStep
  \/ \E k \in Keys : \/ Recover(k) \/ BecomesDue(k) \/ LeaseExpires(k)
                     \/ \E a \in DOMAIN ops[k] : OpEnds(k, a)

Spec == Init /\ [][Next]_vars

\* The cron job keeps starting ticks, and each recovers the leases that ran out,
\* claims what is due (not every tick dies before it gets that far), executes it
\* within its deadline or dies, and runs the sweep.  Nothing is assumed of the
\* operators or the provider: an operation may stay pending for ever.
Fairness ==
  /\ \A p \in Workers : WF_vars(StartTick(p)) /\ \A k \in Keys : WF_vars(EngineStep(p, k))
  /\ \A k \in Keys :
       /\ SF_vars(\E p \in Workers : Claim(p, k))
       /\ WF_vars(Recover(k)) /\ WF_vars(BecomesDue(k)) /\ WF_vars(LeaseExpires(k))
  /\ WF_vars(SweepStep)

FairSpec == Spec /\ Fairness

----
(* Properties. *)

Live(k) == {a \in DOMAIN ops[k] : ops[k][a] = "live"}

\* A schedule goes live at most once unless the operator was asked and let it be
\* submitted again: no crash, failed call, lost answer, retry of a dead letter,
\* cancellation or sweep makes the engine submit twice.  An attempt that a failed
\* status read wrote off is not counted: the engine takes it for a failed one.
AtMostOnePost ==
  \A k \in Keys : granted[k] = 0 => Cardinality(Live(k) \ misread[k]) <= 1

\* A post that went live has left its mark: the receipt was there before the call,
\* and only two things write it off as failed: the operator who said that nothing
\* is live, and a status read that failed for good.  (Idempotent providers give that
\* up: the attempt that timed out counts as failed because the next one is safe.)
EvidenceKept ==
  \A k \in Keys : \A a \in Live(k) :
    /\ a \in DOMAIN receipts[k]
    /\ ~Idempotent /\ granted[k] = 0 /\ a \notin misread[k] => receipts[k][a] # "failed"

\* A variant is shown as published only when some receipt says so: whoever moves
\* it there (engine, sweep, operator) the receipt was settled first.
PublishedIsRecorded ==
  vstate = "published" =>
    \E k \in Keys : \E a \in DOMAIN receipts[k] : receipts[k][a] = "published"

\* PUBLISHING_CONTRACT.md: a new attempt follows failed ones only.  An accepted one
\* is polled, a published one finished, a partial one left alone, one without an
\* answer is the operator's; also when the answer, a crash or a sweep comes
\* between the look at the receipts and the submission.
SubmitsFollowFailures ==
  [][\A k \in Keys : ~Idempotent /\ granted[k] = 0 =>
       \A a \in DOMAIN ops'[k] \ DOMAIN ops[k], b \in DOMAIN receipts[k] :
         b # a => receipts[k][b] = "failed"]_vars

\* Whatever the operators' RPCs write to the tasks behind the plane's back, it
\* still offers the lease service.
ImplementsLease == Plane!ImplementsLease

\* A variant whose job is done with it, though it looked for it in vain: the sweep
\* passes over jobs that were skipped.
Abandoned == vkey \in overlooked /\ state[vkey] = "completed" /\ result[vkey] = "skipped"

\* A variant on its way gets somewhere: whatever crashes, fails, answers late or not
\* at all, it leaves scheduled, queued and publishing, or its job asks the operator.
\* One thing strands it: its job took a failed query for deleted content.
NeverStuck ==
  vstate \in Active ~> vstate \notin Active \/ state[vkey] = "waiting_for_user" \/ Abandoned

\* engine.ts: "never resubmits an ambiguous attempt automatically unless the
\* provider guarantees idempotent submits or an operator explicitly retried the
\* job": each unknown attempt that a submission follows is paid for by one retry.
ResubmitsGranted ==
  \A k \in Keys : ~Idempotent =>
    Cardinality({a \in DOMAIN receipts[k] : /\ receipts[k][a] = "unknown"
                                            /\ \E b \in DOMAIN ops[k] : b > a}) <= granted[k]
====
