---- MODULE PublishingProofs ----
(***************************************************************************)
(* A schedule goes live at most once, and its evidence is kept, for any    *)
(* schedules, workers and providers, and any number of attempts, polls and *)
(* retries.                                                                *)
(***************************************************************************)
EXTENDS Publishing, FiniteSetTheorems, TLAPS

----
(* The tasks behind the variant. *)

\* resolve_publication(published) on a task that waits.
HumanCompletes(k) ==
  /\ state[k] \in {"queued", "waiting_for_user"}
  /\ state'     = [state EXCEPT ![k] = "completed"]
  /\ attempts'  = [attempts EXCEPT ![k] = @ + 1]
  /\ startedAt' = [startedAt EXCEPT ![k] = TRUE]
  /\ intervention' = [intervention EXCEPT ![k] = IF @ = "none" THEN @ ELSE "resolved"]
  /\ UNCHANGED <<due, leaseOwner, leaseLive, approval, deadLettered, dependsOn, resolves, pc, exec>>

\* What a step does to the tasks.
OperatorRpc(k) ==
  \/ Plane!EnqueueTask(k, {}, FALSE, FALSE) \/ Plane!CancelTask(k)
  \/ Plane!RetryResolved(k) \/ Plane!RetryFailed(k) \/ HumanCompletes(k)

PlaneTime(k) ==
  \/ Plane!RecoverExpiredLeases({k}) \/ Plane!BecomesDue(k)
  \/ (\A p \in Workers : ~Plane!Executing(p, k)) /\ Plane!LeaseExpires(k)

Settlement(p, k) ==
  \/ Plane!CompleteTask(p, k) \/ (\E d \in Decisions : Plane!FailTask(p, k, d))
  \/ Plane!DeferTask(p, k, FALSE) \/ Plane!SettleLost(p, k)

PlaneStep ==
  \/ UNCHANGED planeVars
  \/ \E k \in Keys : OperatorRpc(k) \/ PlaneTime(k)
  \/ \E p \in Workers : Plane!TickStart(p) \/ Plane!Crash(p)
  \/ \E p \in Workers, k \in Keys : Plane!TickClaim(p, {k}) \/ Settlement(p, k)

\* A variant's key is one.
KeyTyped == vkey \in Keys \cup {NoKey}

\* Every step does one of these to the tasks.
LEMMA PlaneCases ==
  ASSUME KeyTyped, [Next]_vars
  PROVE  PlaneStep
<1>1. CASE UNCHANGED vars
  BY <1>1 DEF vars, PlaneStep
<1>2. ASSUME NEW k \in Keys, Schedule(k) \/ CancelJob(k) \/ RetryJob(k) \/ RedriveJob(k)
      PROVE  PlaneStep
  BY <1>2 DEF Schedule, CancelJob, RetryJob, RedriveJob, PlaneStep, OperatorRpc
<1>3. ASSUME Unschedule PROVE PlaneStep
  BY <1>3 DEF Unschedule, PlaneStep, OperatorRpc, KeyTyped
<1>4. ASSUME NEW k \in Keys, ResolveNotPublished(k) PROVE PlaneStep
  BY <1>4 DEF ResolveNotPublished, PlaneStep, OperatorRpc
<1>5. ASSUME NEW k \in Keys, ResolvePublished(k) PROVE PlaneStep
  BY <1>5 DEF ResolvePublished, PlaneStep, OperatorRpc, HumanCompletes, planeVars
<1>6. ASSUME NEW p \in Workers, StartTick(p) \/ Crash(p) PROVE PlaneStep
  BY <1>6 DEF StartTick, Crash, PlaneStep
<1>7. ASSUME NEW p \in Workers, NEW k \in Keys, Claim(p, k) PROVE PlaneStep
  BY <1>7 DEF Claim, PlaneStep
<1>8. ASSUME NEW p \in Workers, NEW k \in Keys,
             \/ Load(p, k) \/ Reject(p, k) \/ Look(p, k) \/ Condemn(p, k) \/ Move(p, k)
             \/ Insert(p, k) \/ Submit(p, k) \/ Poll(p, k) \/ Record(p, k) \/ Fault(p, k)
      PROVE  PlaneStep
  BY <1>8 DEF Load, Reject, Look, Condemn, Move, Insert, Submit, Poll, Record, Fault, PlaneStep
<1>9. ASSUME NEW p \in Workers, NEW k \in Keys, Settle(p, k) PROVE PlaneStep
  BY <1>9 DEF Settle, PlaneStep, Settlement
<1>10. ASSUME SweepStep PROVE PlaneStep
  BY <1>10 DEF SweepStep, SweepVariant, SweepTask, SweepWrite, SweepLeaves, PlaneStep
<1>11. ASSUME NEW k \in Keys, Recover(k) \/ BecomesDue(k) \/ LeaseExpires(k) PROVE PlaneStep
  BY <1>11 DEF Recover, BecomesDue, LeaseExpires, PlaneStep, PlaneTime
<1>12. ASSUME NEW k \in Keys, NEW a \in DOMAIN ops[k], OpEnds(k, a) PROVE PlaneStep
  BY <1>12 DEF OpEnds, PlaneStep
<1>13. QED
  BY <1>1, <1>2, <1>3, <1>4, <1>5, <1>6, <1>7, <1>8, <1>9, <1>10, <1>11, <1>12
  DEF Next, OperatorStep, EngineStep


----
(* Type correctness of the tasks. *)

\* Claiming is well typed.
LEMMA ClaimTyped ==
  ASSUME Plane!TypeOK, NEW p \in Workers, NEW k \in Keys, Plane!TickClaim(p, {k})
  PROVE  Plane!TypeOK'
<1> USE DEF Plane!TypeOK, Plane!TickClaim, Plane!ClaimTasks, Plane!Processes
<1>1. state' \in [Keys -> Plane!RowStates] /\ attempts' \in [Keys -> Nat]
  BY DEF Plane!RowStates, Plane!TaskStates
<1>2. leaseLive' \in [Keys -> BOOLEAN]
  OBVIOUS
<1>3. startedAt' \in [Keys -> BOOLEAN]
  OBVIOUS
<1>4. leaseOwner' \in [Keys -> Plane!Owners \cup {NoOwner}]
  BY DEF Plane!Owner, Plane!Owners
<1>5. exec' \in [Workers \cup {} -> [Keys -> Nat]]
  <2>1. [t \in Keys |-> IF t \in {k} THEN attempts[t] + 1 ELSE 0] \in [Keys -> Nat]
    OBVIOUS
  <2>2. QED
    BY <2>1
<1>6. QED
  BY <1>1, <1>2, <1>3, <1>4, <1>5

\* So is recovering.
LEMMA RecoverTyped ==
  ASSUME Plane!TypeOK, NEW k \in Keys, Plane!RecoverExpiredLeases({k})
  PROVE  Plane!TypeOK'
<1> USE DEF Plane!TypeOK, Plane!RecoverExpiredLeases, Plane!procVars, Plane!Processes
<1>1. state' \in [Keys -> Plane!RowStates]
  BY DEF Plane!RowStates, Plane!TaskStates
<1>2. leaseOwner' \in [Keys -> Plane!Owners \cup {NoOwner}] /\ due' \in [Keys -> BOOLEAN]
  OBVIOUS
<1>3. deadLettered' \in [Keys -> BOOLEAN]
  <2>1. deadLettered' = [t \in Keys |-> IF t \in {k} THEN attempts[t] >= MaxAttempts
                                                    ELSE deadLettered[t]]
    OBVIOUS
  <2>2. \A t \in Keys : (IF t \in {k} THEN attempts[t] >= MaxAttempts ELSE deadLettered[t]) \in BOOLEAN
    <3>1. \A t \in Keys : deadLettered[t] \in BOOLEAN
      OBVIOUS
    <3>2. \A t \in Keys : (attempts[t] >= MaxAttempts) \in BOOLEAN
      OBVIOUS
    <3>3. QED
      BY <3>1, <3>2, Zenon
  <2>3. QED
    BY <2>1, <2>2, Zenon
<1>4. QED
  BY <1>1, <1>2, <1>3

\* And so is whatever else becomes of a task.
LEMMA PlaneTyped ==
  ASSUME Plane!TypeOK, PlaneStep
  PROVE  Plane!TypeOK'
<1> USE DEF Plane!TypeOK, Plane!RowStates, Plane!TaskStates, Plane!Processes, Plane!rowVars, Plane!procVars
<1>1. CASE UNCHANGED planeVars
  BY <1>1 DEF planeVars
<1>2. ASSUME NEW k \in Keys, Plane!EnqueueTask(k, {}, FALSE, FALSE) PROVE Plane!TypeOK'
  BY <1>2 DEF Plane!EnqueueTask
<1>3. ASSUME NEW k \in Keys, Plane!CancelTask(k) PROVE Plane!TypeOK'
  BY <1>3 DEF Plane!CancelTask, Plane!Leave
<1>4. ASSUME NEW k \in Keys, Plane!RetryResolved(k) PROVE Plane!TypeOK'
  BY <1>4 DEF Plane!RetryResolved
<1>5. ASSUME NEW k \in Keys, Plane!RetryFailed(k) PROVE Plane!TypeOK'
  BY <1>5 DEF Plane!RetryFailed
<1>6. ASSUME NEW k \in Keys, HumanCompletes(k) PROVE Plane!TypeOK'
  BY <1>6 DEF HumanCompletes
<1>7. ASSUME NEW k \in Keys, Plane!BecomesDue(k) PROVE Plane!TypeOK'
  BY <1>7 DEF Plane!BecomesDue
<1>8. ASSUME NEW k \in Keys, Plane!LeaseExpires(k) PROVE Plane!TypeOK'
  BY <1>8 DEF Plane!LeaseExpires
<1>9. ASSUME NEW p \in Workers, Plane!TickStart(p) PROVE Plane!TypeOK'
  BY <1>9 DEF Plane!TickStart
<1>10. ASSUME NEW p \in Workers, Plane!Crash(p) PROVE Plane!TypeOK'
  BY <1>10 DEF Plane!Crash
<1>11. ASSUME NEW p \in Workers, NEW k \in Keys, Plane!CompleteTask(p, k) PROVE Plane!TypeOK'
  BY <1>11 DEF Plane!CompleteTask, Plane!Leave, Plane!Done
<1>12. ASSUME NEW p \in Workers, NEW k \in Keys, NEW d \in Decisions, Plane!FailTask(p, k, d)
       PROVE  Plane!TypeOK'
  BY <1>12 DEF Plane!FailTask, Plane!FailState, Plane!Leave, Plane!Done
<1>13. ASSUME NEW p \in Workers, NEW k \in Keys, Plane!DeferTask(p, k, FALSE) PROVE Plane!TypeOK'
  BY <1>13 DEF Plane!DeferTask, Plane!Leave, Plane!Done
<1>14. ASSUME NEW p \in Workers, NEW k \in Keys, Plane!SettleLost(p, k) PROVE Plane!TypeOK'
  BY <1>14 DEF Plane!SettleLost, Plane!Done
<1>15. QED
  BY <1>1, <1>2, <1>3, <1>4, <1>5, <1>6, <1>7, <1>8, <1>9, <1>10, <1>11, <1>12, <1>13, <1>14,
     ClaimTyped, RecoverTyped
  DEF PlaneStep, OperatorRpc, PlaneTime, Settlement

----
(* Who works on a task. *)

\* A worker works on one task, which nobody else works on and nobody hands out: it runs under a
\* lease that is live, or was cancelled for good.
Alone(p, k) ==
  /\ state[k] \in {"running", "cancelled"}
  /\ state[k] = "running" => leaseLive[k]
  /\ \A q \in Workers : Plane!Executing(q, k) => q = p
  /\ \A l \in Keys : Plane!Executing(p, l) => l = k

WorkersAlone == \A p \in Workers, k \in Keys : Plane!Executing(p, k) => Alone(p, k)

\* A lease runs out only when its worker is gone, so that a task is handed out again only then.
LEMMA AloneStep ==
  ASSUME Plane!TypeOK, WorkersAlone, PlaneStep
  PROVE  WorkersAlone'
<1> USE DEF Plane!TypeOK, Plane!Processes, WorkersAlone, Alone, Plane!Executing, Plane!rowVars, Plane!procVars
<1>1. CASE UNCHANGED planeVars
  BY <1>1 DEF planeVars
<1>2. ASSUME NEW k \in Keys, OperatorRpc(k) PROVE WorkersAlone'
  <2>1. exec' = exec /\ leaseLive' \in {leaseLive, [leaseLive EXCEPT ![k] = FALSE]}
    BY <1>2 DEF OperatorRpc, Plane!EnqueueTask, Plane!CancelTask, Plane!Leave, Plane!RetryResolved,
                Plane!RetryFailed, HumanCompletes
  <2>2. /\ \E s : state' = [state EXCEPT ![k] = s]
        /\ \/ state'[k] = "cancelled"
           \/ state[k] \in {"absent", "queued", "failed", "waiting_for_user"} 
    BY <1>2 DEF OperatorRpc, Plane!EnqueueTask, Plane!CancelTask, Plane!Leave, Plane!RetryResolved,
                Plane!RetryFailed, HumanCompletes
  <2>3. QED
    BY <2>1, <2>2
<1>3. ASSUME NEW k \in Keys, Plane!RecoverExpiredLeases({k}) PROVE WorkersAlone'
  <2>1. state[k] = "running" /\ ~leaseLive[k]
    BY <1>3 DEF Plane!RecoverExpiredLeases, Plane!Expired
  <2>2. exec' = exec /\ leaseLive' = leaseLive /\ \A l \in Keys : l # k => state'[l] = state[l]
    BY <1>3 DEF Plane!RecoverExpiredLeases
  <2>3. QED
    BY <2>1, <2>2
<1>4. ASSUME NEW k \in Keys, Plane!BecomesDue(k) PROVE WorkersAlone'
  BY <1>4 DEF Plane!BecomesDue
<1>5. ASSUME NEW k \in Keys, \A p \in Workers : ~Plane!Executing(p, k), Plane!LeaseExpires(k)
      PROVE  WorkersAlone'
  BY <1>5 DEF Plane!LeaseExpires
<1>6. ASSUME NEW p \in Workers, Plane!TickStart(p) PROVE WorkersAlone'
  BY <1>6 DEF Plane!TickStart
<1>7. ASSUME NEW p \in Workers, Plane!Crash(p) PROVE WorkersAlone'
  BY <1>7 DEF Plane!Crash
<1>8. ASSUME NEW p \in Workers, NEW k \in Keys, Plane!TickClaim(p, {k}) PROVE WorkersAlone'
  <2>1. /\ state[k] \in {"queued", "retrying", "waiting"} /\ state'[k] = "running" /\ leaseLive'[k]
        /\ \A l \in Keys : exec[p][l] = 0
    BY <1>8 DEF Plane!TickClaim, Plane!ClaimTasks, Plane!Claimable, Plane!Free
  <2>2. \A l \in Keys : l # k => state'[l] = state[l] /\ leaseLive'[l] = leaseLive[l] /\ exec'[p][l] = 0
    BY <1>8 DEF Plane!TickClaim, Plane!ClaimTasks
  <2>3. \A q \in Workers : q # p => exec'[q] = exec[q]
    BY <1>8 DEF Plane!TickClaim, Plane!ClaimTasks
  <2>4. QED
    BY <2>1, <2>2, <2>3
<1>9. ASSUME NEW p \in Workers, NEW k \in Keys, Settlement(p, k) PROVE WorkersAlone'
  <2>1. Plane!Executing(p, k) /\ exec' = [exec EXCEPT ![p][k] = 0]
    BY <1>9 DEF Settlement, Plane!CompleteTask, Plane!FailTask, Plane!DeferTask, Plane!SettleLost, Plane!Done
  <2>2. UNCHANGED <<state, leaseLive>> \/ \E s : Plane!Leave(k, s)
    BY <1>9 DEF Settlement, Plane!CompleteTask, Plane!FailTask, Plane!DeferTask, Plane!SettleLost
  <2>3. \A l \in Keys : l # k => state'[l] = state[l] /\ leaseLive'[l] = leaseLive[l]
    BY <2>2 DEF Plane!Leave
  <2>4. QED
    BY <2>1, <2>3
<1>10. QED
  BY <1>1, <1>2, <1>3, <1>4, <1>5, <1>6, <1>7, <1>8, <1>9 DEF PlaneStep, PlaneTime

----
(* Type correctness. *)

JobSteps    == {"idle", "claimed", "loaded", "condemn", "moving", "insert", "submit", "poll", "record",
                "settle"}
Settlements == {"lost", "skipped", "complete", "defer"} \cup Decisions

JobRows == [step : JobSteps, cleared : BOOLEAN, seen : PublishStates, rec : Nat, goal : PublishStates,
            next : {"idle", "insert", "settle"}, answer : Answers, settle : Settlements]

\* Attempts of a key, of which one is the latest.
Numbered(f) ==
  /\ DOMAIN f \subseteq Nat \ {0}
  /\ \E a \in DOMAIN f \cup {0} : \A b \in DOMAIN f : b <= a

AttemptsTyped ==
  /\ DOMAIN receipts = Keys /\ ops = [k \in Keys |-> ops[k]]
  /\ \A k \in Keys :
       /\ Numbered(receipts[k])
       /\ \A a \in DOMAIN receipts[k] : receipts[k][a] \in ReceiptStates
       /\ \A a \in DOMAIN ops[k] : a \in DOMAIN receipts[k] /\ ops[k][a] \in {"pending", "live", "dead"}

VariantTyped ==
  /\ vstate \in PublishStates /\ KeyTyped
  /\ result \in [Keys -> {"none", "skipped", "published"}]
  /\ polls \in [Keys -> 0..MaxPolls]
  /\ provider \in Providers
  /\ sweep \in [seen : PublishStates, key : Keys \cup {NoKey}, todo : Seq(PublishStates)]
  /\ granted \in [Keys -> 0..MaxRetries] /\ redriven \in [Keys -> 0..MaxRetries]
  /\ misread \in [Keys -> SUBSET (Nat \ {0})] /\ overlooked \subseteq Keys

JobsTyped == job \in [Workers -> JobRows]

\* A worker has a job while it executes a task.
JobsHeld == \A p \in Workers : job[p].step = "idle" <=> Plane!Free(p)

\* The parts of the type invariant, and more.
Typed == Plane!TypeOK /\ VariantTyped /\ AttemptsTyped /\ JobsTyped /\ JobsHeld

LEMMA TypedImplies == Typed => TypeOK
  BY DEF Typed, TypeOK, VariantTyped, AttemptsTyped, JobsTyped, JobsHeld, KeyTyped, JobRows, JobSteps,
         Settlements, Numbered

\* What a step writes to the jobs.
LEMMA JobWritten ==
  ASSUME JobsTyped, NEW p \in Workers, NEW r, Becomes(p, r)
  PROVE  /\ job'[p] = r /\ \A q \in Workers : q # p => job'[q] = job[q]
         /\ r \in JobRows => JobsTyped'
BY DEF JobsTyped, Becomes

\* So is the row of a worker with nothing to do.
LEMMA IdleRow == NoJob \in JobRows
  BY DEF JobRows, JobSteps, Settlements, NoJob, PublishStates, Answers, Decisions

\* The latest attempt.
LEMMA LatestFacts ==
  ASSUME NEW k \in Keys, Numbered(receipts[k])
  PROVE  /\ Latest(k) \in DOMAIN receipts[k] \cup {0} /\ Latest(k) \in Nat
         /\ \A b \in DOMAIN receipts[k] : b <= Latest(k)
BY DEF Numbered, Latest

\* A worker inserts a receipt, or is about to.
Inserting(p) == job[p].step = "insert" \/ (job[p].step = "moving" /\ job[p].next = "insert")

\* A worker that waits for an answer has a receipt, one that will insert one has its number, and
\* one that moves the variant goes on.
Numbers(p, k) ==
  /\ job[p].step \in {"condemn", "submit", "poll", "record"} => job[p].rec \in DOMAIN receipts[k]
  /\ Inserting(p) => job[p].rec > 0
  /\ job[p].step = "moving" => job[p].next # "idle"

JobsNumbered == \A p \in Workers, k \in Keys : Plane!Executing(p, k) => Numbers(p, k)

WorkStep(p, k) ==
  \/ Load(p, k) \/ Reject(p, k) \/ Look(p, k) \/ Condemn(p, k) \/ Move(p, k) \/ Insert(p, k)
  \/ Submit(p, k) \/ Poll(p, k) \/ Record(p, k) \/ Fault(p, k)

\* A handler's step leaves its worker with a job, and the tasks as they are.
LEMMA WorkWrites ==
  ASSUME Typed, JobsNumbered, NEW p \in Workers, NEW k \in Keys, WorkStep(p, k)
  PROVE  /\ Plane!Executing(p, k) /\ UNCHANGED planeVars
         /\ \E r \in JobRows : r.step # "idle" /\ Becomes(p, r)
<1> DEFINE j == job[p]
<1>0. /\ Plane!Executing(p, k) /\ UNCHANGED planeVars
  BY DEF WorkStep, Load, Reject, Look, Condemn, Move, Insert, Submit, Poll, Record, Fault, At
<1>a. j \in JobRows /\ j.seen \in PublishStates /\ vstate \in PublishStates /\ j.rec \in Nat
  BY DEF Typed, JobsTyped, JobRows, VariantTyped
<1>f. /\ {"lost", "skipped", "complete", "defer", "retry", "needs_user", "give_up"} \subseteq Settlements
      /\ {"published", "failed", "publishing", "queued"} \subseteq PublishStates
      /\ {"published", "accepted", "partial", "unknown", "retry", "needs_user", "give_up"} \subseteq Answers
      /\ {"claimed", "loaded", "condemn", "moving", "insert", "submit", "poll", "record", "settle"}
           \subseteq JobSteps \ {"idle"}
      /\ Decisions = {"retry", "needs_user", "give_up"}
  BY DEF Settlements, PublishStates, Answers, Decisions, JobSteps
<1>b. \A s \in Settlements : SettleAs(p, s) => \E r \in JobRows : r.step # "idle" /\ Becomes(p, r)
  <2> SUFFICES ASSUME NEW s \in Settlements, SettleAs(p, s)
               PROVE  \E r \in JobRows : r.step # "idle" /\ Becomes(p, r)
    OBVIOUS
  <2> DEFINE r == [NoJob EXCEPT !.step = "settle", !.settle = s]
  <2>1. r \in JobRows /\ r.step # "idle"
    BY IdleRow, <1>a, <1>f DEF JobRows
  <2>2. QED
    BY <2>1 DEF SettleAs
<1>c. \A g \in PublishStates, s \in Settlements :
        MoveAndSettle(p, g, s) => \E r \in JobRows : r.step # "idle" /\ Becomes(p, r)
  <2> SUFFICES ASSUME NEW g \in PublishStates, NEW s \in Settlements, MoveAndSettle(p, g, s)
               PROVE  \E r \in JobRows : r.step # "idle" /\ Becomes(p, r)
    OBVIOUS
  <2> DEFINE r == [NoJob EXCEPT !.step = "moving", !.seen = j.seen, !.goal = g, !.next = "settle",
                                !.settle = s]
  <2>1. r \in JobRows /\ r.step # "idle"
    BY IdleRow, <1>a, <1>f DEF JobRows
  <2>2. QED
    BY <2>1 DEF MoveAndSettle
<1>d. \A st \in JobSteps \ {"idle"}, a \in Nat :
        Resume(p, st, a) => \E r \in JobRows : r.step # "idle" /\ Becomes(p, r)
  <2> SUFFICES ASSUME NEW st \in JobSteps \ {"idle"}, NEW a \in Nat, Resume(p, st, a)
               PROVE  \E r \in JobRows : r.step # "idle" /\ Becomes(p, r)
    OBVIOUS
  <2> DEFINE r == [NoJob EXCEPT !.step = st, !.seen = j.seen, !.rec = a]
  <2>1. r \in JobRows /\ r.step # "idle"
    BY IdleRow, <1>a, <1>f DEF JobRows
  <2>2. QED
    BY <2>1 DEF Resume
<1>e. \A o \in Answers : Answer(p, o) => \E r \in JobRows : r.step # "idle" /\ Becomes(p, r)
  <2> SUFFICES ASSUME NEW o \in Answers, Answer(p, o)
               PROVE  \E r \in JobRows : r.step # "idle" /\ Becomes(p, r)
    OBVIOUS
  <2> DEFINE r == [j EXCEPT !.step = "record", !.answer = o]
  <2>1. r \in JobRows /\ r.step # "idle"
    BY <1>a, <1>f DEF JobRows
  <2>2. QED
    BY <2>1 DEF Answer
<1>1. CASE Load(p, k)
  <2>1. CASE Becomes(p, [j EXCEPT !.step = "loaded", !.seen = vstate])
    <3> DEFINE r == [j EXCEPT !.step = "loaded", !.seen = vstate]
    <3>1. r \in JobRows /\ r.step # "idle"
      BY <1>a, <1>f DEF JobRows
    <3>2. QED
      BY <1>0, <2>1, <3>1
  <2>2. QED
    BY <1>0, <1>1, <1>b, <1>f, <2>1 DEF Load
<1>2. CASE Reject(p, k)
  BY <1>0, <1>2, <1>b, <1>c, <1>f DEF Reject
<1>3. CASE Look(p, k)
  <2> DEFINE prior == Latest(k)
             fresh == IF exec[p][k] > prior + 1 THEN exec[p][k] ELSE prior + 1
             r == [NoJob EXCEPT !.step = "moving", !.seen = j.seen, !.goal = "publishing",
                                !.next = "insert", !.rec = fresh]
  <2>1. prior \in Nat /\ fresh \in Nat
    <3>1. exec[p][k] \in Nat
      BY DEF Typed, Plane!TypeOK, Plane!Processes
    <3>2. QED
      BY <3>1, LatestFacts DEF Typed, AttemptsTyped
  <2>2. r \in JobRows /\ r.step # "idle"
    BY IdleRow, <1>a, <1>f, <2>1 DEF JobRows
  <2>3. \/ \E g \in PublishStates, s \in Settlements : MoveAndSettle(p, g, s)
        \/ \E st \in JobSteps \ {"idle"} : Resume(p, st, prior)
        \/ Becomes(p, r)
    BY <1>3, <1>f DEF Look
  <2>4. QED
    BY <1>0, <1>c, <1>d, <2>1, <2>2, <2>3
<1>4. CASE Condemn(p, k)
  BY <1>0, <1>4, <1>b, <1>c, <1>f DEF Condemn
<1>5. CASE Move(p, k)
  <2> DEFINE hop  == IF j.seen = j.goal THEN vstate ELSE NextHop(j.seen, j.goal)
             seen == IF j.seen = j.goal THEN j.goal ELSE hop
             r1 == [j EXCEPT !.seen = seen]
             r2 == [NoJob EXCEPT !.step = j.next, !.seen = seen, !.rec = j.rec, !.settle = j.settle]
  <2>1. seen \in PublishStates
    BY <1>a DEF NextHop, PublishStates, JobRows
  <2>2. j.step = "moving" /\ j.next \in {"insert", "settle"} /\ j.settle \in Settlements
    BY <1>0, <1>5, <1>a DEF Move, At, JobsNumbered, Numbers, JobRows
  <2>3. r1 \in JobRows /\ r1.step # "idle"
    BY <1>a, <1>f, <2>1, <2>2 DEF JobRows
  <2>4. r2 \in JobRows /\ r2.step # "idle"
    BY IdleRow, <1>a, <1>f, <2>1, <2>2 DEF JobRows
  <2>5. SettleAs(p, "retry") \/ Becomes(p, r1) \/ Becomes(p, r2)
    BY <1>5 DEF Move
  <2>6. QED
    BY <1>0, <1>b, <1>f, <2>3, <2>4, <2>5
<1>6. CASE Insert(p, k)
  BY <1>0, <1>6, <1>a, <1>b, <1>d, <1>f DEF Insert
<1>7. CASE Submit(p, k)
  <2>1. \E o \in Answers : Answer(p, o)
    BY <1>7, <1>f DEF Submit, Report, Unanswered
  <2>2. QED
    BY <1>0, <1>e, <2>1
<1>8. CASE Poll(p, k)
  <2>1. \E o \in Answers : Answer(p, o)
    BY <1>8, <1>f DEF Poll, Misreads, Reports, Report, ReadFailed
  <2>2. QED
    BY <1>0, <1>e, <2>1
<1>9. CASE Record(p, k)
  <2>1. SettleFor(j.answer) \in Settlements /\ \A n : GoalFor(j.answer, n) \in PublishStates
    BY <1>a, <1>f DEF SettleFor, GoalFor, JobRows, Answers
  <2>2. QED
    BY <1>0, <1>9, <1>b, <1>c, <1>f, <2>1 DEF Record
<1>10. CASE Fault(p, k)
  BY <1>0, <1>10, <1>b, <1>f DEF Fault
<1>11. QED
  BY <1>1, <1>2, <1>3, <1>4, <1>5, <1>6, <1>7, <1>8, <1>9, <1>10 DEF WorkStep

\* So is a step that is none of a worker's.
OtherStep ==
  \/ OperatorStep \/ SweepStep
  \/ \E k \in Keys : \/ Recover(k) \/ BecomesDue(k) \/ LeaseExpires(k)
                     \/ \E a \in DOMAIN ops[k] : OpEnds(k, a)

\* It leaves the workers alone.
LEMMA OtherWrites ==
  ASSUME OtherStep \/ UNCHANGED vars
  PROVE  UNCHANGED <<job, exec>>
<1>1. ASSUME NEW k \in Keys,
             \/ Schedule(k) \/ CancelJob(k) \/ RetryJob(k) \/ RedriveJob(k)
             \/ ResolveNotPublished(k) \/ ResolvePublished(k)
      PROVE  UNCHANGED <<job, exec>>
  BY <1>1 DEF Schedule, CancelJob, RetryJob, RedriveJob, ResolveNotPublished, ResolvePublished, planeVars,
              Plane!EnqueueTask, Plane!CancelTask, Plane!RetryResolved, Plane!RetryFailed, Plane!procVars
<1>2. ASSUME Unschedule PROVE UNCHANGED <<job, exec>>
  BY <1>2 DEF Unschedule, planeVars, Plane!CancelTask, Plane!procVars
<1>3. ASSUME SweepStep PROVE UNCHANGED <<job, exec>>
  BY <1>3 DEF SweepStep, SweepVariant, SweepTask, SweepWrite, SweepLeaves, planeVars
<1>4. ASSUME NEW k \in Keys, Recover(k) \/ BecomesDue(k) \/ LeaseExpires(k)
      PROVE  UNCHANGED <<job, exec>>
  BY <1>4 DEF Recover, BecomesDue, LeaseExpires, Plane!RecoverExpiredLeases, Plane!BecomesDue,
              Plane!LeaseExpires, Plane!procVars
<1>5. ASSUME NEW k \in Keys, NEW a \in DOMAIN ops[k], OpEnds(k, a) PROVE UNCHANGED <<job, exec>>
  BY <1>5 DEF OpEnds, planeVars
<1>6. QED
  BY <1>1, <1>2, <1>3, <1>4, <1>5 DEF OtherStep, OperatorStep, vars, planeVars

\* The steps of Next, by who takes them.
LEMMA StepCases ==
  ASSUME [Next]_vars
  PROVE  \/ OtherStep \/ UNCHANGED vars
         \/ \E p \in Workers : StartTick(p) \/ Crash(p)
         \/ \E p \in Workers, k \in Keys : Claim(p, k) \/ Settle(p, k) \/ WorkStep(p, k)
BY DEF Next, OtherStep, EngineStep, WorkStep

\* The jobs keep their type, and their workers.
LEMMA JobsStep ==
  ASSUME Typed, WorkersAlone, JobsNumbered, [Next]_vars
  PROVE  JobsTyped' /\ JobsHeld'
<1> USE DEF JobsHeld, Plane!Free
<1>a. JobsTyped /\ JobsHeld /\ exec \in [Workers -> [Keys -> Nat]]
  BY DEF Typed, Plane!TypeOK, Plane!Processes
<1>b. NoJob.step = "idle"
  BY DEF NoJob
<1>1. CASE OtherStep \/ UNCHANGED vars
  BY <1>1, <1>a, OtherWrites DEF JobsTyped
<1>2. ASSUME NEW p \in Workers, StartTick(p) PROVE JobsTyped' /\ JobsHeld'
  BY <1>2, <1>a DEF StartTick, Plane!TickStart, JobsTyped
<1>3. ASSUME NEW p \in Workers, Crash(p) PROVE JobsTyped' /\ JobsHeld'
  <2>1. Becomes(p, NoJob) /\ exec' = [exec EXCEPT ![p] = [t \in Keys |-> 0]]
    BY <1>3 DEF Crash, Plane!Crash
  <2>2. JobsTyped' /\ job'[p] = NoJob /\ \A q \in Workers : q # p => job'[q] = job[q]
    BY <2>1, <1>a, JobWritten, IdleRow
  <2>3. QED
    BY <2>1, <2>2, <1>a, <1>b
<1>4. ASSUME NEW p \in Workers, NEW k \in Keys, Claim(p, k) PROVE JobsTyped' /\ JobsHeld'
  <2> DEFINE r == [NoJob EXCEPT !.step = "claimed", !.cleared = (intervention[k] = "resolved")]
  <2>1. r \in JobRows /\ r.step = "claimed"
    BY IdleRow DEF JobRows, JobSteps
  <2>2. exec'[p][k] = attempts[k] + 1 /\ \A q \in Workers : q # p => exec'[q] = exec[q]
    BY <1>4, <1>a DEF Claim, Plane!TickClaim, Plane!ClaimTasks
  <2>3. attempts[k] + 1 # 0
    BY DEF Typed, Plane!TypeOK
  <2>4. JobsTyped' /\ job'[p] = r /\ \A q \in Workers : q # p => job'[q] = job[q]
    BY <2>1, <1>4, <1>a, JobWritten DEF Claim
  <2>5. job'[p].step # "idle" /\ exec'[p][k] # 0
    BY <2>1, <2>2, <2>3, <2>4
  <2>6. JobsTyped' /\ \A q \in Workers : q # p => job'[q] = job[q] /\ exec'[q] = exec[q]
    BY <2>2, <2>4
  <2>7. QED
    BY <2>5, <2>6, <1>a
<1>5. ASSUME NEW p \in Workers, NEW k \in Keys, Settle(p, k) PROVE JobsTyped' /\ JobsHeld'
  <2>1. /\ Becomes(p, NoJob) /\ Plane!Executing(p, k)
        /\ exec' = [exec EXCEPT ![p][k] = 0]
    BY <1>5 DEF Settle, At, Plane!CompleteTask, Plane!FailTask, Plane!DeferTask, Plane!SettleLost,
                Plane!Done
  <2>2. JobsTyped' /\ job'[p] = NoJob /\ \A q \in Workers : q # p => job'[q] = job[q]
    BY <2>1, <1>a, JobWritten, IdleRow
  <2>3. \A l \in Keys : exec'[p][l] = 0
    BY <2>1, <1>5, <1>a DEF WorkersAlone, Alone, Plane!Executing
  <2>4. QED
    BY <2>1, <2>2, <2>3, <1>a, <1>b
<1>6. ASSUME NEW p \in Workers, NEW k \in Keys, WorkStep(p, k) PROVE JobsTyped' /\ JobsHeld'
  <2>1. PICK r \in JobRows : r.step # "idle" /\ Becomes(p, r)
    BY <1>6, WorkWrites
  <2>2. Plane!Executing(p, k) /\ exec' = exec
    BY <1>6, WorkWrites DEF planeVars
  <2>3. JobsTyped' /\ job'[p] = r /\ \A q \in Workers : q # p => job'[q] = job[q]
    BY <2>1, <1>a, JobWritten
  <2>4. QED
    BY <2>1, <2>2, <2>3, <1>a DEF Plane!Executing
<1>7. QED
  BY <1>1, <1>2, <1>3, <1>4, <1>5, <1>6, StepCases

----
(* The attempts of a key. *)

\* A write to the receipts, and one to the operations.
Wrote(k, a, s) ==
  /\ DOMAIN receipts' = Keys /\ \A l \in Keys : l # k => receipts'[l] = receipts[l]
  /\ DOMAIN receipts'[k] = DOMAIN receipts[k] \cup {a} /\ receipts'[k][a] = s
  /\ \A b \in DOMAIN receipts[k] : b # a => receipts'[k][b] = receipts[k][b]

OpWrote(k, a, s) ==
  /\ ops' = [l \in Keys |-> ops'[l]] /\ \A l \in Keys : l # k => ops'[l] = ops[l]
  /\ DOMAIN ops'[k] = DOMAIN ops[k] \cup {a} /\ ops'[k][a] = s
  /\ \A b \in DOMAIN ops[k] : b # a => ops'[k][b] = ops[k][b]

\* A receipt is inserted, or one that is not settled is written.
ReceiptWritten(k, a, s) ==
  /\ Wrote(k, a, s)
  /\ a \in Nat \ {0} /\ s \in ReceiptStates
  /\ a \in DOMAIN receipts[k] => receipts[k][a] \notin Settled

LEMMA WriteFacts ==
  ASSUME AttemptsTyped, NEW k \in Keys, NEW a, NEW s
  PROVE  /\ receipts' = [receipts EXCEPT ![k] = With(@, a, s)] => Wrote(k, a, s)
         /\ receipts' = [receipts EXCEPT ![k][a] = s] /\ a \in DOMAIN receipts[k] => Wrote(k, a, s)
         /\ ops' = [ops EXCEPT ![k] = With(@, a, s)] => OpWrote(k, a, s)
         /\ ops' = [ops EXCEPT ![k][a] = s] /\ a \in DOMAIN ops[k] => OpWrote(k, a, s)
BY DEF AttemptsTyped, Wrote, OpWrote, With

\* An attempt after the latest.
LEMMA NextAttempt ==
  ASSUME AttemptsTyped, NEW k \in Keys
  PROVE  Latest(k) \in Nat /\ Latest(k) + 1 \in Nat \ {0} /\ Latest(k) + 1 \notin DOMAIN receipts[k]
<1>1. DOMAIN receipts[k] \subseteq Nat \ {0}
  BY DEF AttemptsTyped, Numbered
<1>2. Latest(k) \in Nat /\ \A b \in DOMAIN receipts[k] : b <= Latest(k)
  BY LatestFacts DEF AttemptsTyped
<1>3. QED
  BY <1>1, <1>2

\* What the attempts of the job at hand are.
LEMMA JobFacts ==
  ASSUME Typed, JobsNumbered, NEW p \in Workers, NEW k \in Keys, Plane!Executing(p, k)
  PROVE  /\ job[p] \in JobRows /\ job[p].rec \in Nat
         /\ job[p].step \in {"condemn", "submit", "poll", "record"} => job[p].rec \in DOMAIN receipts[k]
         /\ job[p].step = "insert" => job[p].rec \in Nat \ {0}
         /\ DOMAIN receipts[k] \subseteq Nat \ {0}
<1>1. job[p] \in JobRows /\ job[p].rec \in Nat
  BY DEF Typed, JobsTyped, JobRows
<1>2. DOMAIN receipts[k] \subseteq Nat \ {0}
  BY DEF Typed, AttemptsTyped, Numbered
<1>3. QED
  BY <1>1, <1>2 DEF JobsNumbered, Numbers, Inserting

\* An attempt that was misread stays one.
LEMMA MisreadStep ==
  ASSUME Typed, JobsNumbered, [Next]_vars
  PROVE  /\ misread' \in [Keys -> SUBSET (Nat \ {0})] /\ overlooked' \subseteq Keys
         /\ \A l \in Keys : misread[l] \subseteq misread'[l]
<1> DEFINE Goal == /\ misread' \in [Keys -> SUBSET (Nat \ {0})] /\ overlooked' \subseteq Keys
                   /\ \A l \in Keys : misread[l] \subseteq misread'[l]
<1>a. misread \in [Keys -> SUBSET (Nat \ {0})] /\ overlooked \subseteq Keys
  BY DEF Typed, VariantTyped
<1>1. CASE UNCHANGED <<misread, overlooked>>
  BY <1>1, <1>a
<1>2. ASSUME NEW p \in Workers, NEW k \in Keys, Load(p, k) PROVE Goal
  <2>1. UNCHANGED misread /\ overlooked' \in {overlooked \cup {k}, overlooked \ {k}}
    BY <1>2 DEF Load
  <2>2. QED
    BY <1>a, <2>1
<1>3. ASSUME NEW p \in Workers, NEW k \in Keys, Poll(p, k) PROVE Goal
  <2>1. /\ Plane!Executing(p, k) /\ job[p].step = "poll" /\ UNCHANGED overlooked
        /\ misread' = misread \/ misread' = [misread EXCEPT ![k] = @ \cup {job[p].rec}]
    BY <1>3 DEF Poll, Misreads, At
  <2>2. job[p].rec \in Nat \ {0}
    BY <2>1, JobFacts
  <2>3. QED
    BY <1>a, <2>1, <2>2
<1>4. CASE OperatorStep
  BY <1>1, <1>4 DEF OperatorStep, Schedule, CancelJob, RetryJob, RedriveJob, Unschedule, ResolveNotPublished,
                    ResolvePublished, history
<1>5. CASE SweepStep
  BY <1>1, <1>5 DEF SweepStep, SweepVariant, SweepTask, SweepWrite, SweepLeaves, history
<1>6. ASSUME NEW k \in Keys, \/ Recover(k) \/ BecomesDue(k) \/ LeaseExpires(k)
                             \/ \E a \in DOMAIN ops[k] : OpEnds(k, a)
      PROVE  UNCHANGED <<misread, overlooked>>
  BY <1>6 DEF Recover, BecomesDue, LeaseExpires, OpEnds, WorkerLeaves, history
<1>7. ASSUME NEW p \in Workers, StartTick(p) \/ Crash(p) PROVE UNCHANGED <<misread, overlooked>>
  BY <1>7 DEF StartTick, Crash, WorkerLeaves, history
<1>8. ASSUME NEW p \in Workers, NEW k \in Keys,
             \/ Claim(p, k) \/ Reject(p, k) \/ Look(p, k) \/ Fault(p, k) \/ Condemn(p, k) \/ Move(p, k)
             \/ Insert(p, k) \/ Submit(p, k) \/ Record(p, k) \/ Settle(p, k)
      PROVE  UNCHANGED <<misread, overlooked>>
  BY <1>8 DEF Claim, Reject, Look, Fault, Condemn, Move, Insert, Submit, Record, Settle, WorkerLeaves, history
<1>9. CASE UNCHANGED vars
  BY <1>1, <1>9 DEF vars, history
<1>10. CASE OtherStep
  BY <1>1, <1>4, <1>5, <1>6, <1>10 DEF OtherStep
<1>11. QED
  BY <1>1, <1>2, <1>3, <1>7, <1>8, <1>9, <1>10, StepCases DEF WorkStep

\* What a step does to the receipts.
LEMMA ReceiptCases ==
  ASSUME Typed, JobsNumbered, [Next]_vars
  PROVE  receipts' = receipts \/ \E k \in Keys : \E a, s : ReceiptWritten(k, a, s)
<1> DEFINE Goal == receipts' = receipts \/ \E k \in Keys : \E a, s : ReceiptWritten(k, a, s)
<1>a. AttemptsTyped
  BY DEF Typed
<1>1. CASE UNCHANGED vars
  BY <1>1 DEF vars
<1>2. ASSUME NEW k \in Keys, Schedule(k) \/ CancelJob(k) \/ RetryJob(k) \/ RedriveJob(k) \/ Unschedule
      PROVE  Goal
  BY <1>2 DEF Schedule, CancelJob, RetryJob, RedriveJob, Unschedule
<1>3. ASSUME NEW k \in Keys, ResolveNotPublished(k) PROVE Goal
  <2>1. /\ Latest(k) # 0 /\ receipts[k][Latest(k)] = "unknown"
        /\ receipts' = [receipts EXCEPT ![k][Latest(k)] = "failed"]
    BY <1>3 DEF ResolveNotPublished
  <2>2. Latest(k) \in DOMAIN receipts[k] /\ Latest(k) \in Nat
    BY <2>1, <1>a, LatestFacts DEF AttemptsTyped
  <2>3. Wrote(k, Latest(k), "failed")
    BY <2>1, <2>2, <1>a, WriteFacts
  <2>4. QED
    BY <2>1, <2>2, <2>3 DEF ReceiptWritten, ReceiptStates, Settled
<1>4. ASSUME NEW k \in Keys, ResolvePublished(k) PROVE Goal
  <2>1. receipts' = [receipts EXCEPT ![k] = With(@, Latest(k) + 1, "published")]
    BY <1>4 DEF ResolvePublished
  <2>2. Wrote(k, Latest(k) + 1, "published")
    BY <2>1, <1>a, WriteFacts
  <2>3. QED
    BY <2>2, <1>a, NextAttempt DEF ReceiptWritten, ReceiptStates, Settled
<1>5. ASSUME NEW p \in Workers, StartTick(p) \/ Crash(p) PROVE Goal
  BY <1>5 DEF StartTick, Crash, WorkerLeaves
<1>6. ASSUME NEW p \in Workers, NEW k \in Keys,
             \/ Claim(p, k) \/ Load(p, k) \/ Reject(p, k) \/ Look(p, k) \/ Fault(p, k) \/ Move(p, k)
             \/ Submit(p, k) \/ Poll(p, k) \/ Settle(p, k)
      PROVE  Goal
  BY <1>6 DEF Claim, Load, Reject, Look, Fault, Move, Submit, Poll, Settle, WorkerLeaves
<1>7. ASSUME NEW p \in Workers, NEW k \in Keys, Condemn(p, k) PROVE Goal
  <2>1. CASE receipts' = receipts
    BY <2>1
  <2>2. CASE receipts' # receipts
    <3>1. /\ Plane!Executing(p, k) /\ job[p].step = "condemn" /\ receipts[k][job[p].rec] \notin Settled
          /\ receipts' = [receipts EXCEPT ![k][job[p].rec] = "unknown"]
      BY <1>7, <2>2 DEF Condemn, At, SetReceipt
    <3>2. job[p].rec \in DOMAIN receipts[k] /\ job[p].rec \in Nat \ {0}
      BY <3>1, JobFacts
    <3>3. Wrote(k, job[p].rec, "unknown")
      BY <3>1, <3>2, <1>a, WriteFacts
    <3>4. QED
      BY <3>1, <3>2, <3>3 DEF ReceiptWritten, ReceiptStates
  <2>3. QED
    BY <2>1, <2>2
<1>8. ASSUME NEW p \in Workers, NEW k \in Keys, Record(p, k) PROVE Goal
  <2>1. CASE receipts' = receipts
    BY <2>1
  <2>2. CASE receipts' # receipts
    <3>1. /\ Plane!Executing(p, k) /\ job[p].step = "record" /\ receipts[k][job[p].rec] \notin Settled
          /\ receipts' = [receipts EXCEPT ![k][job[p].rec] = ReceiptFor(job[p].answer)]
      BY <1>8, <2>2 DEF Record, At, SetReceipt
    <3>2. /\ job[p].rec \in DOMAIN receipts[k] /\ job[p].rec \in Nat \ {0}
          /\ job[p].answer \in Answers
      BY <3>1, JobFacts DEF JobRows
    <3>3. Wrote(k, job[p].rec, ReceiptFor(job[p].answer))
      BY <3>1, <3>2, <1>a, WriteFacts
    <3>4. ReceiptFor(job[p].answer) \in ReceiptStates
      BY <3>2 DEF ReceiptFor, Answers, Decisions, ReceiptStates, Settled
    <3>5. QED
      BY <3>1, <3>2, <3>3, <3>4 DEF ReceiptWritten
  <2>3. QED
    BY <2>1, <2>2
<1>9. ASSUME NEW p \in Workers, NEW k \in Keys, Insert(p, k) PROVE Goal
  <2>1. CASE receipts' = receipts
    BY <2>1
  <2>2. CASE receipts' # receipts
    <3>1. /\ Plane!Executing(p, k) /\ job[p].step = "insert" /\ job[p].rec \notin DOMAIN receipts[k]
          /\ receipts' = [receipts EXCEPT ![k] = With(@, job[p].rec, "submitting")]
      BY <1>9, <2>2 DEF Insert, At
    <3>2. job[p].rec \in Nat \ {0}
      BY <3>1, JobFacts
    <3>3. Wrote(k, job[p].rec, "submitting")
      BY <3>1, <1>a, WriteFacts
    <3>4. QED
      BY <3>1, <3>2, <3>3 DEF ReceiptWritten, ReceiptStates
  <2>3. QED
    BY <2>1, <2>2
<1>10. ASSUME SweepStep PROVE Goal
  BY <1>10 DEF SweepStep, SweepVariant, SweepTask, SweepWrite, SweepLeaves
<1>11. ASSUME NEW k \in Keys, \/ Recover(k) \/ BecomesDue(k) \/ LeaseExpires(k)
                              \/ \E a \in DOMAIN ops[k] : OpEnds(k, a)
       PROVE  Goal
  BY <1>11 DEF Recover, BecomesDue, LeaseExpires, OpEnds, WorkerLeaves
<1>12. CASE OperatorStep
  BY <1>12, <1>2, <1>3, <1>4 DEF OperatorStep, Unschedule
<1>13. CASE OtherStep
  BY <1>10, <1>11, <1>12, <1>13 DEF OtherStep
<1>14. QED
  BY <1>1, <1>5, <1>6, <1>7, <1>8, <1>9, <1>13, StepCases DEF WorkStep

\* What a submission does to the operations: it finds one, or makes one with its own number.
LEMMA SubmitFacts ==
  ASSUME Typed, JobsNumbered, NEW p \in Workers, NEW k \in Keys, Submit(p, k)
  PROVE  /\ Plane!Executing(p, k) /\ job[p].step = "submit" /\ job[p].rec \in DOMAIN receipts[k]
         /\ \/ ops' = ops
            \/ /\ OpOf(k, job[p].rec) = job[p].rec
               /\ \E s \in {"pending", "live"} : OpWrote(k, job[p].rec, s)
<1> DEFINE a == job[p].rec
           o == OpOf(k, a)
<1>1. Plane!Executing(p, k) /\ job[p].step = "submit"
  BY DEF Submit, At
<1>2. a \in DOMAIN receipts[k]
  BY <1>1, JobFacts
<1>3. \/ ops' = ops
      \/ \E s \in {"pending", "live"} : ops' = [ops EXCEPT ![k] = IF o \in DOMAIN @ THEN @ ELSE With(@, o, s)]
  BY DEF Submit
<1>4. ASSUME NEW s \in {"pending", "live"},
             ops' = [ops EXCEPT ![k] = IF o \in DOMAIN @ THEN @ ELSE With(@, o, s)]
      PROVE  ops' = ops \/ (o = a /\ OpWrote(k, a, s))
  <2>1. CASE o \in DOMAIN ops[k]
    <3>1. ops' = [ops EXCEPT ![k] = ops[k]]
      BY <1>4, <2>1
    <3>2. ops = [l \in Keys |-> ops[l]]
      BY DEF Typed, AttemptsTyped
    <3>3. QED
      BY <3>1, <3>2
  <2>2. CASE o \notin DOMAIN ops[k]
    <3>1. o = a
      BY <2>2 DEF OpOf
    <3>2. ops' = [ops EXCEPT ![k] = With(@, a, s)]
      BY <1>4, <2>2, <3>1
    <3>3. QED
      BY <3>1, <3>2, WriteFacts DEF Typed
  <2>3. QED
    BY <2>1, <2>2
<1>5. QED
  BY <1>1, <1>2, <1>3, <1>4

\* What a step does to the operations.
LEMMA OpsCases ==
  ASSUME Typed, JobsNumbered, [Next]_vars
  PROVE  \/ ops' = ops
         \/ /\ receipts' = receipts
            /\ \E k \in Keys : \E a \in DOMAIN receipts[k], s \in {"pending", "live", "dead"} : OpWrote(k, a, s)
<1> DEFINE Goal == \/ ops' = ops
                   \/ /\ receipts' = receipts
                      /\ \E k \in Keys : \E a \in DOMAIN receipts[k], s \in {"pending", "live", "dead"} :
                           OpWrote(k, a, s)
<1>1. CASE UNCHANGED vars
  BY <1>1 DEF vars
<1>2. CASE OperatorStep
  BY <1>2 DEF OperatorStep, Schedule, CancelJob, RetryJob, RedriveJob, Unschedule, ResolveNotPublished,
              ResolvePublished
<1>3. ASSUME NEW p \in Workers, StartTick(p) \/ Crash(p) PROVE Goal
  BY <1>3 DEF StartTick, Crash, WorkerLeaves
<1>4. ASSUME NEW p \in Workers, NEW k \in Keys,
             \/ Claim(p, k) \/ Load(p, k) \/ Reject(p, k) \/ Look(p, k) \/ Fault(p, k) \/ Move(p, k)
             \/ Condemn(p, k) \/ Insert(p, k) \/ Record(p, k) \/ Poll(p, k) \/ Settle(p, k)
      PROVE  Goal
  BY <1>4 DEF Claim, Load, Reject, Look, Fault, Move, Condemn, Insert, Record, Poll, Settle, WorkerLeaves
<1>5. ASSUME NEW p \in Workers, NEW k \in Keys, Submit(p, k) PROVE Goal
  <2>1. receipts' = receipts
    BY <1>5 DEF Submit
  <2>2. QED
    BY <2>1, <1>5, SubmitFacts
<1>6. ASSUME SweepStep PROVE Goal
  BY <1>6 DEF SweepStep, SweepVariant, SweepTask, SweepWrite, SweepLeaves
<1>7. ASSUME NEW k \in Keys, Recover(k) \/ BecomesDue(k) \/ LeaseExpires(k) PROVE  Goal
  BY <1>7 DEF Recover, BecomesDue, LeaseExpires, WorkerLeaves
<1>8. ASSUME NEW k \in Keys, NEW a \in DOMAIN ops[k], OpEnds(k, a) PROVE Goal
  <2>1. receipts' = receipts /\ \E s \in {"live", "dead"} : ops' = [ops EXCEPT ![k][a] = s]
    BY <1>8 DEF OpEnds
  <2>2. \E s \in {"live", "dead"} : OpWrote(k, a, s)
    BY <2>1, WriteFacts DEF Typed
  <2>3. a \in DOMAIN receipts[k]
    BY DEF Typed, AttemptsTyped
  <2>4. QED
    BY <2>1, <2>2, <2>3
<1>9. CASE OtherStep
  BY <1>2, <1>6, <1>7, <1>8, <1>9 DEF OtherStep
<1>10. QED
  BY <1>1, <1>3, <1>4, <1>5, <1>9, StepCases DEF WorkStep

\* An operation is new when a worker submits it.
LEMMA NewOperation ==
  ASSUME Typed, JobsNumbered, [Next]_vars, NEW l \in Keys, NEW a \in DOMAIN ops'[l] \ DOMAIN ops[l]
  PROVE  \E p \in Workers : Submit(p, l) /\ a = job[p].rec
<1>1. CASE UNCHANGED ops
  BY <1>1
<1>2. ASSUME NEW p \in Workers, NEW k \in Keys, Submit(p, k)
      PROVE  k = l /\ a = job[p].rec
  BY <1>2, SubmitFacts DEF OpWrote
<1>3. ASSUME NEW k \in Keys, NEW b \in DOMAIN ops[k], OpEnds(k, b) PROVE FALSE
  <2>1. \E s : ops' = [ops EXCEPT ![k][b] = s]
    BY <1>3 DEF OpEnds
  <2>2. \E s : OpWrote(k, b, s)
    BY <2>1, WriteFacts DEF Typed
  <2>3. QED
    BY <2>2 DEF OpWrote
<1>4. CASE OperatorStep
  BY <1>1, <1>4 DEF OperatorStep, Schedule, CancelJob, RetryJob, RedriveJob, Unschedule, ResolveNotPublished,
                    ResolvePublished
<1>5. ASSUME NEW p \in Workers, StartTick(p) \/ Crash(p) PROVE UNCHANGED ops
  BY <1>5 DEF StartTick, Crash, WorkerLeaves
<1>6. ASSUME NEW p \in Workers, NEW k \in Keys,
             \/ Claim(p, k) \/ Load(p, k) \/ Reject(p, k) \/ Look(p, k) \/ Fault(p, k) \/ Move(p, k)
             \/ Condemn(p, k) \/ Insert(p, k) \/ Record(p, k) \/ Poll(p, k) \/ Settle(p, k)
      PROVE  UNCHANGED ops
  BY <1>6 DEF Claim, Load, Reject, Look, Fault, Move, Condemn, Insert, Record, Poll, Settle, WorkerLeaves
<1>7. CASE SweepStep
  BY <1>1, <1>7 DEF SweepStep, SweepVariant, SweepTask, SweepWrite, SweepLeaves
<1>8. ASSUME NEW k \in Keys, Recover(k) \/ BecomesDue(k) \/ LeaseExpires(k) PROVE UNCHANGED ops
  BY <1>8 DEF Recover, BecomesDue, LeaseExpires, WorkerLeaves
<1>9. CASE UNCHANGED vars
  BY <1>1, <1>9 DEF vars
<1>10. CASE OtherStep
  BY <1>1, <1>3, <1>4, <1>7, <1>8, <1>10 DEF OtherStep
<1>11. QED
  BY <1>1, <1>2, <1>5, <1>6, <1>9, <1>10, StepCases DEF WorkStep

\* The attempts keep their type, and none goes away.
LEMMA AttemptsStep ==
  ASSUME Typed, JobsNumbered, [Next]_vars
  PROVE  /\ AttemptsTyped'
         /\ \A k \in Keys : DOMAIN receipts[k] \subseteq DOMAIN receipts'[k]
         /\ \A k \in Keys : \A a \in DOMAIN receipts[k] :
              receipts[k][a] = "published" => receipts'[k][a] = "published"
<1>a. AttemptsTyped
  BY DEF Typed
<1>1. CASE receipts' = receipts /\ ops' = ops
  BY <1>1, <1>a DEF AttemptsTyped
<1>2. ASSUME NEW k \in Keys, NEW a, NEW s, ReceiptWritten(k, a, s), ops' = ops
      PROVE  /\ AttemptsTyped'
             /\ \A l \in Keys : DOMAIN receipts[l] \subseteq DOMAIN receipts'[l]
             /\ \A l \in Keys : \A b \in DOMAIN receipts[l] :
                  receipts[l][b] = "published" => receipts'[l][b] = "published"
  <2>1. /\ DOMAIN receipts' = Keys /\ \A l \in Keys : l # k => receipts'[l] = receipts[l]
        /\ DOMAIN receipts'[k] = DOMAIN receipts[k] \cup {a} /\ receipts'[k][a] = s
        /\ \A b \in DOMAIN receipts[k] : b # a => receipts'[k][b] = receipts[k][b]
        /\ a \in Nat \ {0} /\ s \in ReceiptStates
        /\ a \in DOMAIN receipts[k] => receipts[k][a] # "published"
    BY <1>2 DEF ReceiptWritten, Wrote, Settled
  <2>2. \A l \in Keys : \A b \in DOMAIN receipts[l] :
          receipts[l][b] = "published" => receipts'[l][b] = "published"
    BY <2>1
  <2>3. Numbered(receipts'[k])
    <3>1. PICK m \in DOMAIN receipts[k] \cup {0} : \A b \in DOMAIN receipts[k] : b <= m
      BY <1>a DEF AttemptsTyped, Numbered
    <3>2. DOMAIN receipts[k] \subseteq Nat \ {0} /\ m \in Nat
      BY <1>a, <3>1 DEF AttemptsTyped, Numbered
    <3>3. CASE a <= m
      <4>1. \A b \in DOMAIN receipts'[k] : b <= m
        BY <2>1, <3>1, <3>3
      <4>2. DOMAIN receipts'[k] \subseteq Nat \ {0} /\ m \in DOMAIN receipts'[k] \cup {0}
        BY <2>1, <3>1, <3>2
      <4>3. QED
        BY <4>1, <4>2 DEF Numbered
    <3>4. CASE ~(a <= m)
      <4>1. \A b \in DOMAIN receipts'[k] : b <= a
        BY <2>1, <3>1, <3>2, <3>4
      <4>2. DOMAIN receipts'[k] \subseteq Nat \ {0} /\ a \in DOMAIN receipts'[k] \cup {0}
        BY <2>1, <3>2
      <4>3. QED
        BY <4>1, <4>2 DEF Numbered
    <3>5. QED
      BY <3>3, <3>4
  <2>4. AttemptsTyped'
    <3>1. \A l \in Keys : Numbered(receipts'[l])
      BY <2>1, <2>3, <1>a DEF AttemptsTyped
    <3>2. \A l \in Keys : \A b \in DOMAIN receipts'[l] : receipts'[l][b] \in ReceiptStates
      BY <2>1, <1>a DEF AttemptsTyped
    <3>3. \A l \in Keys : \A b \in DOMAIN ops'[l] :
            b \in DOMAIN receipts'[l] /\ ops'[l][b] \in {"pending", "live", "dead"}
      BY <1>2, <2>1, <1>a DEF AttemptsTyped
    <3>4. DOMAIN receipts' = Keys /\ ops' = [l \in Keys |-> ops'[l]]
      BY <1>2, <2>1, <1>a DEF AttemptsTyped
    <3>5. QED
      BY <3>1, <3>2, <3>3, <3>4 DEF AttemptsTyped, Numbered
  <2>5. QED
    BY <2>1, <2>2, <2>4
<1>3. ASSUME NEW k \in Keys, NEW a \in DOMAIN receipts[k], NEW s \in {"pending", "live", "dead"},
             OpWrote(k, a, s), receipts' = receipts
      PROVE  AttemptsTyped'
  BY <1>3, <1>a DEF OpWrote, AttemptsTyped
<1>4. QED
  BY <1>1, <1>2, <1>3, ReceiptCases, OpsCases

----
(* The inductive invariant. *)

\* The engine must not submit on its own what it may have submitted.
Strict(k) == ~Idempotent /\ granted[k] = 0

Recorded(k) == \E a \in DOMAIN receipts[k] : receipts[k][a] = "published"
AnyRecorded == \E k \in Keys : Recorded(k)

\* An intervention is resolved by the operator's consent, or with the job.
Consent ==
  /\ \A k \in Keys : intervention[k] = "resolved" => granted[k] > 0 \/ state[k] = "completed"
  /\ \A p \in Workers, k \in Keys : Plane!Executing(p, k) /\ job[p].cleared => granted[k] > 0

\* The operations that may be live, but for those a failed status read wrote off.
Standing(k) == {a \in DOMAIN ops[k] : ops[k][a] # "dead"} \ misread[k]

\* An operation that may be live, and was not misread, has a receipt that does not say failed, and is
\* the only one.  All receipts but the latest say failed, or the operator found the post.
Ledger(k) ==
  /\ Idempotent => \A a, b \in DOMAIN ops[k] : a = b
  /\ Strict(k) => \A a \in Standing(k) : receipts[k][a] # "failed"
  /\ Strict(k) => \A a, b \in Standing(k) : a = b
  /\ Strict(k) => \A a, b \in DOMAIN receipts[k] :
                    a < b => receipts[k][a] = "failed" \/ receipts[k][b] = "published"

\* A worker that will submit has seen that every receipt says failed, and nobody came between.
InsertsAfterFailures(p, k) ==
  Strict(k) /\ Inserting(p) => \A a \in DOMAIN receipts[k] : receipts[k][a] = "failed" /\ a < job[p].rec

SubmitsFirst(p, k) ==
  job[p].step = "submit" =>
    /\ job[p].rec \notin DOMAIN ops[k]
    /\ Strict(k) => /\ receipts[k][job[p].rec] = "submitting"
                    /\ \A b \in DOMAIN receipts[k] : b # job[p].rec => receipts[k][b] = "failed"

\* One that learned of a failure knows that nothing is live, or failed to read what is.
FailsTheDead(p, k) ==
  ~Idempotent /\ job[p].step = "record" /\ job[p].answer \in Decisions /\ job[p].rec \in DOMAIN ops[k]
    => ops[k][job[p].rec] = "dead" \/ job[p].rec \in misread[k]

\* And one that completes the job has the receipt.
CompletesRecorded(p, k) == job[p].goal = "published" \/ job[p].settle = "complete" => Recorded(k)

Work(p, k) ==
  InsertsAfterFailures(p, k) /\ SubmitsFirst(p, k) /\ FailsTheDead(p, k) /\ CompletesRecorded(p, k)

\* What is shown as published, or is about to be.
Shown ==
  /\ vstate = "published" => AnyRecorded
  /\ \A i \in DOMAIN sweep.todo : sweep.todo[i] = "published" => AnyRecorded
  /\ \A k \in Keys : /\ result[k] = "published" => Recorded(k)
                     /\ state[k] = "completed" => result[k] # "none"

Goes(p, k) == Numbers(p, k) /\ Work(p, k)

Inv ==
  /\ Typed /\ WorkersAlone /\ Consent /\ Shown
  /\ \A k \in Keys : Ledger(k)
  /\ \A p \in Workers, k \in Keys : Plane!Executing(p, k) => Goes(p, k)

LEMMA InvNumbers == Inv => JobsNumbered
  BY DEF Inv, Goes, JobsNumbered

----
(* A handler's step. *)

\* What a worker's job is after it.
LEMMA SettleRow ==
  ASSUME JobsTyped, NEW p \in Workers, NEW s, SettleAs(p, s)
  PROVE  /\ job'[p].step = "settle" /\ job'[p].settle = s /\ job'[p].goal = "draft"
         /\ job'[p].cleared = FALSE
BY DEF SettleAs, Becomes, NoJob, JobsTyped

LEMMA MoveRow ==
  ASSUME JobsTyped, NEW p \in Workers, NEW g, NEW s, MoveAndSettle(p, g, s)
  PROVE  /\ job'[p].step = "moving" /\ job'[p].next = "settle" /\ job'[p].goal = g
         /\ job'[p].settle = s /\ job'[p].cleared = FALSE
BY DEF MoveAndSettle, Becomes, NoJob, JobsTyped

LEMMA ResumeRow ==
  ASSUME JobsTyped, NEW p \in Workers, NEW st, NEW a, Resume(p, st, a)
  PROVE  /\ job'[p].step = st /\ job'[p].rec = a /\ job'[p].goal = "draft"
         /\ job'[p].settle = "lost" /\ job'[p].cleared = FALSE
BY DEF Resume, Becomes, NoJob, JobsTyped

LEMMA AnswerRow ==
  ASSUME JobsTyped, NEW p \in Workers, NEW o, Answer(p, o)
  PROVE  /\ job'[p].step = "record" /\ job'[p].answer = o /\ job'[p].rec = job[p].rec
         /\ job'[p].goal = job[p].goal /\ job'[p].settle = job[p].settle
         /\ job'[p].cleared = job[p].cleared
<1>1. job[p] \in JobRows
  BY DEF JobsTyped
<1>2. job'[p] = [job[p] EXCEPT !.step = "record", !.answer = o]
  BY DEF Answer, Becomes, JobsTyped
<1>3. QED
  BY <1>1, <1>2 DEF JobRows

\* A worker that settles, or moves the variant and then settles, or asks the provider, goes on.
LEMMA SettlingGoes ==
  ASSUME JobsTyped, NEW p \in Workers, NEW k \in Keys, NEW s, s # "complete" \/ Recorded(k)',
         SettleAs(p, s)
  PROVE  Goes(p, k)' /\ job'[p].cleared = FALSE
BY SettleRow
DEF Goes, Numbers, Work, Inserting, InsertsAfterFailures, SubmitsFirst, FailsTheDead, CompletesRecorded

LEMMA MovingGoes ==
  ASSUME JobsTyped, NEW p \in Workers, NEW k \in Keys, NEW g, NEW s,
         (s # "complete" /\ g # "published") \/ Recorded(k)', MoveAndSettle(p, g, s)
  PROVE  Goes(p, k)' /\ job'[p].cleared = FALSE
BY MoveRow
DEF Goes, Numbers, Work, Inserting, InsertsAfterFailures, SubmitsFirst, FailsTheDead, CompletesRecorded

LEMMA AskingGoes ==
  ASSUME JobsTyped, NEW p \in Workers, NEW k \in Keys, NEW st \in {"poll", "condemn"},
         NEW a \in DOMAIN receipts'[k], Resume(p, st, a)
  PROVE  Goes(p, k)' /\ job'[p].cleared = FALSE
<1>1. /\ job'[p].step = st /\ job'[p].rec = a /\ job'[p].goal = "draft"
      /\ job'[p].settle = "lost" /\ job'[p].cleared = FALSE
  BY ResumeRow
<1>2. Numbers(p, k)'
  BY <1>1 DEF Numbers, Inserting
<1>3. Work(p, k)'
  BY <1>1 DEF Work, Inserting, InsertsAfterFailures, SubmitsFirst, FailsTheDead, CompletesRecorded
<1>4. QED
  BY <1>1, <1>2, <1>3 DEF Goes

\* Looking at the receipts: a worker that goes on to submit has seen failures only.
LEMMA LookGoes ==
  ASSUME Inv, NEW p \in Workers, NEW k \in Keys, Look(p, k)
  PROVE  Goes(p, k)' /\ job'[p].cleared = FALSE
<1> DEFINE prior  == Latest(k)
           status == IF prior = 0 THEN "none" ELSE receipts[k][prior]
           fresh  == IF exec[p][k] > prior + 1 THEN exec[p][k] ELSE prior + 1
           r == [NoJob EXCEPT !.step = "moving", !.seen = job[p].seen, !.goal = "publishing",
                              !.next = "insert", !.rec = fresh]
<1>1. /\ JobsTyped /\ job[p].step = "loaded" /\ Plane!Executing(p, k) /\ receipts' = receipts
      /\ UNCHANGED <<ops, granted, provider>>
  BY DEF Look, At, WorkerLeaves, Inv, Typed, history
<1>2. /\ prior \in Nat
      /\ prior # 0 => prior \in DOMAIN receipts[k]
      /\ \A b \in DOMAIN receipts[k] : b <= prior /\ b \in Nat \ {0}
  BY LatestFacts DEF Inv, Typed, AttemptsTyped, Numbered
<1>3. /\ exec[p][k] \in Nat /\ fresh \in Nat /\ fresh > prior
  <2>1. exec[p][k] \in Nat
    BY DEF Inv, Typed, Plane!TypeOK, Plane!Processes
  <2>2. QED
    BY <1>2, <2>1
<1>4. CASE status = "published" /\ MoveAndSettle(p, "published", "complete")
  <2>1. Recorded(k)'
    BY <1>1, <1>2, <1>4 DEF Recorded
  <2>2. QED
    BY <1>1, <1>4, <2>1, MovingGoes
<1>5. ASSUME NEW s \in {"give_up", "needs_user"}, MoveAndSettle(p, "failed", s)
      PROVE  Goes(p, k)' /\ job'[p].cleared = FALSE
  BY <1>1, <1>5, MovingGoes
<1>6. CASE status # "none" /\ (Resume(p, "poll", prior) \/ Resume(p, "condemn", prior))
  <2>1. prior \in DOMAIN receipts'[k]
    BY <1>1, <1>2, <1>6
  <2>2. QED
    BY <1>1, <1>6, <2>1, AskingGoes
<1>7. CASE /\ Becomes(p, r) /\ status \notin {"published", "partial"}
           /\ ~(status = "accepted" /\ HasStatus)
           /\ ~(Ambiguous(p, prior, status) /\ ~Idempotent)
  <2>1. /\ job'[p].step = "moving" /\ job'[p].next = "insert" /\ job'[p].rec = fresh
        /\ job'[p].goal = "publishing" /\ job'[p].settle = "lost" /\ job'[p].cleared = FALSE
    BY <1>1, <1>7 DEF Becomes, JobsTyped, NoJob
  <2>2. ASSUME Strict(k), NEW a \in DOMAIN receipts[k]
        PROVE  receipts[k][a] = "failed" /\ a < fresh
    <3>1. prior # 0 /\ prior \in DOMAIN receipts[k] /\ a <= prior /\ a \in Nat
      BY <1>2
    <3>2. receipts[k][prior] = status /\ status \in ReceiptStates
      BY <3>1 DEF Inv, Typed, AttemptsTyped
    <3>3. ~job[p].cleared
      <4>1. granted[k] = 0
        BY <2>2 DEF Strict
      <4>2. QED
        BY <1>1, <4>1 DEF Inv, Consent
    <3>4. ~Ambiguous(p, prior, status)
      BY <1>7, <2>2 DEF Strict
    <3>5. status # "submitting" /\ status # "unknown" /\ status # "accepted"
      BY <1>7, <3>3, <3>4 DEF Ambiguous
    <3>6. status = "failed"
      BY <1>7, <3>2, <3>5 DEF ReceiptStates, Settled
    <3>7. receipts[k][a] = "failed"
      <4>1. CASE a = prior
        BY <3>2, <3>6, <4>1
      <4>2. CASE a < prior
        BY <2>2, <3>1, <3>2, <3>6, <4>2 DEF Inv, Ledger
      <4>3. QED
        BY <3>1, <1>2, <4>1, <4>2
    <3>8. QED
      BY <3>1, <3>7, <1>2, <1>3
  <2>3. Strict(k)' <=> Strict(k)
    BY <1>1 DEF Strict, Idempotent
  <2>4. InsertsAfterFailures(p, k)'
    BY <1>1, <2>1, <2>2, <2>3 DEF InsertsAfterFailures
  <2>5. QED
    BY <1>2, <1>3, <2>1, <2>4
    DEF Goes, Numbers, Work, Inserting, SubmitsFirst, FailsTheDead, CompletesRecorded
<1>8. QED
  BY <1>4, <1>5, <1>6, <1>7, Zenon DEF Look

\* Submitting: an operation of its own that failed is dead from the start.
LEMMA SubmitGoes ==
  ASSUME Inv, NEW p \in Workers, NEW k \in Keys, Submit(p, k)
  PROVE  Goes(p, k)' /\ (job'[p].cleared => job[p].cleared)
<1> DEFINE a == job[p].rec
           o == OpOf(k, a)
<1>1. /\ Typed /\ JobsNumbered /\ JobsTyped /\ Plane!Executing(p, k) /\ job[p].step = "submit"
      /\ UNCHANGED <<receipts, granted, provider>>
  BY InvNumbers DEF Submit, At, Inv, Typed, history
<1>2. a \in DOMAIN receipts[k] /\ a \notin DOMAIN ops[k] /\ CompletesRecorded(p, k)
  BY <1>1, SubmitFacts DEF Inv, Goes, Work, SubmitsFirst
<1>3. PICK w : /\ Answer(p, w)
               /\ ~Idempotent /\ w \in Decisions => a \notin DOMAIN ops'[k]
  <2>1. CASE UNCHANGED ops /\ \E d \in Decisions \cup {Unanswered, "unknown"} : Answer(p, d)
    BY <1>2, <2>1
  <2>2. CASE Answer(p, "partial")
    BY <2>2 DEF Decisions
  <2>3. ASSUME NEW s \in {"live", "pending"},
               ops' = [ops EXCEPT ![k] = IF o \in DOMAIN @ THEN @ ELSE With(@, o, s)],
               \E w \in {Report(ops'[k][o]), Unanswered, "unknown"} : Answer(p, w)
        PROVE  \E w : Answer(p, w) /\ (~Idempotent /\ w \in Decisions => a \notin DOMAIN ops'[k])
    <3>1. CASE Idempotent
      BY <2>3, <3>1
    <3>2. CASE ~Idempotent
      <4>1. o = a /\ o \notin DOMAIN ops[k]
        BY <1>2, <3>2 DEF OpOf
      <4>2. OpWrote(k, a, s)
        <5>1. ops' = [ops EXCEPT ![k] = With(@, a, s)]
          BY <2>3, <4>1
        <5>2. QED
          BY <5>1, <1>1, WriteFacts DEF Typed
      <4>3. \A w \in {Report(ops'[k][o]), Unanswered, "unknown"} : w \notin Decisions
        BY <3>2, <4>1, <4>2 DEF OpWrote, Report, Unanswered, Decisions
      <4>4. QED
        BY <2>3, <4>3
    <3>3. QED
      BY <3>1, <3>2
  <2>4. QED
    BY <2>1, <2>2, <2>3 DEF Submit
<1>4. /\ job'[p].step = "record" /\ job'[p].answer = w /\ job'[p].rec = a
      /\ job'[p].goal = job[p].goal /\ job'[p].settle = job[p].settle /\ job'[p].cleared = job[p].cleared
  BY <1>1, <1>3, AnswerRow
<1>5. Idempotent' <=> Idempotent
  BY <1>1 DEF Idempotent
<1>6. Recorded(k)' <=> Recorded(k)
  BY <1>1 DEF Recorded
<1>7. QED
  BY <1>1, <1>2, <1>3, <1>4, <1>5, <1>6
  DEF Goes, Numbers, Work, Inserting, InsertsAfterFailures, SubmitsFirst, FailsTheDead, CompletesRecorded

\* Polling: a failure is reported of what is dead, or of what could not be read.
LEMMA PollGoes ==
  ASSUME Inv, NEW p \in Workers, NEW k \in Keys, Poll(p, k)
  PROVE  Goes(p, k)' /\ (job'[p].cleared => job[p].cleared)
<1> DEFINE a == job[p].rec
           o == OpOf(k, a)
<1>1. /\ Typed /\ JobsNumbered /\ JobsTyped /\ Plane!Executing(p, k) /\ job[p].step = "poll"
      /\ UNCHANGED <<receipts, granted, provider, ops>>
  BY InvNumbers DEF Poll, At, Inv, Typed, history
<1>2. a \in DOMAIN receipts[k] /\ CompletesRecorded(p, k)
  BY <1>1, JobFacts DEF Inv, Goes, Work
<1>3. PICK w : /\ Answer(p, w)
               /\ ~Idempotent /\ w \in Decisions /\ a \in DOMAIN ops[k] =>
                    ops[k][a] = "dead" \/ a \in misread'[k]
  <2>1. CASE \E w \in {"accepted", "partial", "unknown"} : Answer(p, w)
    BY <2>1 DEF Decisions
  <2>2. CASE o \in DOMAIN ops[k] /\ Answer(p, Report(ops[k][o]))
    <3>1. ops[k][o] \in {"pending", "live", "dead"}
      BY <1>1, <2>2 DEF Typed, AttemptsTyped
    <3>2. ~Idempotent => o = a
      BY DEF OpOf
    <3>3. QED
      BY <2>2, <3>1, <3>2 DEF Report, Decisions
  <2>3. CASE Misreads(p, k)
    <3>1. a \in misread'[k] /\ \E w : Answer(p, w)
      BY <1>1, <2>3 DEF Misreads, Typed, VariantTyped
    <3>2. QED
      BY <3>1
  <2>4. QED
    BY <2>1, <2>2, <2>3 DEF Poll, ReadFailed, Reports
<1>4. /\ job'[p].step = "record" /\ job'[p].answer = w /\ job'[p].rec = a
      /\ job'[p].goal = job[p].goal /\ job'[p].settle = job[p].settle /\ job'[p].cleared = job[p].cleared
  BY <1>1, <1>3, AnswerRow
<1>5. Idempotent' <=> Idempotent
  BY <1>1 DEF Idempotent
<1>6. Recorded(k)' <=> Recorded(k)
  BY <1>1 DEF Recorded
<1>7. QED
  BY <1>1, <1>2, <1>3, <1>4, <1>5, <1>6
  DEF Goes, Numbers, Work, Inserting, InsertsAfterFailures, SubmitsFirst, FailsTheDead, CompletesRecorded

\* Moving the variant: a worker that will submit still will.
LEMMA MoveGoes ==
  ASSUME Inv, NEW p \in Workers, NEW k \in Keys, Move(p, k)
  PROVE  Goes(p, k)' /\ (job'[p].cleared => job[p].cleared)
<1> DEFINE j    == job[p]
           hop  == IF j.seen = j.goal THEN vstate ELSE NextHop(j.seen, j.goal)
           seen == IF j.seen = j.goal THEN j.goal ELSE hop
           r1 == [j EXCEPT !.seen = seen]
           r2 == [NoJob EXCEPT !.step = j.next, !.seen = seen, !.rec = j.rec, !.settle = j.settle]
<1>1. /\ JobsTyped /\ Plane!Executing(p, k) /\ j.step = "moving" /\ j \in JobRows
      /\ UNCHANGED <<receipts, ops, granted, provider>>
  BY DEF Move, At, Inv, Typed, JobsTyped, history
<1>2. Goes(p, k)
  BY <1>1 DEF Inv
<1>3. (Strict(k)' <=> Strict(k)) /\ (Recorded(k)' <=> Recorded(k)) /\ (Idempotent' <=> Idempotent)
  BY <1>1 DEF Strict, Recorded, Idempotent
<1>4. CASE SettleAs(p, "retry")
  BY <1>1, <1>4, SettlingGoes
<1>5. CASE Becomes(p, r1)
  <2>1. job'[p] = r1
    BY <1>1, <1>5, JobWritten
  <2>2. /\ job'[p].step = "moving" /\ job'[p].next = j.next /\ job'[p].rec = j.rec
        /\ job'[p].goal = j.goal /\ job'[p].settle = j.settle /\ job'[p].cleared = j.cleared
    BY <1>1, <2>1 DEF JobRows
  <2>3. QED
    BY <1>1, <1>2, <1>3, <2>2
    DEF Goes, Numbers, Work, Inserting, InsertsAfterFailures, SubmitsFirst, FailsTheDead, CompletesRecorded
<1>6. CASE Becomes(p, r2)
  <2>1. job'[p] = r2
    BY <1>1, <1>6, JobWritten
  <2>2. /\ job'[p].step = j.next /\ job'[p].next = "idle" /\ job'[p].rec = j.rec
        /\ job'[p].goal = "draft" /\ job'[p].settle = j.settle /\ job'[p].cleared = FALSE
    BY <2>1 DEF NoJob
  <2>3. j.next \in {"insert", "settle"}
    BY <1>1, <1>2 DEF Goes, Numbers, JobRows
  <2>4. QED
    BY <1>1, <1>2, <1>3, <2>2, <2>3
    DEF Goes, Numbers, Work, Inserting, InsertsAfterFailures, SubmitsFirst, FailsTheDead, CompletesRecorded
<1>7. QED
  BY <1>4, <1>5, <1>6 DEF Move

\* Inserting the receipt.
LEMMA InsertGoes ==
  ASSUME Inv, NEW p \in Workers, NEW k \in Keys, Insert(p, k)
  PROVE  Goes(p, k)' /\ (job'[p].cleared => job[p].cleared)
<1> DEFINE a == job[p].rec
<1>1. /\ JobsTyped /\ AttemptsTyped /\ Plane!Executing(p, k) /\ job[p].step = "insert"
      /\ UNCHANGED <<ops, granted, provider>>
  BY DEF Insert, At, Inv, Typed, history
<1>2. CASE SettleAs(p, "needs_user")
  BY <1>1, <1>2, SettlingGoes
<1>3. CASE /\ a \notin DOMAIN receipts[k] /\ Resume(p, "submit", a)
           /\ receipts' = [receipts EXCEPT ![k] = With(@, a, "submitting")]
  <2>1. Wrote(k, a, "submitting")
    BY <1>1, <1>3, WriteFacts
  <2>2. a \notin DOMAIN ops[k]
    BY <1>1, <1>3 DEF AttemptsTyped
  <2>3. Strict(k)' <=> Strict(k)
    BY <1>1 DEF Strict, Idempotent
  <2>4. Strict(k) => \A b \in DOMAIN receipts[k] : receipts[k][b] = "failed"
    BY <1>1 DEF Inv, Goes, Work, InsertsAfterFailures, Inserting
  <2>5. /\ job'[p].step = "submit" /\ job'[p].rec = a /\ job'[p].goal = "draft"
        /\ job'[p].settle = "lost" /\ job'[p].cleared = FALSE
    BY <1>1, <1>3, ResumeRow
  <2>6. SubmitsFirst(p, k)'
    BY <1>1, <2>1, <2>2, <2>3, <2>4, <2>5 DEF SubmitsFirst, Wrote
  <2>7. Numbers(p, k)'
    BY <2>1, <2>5 DEF Numbers, Inserting, Wrote
  <2>8. QED
    BY <2>5, <2>6, <2>7
    DEF Goes, Work, Inserting, InsertsAfterFailures, FailsTheDead, CompletesRecorded
<1>4. QED
  BY <1>2, <1>3 DEF Insert

\* Recording the outcome.
LEMMA RecordGoes ==
  ASSUME Inv, NEW p \in Workers, NEW k \in Keys, Record(p, k)
  PROVE  Goes(p, k)' /\ job'[p].cleared = FALSE
<1> DEFINE j == job[p]
           a == j.rec
<1>1. /\ JobsTyped /\ AttemptsTyped /\ Typed /\ JobsNumbered /\ Plane!Executing(p, k) /\ j.step = "record"
  BY InvNumbers DEF Record, At, Inv, Typed
<1>2. CASE SettleAs(p, "retry")
  BY <1>1, <1>2, SettlingGoes
<1>3. CASE SettleAs(p, "defer")
  BY <1>1, <1>3, SettlingGoes
<1>4. CASE /\ SetReceipt(k, a, ReceiptFor(j.answer))
           /\ MoveAndSettle(p, GoalFor(j.answer, exec[p][k]), SettleFor(j.answer))
  <2>1. a \in DOMAIN receipts[k] /\ j.answer \in Answers
    BY <1>1, JobFacts DEF JobRows
  <2>2. PICK g, s : /\ MoveAndSettle(p, g, s)
                    /\ (s # "complete" /\ g # "published") \/ j.answer = "published"
    <3>1. \/ j.answer = "published"
          \/ /\ SettleFor(j.answer) # "complete"
             /\ GoalFor(j.answer, exec[p][k]) # "published"
      BY <2>1 DEF SettleFor, GoalFor, Answers, Decisions
    <3>2. QED
      BY <1>4, <3>1
  <2>3. j.answer = "published" => Recorded(k)'
    <3>1. SUFFICES ASSUME j.answer = "published" PROVE Recorded(k)'
      OBVIOUS
    <3>2. Wrote(k, a, "published")
      BY <1>1, <1>4, <2>1, <3>1, WriteFacts DEF SetReceipt, ReceiptFor, Decisions
    <3>3. QED
      BY <3>2 DEF Wrote, Recorded
  <2>4. QED
    BY <1>1, <2>2, <2>3, MovingGoes
<1>5. QED
  BY <1>2, <1>3, <1>4 DEF Record

\* A worker that takes a step goes on.
LEMMA WorkGoes ==
  ASSUME Inv, NEW p \in Workers, NEW k \in Keys, WorkStep(p, k)
  PROVE  Goes(p, k)' /\ (job'[p].cleared => job[p].cleared)
<1> DEFINE Goal == Goes(p, k)' /\ (job'[p].cleared => job[p].cleared)
<1>a. JobsTyped /\ job[p] \in JobRows
  BY DEF Inv, Typed, JobsTyped
<1>1. CASE Load(p, k)
  <2>1. CASE SettleAs(p, "skipped")
    BY <2>1, <1>a, SettlingGoes
  <2>2. CASE Becomes(p, [job[p] EXCEPT !.step = "loaded", !.seen = vstate])
    <3>1. /\ job'[p].step = "loaded" /\ job'[p].goal = job[p].goal /\ job'[p].settle = job[p].settle
          /\ job'[p].cleared = job[p].cleared
      BY <2>2, <1>a DEF Becomes, JobsTyped, JobRows
    <3>2. Plane!Executing(p, k) /\ receipts' = receipts
      BY <1>1 DEF Load, At, WorkerLeaves
    <3>3. CompletesRecorded(p, k)
      BY <3>2 DEF Inv, Goes, Work
    <3>4. CompletesRecorded(p, k)'
      BY <3>1, <3>2, <3>3 DEF CompletesRecorded, Recorded
    <3>5. QED
      BY <3>1, <3>4 DEF Goes, Numbers, Work, Inserting, InsertsAfterFailures, SubmitsFirst, FailsTheDead
  <2>3. QED
    BY <1>1, <2>1, <2>2 DEF Load
<1>2. CASE Reject(p, k)
  <2>1. \/ SettleAs(p, "needs_user")
        \/ MoveAndSettle(p, "failed", "needs_user") \/ MoveAndSettle(p, "failed", "give_up")
    BY <1>2 DEF Reject
  <2>2. CASE SettleAs(p, "needs_user")
    BY <2>2, <1>a, SettlingGoes
  <2>3. CASE MoveAndSettle(p, "failed", "needs_user")
    BY <2>3, <1>a, MovingGoes
  <2>4. CASE MoveAndSettle(p, "failed", "give_up")
    BY <2>4, <1>a, MovingGoes
  <2>5. QED
    BY <2>1, <2>2, <2>3, <2>4
<1>3. CASE Condemn(p, k)
  <2>1. CASE SettleAs(p, "retry")
    BY <2>1, <1>a, SettlingGoes
  <2>2. CASE MoveAndSettle(p, "failed", "needs_user")
    BY <2>2, <1>a, MovingGoes
  <2>3. QED
    BY <1>3, <2>1, <2>2 DEF Condemn
<1>4. CASE Fault(p, k)
  BY <1>4, <1>a, SettlingGoes DEF Fault
<1>5. QED
  BY <1>1, <1>2, <1>3, <1>4, LookGoes, MoveGoes, InsertGoes, SubmitGoes, PollGoes, RecordGoes DEF WorkStep

----
(* The other workers. *)

\* A worker whose task nobody touches goes on.
LEMMA KeepsGoing ==
  ASSUME NEW p \in Workers, NEW k \in Keys, Goes(p, k), job'[p] = job[p],
         receipts'[k] = receipts[k], ops'[k] = ops[k], granted'[k] = granted[k], provider' = provider,
         misread[k] \subseteq misread'[k]
  PROVE  Goes(p, k)'
BY DEF Goes, Numbers, Work, Inserting, InsertsAfterFailures, SubmitsFirst, FailsTheDead, CompletesRecorded,
       Strict, Recorded, Idempotent

\* A handler touches its own task only.
LEMMA WorkOnly ==
  ASSUME AttemptsTyped, NEW p \in Workers, NEW k \in Keys, WorkStep(p, k)
  PROVE  /\ \A l \in Keys : l # k => receipts'[l] = receipts[l] /\ ops'[l] = ops[l]
         /\ UNCHANGED <<result, provider, sweep, granted, redriven>>
<1> USE DEF AttemptsTyped, WorkerLeaves, history
<1>1. CASE Load(p, k) \/ Reject(p, k) \/ Look(p, k) \/ Fault(p, k) \/ Move(p, k) \/ Poll(p, k)
  BY <1>1 DEF Load, Reject, Look, Fault, Move, Poll
<1>2. CASE Condemn(p, k) \/ Record(p, k)
  BY <1>2 DEF Condemn, Record, SetReceipt
<1>3. CASE Insert(p, k)
  BY <1>3 DEF Insert
<1>4. CASE Submit(p, k)
  <2>1. UNCHANGED <<receipts, result, provider, sweep, granted, redriven>>
    BY <1>4 DEF Submit
  <2>2. ops' = ops \/ \E r : ops' = [ops EXCEPT ![k] = r]
    BY <1>4 DEF Submit
  <2>3. QED
    BY <2>1, <2>2
<1>5. QED
  BY <1>1, <1>2, <1>3, <1>4 DEF WorkStep

\* Who executes what after a step of the workers.
LEMMA ExecutingAfter ==
  ASSUME Inv, NEW p \in Workers, NEW k \in Keys, Claim(p, k) \/ Settle(p, k)
  PROVE  /\ \A q \in Workers : q # p => job'[q] = job[q] /\ exec'[q] = exec[q]
         /\ Claim(p, k) => /\ \A l \in Keys : Plane!Executing(p, l)' => l = k
                           /\ job'[p] = [NoJob EXCEPT !.step = "claimed",
                                                      !.cleared = (intervention[k] = "resolved")]
         /\ Settle(p, k) => \A l \in Keys : ~Plane!Executing(p, l)'
         /\ UNCHANGED <<receipts, ops, provider, granted>>
<1>a. JobsTyped /\ exec \in [Workers -> [Keys -> Nat]]
  BY DEF Inv, Typed, Plane!TypeOK, Plane!Processes
<1>1. CASE Claim(p, k)
  <2>1. /\ job' = [job EXCEPT ![p] = [NoJob EXCEPT !.step = "claimed",
                                                   !.cleared = (intervention[k] = "resolved")]]
        /\ exec' = [exec EXCEPT ![p] = [t \in Keys |-> IF t \in {k} THEN attempts[t] + 1 ELSE 0]]
        /\ UNCHANGED <<receipts, ops, provider, granted>>
    BY <1>1 DEF Claim, Becomes, WorkerLeaves, history, Plane!TickClaim, Plane!ClaimTasks
  <2>2. ~Settle(p, k)
    <3>1. exec[p][k] = 0
      BY <1>1 DEF Claim, Plane!TickClaim, Plane!Free
    <3>2. QED
      BY <3>1 DEF Settle, At, Plane!Executing
  <2>3. QED
    BY <2>1, <2>2, <1>a DEF JobsTyped, Plane!Executing
<1>2. CASE Settle(p, k)
  <2>1. /\ job' = [job EXCEPT ![p] = NoJob] /\ exec' = [exec EXCEPT ![p][k] = 0]
        /\ Plane!Executing(p, k) /\ UNCHANGED <<receipts, ops, provider, granted>>
    BY <1>2 DEF Settle, At, Becomes, history, Plane!CompleteTask, Plane!FailTask, Plane!DeferTask,
                Plane!SettleLost, Plane!Done
  <2>2. \A l \in Keys : Plane!Executing(p, l) => l = k
    BY <2>1 DEF Inv, WorkersAlone, Alone
  <2>3. ~Claim(p, k)
    BY <2>1 DEF Claim, Plane!TickClaim, Plane!Free, Plane!Executing
  <2>4. QED
    BY <2>1, <2>2, <2>3, <1>a DEF JobsTyped, Plane!Executing
<1>3. QED
  BY <1>1, <1>2

\* The operator that looked at an attempt the engine gave up finds no worker about to submit: it has
\* seen failures only.
LEMMA ResolveGoes ==
  ASSUME Inv, NEW k \in Keys, ResolveNotPublished(k) \/ ResolvePublished(k), [Next]_vars,
         NEW p \in Workers, Plane!Executing(p, k), job'[p] = job[p]
  PROVE  Goes(p, k)'
<1> DEFINE a == Latest(k)
<1>1. Typed /\ AttemptsTyped /\ JobsNumbered /\ Goes(p, k)
  BY InvNumbers DEF Inv, Typed
<1>2. /\ DOMAIN receipts[k] \subseteq DOMAIN receipts'[k]
      /\ Recorded(k) => Recorded(k)'
      /\ UNCHANGED <<ops, provider>> /\ misread[k] \subseteq misread'[k]
  <2>1. UNCHANGED <<ops, provider>>
    BY DEF ResolveNotPublished, ResolvePublished
  <2>2. QED
    BY <1>1, <2>1, AttemptsStep, MisreadStep DEF Recorded
<1>3. a \in DOMAIN receipts[k] /\ receipts[k][a] \in {"unknown", "partial"}
  BY <1>1, LatestFacts DEF ResolveNotPublished, ResolvePublished, AttemptsTyped
<1>4. CASE granted'[k] > 0
  <2>1. ~Strict(k)'
    BY <1>4 DEF Strict
  <2>2. QED
    BY <1>1, <1>2, <2>1
    DEF Goes, Numbers, Work, Inserting, InsertsAfterFailures, SubmitsFirst, FailsTheDead, CompletesRecorded,
        Idempotent
<1>5. CASE granted' = granted
  <2>1. Strict(k)' <=> Strict(k)
    BY <1>2, <1>5 DEF Strict, Idempotent
  <2>2. Strict(k) => ~Inserting(p) /\ job[p].step # "submit"
    BY <1>1, <1>3 DEF Goes, Work, InsertsAfterFailures, SubmitsFirst
  <2>3. QED
    BY <1>1, <1>2, <2>1, <2>2
    DEF Goes, Numbers, Work, Inserting, InsertsAfterFailures, SubmitsFirst, FailsTheDead, CompletesRecorded,
        Idempotent
<1>6. granted'[k] > 0 \/ granted' = granted
  <2>1. granted \in [Keys -> Nat]
    BY <1>1, PublishingAssumption DEF Typed, VariantTyped
  <2>2. QED
    BY <2>1 DEF ResolveNotPublished, ResolvePublished, history
<1>7. QED
  BY <1>4, <1>5, <1>6

\* Every worker goes on, whatever the others do.
LEMMA GoesStep ==
  ASSUME Inv, [Next]_vars
  PROVE  \A q \in Workers, l \in Keys : Plane!Executing(q, l)' => Goes(q, l)'
<1> SUFFICES ASSUME NEW q \in Workers, NEW l \in Keys, Plane!Executing(q, l)'
             PROVE  Goes(q, l)'
  OBVIOUS
<1>a. Typed /\ JobsNumbered /\ JobsTyped /\ AttemptsTyped /\ exec \in [Workers -> [Keys -> Nat]]
  BY InvNumbers DEF Inv, Typed, Plane!TypeOK, Plane!Processes
<1>b. (Plane!Executing(q, l) => Goes(q, l)) /\ misread[l] \subseteq misread'[l]
  BY <1>a, MisreadStep DEF Inv
<1>1. CASE UNCHANGED vars
  BY <1>1, <1>b, KeepsGoing DEF vars, planeVars, history, Plane!Executing
<1>2. ASSUME NEW p \in Workers, NEW k \in Keys, WorkStep(p, k) PROVE Goes(q, l)'
  <2>1. Plane!Executing(p, k) /\ exec' = exec
    BY <1>2, <1>a, WorkWrites DEF planeVars
  <2>2. Plane!Executing(q, l)
    BY <2>1 DEF Plane!Executing
  <2>3. CASE q = p
    <3>1. l = k
      BY <2>1, <2>2, <2>3 DEF Inv, WorkersAlone, Alone
    <3>2. QED
      BY <1>2, <2>3, <3>1, WorkGoes
  <2>4. CASE q # p
    <3>1. l # k
      BY <2>1, <2>2, <2>4 DEF Inv, WorkersAlone, Alone
    <3>2. job'[q] = job[q]
      BY <1>2, <1>a, <2>4, WorkWrites, JobWritten
    <3>3. receipts'[l] = receipts[l] /\ ops'[l] = ops[l] /\ granted' = granted /\ provider' = provider
      BY <1>2, <1>a, <3>1, WorkOnly
    <3>4. QED
      BY <1>b, <2>2, <3>2, <3>3, KeepsGoing
  <2>5. QED
    BY <2>3, <2>4
<1>3. ASSUME NEW p \in Workers, StartTick(p) PROVE Goes(q, l)'
  BY <1>3, <1>b, KeepsGoing DEF StartTick, WorkerLeaves, history, Plane!TickStart, Plane!Executing
<1>4. ASSUME NEW p \in Workers, Crash(p) PROVE Goes(q, l)'
  <2>1. /\ exec' = [exec EXCEPT ![p] = [t \in Keys |-> 0]] /\ job' = [job EXCEPT ![p] = NoJob]
        /\ UNCHANGED <<receipts, ops, granted, provider>>
    BY <1>4 DEF Crash, Becomes, WorkerLeaves, history, Plane!Crash
  <2>2. q # p /\ Plane!Executing(q, l) /\ job'[q] = job[q]
    BY <2>1, <1>a DEF Plane!Executing, JobsTyped
  <2>3. QED
    BY <1>b, <2>1, <2>2, KeepsGoing
<1>5. ASSUME NEW p \in Workers, NEW k \in Keys, Claim(p, k) PROVE Goes(q, l)'
  <2>1. CASE q = p
    <3>1. job'[p] = [NoJob EXCEPT !.step = "claimed", !.cleared = (intervention[k] = "resolved")]
      BY <1>5, ExecutingAfter
    <3>2. job'[p].step = "claimed" /\ job'[p].goal = "draft" /\ job'[p].settle = "lost"
      BY <3>1 DEF NoJob
    <3>3. QED
      BY <2>1, <3>2
      DEF Goes, Numbers, Work, Inserting, InsertsAfterFailures, SubmitsFirst, FailsTheDead, CompletesRecorded
  <2>2. CASE q # p
    <3>1. /\ job'[q] = job[q] /\ exec'[q] = exec[q]
          /\ UNCHANGED <<receipts, ops, provider, granted>>
      BY <1>5, <2>2, ExecutingAfter
    <3>2. QED
      BY <1>b, <3>1, KeepsGoing DEF Plane!Executing
  <2>3. QED
    BY <2>1, <2>2
<1>6. ASSUME NEW p \in Workers, NEW k \in Keys, Settle(p, k) PROVE Goes(q, l)'
  <2>1. q # p
    <3>1. ~Plane!Executing(p, l)'
      BY <1>6, ExecutingAfter
    <3>2. QED
      BY <3>1 DEF Plane!Executing
  <2>2. /\ job'[q] = job[q] /\ exec'[q] = exec[q]
        /\ UNCHANGED <<receipts, ops, provider, granted>>
    BY <1>6, <2>1, ExecutingAfter
  <2>3. QED
    BY <1>b, <2>2, KeepsGoing DEF Plane!Executing
<1>7. CASE OtherStep
  <2>1. /\ UNCHANGED <<job, exec>> /\ Plane!Executing(q, l) /\ Goes(q, l)
        /\ misread[l] \subseteq misread'[l]
    BY <1>7, <1>b, OtherWrites DEF Plane!Executing
  <2>2. ASSUME NEW k \in Keys, Schedule(k) \/ CancelJob(k) \/ RedriveJob(k) \/ Unschedule
                               \/ Recover(k) \/ BecomesDue(k) \/ LeaseExpires(k) \/ SweepStep
        PROVE  Goes(q, l)'
    <3>1. UNCHANGED <<receipts, ops, provider, granted>>
      BY <2>2 DEF Schedule, CancelJob, RedriveJob, Unschedule, Recover, BecomesDue, LeaseExpires, WorkerLeaves,
                  SweepStep, SweepVariant, SweepTask, SweepWrite, SweepLeaves, history
    <3>2. QED
      BY <2>1, <3>1, KeepsGoing
  <2>3. ASSUME NEW k \in Keys, RetryJob(k) PROVE Goes(q, l)'
    <3>1. /\ UNCHANGED <<receipts, ops, provider>> /\ granted' = [granted EXCEPT ![k] = @ + 1]
          /\ granted \in [Keys -> Nat]
      BY <2>3, <1>a, PublishingAssumption DEF RetryJob, Typed, VariantTyped
    <3>2. CASE l # k
      BY <2>1, <3>1, <3>2, KeepsGoing
    <3>3. CASE l = k
      <4>1. ~Strict(l)'
        BY <3>1, <3>3 DEF Strict
      <4>2. QED
        BY <2>1, <3>1, <4>1
        DEF Goes, Numbers, Work, Inserting, InsertsAfterFailures, SubmitsFirst, FailsTheDead,
            CompletesRecorded, Idempotent, Recorded
    <3>4. QED
      BY <3>2, <3>3
  <2>4. ASSUME NEW k \in Keys, ResolveNotPublished(k) \/ ResolvePublished(k) PROVE Goes(q, l)'
    <3>1. CASE l = k
      BY <2>1, <2>4, <3>1, ResolveGoes
    <3>2. CASE l # k
      <4>1. receipts'[l] = receipts[l] /\ ops' = ops /\ granted'[l] = granted[l] /\ provider' = provider
        BY <2>4, <3>2, <1>a DEF ResolveNotPublished, ResolvePublished, AttemptsTyped, Typed, VariantTyped, history
      <4>2. QED
        BY <2>1, <4>1, KeepsGoing
    <3>3. QED
      BY <3>1, <3>2
  <2>5. ASSUME NEW k \in Keys, NEW a \in DOMAIN ops[k], OpEnds(k, a) PROVE Goes(q, l)'
    <3>1. /\ ops[k][a] = "pending" /\ \E s : OpWrote(k, a, s)
          /\ UNCHANGED <<receipts, granted, provider>>
      <4>1. /\ ops[k][a] = "pending" /\ \E s \in {"live", "dead"} : ops' = [ops EXCEPT ![k][a] = s]
            /\ UNCHANGED <<receipts, granted, provider>>
        BY <2>5 DEF OpEnds, history
      <4>2. QED
        BY <4>1, <1>a, WriteFacts
    <3>2. DOMAIN ops'[l] = DOMAIN ops[l] /\ \A b \in DOMAIN ops[l] : ops[l][b] = "dead" => ops'[l][b] = "dead"
      BY <3>1 DEF OpWrote
    <3>3. QED
      BY <2>1, <3>1, <3>2
      DEF Goes, Numbers, Work, Inserting, InsertsAfterFailures, SubmitsFirst, FailsTheDead,
          CompletesRecorded, Idempotent, Recorded, Strict
  <2>6. CASE OperatorStep
    BY <2>2, <2>3, <2>4, <2>6 DEF OperatorStep
  <2>7. QED
    BY <1>7, <2>2, <2>5, <2>6 DEF OtherStep
<1>8. QED
  BY <1>1, <1>2, <1>3, <1>4, <1>5, <1>6, <1>7, StepCases

----
(* The ledger. *)

LEMMA LedgerKept ==
  ASSUME NEW k \in Keys, Ledger(k), receipts'[k] = receipts[k], ops'[k] = ops[k], provider' = provider,
         granted'[k] = granted[k] \/ granted'[k] > 0, misread[k] \subseteq misread'[k]
  PROVE  Ledger(k)'
BY DEF Ledger, Standing, Strict, Idempotent

\* A receipt that is not settled is written: as failed only if nothing is live.
LEMMA LedgerRewritten ==
  ASSUME AttemptsTyped, NEW k \in Keys, Ledger(k), NEW a \in DOMAIN receipts[k], NEW s, Wrote(k, a, s),
         receipts[k][a] \notin Settled, UNCHANGED <<ops, granted, provider>>,
         misread[k] \subseteq misread'[k],
         ~Idempotent /\ s = "failed" => a \notin Standing(k)
  PROVE  Ledger(k)'
<1>1. (Strict(k)' <=> Strict(k)) /\ (Idempotent' <=> Idempotent) /\ Standing(k)' \subseteq Standing(k)
  BY DEF Strict, Idempotent, Standing
<1>2. SUFFICES ASSUME Strict(k)
               PROVE  /\ \A b \in Standing(k) : receipts'[k][b] # "failed"
                      /\ \A b, c \in DOMAIN receipts'[k] :
                           b < c => receipts'[k][b] = "failed" \/ receipts'[k][c] = "published"
  BY <1>1 DEF Ledger
<1>3. DOMAIN receipts'[k] = DOMAIN receipts[k]
  BY DEF Wrote
<1>4. ASSUME NEW b \in Standing(k) PROVE receipts'[k][b] # "failed"
  <2>1. b \in DOMAIN receipts[k] /\ receipts[k][b] # "failed"
    BY <1>2, <1>4 DEF AttemptsTyped, Ledger, Standing
  <2>2. QED
    BY <1>2, <1>4, <2>1 DEF Wrote, Strict
<1>5. ASSUME NEW b \in DOMAIN receipts[k], NEW c \in DOMAIN receipts[k], b < c
      PROVE  receipts'[k][b] = "failed" \/ receipts'[k][c] = "published"
  <2>1. receipts[k][b] = "failed" \/ receipts[k][c] = "published"
    BY <1>2, <1>5 DEF Ledger
  <2>2. receipts[k][a] # "failed" /\ receipts[k][a] # "published"
    BY DEF Settled
  <2>3. QED
    BY <2>1, <2>2 DEF Wrote
<1>6. QED
  BY <1>3, <1>4, <1>5

\* A receipt is added: the others say failed, or it says that the operator found the post.
LEMMA LedgerAdded ==
  ASSUME AttemptsTyped, NEW k \in Keys, Ledger(k), NEW a \in Nat, NEW s, Wrote(k, a, s),
         a \notin DOMAIN receipts[k], \A b \in DOMAIN receipts[k] : Strict(k) => b < a,
         UNCHANGED <<ops, granted, provider>>, misread[k] \subseteq misread'[k],
         s = "published" \/ (Strict(k) => \A b \in DOMAIN receipts[k] : receipts[k][b] = "failed")
  PROVE  Ledger(k)'
<1>1. (Strict(k)' <=> Strict(k)) /\ (Idempotent' <=> Idempotent) /\ Standing(k)' \subseteq Standing(k)
  BY DEF Strict, Idempotent, Standing
<1>2. SUFFICES ASSUME Strict(k)
               PROVE  /\ \A b \in Standing(k) : receipts'[k][b] # "failed"
                      /\ \A b, c \in DOMAIN receipts'[k] :
                           b < c => receipts'[k][b] = "failed" \/ receipts'[k][c] = "published"
  BY <1>1 DEF Ledger
<1>3. \A b \in Standing(k) : receipts'[k][b] # "failed"
  BY <1>2 DEF Wrote, AttemptsTyped, Ledger, Standing
<1>4. ASSUME NEW b \in DOMAIN receipts'[k], NEW c \in DOMAIN receipts'[k], b < c
      PROVE  receipts'[k][b] = "failed" \/ receipts'[k][c] = "published"
  <2>1. \A d \in DOMAIN receipts[k] : d < a /\ d \in Nat
    BY <1>2 DEF AttemptsTyped, Numbered
  <2>2. b \in DOMAIN receipts[k]
    BY <1>4, <2>1 DEF Wrote
  <2>3. CASE c = a
    BY <1>2, <2>2, <2>3 DEF Wrote
  <2>4. CASE c # a
    <3>1. c \in DOMAIN receipts[k] /\ receipts'[k][c] = receipts[k][c] /\ receipts'[k][b] = receipts[k][b]
      BY <2>2, <2>4 DEF Wrote
    <3>2. QED
      BY <1>2, <1>4, <2>2, <3>1 DEF Ledger
  <2>5. QED
    BY <2>3, <2>4
<1>5. QED
  BY <1>3, <1>4

LEMMA LedgerStep ==
  ASSUME Inv, [Next]_vars
  PROVE  \A k \in Keys : Ledger(k)'
<1> SUFFICES ASSUME NEW l \in Keys PROVE Ledger(l)'
  OBVIOUS
<1>a. /\ Typed /\ JobsNumbered /\ AttemptsTyped /\ Ledger(l) /\ granted \in [Keys -> Nat]
      /\ misread[l] \subseteq misread'[l]
  BY InvNumbers, PublishingAssumption, MisreadStep DEF Inv, Typed, VariantTyped
<1>1. CASE UNCHANGED <<receipts, ops, granted, provider>>
  BY <1>1, <1>a, LedgerKept
<1>2. ASSUME NEW k \in Keys, RetryJob(k) PROVE Ledger(l)'
  <2>1. UNCHANGED <<receipts, ops, provider>> /\ granted' = [granted EXCEPT ![k] = @ + 1]
    BY <1>2 DEF RetryJob
  <2>2. granted'[l] = granted[l] \/ granted'[l] > 0
    BY <2>1, <1>a
  <2>3. QED
    BY <1>a, <2>1, <2>2, LedgerKept
<1>3. ASSUME NEW k \in Keys, ResolveNotPublished(k) PROVE Ledger(l)'
  <2>1. /\ UNCHANGED <<ops, provider>> /\ granted' = [granted EXCEPT ![k] = @ + 1]
        /\ l # k => receipts'[l] = receipts[l]
    BY <1>3, <1>a DEF ResolveNotPublished, AttemptsTyped
  <2>2. CASE l = k
    <3>1. ~Strict(l)' /\ (Idempotent' <=> Idempotent)
      BY <1>a, <2>1, <2>2 DEF Strict, Idempotent
    <3>2. QED
      BY <1>a, <2>1, <3>1 DEF Ledger
  <2>3. CASE l # k
    BY <1>a, <2>1, <2>3, LedgerKept
  <2>4. QED
    BY <2>2, <2>3
<1>4. ASSUME NEW k \in Keys, ResolvePublished(k) PROVE Ledger(l)'
  <2>1. /\ UNCHANGED <<ops, granted, provider>>
        /\ receipts' = [receipts EXCEPT ![k] = With(@, Latest(k) + 1, "published")]
    BY <1>4 DEF ResolvePublished, history
  <2>2. Wrote(k, Latest(k) + 1, "published")
    BY <1>a, <2>1, WriteFacts
  <2>3. CASE l # k
    BY <1>a, <2>1, <2>2, <2>3, LedgerKept DEF Wrote
  <2>4. CASE l = k
    <3>1. Latest(k) + 1 \in Nat /\ Latest(k) + 1 \notin DOMAIN receipts[k]
      BY <1>a, NextAttempt
    <3>2. \A b \in DOMAIN receipts[k] : b < Latest(k) + 1
      <4>1. Numbered(receipts[k])
        BY <1>a DEF AttemptsTyped
      <4>2. QED
        BY <4>1, LatestFacts DEF Numbered
    <3>3. QED
      BY <1>a, <2>1, <2>2, <2>4, <3>1, <3>2, LedgerAdded
  <2>5. QED
    BY <2>3, <2>4
<1>5. ASSUME NEW p \in Workers, NEW k \in Keys, Condemn(p, k) \/ Record(p, k) PROVE Ledger(l)'
  <2> DEFINE a == job[p].rec
  <2>1. /\ Plane!Executing(p, k) /\ job[p].step \in {"condemn", "record"}
        /\ UNCHANGED <<ops, granted, provider>>
    BY <1>5 DEF Condemn, Record, At, history
  <2>2. CASE receipts' = receipts
    BY <1>1, <2>1, <2>2
  <2>3. CASE receipts' # receipts
    <3>1. a \in DOMAIN receipts[k] /\ Goes(p, k)
      BY <1>a, <2>1, JobFacts DEF Inv
    <3>2. PICK s : /\ receipts' = [receipts EXCEPT ![k][a] = s] /\ receipts[k][a] \notin Settled
                   /\ ~Idempotent /\ s = "failed" => a \notin Standing(k)
      <4>1. CASE Condemn(p, k)
        BY <2>3, <4>1 DEF Condemn, SetReceipt
      <4>2. CASE Record(p, k)
        <5>1. /\ receipts' = [receipts EXCEPT ![k][a] = ReceiptFor(job[p].answer)]
              /\ receipts[k][a] \notin Settled /\ job[p].step = "record"
          BY <2>3, <4>2 DEF Record, SetReceipt, At
        <5>2. ReceiptFor(job[p].answer) = "failed" => job[p].answer \in Decisions
          <6>1. job[p].answer \in Answers
            BY DEF Inv, Typed, JobsTyped, JobRows
          <6>2. QED
            BY <6>1 DEF ReceiptFor, Answers, Decisions
        <5>3. FailsTheDead(p, k)
          BY <3>1 DEF Goes, Work
        <5>4. QED
          BY <5>1, <5>2, <5>3 DEF FailsTheDead, Standing
      <4>3. QED
        BY <1>5, <4>1, <4>2
    <3>3. Wrote(k, a, s)
      BY <1>a, <3>1, <3>2, WriteFacts
    <3>4. CASE l # k
      BY <1>a, <2>1, <3>3, <3>4, LedgerKept DEF Wrote
    <3>5. CASE l = k
      BY <1>a, <2>1, <3>1, <3>2, <3>3, <3>5, LedgerRewritten
    <3>6. QED
      BY <3>4, <3>5
  <2>4. QED
    BY <2>2, <2>3
<1>6. ASSUME NEW p \in Workers, NEW k \in Keys, Insert(p, k) PROVE Ledger(l)'
  <2> DEFINE a == job[p].rec
  <2>1. Plane!Executing(p, k) /\ job[p].step = "insert" /\ UNCHANGED <<ops, granted, provider>>
    BY <1>6 DEF Insert, At, history
  <2>2. CASE receipts' = receipts
    BY <1>1, <2>1, <2>2
  <2>3. CASE receipts' # receipts
    <3>1. a \notin DOMAIN receipts[k] /\ receipts' = [receipts EXCEPT ![k] = With(@, a, "submitting")]
      BY <1>6, <2>3 DEF Insert
    <3>2. Wrote(k, a, "submitting")
      BY <1>a, <3>1, WriteFacts
    <3>3. a \in Nat
      BY <1>a, <2>1, JobFacts
    <3>4. Strict(k) => \A b \in DOMAIN receipts[k] : receipts[k][b] = "failed" /\ b < a
      BY <2>1 DEF Inv, Goes, Work, InsertsAfterFailures, Inserting
    <3>5. CASE l # k
      BY <1>a, <2>1, <3>2, <3>5, LedgerKept DEF Wrote
    <3>6. CASE l = k
      <4>1. \A b \in DOMAIN receipts[k] : Strict(k) => b < a
        BY <3>4
      <4>2. Strict(k) => \A b \in DOMAIN receipts[k] : receipts[k][b] = "failed"
        BY <3>4
      <4>3. QED
        BY <1>a, <2>1, <3>1, <3>2, <3>3, <3>6, <4>1, <4>2, LedgerAdded
    <3>7. QED
      BY <3>5, <3>6
  <2>4. QED
    BY <2>2, <2>3
<1>7. ASSUME NEW p \in Workers, NEW k \in Keys, Submit(p, k) PROVE Ledger(l)'
  <2> DEFINE a == job[p].rec
  <2>1. /\ Plane!Executing(p, k) /\ job[p].step = "submit" /\ a \in DOMAIN receipts[k]
        /\ UNCHANGED <<receipts, granted, provider>>
    BY <1>7, <1>a, SubmitFacts DEF Submit, history
  <2>2. CASE ops' = ops
    BY <1>1, <2>1, <2>2
  <2>3. ASSUME NEW s, OpOf(k, a) = a, OpWrote(k, a, s), l = k PROVE Ledger(l)'
    <3>1. /\ a \notin DOMAIN ops[k]
          /\ Strict(k) => /\ receipts[k][a] = "submitting"
                          /\ \A b \in DOMAIN receipts[k] : b # a => receipts[k][b] = "failed"
      BY <2>1 DEF Inv, Goes, Work, SubmitsFirst
    <3>2. (Strict(k)' <=> Strict(k)) /\ (Idempotent' <=> Idempotent)
      BY <2>1 DEF Strict, Idempotent
    <3>3. Idempotent => DOMAIN ops[k] = {}
      BY <2>3, <3>1 DEF OpOf
    <3>4. DOMAIN ops[k] \subseteq DOMAIN receipts[k]
      BY <1>a DEF AttemptsTyped
    <3>5. Strict(k) => Standing(k) = {}
      BY <1>a, <2>3, <3>1, <3>4 DEF Ledger, Standing
    <3>6. /\ Idempotent => \A b, c \in DOMAIN ops'[k] : b = c
          /\ Strict(k) => \A b \in Standing(k)' : b = a
      BY <1>a, <2>3, <3>3, <3>5 DEF OpWrote, Standing
    <3>7. Strict(k) => \A b, c \in DOMAIN receipts[k] :
                         b < c => receipts[k][b] = "failed" \/ receipts[k][c] = "published"
      BY <1>a, <2>3 DEF Ledger
    <3>8. Strict(k) => \A b \in Standing(k)' : receipts[k][b] # "failed"
      BY <3>1, <3>6
    <3>9. Strict(k) => \A b, c \in Standing(k)' : b = c
      BY <3>6
    <3>10. QED
      BY <2>1, <2>3, <3>2, <3>6, <3>7, <3>8, <3>9 DEF Ledger
  <2>4. ASSUME NEW s, OpWrote(k, a, s), l # k PROVE Ledger(l)'
    BY <1>a, <2>1, <2>4, LedgerKept DEF OpWrote
  <2>5. QED
    BY <1>7, <1>a, <2>2, <2>3, <2>4, SubmitFacts
<1>8. ASSUME NEW k \in Keys, NEW a \in DOMAIN ops[k], OpEnds(k, a) PROVE Ledger(l)'
  <2>1. /\ ops[k][a] = "pending" /\ \E s \in {"live", "dead"} : ops' = [ops EXCEPT ![k][a] = s]
        /\ UNCHANGED <<receipts, granted, provider>>
    BY <1>8 DEF OpEnds, history
  <2>2. \E s : OpWrote(k, a, s)
    BY <1>a, <2>1, WriteFacts
  <2>3. /\ DOMAIN ops'[l] = DOMAIN ops[l]
        /\ \A b \in DOMAIN ops[l] : ops[l][b] = "dead" => ops'[l][b] = "dead"
    BY <2>1, <2>2 DEF OpWrote
  <2>4. (Strict(l)' <=> Strict(l)) /\ (Idempotent' <=> Idempotent)
    BY <2>1 DEF Strict, Idempotent
  <2>5. QED
    BY <1>a, <2>1, <2>3, <2>4 DEF Ledger, Standing
<1>9. ASSUME NEW k \in Keys,
             \/ Schedule(k) \/ CancelJob(k) \/ RedriveJob(k) \/ Unschedule
             \/ Recover(k) \/ BecomesDue(k) \/ LeaseExpires(k) \/ SweepStep
      PROVE  UNCHANGED <<receipts, ops, granted, provider>>
  BY <1>9 DEF Schedule, CancelJob, RedriveJob, Unschedule, Recover, BecomesDue, LeaseExpires, WorkerLeaves,
              SweepStep, SweepVariant, SweepTask, SweepWrite, SweepLeaves, history
<1>10. ASSUME NEW p \in Workers, StartTick(p) \/ Crash(p) PROVE UNCHANGED <<receipts, ops, granted, provider>>
  BY <1>10 DEF StartTick, Crash, WorkerLeaves, history
<1>11. ASSUME NEW p \in Workers, NEW k \in Keys,
              \/ Claim(p, k) \/ Load(p, k) \/ Reject(p, k) \/ Look(p, k) \/ Fault(p, k) \/ Move(p, k)
              \/ Poll(p, k) \/ Settle(p, k)
       PROVE  UNCHANGED <<receipts, ops, granted, provider>>
  BY <1>11 DEF Claim, Load, Reject, Look, Fault, Move, Poll, Settle, WorkerLeaves, history
<1>12. CASE OperatorStep
  BY <1>1, <1>2, <1>3, <1>4, <1>9, <1>12 DEF OperatorStep
<1>13. CASE OtherStep
  BY <1>1, <1>8, <1>9, <1>12, <1>13 DEF OtherStep
<1>14. CASE UNCHANGED vars
  BY <1>1, <1>14 DEF vars, history
<1>15. QED
  BY <1>1, <1>5, <1>6, <1>7, <1>10, <1>11, <1>13, <1>14, StepCases DEF WorkStep

----
(* What is shown. *)

\* What was recorded stays recorded.
LEMMA RecordedStep ==
  ASSUME Inv, [Next]_vars
  PROVE  (\A k \in Keys : Recorded(k) => Recorded(k)') /\ (AnyRecorded => AnyRecorded')
<1>1. Typed /\ JobsNumbered
  BY InvNumbers DEF Inv
<1>2. \A k \in Keys : Recorded(k) => Recorded(k)'
  BY <1>1, AttemptsStep DEF Recorded
<1>3. QED
  BY <1>2 DEF AnyRecorded

\* The state of a variant is written by the operator, the engine and the sweep.
LEMMA VariantStep ==
  ASSUME Inv, [Next]_vars
  PROVE  vstate' \in PublishStates /\ (vstate' = "published" => AnyRecorded')
<1>a. /\ Typed /\ JobsNumbered /\ AttemptsTyped /\ vstate \in PublishStates
      /\ vstate = "published" => AnyRecorded
      /\ AnyRecorded => AnyRecorded'
  BY InvNumbers, RecordedStep DEF Inv, Typed, VariantTyped, Shown
<1>1. CASE vstate' \in {vstate, "scheduled", "draft"}
  BY <1>1, <1>a DEF PublishStates
<1>2. ASSUME NEW k \in Keys, ResolvePublished(k)
      PROVE  vstate' \in PublishStates /\ (vstate' = "published" => AnyRecorded')
  <2>1. vstate' = "published" /\ receipts' = [receipts EXCEPT ![k] = With(@, Latest(k) + 1, "published")]
    BY <1>2 DEF ResolvePublished
  <2>2. Wrote(k, Latest(k) + 1, "published")
    BY <1>a, <2>1, WriteFacts
  <2>3. AnyRecorded'
    BY <2>2 DEF Wrote, AnyRecorded, Recorded
  <2>4. QED
    BY <2>1, <2>3 DEF PublishStates
<1>3. ASSUME NEW p \in Workers, NEW k \in Keys, Move(p, k)
      PROVE  vstate' \in PublishStates /\ (vstate' = "published" => AnyRecorded')
  <2> DEFINE j == job[p]
  <2>1. Plane!Executing(p, k) /\ j.seen \in PublishStates
    BY <1>3 DEF Move, At, Inv, Typed, JobsTyped, JobRows
  <2>2. CASE vstate' = vstate
    BY <1>1, <2>2
  <2>3. CASE vstate' # vstate
    <3>1. vstate' = NextHop(j.seen, j.goal)
      BY <1>3, <2>3 DEF Move
    <3>2. vstate' \in PublishStates /\ (vstate' = "published" => j.goal = "published")
      BY <2>1, <3>1 DEF NextHop, PublishStates, Inv, Typed, JobsTyped, JobRows
    <3>3. j.goal = "published" => AnyRecorded
      BY <2>1 DEF Inv, Goes, Work, CompletesRecorded, AnyRecorded
    <3>4. QED
      BY <1>a, <3>2, <3>3
  <2>4. QED
    BY <2>2, <2>3
<1>4. CASE SweepWrite
  <2>1. CASE vstate' = vstate
    BY <1>1, <2>1
  <2>2. CASE vstate' # vstate
    <3>1. vstate' = Head(sweep.todo) /\ sweep.todo # <<>>
      BY <1>4, <2>2 DEF SweepWrite
    <3>2. sweep.todo \in Seq(PublishStates)
      BY DEF Inv, Typed, VariantTyped
    <3>3. 1 \in DOMAIN sweep.todo /\ Head(sweep.todo) = sweep.todo[1] /\ Head(sweep.todo) \in PublishStates
      BY <3>1, <3>2
    <3>4. QED
      BY <1>a, <3>1, <3>3 DEF Inv, Shown
  <2>3. QED
    BY <2>1, <2>2
<1>5. ASSUME NEW k \in Keys,
             \/ Schedule(k) \/ CancelJob(k) \/ RetryJob(k) \/ RedriveJob(k)
             \/ ResolveNotPublished(k) \/ Recover(k) \/ BecomesDue(k) \/ LeaseExpires(k)
             \/ (\E a \in DOMAIN ops[k] : OpEnds(k, a))
      PROVE  vstate' \in {vstate, "scheduled", "draft"}
  BY <1>5 DEF Schedule, CancelJob, RetryJob, RedriveJob, ResolveNotPublished, Recover, BecomesDue,
              LeaseExpires, OpEnds, WorkerLeaves, variantVars
<1>6. ASSUME NEW p \in Workers, StartTick(p) \/ Crash(p) PROVE vstate' = vstate
  BY <1>6 DEF StartTick, Crash, WorkerLeaves, variantVars
<1>7. ASSUME NEW p \in Workers, NEW k \in Keys,
             \/ Claim(p, k) \/ Load(p, k) \/ Reject(p, k) \/ Look(p, k) \/ Fault(p, k) \/ Condemn(p, k)
             \/ Insert(p, k) \/ Submit(p, k) \/ Record(p, k) \/ Poll(p, k) \/ Settle(p, k)
      PROVE  vstate' = vstate
  BY <1>7 DEF Claim, Load, Reject, Look, Fault, Condemn, Insert, Submit, Record, Poll, Settle, WorkerLeaves,
              variantVars
<1>8. CASE Unschedule \/ SweepVariant \/ SweepTask
  BY <1>1, <1>8 DEF Unschedule, SweepVariant, SweepTask
<1>9. CASE UNCHANGED vars
  BY <1>1, <1>9 DEF vars, variantVars
<1>10. CASE OtherStep
  BY <1>1, <1>2, <1>4, <1>5, <1>8, <1>10 DEF OtherStep, OperatorStep, SweepStep
<1>11. QED
  BY <1>1, <1>3, <1>6, <1>7, <1>9, <1>10, StepCases DEF WorkStep

\* What a task's result says.
LEMMA ResultStep ==
  ASSUME Inv, [Next]_vars
  PROVE  /\ result' \in [Keys -> {"none", "skipped", "published"}]
         /\ \A k \in Keys : /\ result'[k] = "published" => Recorded(k)'
                            /\ state'[k] = "completed" => result'[k] # "none"
<1> DEFINE Goal == /\ result' \in [Keys -> {"none", "skipped", "published"}]
                   /\ \A k \in Keys : /\ result'[k] = "published" => Recorded(k)'
                                      /\ state'[k] = "completed" => result'[k] # "none"
<1>a. /\ Typed /\ AttemptsTyped /\ result \in [Keys -> {"none", "skipped", "published"}]
      /\ state \in [Keys -> Plane!RowStates]
      /\ \A k \in Keys : Recorded(k) => Recorded(k)'
      /\ \A k \in Keys : /\ result[k] = "published" => Recorded(k)
                         /\ state[k] = "completed" => result[k] # "none"
  BY RecordedStep DEF Inv, Typed, VariantTyped, Shown, Plane!TypeOK
<1>1. ASSUME NEW k \in Keys, ResolvePublished(k) PROVE Goal
  <2>1. Recorded(k)'
    <3>1. receipts' = [receipts EXCEPT ![k] = With(@, Latest(k) + 1, "published")]
      BY <1>1 DEF ResolvePublished
    <3>2. Wrote(k, Latest(k) + 1, "published")
      BY <1>a, <3>1, WriteFacts
    <3>3. QED
      BY <3>2 DEF Wrote, Recorded
  <2>2. \/ UNCHANGED <<state, result>>
        \/ /\ state' = [state EXCEPT ![k] = "completed"] /\ result' = [result EXCEPT ![k] = "published"]
    BY <1>1 DEF ResolvePublished
  <2>3. QED
    BY <1>a, <2>1, <2>2
<1>2. ASSUME NEW p \in Workers, NEW k \in Keys, Settle(p, k) PROVE Goal
  <2>1. CASE /\ job[p].settle \in {"complete", "skipped"} /\ Plane!CompleteTask(p, k)
             /\ result' = [result EXCEPT ![k] = IF job[p].settle = "complete" THEN "published" ELSE "skipped"]
    <3>1. Plane!Executing(p, k) /\ state' = [state EXCEPT ![k] = "completed"]
      BY <2>1 DEF Plane!CompleteTask, Plane!Leave
    <3>2. job[p].settle = "complete" => Recorded(k)'
      BY <1>a, <3>1 DEF Inv, Goes, Work, CompletesRecorded
    <3>3. QED
      BY <1>a, <2>1, <3>1, <3>2
  <2>2. CASE UNCHANGED result /\ \A l \in Keys : state'[l] # state[l] => state'[l] # "completed"
    BY <1>a, <2>2
  <2>3. ASSUME Plane!DeferTask(p, k, FALSE) \/ (\E d \in Decisions : Plane!FailTask(p, k, d))
               \/ Plane!SettleLost(p, k)
        PROVE  \A l \in Keys : state'[l] # state[l] => state'[l] # "completed"
    BY <1>a, <2>3 DEF Plane!DeferTask, Plane!FailTask, Plane!FailState, Plane!Leave, Plane!SettleLost,
                      Plane!rowVars
  <2>4. QED
    BY <1>2, <2>1, <2>2, <2>3 DEF Settle
<1>3. ASSUME UNCHANGED result, UNCHANGED planeVars \/ \A l \in Keys : state'[l] # state[l] => state'[l] # "completed"
      PROVE  Goal
  BY <1>a, <1>3 DEF planeVars
<1>4. ASSUME \/ Unschedule
             \/ \E k \in Keys :
                  \/ Schedule(k) \/ CancelJob(k) \/ RetryJob(k) \/ RedriveJob(k)
                  \/ ResolveNotPublished(k) \/ Recover(k) \/ BecomesDue(k) \/ LeaseExpires(k)
                  \/ (\E a \in DOMAIN ops[k] : OpEnds(k, a))
      PROVE  Goal
  <2>1. UNCHANGED result
    BY <1>4 DEF Schedule, CancelJob, RetryJob, RedriveJob, Unschedule, ResolveNotPublished, Recover, BecomesDue,
                LeaseExpires, OpEnds, WorkerLeaves
  <2>2. UNCHANGED planeVars \/ \A l \in Keys : state'[l] # state[l] => state'[l] # "completed"
    <3>1. \/ UNCHANGED planeVars
          \/ \E m \in Keys : \/ Plane!EnqueueTask(m, {}, FALSE, FALSE) \/ Plane!CancelTask(m)
                             \/ Plane!RetryResolved(m) \/ Plane!RetryFailed(m)
                             \/ Plane!RecoverExpiredLeases({m}) \/ Plane!BecomesDue(m)
                             \/ Plane!LeaseExpires(m)
      <4>1. CASE Unschedule
        BY <4>1, <1>a DEF Unschedule, Typed, VariantTyped, KeyTyped
      <4>2. ASSUME NEW k \in Keys, Schedule(k) \/ CancelJob(k) \/ RetryJob(k) \/ RedriveJob(k)
                                   \/ ResolveNotPublished(k)
            PROVE  \/ UNCHANGED planeVars
                   \/ Plane!EnqueueTask(k, {}, FALSE, FALSE) \/ Plane!CancelTask(k)
                   \/ Plane!RetryResolved(k) \/ Plane!RetryFailed(k)
        BY <4>2 DEF Schedule, CancelJob, RetryJob, RedriveJob, ResolveNotPublished
      <4>3. ASSUME NEW k \in Keys, Recover(k) \/ BecomesDue(k) \/ LeaseExpires(k)
                                   \/ (\E a \in DOMAIN ops[k] : OpEnds(k, a))
            PROVE  \/ UNCHANGED planeVars
                   \/ Plane!RecoverExpiredLeases({k}) \/ Plane!BecomesDue(k) \/ Plane!LeaseExpires(k)
        BY <4>3 DEF Recover, BecomesDue, LeaseExpires, OpEnds
      <4>4. QED
        BY <1>4, <4>1, <4>2, <4>3
    <3>2. QED
      BY <3>1, <1>a DEF Plane!EnqueueTask, Plane!CancelTask, Plane!RetryResolved, Plane!RetryFailed, Plane!Leave,
                        Plane!RecoverExpiredLeases, Plane!BecomesDue, Plane!LeaseExpires
  <2>3. QED
    BY <1>3, <2>1, <2>2
<1>5. ASSUME NEW p \in Workers, StartTick(p) \/ Crash(p) PROVE Goal
  <2>1. UNCHANGED <<result, state>>
    BY <1>5 DEF StartTick, Crash, WorkerLeaves, Plane!TickStart, Plane!Crash, Plane!rowVars
  <2>2. QED
    BY <1>3, <2>1
<1>6. ASSUME NEW p \in Workers, NEW k \in Keys, Claim(p, k) PROVE Goal
  <2>1. UNCHANGED result /\ state' = [t \in Keys |-> IF t \in {k} THEN "running" ELSE state[t]]
    BY <1>6 DEF Claim, WorkerLeaves, Plane!TickClaim, Plane!ClaimTasks
  <2>2. QED
    BY <1>a, <2>1
<1>7. ASSUME NEW p \in Workers, NEW k \in Keys, WorkStep(p, k) PROVE Goal
  <2>1. UNCHANGED result /\ UNCHANGED planeVars
    BY <1>7, <1>a, WorkOnly, WorkWrites, InvNumbers DEF Inv
  <2>2. QED
    BY <1>3, <2>1
<1>8. CASE SweepStep
  <2>1. UNCHANGED result /\ UNCHANGED planeVars
    BY <1>8 DEF SweepStep, SweepVariant, SweepTask, SweepWrite, SweepLeaves
  <2>2. QED
    BY <1>3, <2>1
<1>9. CASE UNCHANGED vars
  BY <1>3, <1>9 DEF vars
<1>10. CASE OtherStep
  BY <1>1, <1>4, <1>8, <1>10 DEF OtherStep, OperatorStep
<1>11. QED
  BY <1>2, <1>5, <1>6, <1>7, <1>9, <1>10, StepCases

\* What the sweep is about to write.
Sweeps    == [seen : PublishStates, key : Keys \cup {NoKey}, todo : Seq(PublishStates)]
TodoShown == \A i \in DOMAIN sweep.todo : sweep.todo[i] = "published" => AnyRecorded

LEMMA Todos ==
  /\ <<>> \in Seq(PublishStates) /\ DOMAIN <<>> = {}
  /\ \A x \in PublishStates : <<x>> \in Seq(PublishStates) /\ DOMAIN <<x>> = {1} /\ <<x>>[1] = x
<1>1. <<>> \in Seq(PublishStates) /\ DOMAIN <<>> = {}
  OBVIOUS
<1>2. ASSUME NEW x \in PublishStates
      PROVE  <<x>> \in Seq(PublishStates) /\ DOMAIN <<x>> = {1} /\ <<x>>[1] = x
  OBVIOUS
<1>3. QED
  BY <1>1, <1>2

LEMMA SweepWritesWhat ==
  ASSUME NEW seen \in PublishStates, NEW task, NEW res \in {"none", "skipped", "published"},
         task = "completed" => res # "none"
  PROVE  /\ SweepWrites(seen, task, res) \in Seq(PublishStates)
         /\ \A i \in DOMAIN SweepWrites(seen, task, res) :
              SweepWrites(seen, task, res)[i] = "published" => res = "published"
<1> DEFINE w == SweepWrites(seen, task, res)
<1>1. \/ w = <<>>
      \/ \E x \in {"failed", "publishing", "queued", "cancelled"} : w = <<x>>
      \/ res = "published" /\ (w = <<"published">> \/ w = <<"publishing", "published">>)
  <2>1. CASE task = "completed"
    BY <2>1 DEF SweepWrites, CompletedWrites
  <2>2. CASE task # "completed"
    BY <2>2 DEF SweepWrites, EndWrites
  <2>3. QED
    BY <2>1, <2>2
<1>2. {"failed", "publishing", "queued", "cancelled", "published"} \subseteq PublishStates
  BY DEF PublishStates
<1> HIDE DEF w
<1>3. CASE w = <<>>
  BY <1>3, Todos DEF w
<1>4. ASSUME NEW x \in {"failed", "publishing", "queued", "cancelled"}, w = <<x>>
      PROVE  w \in Seq(PublishStates) /\ \A i \in DOMAIN w : w[i] # "published"
  <2>1. x \in PublishStates /\ x # "published"
    BY <1>2
  <2>2. w \in Seq(PublishStates) /\ DOMAIN w = {1} /\ w[1] = x
    BY <1>4, <2>1, Todos
  <2>3. QED
    BY <2>1, <2>2
<1>5. ASSUME w = <<"published">> \/ w = <<"publishing", "published">>
      PROVE  w \in Seq(PublishStates)
  <2>1. "published" \in PublishStates /\ "publishing" \in PublishStates
    BY <1>2
  <2>2. <<"published">> \in Seq(PublishStates)
    BY <2>1
  <2>3. <<"publishing", "published">> \in Seq(PublishStates)
    BY <2>1
  <2>4. QED
    BY <1>5, <2>2, <2>3
<1>6. QED
  BY <1>1, <1>3, <1>4, <1>5 DEF w

LEMMA SweepsStep ==
  ASSUME Inv, [Next]_vars
  PROVE  sweep' \in Sweeps /\ TodoShown'
<1>a. /\ sweep \in Sweeps /\ TodoShown /\ vstate \in PublishStates /\ vkey \in Keys \cup {NoKey}
      /\ Typed /\ AttemptsTyped /\ (AnyRecorded => AnyRecorded')
  BY RecordedStep DEF Inv, Typed, VariantTyped, KeyTyped, Shown, Sweeps, TodoShown
<1>1. CASE UNCHANGED sweep
  BY <1>1, <1>a DEF TodoShown
<1>2. CASE SweepVariant
  <2>1. sweep' = [NoSweep EXCEPT !.seen = vstate, !.key = vkey]
    BY <1>2 DEF SweepVariant
  <2>2. sweep' \in Sweeps /\ sweep'.todo = <<>>
    BY <1>a, <2>1, Todos DEF Sweeps, NoSweep
  <2>3. QED
    BY <2>2, Todos DEF TodoShown
<1>3. CASE SweepTask
  <2>a. PICK task \in {state[sweep.key], "missing"} :
          \E todo : /\ todo = SweepWrites(sweep.seen, task, result[sweep.key]) \/ todo = <<>>
                    /\ sweep' = [NoSweep EXCEPT !.todo = todo]
    BY <1>3 DEF SweepTask
  <2>1. PICK todo : /\ todo = SweepWrites(sweep.seen, task, result[sweep.key]) \/ todo = <<>>
                    /\ sweep' = [NoSweep EXCEPT !.todo = todo]
    BY <2>a
  <2>2. sweep.key \in Keys /\ sweep.seen \in PublishStates
    BY <1>3, <1>a DEF SweepTask, Sweeps
  <2>3. /\ result[sweep.key] \in {"none", "skipped", "published"}
        /\ task = "completed" => result[sweep.key] # "none"
    BY <2>1, <2>2 DEF Inv, Typed, VariantTyped, Shown, Plane!TypeOK
  <2>4. /\ todo \in Seq(PublishStates)
        /\ \A i \in DOMAIN todo : todo[i] = "published" => result[sweep.key] = "published"
    <3>1. CASE todo = <<>>
      BY <3>1, Todos
    <3>2. CASE todo = SweepWrites(sweep.seen, task, result[sweep.key])
      BY <2>2, <2>3, <3>2, SweepWritesWhat
    <3>3. QED
      BY <2>1, <3>1, <3>2
  <2>5. result[sweep.key] = "published" => AnyRecorded'
    BY <1>a, <2>2 DEF Inv, Shown, AnyRecorded
  <2>6. sweep'.todo = todo /\ sweep' \in Sweeps
    BY <2>1, <2>4 DEF NoSweep, Sweeps, PublishStates
  <2>7. QED
    BY <2>4, <2>5, <2>6 DEF TodoShown
<1>4. CASE SweepWrite
  <2>1. sweep' = [sweep EXCEPT !.todo = Tail(@)] /\ sweep.todo # <<>> /\ sweep.todo \in Seq(PublishStates)
    BY <1>4, <1>a DEF SweepWrite, Sweeps
  <2>2. /\ Tail(sweep.todo) \in Seq(PublishStates)
        /\ \A i \in DOMAIN Tail(sweep.todo) : i + 1 \in DOMAIN sweep.todo /\ Tail(sweep.todo)[i] = sweep.todo[i + 1]
    BY <2>1
  <2>3. sweep' \in Sweeps /\ sweep'.todo = Tail(sweep.todo)
    BY <1>a, <2>1, <2>2 DEF Sweeps
  <2>4. QED
    BY <1>a, <2>2, <2>3 DEF TodoShown
<1>5. CASE OperatorStep
  BY <1>1, <1>5 DEF OperatorStep, Schedule, CancelJob, RetryJob, RedriveJob, Unschedule, ResolveNotPublished,
                    ResolvePublished
<1>6. ASSUME NEW k \in Keys, Recover(k) \/ BecomesDue(k) \/ LeaseExpires(k) \/ (\E a \in DOMAIN ops[k] : OpEnds(k, a))
      PROVE  UNCHANGED sweep
  BY <1>6 DEF Recover, BecomesDue, LeaseExpires, OpEnds, WorkerLeaves
<1>7. ASSUME NEW p \in Workers, StartTick(p) \/ Crash(p) PROVE UNCHANGED sweep
  BY <1>7 DEF StartTick, Crash, WorkerLeaves
<1>8. ASSUME NEW p \in Workers, NEW k \in Keys, Claim(p, k) \/ Settle(p, k) \/ WorkStep(p, k)
      PROVE  UNCHANGED sweep
  BY <1>8, <1>a, WorkOnly DEF Claim, Settle, WorkerLeaves
<1>9. CASE UNCHANGED vars
  BY <1>1, <1>9 DEF vars
<1>10. QED
  BY <1>1, <1>2, <1>3, <1>4, <1>5, <1>6, <1>7, <1>8, <1>9, StepCases DEF OtherStep, SweepStep

\* The rest of the variant's columns, and the counters.
LEMMA ColumnsStep ==
  ASSUME Inv, [Next]_vars
  PROVE  /\ KeyTyped' /\ polls' \in [Keys -> 0..MaxPolls] /\ provider' \in Providers
         /\ granted' \in [Keys -> 0..MaxRetries] /\ redriven' \in [Keys -> 0..MaxRetries]
         /\ \A k \in Keys : granted[k] > 0 => granted'[k] > 0
<1> DEFINE Goal == /\ KeyTyped' /\ polls' \in [Keys -> 0..MaxPolls] /\ provider' \in Providers
                   /\ granted' \in [Keys -> 0..MaxRetries] /\ redriven' \in [Keys -> 0..MaxRetries]
                   /\ \A k \in Keys : granted[k] > 0 => granted'[k] > 0
<1>a. /\ KeyTyped /\ polls \in [Keys -> 0..MaxPolls] /\ provider \in Providers /\ AttemptsTyped
      /\ granted \in [Keys -> 0..MaxRetries] /\ redriven \in [Keys -> 0..MaxRetries]
      /\ MaxRetries \in Nat /\ MaxPolls \in Nat
  BY PublishingAssumption DEF Inv, Typed, VariantTyped
<1>1. CASE UNCHANGED <<vkey, polls, provider, granted, redriven>>
  BY <1>1, <1>a DEF KeyTyped
<1>2. ASSUME NEW k \in Keys, Schedule(k) PROVE Goal
  BY <1>2, <1>a DEF Schedule, KeyTyped, history
<1>3. CASE Unschedule
  BY <1>3, <1>a DEF Unschedule, KeyTyped, history
<1>4. ASSUME NEW k \in Keys, RetryJob(k) \/ ResolveNotPublished(k) PROVE Goal
  <2>1. /\ granted' = [granted EXCEPT ![k] = @ + 1] /\ UNCHANGED <<vkey, polls, provider, redriven>>
        /\ granted[k] + redriven[k] < MaxRetries
    BY <1>4 DEF RetryJob, ResolveNotPublished, Retried, variantVars
  <2>2. QED
    BY <1>a, <2>1 DEF KeyTyped
<1>5. ASSUME NEW k \in Keys, RedriveJob(k) PROVE Goal
  <2>1. /\ redriven' = [redriven EXCEPT ![k] = @ + 1] /\ UNCHANGED <<vkey, polls, provider, granted>>
        /\ granted[k] + redriven[k] < MaxRetries
    BY <1>5 DEF RedriveJob, Retried, variantVars
  <2>2. QED
    BY <1>a, <2>1 DEF KeyTyped
<1>6. ASSUME NEW p \in Workers, NEW k \in Keys, Poll(p, k) PROVE Goal
  <2>1. /\ UNCHANGED <<vkey, provider, granted, redriven>>
        /\ polls' = polls \/ (polls[k] # MaxPolls /\ polls' = [polls EXCEPT ![k] = @ + 1])
    BY <1>6 DEF Poll, variantVars, history
  <2>2. QED
    BY <1>a, <2>1 DEF KeyTyped
<1>7. ASSUME NEW k \in Keys,
             \/ CancelJob(k) \/ ResolvePublished(k) \/ Recover(k) \/ BecomesDue(k) \/ LeaseExpires(k)
             \/ (\E a \in DOMAIN ops[k] : OpEnds(k, a))
      PROVE  UNCHANGED <<vkey, polls, provider, granted, redriven>>
  BY <1>7 DEF CancelJob, ResolvePublished, Recover, BecomesDue, LeaseExpires, OpEnds, WorkerLeaves, variantVars,
              history
<1>8. CASE SweepStep
  BY <1>1, <1>8 DEF SweepStep, SweepVariant, SweepTask, SweepWrite, SweepLeaves, history
<1>9. ASSUME NEW p \in Workers, StartTick(p) \/ Crash(p)
      PROVE  UNCHANGED <<vkey, polls, provider, granted, redriven>>
  BY <1>9 DEF StartTick, Crash, WorkerLeaves, variantVars, history
<1>10. ASSUME NEW p \in Workers, NEW k \in Keys,
             \/ Claim(p, k) \/ Load(p, k) \/ Reject(p, k) \/ Look(p, k) \/ Fault(p, k) \/ Condemn(p, k)
             \/ Move(p, k) \/ Insert(p, k) \/ Submit(p, k) \/ Record(p, k) \/ Settle(p, k)
      PROVE  UNCHANGED <<vkey, polls, provider, granted, redriven>>
  BY <1>10 DEF Claim, Load, Reject, Look, Fault, Condemn, Move, Insert, Submit, Record, Settle, WorkerLeaves,
               variantVars, history
<1>11. CASE UNCHANGED vars
  BY <1>1, <1>11 DEF vars, variantVars, history
<1>12. CASE OtherStep
  BY <1>1, <1>2, <1>3, <1>4, <1>5, <1>7, <1>8, <1>12 DEF OtherStep, OperatorStep
<1>13. QED
  BY <1>1, <1>6, <1>9, <1>10, <1>11, <1>12, StepCases DEF WorkStep

----
(* Consent. *)

\* What a step does to the intervention and the end of a job.
LEMMA InterventionStep ==
  ASSUME Inv, [Next]_vars, NEW l \in Keys
  PROVE  \/ intervention'[l] = intervention[l] /\ (state[l] = "completed" => state'[l] = "completed")
         \/ intervention'[l] # "resolved"
         \/ state'[l] = "completed" \/ granted'[l] > 0
<1> DEFINE Goal == \/ intervention'[l] = intervention[l] /\ (state[l] = "completed" => state'[l] = "completed")
                   \/ intervention'[l] # "resolved"
                   \/ state'[l] = "completed" \/ granted'[l] > 0
<1>a. /\ Plane!TypeOK /\ state \in [Keys -> Plane!RowStates] /\ Typed /\ JobsNumbered
      /\ intervention \in [Keys -> {"none", "requested", "resolved"}]
      /\ granted \in [Keys -> Nat] /\ KeyTyped
  <2>1. Typed /\ JobsNumbered /\ Plane!TypeOK /\ KeyTyped /\ granted \in [Keys -> 0..MaxRetries]
    BY InvNumbers DEF Inv, Typed, VariantTyped
  <2>2. granted \in [Keys -> Nat]
    BY <2>1, PublishingAssumption
  <2>3. state \in [Keys -> Plane!RowStates] /\ intervention \in [Keys -> {"none", "requested", "resolved"}]
    BY <2>1 DEF Plane!TypeOK
  <2>4. QED
    BY <2>1, <2>2, <2>3
<1>1. CASE UNCHANGED planeVars
  BY <1>1 DEF planeVars
<1>2. ASSUME NEW k \in Keys, RetryJob(k) \/ ResolveNotPublished(k) PROVE Goal
  <2>1. granted' = [granted EXCEPT ![k] = @ + 1]
    BY <1>2 DEF RetryJob, ResolveNotPublished
  <2>2. CASE UNCHANGED planeVars
    BY <1>1, <2>2
  <2>3. CASE Plane!RetryResolved(k)
    <3>1. l # k => intervention'[l] = intervention[l] /\ state'[l] = state[l]
      BY <1>a, <2>3 DEF Plane!RetryResolved
    <3>2. l = k => granted'[l] > 0
      BY <1>a, <2>1
    <3>3. QED
      BY <3>1, <3>2
  <2>4. QED
    BY <1>2, <2>2, <2>3 DEF RetryJob, ResolveNotPublished
<1>3. ASSUME NEW k \in Keys,
             \/ Plane!EnqueueTask(k, {}, FALSE, FALSE) \/ Plane!CancelTask(k) \/ Plane!RetryFailed(k)
             \/ Plane!RecoverExpiredLeases({k}) \/ Plane!BecomesDue(k) \/ Plane!LeaseExpires(k)
      PROVE  Goal
  <2>1. intervention' = intervention
    BY <1>3 DEF Plane!EnqueueTask, Plane!CancelTask, Plane!RetryFailed, Plane!RecoverExpiredLeases,
                Plane!BecomesDue, Plane!LeaseExpires
  <2>2. state[l] = "completed" => state'[l] = "completed"
    BY <1>a, <1>3 DEF Plane!EnqueueTask, Plane!CancelTask, Plane!Terminal, Plane!Leave, Plane!RetryFailed,
                      Plane!RecoverExpiredLeases, Plane!Expired, Plane!BecomesDue, Plane!LeaseExpires
  <2>3. QED
    BY <2>1, <2>2
<1>4. ASSUME NEW k \in Keys, ResolvePublished(k) PROVE Goal
  <2>1. \/ UNCHANGED <<state, intervention>>
        \/ /\ state' = [state EXCEPT ![k] = "completed"]
           /\ \A m \in Keys : m # k => intervention'[m] = intervention[m]
    BY <1>4, <1>a DEF ResolvePublished
  <2>2. QED
    BY <1>a, <2>1
<1>5. ASSUME NEW p \in Workers, StartTick(p) \/ Crash(p) PROVE Goal
  BY <1>5 DEF StartTick, Crash, Plane!TickStart, Plane!Crash, Plane!rowVars
<1>6. ASSUME NEW p \in Workers, NEW k \in Keys, Claim(p, k) PROVE Goal
  <2>1. /\ intervention' = intervention /\ state' = [t \in Keys |-> IF t \in {k} THEN "running" ELSE state[t]]
        /\ state[k] # "completed"
    BY <1>6 DEF Claim, Plane!TickClaim, Plane!ClaimTasks, Plane!Claimable
  <2>2. QED
    BY <2>1
<1>7. ASSUME NEW p \in Workers, NEW k \in Keys, Settle(p, k) PROVE Goal
  <2>1. CASE Plane!CompleteTask(p, k)
    BY <1>a, <2>1 DEF Plane!CompleteTask, Plane!Leave, Plane!HoldsLease
  <2>2. CASE Plane!DeferTask(p, k, FALSE) \/ Plane!SettleLost(p, k)
    BY <1>a, <2>2 DEF Plane!DeferTask, Plane!Leave, Plane!SettleLost, Plane!rowVars, Plane!HoldsLease
  <2>3. ASSUME NEW d \in Decisions, Plane!FailTask(p, k, d) PROVE Goal
    BY <1>a, <2>3 DEF Plane!FailTask, Plane!Leave, Plane!HoldsLease
  <2>4. QED
    BY <1>7, <2>1, <2>2, <2>3 DEF Settle
<1>8. ASSUME NEW p \in Workers, NEW k \in Keys, WorkStep(p, k) PROVE UNCHANGED planeVars
  BY <1>8, <1>a, WorkWrites
<1>9. CASE SweepStep
  BY <1>1, <1>9 DEF SweepStep, SweepVariant, SweepTask, SweepWrite, SweepLeaves
<1>10. CASE UNCHANGED vars
  BY <1>1, <1>10 DEF vars
<1>11. CASE Unschedule
  BY <1>1, <1>3, <1>11, <1>a DEF Unschedule, KeyTyped
<1>12. ASSUME NEW k \in Keys,
              \/ Schedule(k) \/ CancelJob(k) \/ RedriveJob(k) \/ Recover(k) \/ BecomesDue(k) \/ LeaseExpires(k)
              \/ (\E a \in DOMAIN ops[k] : OpEnds(k, a))
       PROVE  Goal
  <2>1. \/ UNCHANGED planeVars
        \/ Plane!EnqueueTask(k, {}, FALSE, FALSE) \/ Plane!CancelTask(k) \/ Plane!RetryFailed(k)
        \/ Plane!RecoverExpiredLeases({k}) \/ Plane!BecomesDue(k) \/ Plane!LeaseExpires(k)
    BY <1>12 DEF Schedule, CancelJob, RedriveJob, Recover, BecomesDue, LeaseExpires, OpEnds
  <2>2. QED
    BY <1>1, <1>3, <2>1
<1>13. CASE OtherStep
  BY <1>2, <1>4, <1>9, <1>11, <1>12, <1>13 DEF OtherStep, OperatorStep
<1>14. QED
  BY <1>1, <1>5, <1>6, <1>7, <1>8, <1>10, <1>13, StepCases

LEMMA ConsentStep ==
  ASSUME Inv, [Next]_vars
  PROVE  Consent'
<1>a. /\ Consent /\ Typed /\ JobsNumbered /\ JobsTyped /\ exec \in [Workers -> [Keys -> Nat]]
      /\ \A k \in Keys : granted[k] > 0 => granted'[k] > 0
  BY InvNumbers, ColumnsStep DEF Inv, Typed, Plane!TypeOK, Plane!Processes
<1>1. \A k \in Keys : intervention'[k] = "resolved" => granted'[k] > 0 \/ state'[k] = "completed"
  BY <1>a, InterventionStep DEF Consent
<1>2. ASSUME NEW q \in Workers, NEW l \in Keys, Plane!Executing(q, l)', job'[q].cleared
      PROVE  granted'[l] > 0
  <2>1. CASE Plane!Executing(q, l) /\ job[q].cleared
    BY <1>a, <2>1 DEF Consent
  <2>2. CASE UNCHANGED <<job, exec>>
    BY <1>2, <2>1, <2>2 DEF Plane!Executing
  <2>3. ASSUME NEW p \in Workers, StartTick(p) PROVE UNCHANGED <<job, exec>>
    BY <2>3 DEF StartTick, Plane!TickStart
  <2>4. ASSUME NEW p \in Workers, Crash(p) PROVE granted'[l] > 0
    <3>1. exec' = [exec EXCEPT ![p] = [t \in Keys |-> 0]] /\ job' = [job EXCEPT ![p] = NoJob]
      BY <2>4 DEF Crash, Becomes, Plane!Crash
    <3>2. q # p /\ Plane!Executing(q, l) /\ job'[q] = job[q]
      BY <1>a, <1>2, <3>1 DEF Plane!Executing, JobsTyped
    <3>3. QED
      BY <1>2, <2>1, <3>2
  <2>5. ASSUME NEW p \in Workers, NEW k \in Keys, Claim(p, k) PROVE granted'[l] > 0
    <3>1. CASE q = p
      <4>1. l = k /\ job'[p] = [NoJob EXCEPT !.step = "claimed", !.cleared = (intervention[k] = "resolved")]
        BY <1>2, <2>5, <3>1, ExecutingAfter
      <4>2. intervention[k] = "resolved"
        BY <1>2, <3>1, <4>1 DEF NoJob
      <4>3. state[k] # "completed"
        BY <2>5 DEF Claim, Plane!TickClaim, Plane!ClaimTasks, Plane!Claimable
      <4>4. QED
        BY <1>a, <4>1, <4>2, <4>3 DEF Consent
    <3>2. CASE q # p
      <4>1. job'[q] = job[q] /\ exec'[q] = exec[q]
        BY <2>5, <3>2, ExecutingAfter
      <4>2. QED
        BY <1>2, <2>1, <4>1 DEF Plane!Executing
    <3>3. QED
      BY <3>1, <3>2
  <2>6. ASSUME NEW p \in Workers, NEW k \in Keys, Settle(p, k) PROVE granted'[l] > 0
    <3>1. q # p
      <4>1. ~Plane!Executing(p, l)'
        BY <2>6, ExecutingAfter
      <4>2. QED
        BY <1>2, <4>1 DEF Plane!Executing
    <3>2. job'[q] = job[q] /\ exec'[q] = exec[q]
      BY <2>6, <3>1, ExecutingAfter
    <3>3. QED
      BY <1>2, <2>1, <3>2 DEF Plane!Executing
  <2>7. ASSUME NEW p \in Workers, NEW k \in Keys, WorkStep(p, k) PROVE granted'[l] > 0
    <3>1. Plane!Executing(p, k) /\ exec' = exec
      BY <2>7, <1>a, WorkWrites DEF planeVars
    <3>2. Plane!Executing(q, l)
      BY <1>2, <3>1 DEF Plane!Executing
    <3>3. job[q].cleared
      <4>1. CASE q = p
        BY <1>2, <2>7, <4>1, WorkGoes
      <4>2. CASE q # p
        BY <1>2, <1>a, <2>7, <4>2, WorkWrites, JobWritten
      <4>3. QED
        BY <4>1, <4>2
    <3>4. QED
      BY <2>1, <3>2, <3>3
  <2>8. CASE OtherStep \/ UNCHANGED vars
    BY <2>2, <2>8, OtherWrites
  <2>9. QED
    BY <2>2, <2>3, <2>4, <2>5, <2>6, <2>7, <2>8, StepCases
<1>3. QED
  BY <1>1, <1>2 DEF Consent

----
(* The theorems. *)

LEMMA InvStep == Inv /\ [Next]_vars => Inv'
<1> SUFFICES ASSUME Inv, [Next]_vars PROVE Inv'
  OBVIOUS
<1>1. Typed /\ WorkersAlone /\ JobsNumbered /\ KeyTyped
  BY InvNumbers DEF Inv, Typed, VariantTyped
<1>2. PlaneStep
  BY <1>1, PlaneCases
<1>3. Plane!TypeOK' /\ WorkersAlone'
  BY <1>1, <1>2, PlaneTyped, AloneStep DEF Typed
<1>4. VariantTyped'
  BY <1>1, VariantStep, ResultStep, SweepsStep, ColumnsStep, MisreadStep DEF VariantTyped, Sweeps
<1>5. AttemptsTyped' /\ JobsTyped' /\ JobsHeld'
  BY <1>1, AttemptsStep, JobsStep
<1>6. Shown'
  BY VariantStep, ResultStep, SweepsStep DEF Shown, TodoShown
<1>7. QED
  BY <1>3, <1>4, <1>5, <1>6, ConsentStep, LedgerStep, GoesStep DEF Inv, Typed

LEMMA InvInit == Init => Inv
<1> SUFFICES ASSUME Init PROVE Inv
  OBVIOUS
<1>1. Plane!TypeOK
  BY DEF Init, Plane!Init, Plane!TypeOK, Plane!RowStates, Plane!TaskStates, Plane!Processes
<1>2. \A p \in Workers, k \in Keys : ~Plane!Executing(p, k)
  BY DEF Init, Plane!Init, Plane!Processes, Plane!Executing
<1>3. VariantTyped
  BY PublishingAssumption, Todos DEF Init, VariantTyped, KeyTyped, PublishStates, NoSweep
<1>4. AttemptsTyped
  <2>1. DOMAIN <<>> = {}
    OBVIOUS
  <2>2. Numbered(<<>>)
    BY <2>1 DEF Numbered
  <2>3. QED
    BY <2>1, <2>2 DEF Init, AttemptsTyped
<1>5. JobsTyped
  BY IdleRow DEF Init, JobsTyped
<1>6. JobsHeld
  BY DEF Init, Plane!Init, Plane!Processes, JobsHeld, Plane!Free, NoJob
<1>7. \A k \in Keys : DOMAIN receipts[k] = {} /\ DOMAIN ops[k] = {}
  BY DEF Init
<1>8. \A k \in Keys : Ledger(k)
  BY <1>7 DEF Ledger, Standing
<1>9. Shown
  BY DEF Init, Plane!Init, Shown, NoSweep
<1>10. Consent
  BY <1>2 DEF Init, Plane!Init, Consent
<1>11. QED
  BY <1>1, <1>2, <1>3, <1>4, <1>5, <1>6, <1>8, <1>9, <1>10 DEF Inv, Typed, WorkersAlone

THEOREM Invariance == Spec => []Inv
  BY InvInit, InvStep, PTL DEF Spec

\* Type correctness of the variant, its attempts, the provider, the workers and the sweep.
THEOREM TypeCorrect == Spec => []TypeOK
  BY Invariance, TypedImplies, PTL DEF Inv

\* No crash, lost answer, retry of a dead letter, cancellation or sweep makes the engine submit what
\* may be live already; only an attempt that a failed status read wrote off may be live twice.
THEOREM PostsOnce == Spec => []AtMostOnePost
<1>1. Inv => AtMostOnePost
  <2> SUFFICES ASSUME Inv, NEW k \in Keys, granted[k] = 0
               PROVE  Cardinality(Live(k) \ misread[k]) <= 1
    BY DEF AtMostOnePost
  <2> DEFINE Counted == Live(k) \ misread[k]
  <2>1. \A a, b \in Counted : a = b
    <3>1. CASE Idempotent
      BY <3>1 DEF Inv, Ledger, Live
    <3>2. CASE ~Idempotent
      BY <3>2 DEF Inv, Ledger, Live, Standing, Strict
    <3>3. QED
      BY <3>1, <3>2
  <2>2. CASE Counted = {}
    <3>1. Cardinality(Counted) = 0
      BY <2>2, FS_EmptySet
    <3>2. QED
      BY <3>1
  <2>3. CASE Counted # {}
    <3>1. PICK a : Counted = {a}
      BY <2>1, <2>3
    <3>2. Cardinality(Counted) = 1
      BY <3>1, FS_Singleton
    <3>3. QED
      BY <3>2
  <2>4. QED
    BY <2>2, <2>3
<1>2. QED
  BY <1>1, Invariance, PTL

\* A post that went live has a receipt, which only the operator or a failed status read writes off.
THEOREM KeepsEvidence == Spec => []EvidenceKept
<1>1. Inv => EvidenceKept
  BY DEF Inv, Typed, AttemptsTyped, Ledger, Standing, Strict, EvidenceKept, Live
<1>2. QED
  BY <1>1, Invariance, PTL

\* What is shown as published has a receipt that says so.
THEOREM ShowsTheRecorded == Spec => []PublishedIsRecorded
<1>1. Inv => PublishedIsRecorded
  BY DEF Inv, Shown, AnyRecorded, Recorded, PublishedIsRecorded
<1>2. QED
  BY <1>1, Invariance, PTL

\* A new attempt follows failed ones only.
THEOREM FollowsFailures == Spec => SubmitsFollowFailures
<1>1. Inv /\ [Next]_vars => [\A k \in Keys : ~Idempotent /\ granted[k] = 0 =>
                               \A a \in DOMAIN ops'[k] \ DOMAIN ops[k], b \in DOMAIN receipts[k] :
                                 b # a => receipts[k][b] = "failed"]_vars
  <2> SUFFICES ASSUME Inv, [Next]_vars, NEW l \in Keys, Strict(l),
                      NEW a \in DOMAIN ops'[l] \ DOMAIN ops[l], NEW b \in DOMAIN receipts[l], b # a
               PROVE  receipts[l][b] = "failed"
    BY DEF Strict
  <2>1. PICK p \in Workers : Submit(p, l) /\ a = job[p].rec
    BY InvNumbers, NewOperation DEF Inv
  <2>2. QED
    BY <2>1 DEF Submit, At, Inv, Goes, Work, SubmitsFirst
<1>2. QED
  BY <1>1, Invariance, PTL DEF Spec, SubmitsFollowFailures

----
(* The lease service. *)

\* A row is leased while it runs.
LeasedRuns == \A k \in Keys : leaseOwner[k] # NoOwner <=> state[k] = "running"

\* What a step makes of the state and the lease of a task.
RowTo(k, s, o) ==
  /\ state'      = [state EXCEPT ![k] = s]
  /\ leaseOwner' = [leaseOwner EXCEPT ![k] = o]

OpenStates == {"queued", "running", "waiting", "waiting_for_user", "retrying"}

Enqueued(k) == state[k] = "absent" /\ RowTo(k, "queued", leaseOwner[k])
Reopened(k) == state[k] = "failed" /\ RowTo(k, "queued", leaseOwner[k])
Requeued(k) == state[k] = "waiting_for_user" /\ RowTo(k, "queued", leaseOwner[k])
Finished(k) == state[k] \in OpenStates /\ \E s \in {"completed", "cancelled"} : RowTo(k, s, NoOwner)
Returned(k) ==
  /\ state[k] = "running"
  /\ \E s \in {"retrying", "waiting", "waiting_for_user", "failed"} : RowTo(k, s, NoOwner)
Claimed(p, k) == state[k] \in {"queued", "retrying", "waiting"} /\ RowTo(k, "running", p)

RowMoves ==
  \/ UNCHANGED <<state, leaseOwner>>
  \/ \E k \in Keys : Enqueued(k) \/ Reopened(k) \/ Requeued(k) \/ Finished(k) \/ Returned(k)
  \/ \E p \in Workers, k \in Keys : Claimed(p, k)

\* Every step moves at most one row.
LEMMA PlaneMovesRows ==
  ASSUME Plane!TypeOK, LeasedRuns, PlaneStep
  PROVE  RowMoves
<1> USE DEF Plane!TypeOK, Plane!rowVars, Plane!procVars, RowTo
<1>1. CASE UNCHANGED planeVars
  BY <1>1 DEF planeVars, RowMoves
<1>2. ASSUME NEW k \in Keys, Plane!EnqueueTask(k, {}, FALSE, FALSE) PROVE RowMoves
  BY <1>2 DEF Plane!EnqueueTask, RowMoves, Enqueued
<1>3. ASSUME NEW k \in Keys, Plane!CancelTask(k) PROVE RowMoves
  <2>1. Finished(k)
    BY <1>3 DEF Plane!CancelTask, Plane!Leave, Plane!Exists, Plane!RowStates, Plane!TaskStates,
                Plane!Terminal, OpenStates, Finished
  <2>2. QED
    BY <2>1 DEF RowMoves
<1>4. ASSUME NEW k \in Keys, Plane!RetryResolved(k) PROVE RowMoves
  BY <1>4 DEF Plane!RetryResolved, RowMoves, Requeued
<1>5. ASSUME NEW k \in Keys, Plane!RetryFailed(k) PROVE RowMoves
  BY <1>5 DEF Plane!RetryFailed, RowMoves, Reopened
<1>6. ASSUME NEW k \in Keys, HumanCompletes(k) PROVE RowMoves
  <2>1. leaseOwner[k] = NoOwner
    BY <1>6 DEF HumanCompletes, LeasedRuns
  <2>2. Finished(k)
    BY <1>6, <2>1 DEF HumanCompletes, OpenStates, Finished
  <2>3. QED
    BY <2>2 DEF RowMoves
<1>7. ASSUME NEW k \in Keys, Plane!RecoverExpiredLeases({k}) PROVE RowMoves
  <2>1. state[k] = "running"
    BY <1>7 DEF Plane!RecoverExpiredLeases, Plane!Expired
  <2>2. RowTo(k, "failed", NoOwner) \/ RowTo(k, "retrying", NoOwner)
    BY <1>7 DEF Plane!RecoverExpiredLeases
  <2>3. Returned(k)
    BY <2>1, <2>2 DEF Returned
  <2>4. QED
    BY <2>3 DEF RowMoves
<1>8. ASSUME NEW k \in Keys, Plane!BecomesDue(k) \/ Plane!LeaseExpires(k) PROVE RowMoves
  BY <1>8 DEF Plane!BecomesDue, Plane!LeaseExpires, RowMoves
<1>9. ASSUME NEW p \in Workers, Plane!TickStart(p) \/ Plane!Crash(p) PROVE RowMoves
  BY <1>9 DEF Plane!TickStart, Plane!Crash, RowMoves
<1>10. ASSUME NEW p \in Workers, NEW k \in Keys, Plane!TickClaim(p, {k}) PROVE RowMoves
  <2>1. Claimed(p, k)
    BY <1>10 DEF Plane!TickClaim, Plane!ClaimTasks, Plane!Claimable, Plane!Owner, Claimed
  <2>2. QED
    BY <2>1 DEF RowMoves
<1>11. ASSUME NEW p \in Workers, NEW k \in Keys, Plane!CompleteTask(p, k) PROVE RowMoves
  BY <1>11 DEF Plane!CompleteTask, Plane!HoldsLease, Plane!Leave, RowMoves, Finished, OpenStates
<1>12. ASSUME NEW p \in Workers, NEW k \in Keys, NEW d \in Decisions, Plane!FailTask(p, k, d)
       PROVE  RowMoves
  <2>1. Returned(k)
    BY <1>12 DEF Plane!FailTask, Plane!FailState, Plane!HoldsLease, Plane!Leave, Returned
  <2>2. QED
    BY <2>1 DEF RowMoves
<1>13. ASSUME NEW p \in Workers, NEW k \in Keys, Plane!DeferTask(p, k, FALSE) PROVE RowMoves
  BY <1>13 DEF Plane!DeferTask, Plane!HoldsLease, Plane!Leave, RowMoves, Returned
<1>14. ASSUME NEW p \in Workers, NEW k \in Keys, Plane!SettleLost(p, k) PROVE RowMoves
  BY <1>14 DEF Plane!SettleLost, RowMoves
<1>15. QED
  BY <1>1, <1>2, <1>3, <1>4, <1>5, <1>6, <1>7, <1>8, <1>9, <1>10, <1>11, <1>12, <1>13, <1>14
  DEF PlaneStep, OperatorRpc, PlaneTime, Settlement

\* Rows stay leased while they run.
LEMMA LeasedStep ==
  ASSUME Plane!TypeOK, LeasedRuns, RowMoves
  PROVE  LeasedRuns'
<1> USE DEF Plane!TypeOK, LeasedRuns, RowTo
<1>1. CASE UNCHANGED <<state, leaseOwner>>
  BY <1>1
<1>2. ASSUME NEW k \in Keys, Enqueued(k) \/ Reopened(k) \/ Requeued(k) PROVE LeasedRuns'
  BY <1>2 DEF Enqueued, Reopened, Requeued
<1>3. ASSUME NEW k \in Keys, Finished(k) \/ Returned(k) PROVE LeasedRuns'
  BY <1>3 DEF Finished, Returned
<1>4. ASSUME NEW p \in Workers, NEW k \in Keys, Claimed(p, k) PROVE LeasedRuns'
  BY <1>4, PublishingAssumption DEF Claimed
<1>5. QED
  BY <1>1, <1>2, <1>3, <1>4 DEF RowMoves

\* A row that moves moves the phase of its task.
LEMMA PhaseMoves ==
  ASSUME Plane!TypeOK, NEW k \in Keys, NEW s, NEW o, RowTo(k, s, o)
  PROVE  /\ Plane!Phase' = [Plane!Phase EXCEPT ![k] = Plane!PhaseOf(s)]
         /\ Plane!Phase[k] = Plane!PhaseOf(state[k])
         /\ \A i \in Keys : leaseOwner'[i] = IF i = k THEN o ELSE leaseOwner[i]
         /\ DOMAIN leaseOwner = Keys /\ DOMAIN leaseOwner' = Keys
BY DEF Plane!TypeOK, Plane!Phase, RowTo

\* A move of a row is a step of the lease service.
LEMMA MoveIsLease ==
  ASSUME Plane!TypeOK, LeasedRuns, RowMoves
  PROVE  [Plane!Lease!Next]_(Plane!Lease!leaseVars)
<1> USE DEF Plane!Lease!leaseVars
<1>1. CASE UNCHANGED <<state, leaseOwner>>
  BY <1>1 DEF Plane!Phase
<1>2. ASSUME NEW k \in Keys, Enqueued(k) PROVE Plane!Lease!Create(k)
  BY <1>2, PhaseMoves DEF Enqueued, Plane!Lease!Create, Plane!PhaseOf, RowTo, Plane!TypeOK
<1>3. ASSUME NEW k \in Keys, Reopened(k) PROVE Plane!Lease!Reopen(k)
  BY <1>3, PhaseMoves DEF Reopened, Plane!Lease!Reopen, Plane!PhaseOf, RowTo, Plane!TypeOK
<1>4. ASSUME NEW k \in Keys, Requeued(k) PROVE UNCHANGED Plane!Lease!leaseVars
  BY <1>4, PhaseMoves DEF Requeued, Plane!PhaseOf, Plane!Phase, RowTo, Plane!TypeOK
<1>5. ASSUME NEW k \in Keys, Finished(k) PROVE Plane!Lease!Finish(k)
  <2>1. PICK s \in {"completed", "cancelled"} : RowTo(k, s, NoOwner)
    BY <1>5 DEF Finished
  <2>2. Plane!PhaseOf(s) = "final" /\ Plane!PhaseOf(state[k]) = "open"
    BY <1>5 DEF Finished, OpenStates, Plane!PhaseOf
  <2>3. QED
    BY <2>1, <2>2, PhaseMoves DEF Plane!Lease!Finish, RowTo
<1>6. ASSUME NEW k \in Keys, Returned(k)
      PROVE  \E D \in SUBSET {k} : Plane!Lease!Return({k}, D)
  <2>1. PICK s \in {"retrying", "waiting", "waiting_for_user", "failed"} : RowTo(k, s, NoOwner)
    BY <1>6 DEF Returned
  <2> DEFINE D == IF s = "failed" THEN {k} ELSE {}
  <2>2. D \in SUBSET {k} /\ D \subseteq {k}
    OBVIOUS
  <2>3. leaseOwner[k] # NoOwner
    BY <1>6 DEF Returned, LeasedRuns
  <2>4. leaseOwner' = [i \in Keys |-> IF i \in {k} THEN NoOwner ELSE leaseOwner[i]]
    BY <2>1 DEF RowTo, Plane!TypeOK
  <2>5. Plane!Phase' = [i \in Keys |-> IF i \in D THEN "dead" ELSE Plane!Phase[i]]
    <3>1. Plane!Phase' = [Plane!Phase EXCEPT ![k] = Plane!PhaseOf(s)]
      BY <2>1, PhaseMoves
    <3>2. Plane!Phase[k] = "open"
      BY <1>6 DEF Returned, Plane!Phase, Plane!PhaseOf
    <3>3. Plane!PhaseOf(s) = IF s = "failed" THEN "dead" ELSE "open"
      BY DEF Plane!PhaseOf
    <3>4. QED
      BY <3>1, <3>2, <3>3 DEF Plane!Phase
  <2>6. Plane!Lease!Return({k}, D)
    BY <2>2, <2>3, <2>4, <2>5 DEF Plane!Lease!Return
  <2>7. QED
    BY <2>2, <2>6
<1>7. ASSUME NEW p \in Workers, NEW k \in Keys, Claimed(p, k) PROVE Plane!Lease!Grant({k}, p)
  <2>1. leaseOwner[k] = NoOwner /\ Plane!PhaseOf(state[k]) = "open" /\ Plane!PhaseOf("running") = "open"
    BY <1>7 DEF Claimed, LeasedRuns, Plane!PhaseOf
  <2>2. Plane!Phase' = Plane!Phase /\ Plane!Phase[k] = "open"
    <3>1. /\ Plane!Phase' = [Plane!Phase EXCEPT ![k] = Plane!PhaseOf("running")]
          /\ Plane!Phase[k] = Plane!PhaseOf(state[k])
      BY <1>7, PhaseMoves DEF Claimed
    <3>2. QED
      BY <2>1, <3>1 DEF Plane!Phase
  <2>3. leaseOwner' = [i \in Keys |-> IF i \in {k} THEN p ELSE leaseOwner[i]]
    BY <1>7 DEF Claimed, RowTo, Plane!TypeOK
  <2>4. QED
    BY <2>1, <2>2, <2>3 DEF Plane!Lease!Grant
<1>8. ASSUME NEW p \in Workers, NEW k \in Keys, Plane!Lease!Grant({k}, p) PROVE Plane!Lease!Next
  <2>1. {k} \in SUBSET Keys /\ p \in Plane!Owners
    BY DEF Plane!Owners
  <2>2. QED
    BY <1>8, <2>1 DEF Plane!Lease!Next
<1>9. ASSUME NEW k \in Keys, \E D \in SUBSET {k} : Plane!Lease!Return({k}, D) PROVE Plane!Lease!Next
  <2>1. {k} \in SUBSET Keys
    OBVIOUS
  <2>2. QED
    BY <1>9, <2>1 DEF Plane!Lease!Next
<1>10. ASSUME NEW k \in Keys, Plane!Lease!Create(k) \/ Plane!Lease!Reopen(k) \/ Plane!Lease!Finish(k)
       PROVE  Plane!Lease!Next
  BY <1>10 DEF Plane!Lease!Next
<1>11. QED
  BY <1>1, <1>2, <1>3, <1>4, <1>5, <1>6, <1>7, <1>8, <1>9, <1>10 DEF RowMoves

\* The tasks behind the variant are still handed out as the lease service promises, whatever
\* the operators of publishing write to them (schedule_content_item, resolve_publication).
THEOREM PublishingKeepsLease == Spec => ImplementsLease
<1> DEFINE LeaseInv == Inv /\ LeasedRuns
<1>1. Init => LeaseInv /\ Plane!Lease!Init
  <2>1. Init => LeasedRuns /\ Plane!Lease!Init
    BY DEF Init, Plane!Init, LeasedRuns, Plane!Lease!Init, Plane!Phase, Plane!PhaseOf
  <2>2. QED
    BY <2>1, InvInit
<1>2. LeaseInv /\ [Next]_vars => LeaseInv' /\ [Plane!Lease!Next]_(Plane!Lease!leaseVars)
  <2> SUFFICES ASSUME Inv, LeasedRuns, [Next]_vars
               PROVE  LeaseInv' /\ [Plane!Lease!Next]_(Plane!Lease!leaseVars)
    OBVIOUS
  <2>1. Plane!TypeOK /\ KeyTyped
    BY DEF Inv, Typed, VariantTyped
  <2>2. RowMoves
    BY <2>1, PlaneCases, PlaneMovesRows
  <2>3. QED
    BY <2>1, <2>2, LeasedStep, MoveIsLease, InvStep
<1>3. QED
  BY <1>1, <1>2, PTL DEF Spec, ImplementsLease, Plane!ImplementsLease, Plane!Lease!Spec
====
