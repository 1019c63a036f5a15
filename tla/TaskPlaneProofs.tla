---- MODULE TaskPlaneProofs ----
(***************************************************************************)
(* Theorems about TaskPlane, for every set of tasks and processes and      *)
(* every value of the limits.                                              *)
(***************************************************************************)
EXTENDS TaskPlane, TLAPS, FiniteSetTheorems

\* An owner is a lease owner, never null.
LEMMA OwnerType == \A p \in Processes : Owner(p) \in Owners /\ Owner(p) # NoOwner
  BY TaskPlaneAssumption DEF Owner, Owners, Processes

\* What claim_tasks writes is well typed, for both of its callers.
LEMMA ClaimTyped ==
  ASSUME TypeOK, NEW p \in Processes, NEW S \in SUBSET Tasks, ClaimTasks(p, S),
         pc' \in [Processes -> {"idle", "ticking", "admitted", "counted"}],
         uncounted' \subseteq Executors, unseen' \subseteq Tasks
  PROVE  TypeOK'
<1> USE DEF TypeOK, ClaimTasks
<1>1. /\ state' \in [Tasks -> RowStates]
      /\ attempts' \in [Tasks -> Nat]
  BY DEF RowStates, TaskStates
<1>2. leaseLive' \in [Tasks -> BOOLEAN]
  OBVIOUS
<1>3. startedAt' \in [Tasks -> BOOLEAN]
  OBVIOUS
<1>4. leaseOwner' \in [Tasks -> Owners \cup {NoOwner}]
  BY OwnerType
<1>5. exec' \in [Processes -> [Tasks -> Nat]]
  <2>1. [t \in Tasks |-> IF t \in S THEN attempts[t] + 1 ELSE 0] \in [Tasks -> Nat]
    OBVIOUS
  <2>2. QED
    BY <2>1
<1>6. QED
  BY <1>1, <1>2, <1>3, <1>4, <1>5

\* What recover_expired_leases writes is well typed.
LEMMA RecoverTyped ==
  ASSUME TypeOK, NEW S \in SUBSET Tasks, RecoverExpiredLeases(S)
  PROVE  TypeOK'
<1> USE DEF TypeOK, RecoverExpiredLeases, procVars, blindVars
<1>1. state' \in [Tasks -> RowStates]
  BY DEF RowStates, TaskStates
<1>2. /\ leaseOwner' \in [Tasks -> Owners \cup {NoOwner}]
      /\ due' \in [Tasks -> BOOLEAN]
  OBVIOUS
<1>3. deadLettered' \in [Tasks -> BOOLEAN]
  <2>1. deadLettered' = [t \in Tasks |-> IF t \in S THEN attempts[t] >= MaxAttempts
                                                   ELSE deadLettered[t]]
    OBVIOUS
  <2>2. \A t \in Tasks : (IF t \in S THEN attempts[t] >= MaxAttempts
                                      ELSE deadLettered[t]) \in BOOLEAN
    <3>1. \A t \in Tasks : deadLettered[t] \in BOOLEAN
      OBVIOUS
    <3>2. \A t \in Tasks : (attempts[t] >= MaxAttempts) \in BOOLEAN
      OBVIOUS
    <3>3. QED
      BY <3>1, <3>2, Zenon
  <2>3. QED
    BY <2>1, <2>2, Zenon
<1>4. QED
  BY <1>1, <1>2, <1>3


----
(* Type correctness. *)

\* Every column and every process stays well typed.
LEMMA TypeStep ==
  ASSUME TypeOK, [Next]_vars
  PROVE  TypeOK'
<1> USE DEF TypeOK, RowStates, TaskStates, rowVars, procVars, blindVars
<1>1. ASSUME NEW p \in Ticks, TickStart(p)
      PROVE  TypeOK'
  BY <1>1 DEF TickStart
<1>2. ASSUME NEW p \in Ticks, TickEnd(p)
      PROVE  TypeOK'
  BY <1>2 DEF TickEnd
<1>3. ASSUME NEW p \in Ticks, NEW S \in SUBSET Tasks, TickClaim(p, S)
      PROVE  TypeOK'
  BY <1>3, ClaimTyped, TaskPlaneAssumption DEF TickClaim, Processes, blindVars
<1>4. ASSUME NEW p \in Executors, ClaimAdmit(p)
      PROVE  TypeOK'
  BY <1>4 DEF ClaimAdmit
<1>5. ASSUME NEW p \in Executors, ClaimCount(p)
      PROVE  TypeOK'
  BY <1>5 DEF ClaimCount
<1>6. ASSUME NEW p \in Executors, NEW S \in SUBSET BrowserTasks, ClaimBrowser(p, S)
      PROVE  TypeOK'
  BY <1>6, ClaimTyped, TaskPlaneAssumption DEF ClaimBrowser, ClaimEnds, Processes
<1>7. ASSUME NEW p \in Executors, NEW t \in Tasks, HeartbeatTask(p, t)
      PROVE  TypeOK'
  BY <1>7 DEF HeartbeatTask
<1>8. ASSUME NEW p \in Processes, Crash(p)
      PROVE  TypeOK'
  BY <1>8 DEF Crash
<1>9. ASSUME NEW p \in Processes, NEW t \in Tasks, CompleteTask(p, t)
      PROVE  TypeOK'
  BY <1>9 DEF CompleteTask, Leave, Done
<1>10. ASSUME NEW p \in Processes, NEW t \in Tasks, NEW decision \in Decisions, FailTask(p, t, decision)
      PROVE  TypeOK'
  BY <1>10 DEF FailTask, Leave, Done, FailState, Decisions
<1>11. ASSUME NEW p \in Processes, NEW t \in Tasks, NEW now \in BOOLEAN, DeferTask(p, t, now)
      PROVE  TypeOK'
  BY <1>11 DEF DeferTask, Leave, Done
<1>12. ASSUME NEW p \in Processes, NEW t \in Tasks, SettleLost(p, t)
      PROVE  TypeOK'
  BY <1>12 DEF SettleLost, Done
<1>13. ASSUME NEW t \in Tasks, NEW deps \in SUBSET Tasks, NEW gated \in BOOLEAN, NEW now \in BOOLEAN,
                  EnqueueTask(t, deps, gated, now)
      PROVE  TypeOK'
  BY <1>13 DEF EnqueueTask
<1>14. ASSUME NEW t \in Tasks, NEW approve \in BOOLEAN, ApproveTask(t, approve)
      PROVE  TypeOK'
  BY <1>14 DEF ApproveTask, Leave
<1>15. ASSUME NEW t \in Tasks, CancelTask(t)
      PROVE  TypeOK'
  BY <1>15 DEF CancelTask, Leave
<1>16. ASSUME NEW t \in Tasks, RetryFailed(t)
      PROVE  TypeOK'
  BY <1>16 DEF RetryFailed
<1>17. ASSUME NEW t \in Tasks, RetryResolved(t)
      PROVE  TypeOK'
  BY <1>17 DEF RetryResolved
<1>18. ASSUME NEW S \in SUBSET Tasks, RecoverExpiredLeases(S)
      PROVE  TypeOK'
  BY <1>18, RecoverTyped
<1>19. ASSUME NEW S \in SUBSET Tasks, PruneHistory(S)
      PROVE  TypeOK'
  BY <1>19 DEF PruneHistory
<1>20. ASSUME NEW t \in Tasks, BecomesDue(t)
      PROVE  TypeOK'
  BY <1>20 DEF BecomesDue
<1>21. ASSUME NEW t \in Tasks, LeaseExpires(t)
      PROVE  TypeOK'
  BY <1>21 DEF LeaseExpires
<1>22. CASE UNCHANGED vars
  BY <1>22 DEF vars
<1> HIDE DEF TypeOK, RowStates, TaskStates, rowVars, procVars, blindVars
<1>23. QED
  BY <1>1, <1>2, <1>3, <1>4, <1>5, <1>6, <1>7, <1>8, <1>9, <1>10, <1>11, <1>12, <1>13, <1>14, <1>15, <1>16, <1>17, <1>18, <1>19, <1>20, <1>21, <1>22
  DEF Next, TickStep, ExecutorStep, OperatorStep, Settle, Recover

\* In every state, for every RPC and every step of a process.
THEOREM TypeCorrect == Spec => []TypeOK
<1>1. Init => TypeOK
  BY TaskPlaneAssumption
  DEF Init, TypeOK, RowStates, TaskStates, Owners, Processes
<1>2. TypeOK /\ [Next]_vars => TypeOK'
  BY TypeStep
<1>3. QED
  BY <1>1, <1>2, PTL DEF Spec


----
(* The inductive invariant. *)

\* A row that waits for a claim has an attempt left, counting those an operator
\* granted: what claim_tasks relies on, because it does not look at attempts.
AttemptLeft ==
  \A t \in Tasks : state[t] \in {"queued", "retrying", "waiting"} =>
                    attempts[t] < MaxAttempts + resolves[t]

\* A row that was never inserted has no history, and no row names it.
AbsentBlank ==
  \A t \in Tasks : state[t] = "absent" =>
    /\ attempts[t] = 0 /\ ~startedAt[t]
    /\ \A u \in Tasks : t \notin dependsOn[u]

\* What a process nobody shares its owner with executes under a lease it still
\* holds is the newest attempt.
CurrentAttempt ==
  \A p \in Processes, t \in Tasks :
    SoleOwner(p) /\ Executing(p, t) /\ HoldsLease(p, t) => exec[p][t] = attempts[t]

IInv ==
  /\ TypeOK /\ RowConsistent /\ ApprovalGate /\ DependenciesSettled /\ AttemptsBounded
  /\ AttemptLeft /\ AbsentBlank /\ CurrentAttempt

\* The steps as the tasks table sees them: every claim is the same update, and
\* the processes' other steps change no row and start nothing.
NothingStarts ==
  \A p \in Processes, t \in Tasks : exec'[p][t] \in {exec[p][t], 0}

RowChange ==
  \/ UNCHANGED rowVars /\ NothingStarts
  \/ \E p \in Processes, S \in SUBSET Tasks : ClaimTasks(p, S)
  \/ \E p \in Processes, t \in Tasks :
       \/ HeartbeatTask(p, t) \/ CompleteTask(p, t)
       \/ \E decision \in Decisions : FailTask(p, t, decision)
       \/ \E now \in BOOLEAN : DeferTask(p, t, now)
  \/ OperatorStep
  \/ \E S \in SUBSET Tasks : RecoverExpiredLeases(S) \/ PruneHistory(S)
  \/ \E t \in Tasks : BecomesDue(t) \/ LeaseExpires(t)

\* Every step is one of them.
LEMMA RowCases ==
  ASSUME TypeOK, [Next]_vars
  PROVE  RowChange
<1> USE DEF TypeOK, RowChange, NothingStarts
<1>1. ASSUME NEW p \in Ticks, TickStep(p)
      PROVE  RowChange
  BY <1>1 DEF TickStep, TickStart, TickEnd, TickClaim, Processes
<1>2. ASSUME NEW p \in Executors, ExecutorStep(p)
      PROVE  RowChange
  BY <1>2, TaskPlaneAssumption
  DEF ExecutorStep, ClaimAdmit, ClaimCount, ClaimBrowser, Processes
<1>3. ASSUME NEW p \in Processes, NEW t \in Tasks, SettleLost(p, t)
      PROVE  RowChange
  BY <1>3 DEF SettleLost, Done
<1>4. ASSUME NEW p \in Processes, Crash(p)
      PROVE  RowChange
  BY <1>4 DEF Crash
<1>5. CASE UNCHANGED vars
  BY <1>5 DEF vars, rowVars
<1>6. QED
  BY <1>1, <1>2, <1>3, <1>4, <1>5 DEF Next, Settle, Recover

\* The row columns stay consistent with the state.
LEMMA RowStep ==
  ASSUME TypeOK, RowConsistent, [Next]_vars
  PROVE  RowConsistent'
<1> USE DEF TypeOK, RowStates, TaskStates
<1>1. ASSUME UNCHANGED rowVars, NothingStarts
      PROVE  RowConsistent'
  BY <1>1 DEF rowVars, RowConsistent
<1>2. ASSUME NEW p \in Processes, NEW S \in SUBSET Tasks, ClaimTasks(p, S)
      PROVE  RowConsistent'
  BY <1>2, OwnerType DEF ClaimTasks, Claimable, Exists, RowConsistent
<1>3. ASSUME NEW p \in Processes, NEW t \in Tasks, HeartbeatTask(p, t)
      PROVE  RowConsistent'
  BY <1>3 DEF HeartbeatTask, HoldsLease, RowConsistent
<1>4. ASSUME NEW p \in Processes, NEW t \in Tasks, CompleteTask(p, t)
      PROVE  RowConsistent'
  BY <1>4 DEF CompleteTask, Leave, HoldsLease, RowConsistent
<1>5. ASSUME NEW p \in Processes, NEW t \in Tasks, NEW decision \in Decisions,
   FailTask(p, t, decision)
      PROVE  RowConsistent'
  BY <1>5 DEF FailTask, FailState, Decisions, Leave, HoldsLease, RowConsistent
<1>6. ASSUME NEW p \in Processes, NEW t \in Tasks, NEW now \in BOOLEAN, DeferTask(p, t,
   now)
      PROVE  RowConsistent'
  BY <1>6 DEF DeferTask, Leave, HoldsLease, RowConsistent
<1>7. ASSUME NEW t \in Tasks, NEW deps \in SUBSET Tasks, NEW gated \in BOOLEAN, NEW now
   \in BOOLEAN, EnqueueTask(t, deps, gated, now)
      PROVE  RowConsistent'
  BY <1>7 DEF EnqueueTask, Exists, RowConsistent
<1>8. ASSUME NEW t \in Tasks, NEW approve \in BOOLEAN, ApproveTask(t, approve)
      PROVE  RowConsistent'
  BY <1>8 DEF ApproveTask, Leave, Exists, Terminal, RowConsistent
<1>9. ASSUME NEW t \in Tasks, CancelTask(t)
      PROVE  RowConsistent'
  BY <1>9 DEF CancelTask, Leave, Exists, Terminal, RowConsistent
<1>10. ASSUME NEW t \in Tasks, RetryFailed(t)
      PROVE  RowConsistent'
  BY <1>10 DEF RetryFailed, RowConsistent
<1>11. ASSUME NEW t \in Tasks, RetryResolved(t)
      PROVE  RowConsistent'
  BY <1>11 DEF RetryResolved, RowConsistent
<1>12. ASSUME NEW S \in SUBSET Tasks, RecoverExpiredLeases(S)
      PROVE  RowConsistent'
  BY <1>12 DEF RecoverExpiredLeases, Expired, RowConsistent
<1>13. ASSUME NEW S \in SUBSET Tasks, PruneHistory(S)
      PROVE  RowConsistent'
  BY <1>13 DEF PruneHistory, RowConsistent
<1>14. ASSUME NEW t \in Tasks, BecomesDue(t)
      PROVE  RowConsistent'
  BY <1>14 DEF BecomesDue, Exists, RowConsistent
<1>15. ASSUME NEW t \in Tasks, LeaseExpires(t)
      PROVE  RowConsistent'
  BY <1>15 DEF LeaseExpires, RowConsistent
<1>16. QED
  BY <1>1, <1>2, <1>3, <1>4, <1>5, <1>6, <1>7, <1>8, <1>9, <1>10, <1>11, <1>12, <1>13,
     <1>14, <1>15, RowCases DEF RowChange, OperatorStep

\* Only approved rows start, and an approval is never taken back.
LEMMA ApprovalStep ==
  ASSUME TypeOK, RowConsistent, ApprovalGate, AbsentBlank, [Next]_vars
  PROVE  ApprovalGate'
<1> USE DEF TypeOK, RowStates, TaskStates
<1>1. ASSUME UNCHANGED rowVars, NothingStarts
      PROVE  ApprovalGate'
  BY <1>1 DEF rowVars, ApprovalGate, AbsentBlank
<1>2. ASSUME NEW p \in Processes, NEW S \in SUBSET Tasks, ClaimTasks(p, S)
      PROVE  ApprovalGate'
  BY <1>2 DEF ClaimTasks, Claimable, Exists, ApprovalGate, AbsentBlank
<1>3. ASSUME NEW p \in Processes, NEW t \in Tasks, HeartbeatTask(p, t)
      PROVE  ApprovalGate'
  BY <1>3 DEF HeartbeatTask, HoldsLease, ApprovalGate, AbsentBlank
<1>4. ASSUME NEW p \in Processes, NEW t \in Tasks, CompleteTask(p, t)
      PROVE  ApprovalGate'
  BY <1>4 DEF CompleteTask, Leave, HoldsLease, ApprovalGate, AbsentBlank
<1>5. ASSUME NEW p \in Processes, NEW t \in Tasks, NEW decision \in Decisions,
   FailTask(p, t, decision)
      PROVE  ApprovalGate'
  BY <1>5 DEF FailTask, FailState, Decisions, Leave, HoldsLease, ApprovalGate,
     AbsentBlank
<1>6. ASSUME NEW p \in Processes, NEW t \in Tasks, NEW now \in BOOLEAN, DeferTask(p, t,
   now)
      PROVE  ApprovalGate'
  BY <1>6 DEF DeferTask, Leave, HoldsLease, ApprovalGate, AbsentBlank
<1>7. ASSUME NEW t \in Tasks, NEW deps \in SUBSET Tasks, NEW gated \in BOOLEAN, NEW now
   \in BOOLEAN, EnqueueTask(t, deps, gated, now)
      PROVE  ApprovalGate'
  BY <1>7 DEF EnqueueTask, Exists, ApprovalGate, AbsentBlank
<1>8. ASSUME NEW t \in Tasks, NEW approve \in BOOLEAN, ApproveTask(t, approve)
      PROVE  ApprovalGate'
  BY <1>8 DEF ApproveTask, Leave, Exists, Terminal, ApprovalGate, AbsentBlank
<1>9. ASSUME NEW t \in Tasks, CancelTask(t)
      PROVE  ApprovalGate'
  BY <1>9 DEF CancelTask, Leave, Exists, Terminal, ApprovalGate, AbsentBlank
<1>10. ASSUME NEW t \in Tasks, RetryFailed(t)
      PROVE  ApprovalGate'
  BY <1>10 DEF RetryFailed, ApprovalGate, AbsentBlank
<1>11. ASSUME NEW t \in Tasks, RetryResolved(t)
      PROVE  ApprovalGate'
  BY <1>11 DEF RetryResolved, ApprovalGate, AbsentBlank
<1>12. ASSUME NEW S \in SUBSET Tasks, RecoverExpiredLeases(S)
      PROVE  ApprovalGate'
  BY <1>12 DEF RecoverExpiredLeases, Expired, ApprovalGate, AbsentBlank
<1>13. ASSUME NEW S \in SUBSET Tasks, PruneHistory(S)
      PROVE  ApprovalGate'
  BY <1>13 DEF PruneHistory, ApprovalGate, AbsentBlank
<1>14. ASSUME NEW t \in Tasks, BecomesDue(t)
      PROVE  ApprovalGate'
  BY <1>14 DEF BecomesDue, Exists, ApprovalGate, AbsentBlank
<1>15. ASSUME NEW t \in Tasks, LeaseExpires(t)
      PROVE  ApprovalGate'
  BY <1>15 DEF LeaseExpires, ApprovalGate, AbsentBlank
<1>16. QED
  BY <1>1, <1>2, <1>3, <1>4, <1>5, <1>6, <1>7, <1>8, <1>9, <1>10, <1>11, <1>12, <1>13,
     <1>14, <1>15, RowCases DEF RowChange, OperatorStep

\* Only rows whose dependencies finished start, and what finished stays finished.
LEMMA DependencyStep ==
  ASSUME TypeOK, DependenciesSettled, AbsentBlank, [Next]_vars
  PROVE  (DependenciesSettled /\ AbsentBlank)'
<1> USE DEF TypeOK, RowStates, TaskStates
<1>1. ASSUME UNCHANGED rowVars, NothingStarts
      PROVE  (DependenciesSettled /\ AbsentBlank)'
  BY <1>1 DEF rowVars, DependenciesSettled, AbsentBlank
<1>2. ASSUME NEW p \in Processes, NEW S \in SUBSET Tasks, ClaimTasks(p, S)
      PROVE  (DependenciesSettled /\ AbsentBlank)'
  BY <1>2 DEF ClaimTasks, Claimable, Exists, DependenciesSettled, AbsentBlank
<1>3. ASSUME NEW p \in Processes, NEW t \in Tasks, HeartbeatTask(p, t)
      PROVE  (DependenciesSettled /\ AbsentBlank)'
  BY <1>3 DEF HeartbeatTask, HoldsLease, DependenciesSettled, AbsentBlank
<1>4. ASSUME NEW p \in Processes, NEW t \in Tasks, CompleteTask(p, t)
      PROVE  (DependenciesSettled /\ AbsentBlank)'
  BY <1>4 DEF CompleteTask, Leave, HoldsLease, DependenciesSettled, AbsentBlank
<1>5. ASSUME NEW p \in Processes, NEW t \in Tasks, NEW decision \in Decisions,
   FailTask(p, t, decision)
      PROVE  (DependenciesSettled /\ AbsentBlank)'
  BY <1>5 DEF FailTask, FailState, Decisions, Leave, HoldsLease, DependenciesSettled,
     AbsentBlank
<1>6. ASSUME NEW p \in Processes, NEW t \in Tasks, NEW now \in BOOLEAN, DeferTask(p, t,
   now)
      PROVE  (DependenciesSettled /\ AbsentBlank)'
  BY <1>6 DEF DeferTask, Leave, HoldsLease, DependenciesSettled, AbsentBlank
<1>7. ASSUME NEW t \in Tasks, NEW deps \in SUBSET Tasks, NEW gated \in BOOLEAN, NEW now
   \in BOOLEAN, EnqueueTask(t, deps, gated, now)
      PROVE  (DependenciesSettled /\ AbsentBlank)'
  BY <1>7 DEF EnqueueTask, Exists, DependenciesSettled, AbsentBlank
<1>8. ASSUME NEW t \in Tasks, NEW approve \in BOOLEAN, ApproveTask(t, approve)
      PROVE  (DependenciesSettled /\ AbsentBlank)'
  BY <1>8 DEF ApproveTask, Leave, Exists, Terminal, DependenciesSettled, AbsentBlank
<1>9. ASSUME NEW t \in Tasks, CancelTask(t)
      PROVE  (DependenciesSettled /\ AbsentBlank)'
  BY <1>9 DEF CancelTask, Leave, Exists, Terminal, DependenciesSettled, AbsentBlank
<1>10. ASSUME NEW t \in Tasks, RetryFailed(t)
      PROVE  (DependenciesSettled /\ AbsentBlank)'
  BY <1>10 DEF RetryFailed, DependenciesSettled, AbsentBlank
<1>11. ASSUME NEW t \in Tasks, RetryResolved(t)
      PROVE  (DependenciesSettled /\ AbsentBlank)'
  BY <1>11 DEF RetryResolved, DependenciesSettled, AbsentBlank
<1>12. ASSUME NEW S \in SUBSET Tasks, RecoverExpiredLeases(S)
      PROVE  (DependenciesSettled /\ AbsentBlank)'
  BY <1>12 DEF RecoverExpiredLeases, Expired, DependenciesSettled, AbsentBlank
<1>13. ASSUME NEW S \in SUBSET Tasks, PruneHistory(S)
      PROVE  (DependenciesSettled /\ AbsentBlank)'
  BY <1>13 DEF PruneHistory, DependenciesSettled, AbsentBlank
<1>14. ASSUME NEW t \in Tasks, BecomesDue(t)
      PROVE  (DependenciesSettled /\ AbsentBlank)'
  BY <1>14 DEF BecomesDue, Exists, DependenciesSettled, AbsentBlank
<1>15. ASSUME NEW t \in Tasks, LeaseExpires(t)
      PROVE  (DependenciesSettled /\ AbsentBlank)'
  BY <1>15 DEF LeaseExpires, DependenciesSettled, AbsentBlank
<1>16. QED
  BY <1>1, <1>2, <1>3, <1>4, <1>5, <1>6, <1>7, <1>8, <1>9, <1>10, <1>11, <1>12, <1>13,
     <1>14, <1>15, RowCases DEF RowChange, OperatorStep

\* The attempts of a row stay within what the policy and the operators granted.
LEMMA AttemptStep ==
  ASSUME TypeOK, AttemptsBounded, AttemptLeft, AbsentBlank, [Next]_vars
  PROVE  (AttemptsBounded /\ AttemptLeft)'
<1> USE TaskPlaneAssumption DEF TypeOK, RowStates, TaskStates
<1>1. ASSUME UNCHANGED rowVars, NothingStarts
      PROVE  (AttemptsBounded /\ AttemptLeft)'
  BY <1>1 DEF rowVars, AttemptsBounded, AttemptLeft, AbsentBlank
<1>2. ASSUME NEW p \in Processes, NEW S \in SUBSET Tasks, ClaimTasks(p, S)
      PROVE  (AttemptsBounded /\ AttemptLeft)'
  BY <1>2 DEF ClaimTasks, Claimable, Exists, AttemptsBounded, AttemptLeft, AbsentBlank
<1>3. ASSUME NEW p \in Processes, NEW t \in Tasks, HeartbeatTask(p, t)
      PROVE  (AttemptsBounded /\ AttemptLeft)'
  BY <1>3 DEF HeartbeatTask, HoldsLease, AttemptsBounded, AttemptLeft, AbsentBlank
<1>4. ASSUME NEW p \in Processes, NEW t \in Tasks, CompleteTask(p, t)
      PROVE  (AttemptsBounded /\ AttemptLeft)'
  BY <1>4 DEF CompleteTask, Leave, HoldsLease, AttemptsBounded, AttemptLeft, AbsentBlank
<1>5. ASSUME NEW p \in Processes, NEW t \in Tasks, NEW decision \in Decisions,
   FailTask(p, t, decision)
      PROVE  (AttemptsBounded /\ AttemptLeft)'
  BY <1>5 DEF FailTask, FailState, Decisions, Leave, HoldsLease, AttemptsBounded,
     AttemptLeft, AbsentBlank
<1>6. ASSUME NEW p \in Processes, NEW t \in Tasks, NEW now \in BOOLEAN, DeferTask(p, t,
   now)
      PROVE  (AttemptsBounded /\ AttemptLeft)'
  BY <1>6 DEF DeferTask, Leave, HoldsLease, AttemptsBounded, AttemptLeft, AbsentBlank
<1>7. ASSUME NEW t \in Tasks, NEW deps \in SUBSET Tasks, NEW gated \in BOOLEAN, NEW now
   \in BOOLEAN, EnqueueTask(t, deps, gated, now)
      PROVE  (AttemptsBounded /\ AttemptLeft)'
  BY <1>7 DEF EnqueueTask, Exists, AttemptsBounded, AttemptLeft, AbsentBlank
<1>8. ASSUME NEW t \in Tasks, NEW approve \in BOOLEAN, ApproveTask(t, approve)
      PROVE  (AttemptsBounded /\ AttemptLeft)'
  BY <1>8 DEF ApproveTask, Leave, Exists, Terminal, AttemptsBounded, AttemptLeft,
     AbsentBlank
<1>9. ASSUME NEW t \in Tasks, CancelTask(t)
      PROVE  (AttemptsBounded /\ AttemptLeft)'
  BY <1>9 DEF CancelTask, Leave, Exists, Terminal, AttemptsBounded, AttemptLeft,
     AbsentBlank
<1>10. ASSUME NEW t \in Tasks, RetryFailed(t)
      PROVE  (AttemptsBounded /\ AttemptLeft)'
  BY <1>10 DEF RetryFailed, AttemptsBounded, AttemptLeft, AbsentBlank
<1>11. ASSUME NEW t \in Tasks, RetryResolved(t)
      PROVE  (AttemptsBounded /\ AttemptLeft)'
  BY <1>11 DEF RetryResolved, AttemptsBounded, AttemptLeft, AbsentBlank
<1>12. ASSUME NEW S \in SUBSET Tasks, RecoverExpiredLeases(S)
      PROVE  (AttemptsBounded /\ AttemptLeft)'
  BY <1>12 DEF RecoverExpiredLeases, Expired, AttemptsBounded, AttemptLeft, AbsentBlank
<1>13. ASSUME NEW S \in SUBSET Tasks, PruneHistory(S)
      PROVE  (AttemptsBounded /\ AttemptLeft)'
  BY <1>13 DEF PruneHistory, AttemptsBounded, AttemptLeft, AbsentBlank
<1>14. ASSUME NEW t \in Tasks, BecomesDue(t)
      PROVE  (AttemptsBounded /\ AttemptLeft)'
  BY <1>14 DEF BecomesDue, Exists, AttemptsBounded, AttemptLeft, AbsentBlank
<1>15. ASSUME NEW t \in Tasks, LeaseExpires(t)
      PROVE  (AttemptsBounded /\ AttemptLeft)'
  BY <1>15 DEF LeaseExpires, AttemptsBounded, AttemptLeft, AbsentBlank
<1>16. QED
  BY <1>1, <1>2, <1>3, <1>4, <1>5, <1>6, <1>7, <1>8, <1>9, <1>10, <1>11, <1>12, <1>13,
     <1>14, <1>15, RowCases DEF RowChange, OperatorStep

\* A process nobody shares its owner with cannot be overtaken without losing its lease.
LEMMA CurrentStep ==
  ASSUME TypeOK, RowConsistent, CurrentAttempt, [Next]_vars
  PROVE  CurrentAttempt'
<1> USE DEF TypeOK, RowStates, TaskStates
<1>1. ASSUME UNCHANGED rowVars, NothingStarts
      PROVE  CurrentAttempt'
  BY <1>1 DEF rowVars, NothingStarts, CurrentAttempt, SoleOwner, Executing, HoldsLease,
     RowConsistent
<1>2. ASSUME NEW p \in Processes, NEW S \in SUBSET Tasks, ClaimTasks(p, S)
      PROVE  CurrentAttempt'
  BY <1>2, OwnerType DEF ClaimTasks, Claimable, Exists, CurrentAttempt, SoleOwner,
     Executing, HoldsLease, RowConsistent
<1>3. ASSUME NEW p \in Processes, NEW t \in Tasks, HeartbeatTask(p, t)
      PROVE  CurrentAttempt'
  BY <1>3 DEF HeartbeatTask, HoldsLease, procVars, blindVars, CurrentAttempt, SoleOwner, Executing,
     RowConsistent
<1>4. ASSUME NEW p \in Processes, NEW t \in Tasks, CompleteTask(p, t)
      PROVE  CurrentAttempt'
  BY <1>4 DEF CompleteTask, Leave, HoldsLease, Done, CurrentAttempt, SoleOwner,
     Executing, RowConsistent
<1>5. ASSUME NEW p \in Processes, NEW t \in Tasks, NEW decision \in Decisions,
   FailTask(p, t, decision)
      PROVE  CurrentAttempt'
  BY <1>5 DEF FailTask, FailState, Decisions, Leave, HoldsLease, Done, CurrentAttempt,
     SoleOwner, Executing, RowConsistent
<1>6. ASSUME NEW p \in Processes, NEW t \in Tasks, NEW now \in BOOLEAN, DeferTask(p, t,
   now)
      PROVE  CurrentAttempt'
  BY <1>6 DEF DeferTask, Leave, HoldsLease, Done, CurrentAttempt, SoleOwner, Executing,
     RowConsistent
<1>7. ASSUME NEW t \in Tasks, NEW deps \in SUBSET Tasks, NEW gated \in BOOLEAN, NEW now
   \in BOOLEAN, EnqueueTask(t, deps, gated, now)
      PROVE  CurrentAttempt'
  BY <1>7 DEF EnqueueTask, Exists, procVars, blindVars, CurrentAttempt, SoleOwner, Executing,
     HoldsLease, RowConsistent
<1>8. ASSUME NEW t \in Tasks, NEW approve \in BOOLEAN, ApproveTask(t, approve)
      PROVE  CurrentAttempt'
  BY <1>8 DEF ApproveTask, Leave, Exists, Terminal, procVars, blindVars, CurrentAttempt, SoleOwner,
     Executing, HoldsLease, RowConsistent
<1>9. ASSUME NEW t \in Tasks, CancelTask(t)
      PROVE  CurrentAttempt'
  BY <1>9 DEF CancelTask, Leave, Exists, Terminal, procVars, blindVars, CurrentAttempt, SoleOwner,
     Executing, HoldsLease, RowConsistent
<1>10. ASSUME NEW t \in Tasks, RetryFailed(t)
      PROVE  CurrentAttempt'
  BY <1>10 DEF RetryFailed, procVars, blindVars, CurrentAttempt, SoleOwner, Executing, HoldsLease,
     RowConsistent
<1>11. ASSUME NEW t \in Tasks, RetryResolved(t)
      PROVE  CurrentAttempt'
  BY <1>11 DEF RetryResolved, procVars, blindVars, CurrentAttempt, SoleOwner, Executing,
     HoldsLease, RowConsistent
<1>12. ASSUME NEW S \in SUBSET Tasks, RecoverExpiredLeases(S)
      PROVE  CurrentAttempt'
  BY <1>12 DEF RecoverExpiredLeases, Expired, procVars, blindVars, CurrentAttempt, SoleOwner,
     Executing, HoldsLease, RowConsistent
<1>13. ASSUME NEW S \in SUBSET Tasks, PruneHistory(S)
      PROVE  CurrentAttempt'
  BY <1>13 DEF PruneHistory, procVars, blindVars, CurrentAttempt, SoleOwner, Executing, HoldsLease,
     RowConsistent
<1>14. ASSUME NEW t \in Tasks, BecomesDue(t)
      PROVE  CurrentAttempt'
  BY <1>14 DEF BecomesDue, Exists, procVars, blindVars, CurrentAttempt, SoleOwner, Executing,
     HoldsLease, RowConsistent
<1>15. ASSUME NEW t \in Tasks, LeaseExpires(t)
      PROVE  CurrentAttempt'
  BY <1>15 DEF LeaseExpires, procVars, blindVars, CurrentAttempt, SoleOwner, Executing, HoldsLease,
     RowConsistent
<1>16. QED
  BY <1>1, <1>2, <1>3, <1>4, <1>5, <1>6, <1>7, <1>8, <1>9, <1>10, <1>11, <1>12, <1>13,
     <1>14, <1>15, RowCases DEF RowChange, OperatorStep

\* The settlement that takes a row out of running is that of its newest attempt.
LEMMA SettlementStep ==
  ASSUME TypeOK, CurrentAttempt, NEW q \in Processes, NEW u \in Tasks, 
         SoleOwner(q), Executing(q, u), exec'[q][u] = 0, 
         state[u] = "running", state'[u] # "running", [Next]_vars
  PROVE  exec[q][u] = attempts[u]
<1> USE DEF TypeOK, RowStates, TaskStates
<1>1. ASSUME UNCHANGED rowVars, NothingStarts
      PROVE  exec[q][u] = attempts[u]
  BY <1>1 DEF rowVars, NothingStarts, CurrentAttempt, Executing, HoldsLease
<1>2. ASSUME NEW p \in Processes, NEW S \in SUBSET Tasks, ClaimTasks(p, S)
      PROVE  exec[q][u] = attempts[u]
  BY <1>2 DEF ClaimTasks, Claimable, Exists, CurrentAttempt, Executing, HoldsLease
<1>3. ASSUME NEW p \in Processes, NEW t \in Tasks, HeartbeatTask(p, t)
      PROVE  exec[q][u] = attempts[u]
  BY <1>3 DEF HeartbeatTask, HoldsLease, procVars, blindVars, CurrentAttempt, Executing
<1>4. ASSUME NEW p \in Processes, NEW t \in Tasks, CompleteTask(p, t)
      PROVE  exec[q][u] = attempts[u]
  BY <1>4 DEF CompleteTask, Leave, HoldsLease, Done, CurrentAttempt, Executing
<1>5. ASSUME NEW p \in Processes, NEW t \in Tasks, NEW decision \in Decisions,
   FailTask(p, t, decision)
      PROVE  exec[q][u] = attempts[u]
  BY <1>5 DEF FailTask, FailState, Decisions, Leave, HoldsLease, Done, CurrentAttempt,
     Executing
<1>6. ASSUME NEW p \in Processes, NEW t \in Tasks, NEW now \in BOOLEAN, DeferTask(p, t,
   now)
      PROVE  exec[q][u] = attempts[u]
  BY <1>6 DEF DeferTask, Leave, HoldsLease, Done, CurrentAttempt, Executing
<1>7. ASSUME NEW t \in Tasks, NEW deps \in SUBSET Tasks, NEW gated \in BOOLEAN, NEW now
   \in BOOLEAN, EnqueueTask(t, deps, gated, now)
      PROVE  exec[q][u] = attempts[u]
  BY <1>7 DEF EnqueueTask, Exists, procVars, blindVars, CurrentAttempt, Executing, HoldsLease
<1>8. ASSUME NEW t \in Tasks, NEW approve \in BOOLEAN, ApproveTask(t, approve)
      PROVE  exec[q][u] = attempts[u]
  BY <1>8 DEF ApproveTask, Leave, Exists, Terminal, procVars, blindVars, CurrentAttempt, Executing,
     HoldsLease
<1>9. ASSUME NEW t \in Tasks, CancelTask(t)
      PROVE  exec[q][u] = attempts[u]
  BY <1>9 DEF CancelTask, Leave, Exists, Terminal, procVars, blindVars, CurrentAttempt, Executing,
     HoldsLease
<1>10. ASSUME NEW t \in Tasks, RetryFailed(t)
      PROVE  exec[q][u] = attempts[u]
  BY <1>10 DEF RetryFailed, procVars, blindVars, CurrentAttempt, Executing, HoldsLease
<1>11. ASSUME NEW t \in Tasks, RetryResolved(t)
      PROVE  exec[q][u] = attempts[u]
  BY <1>11 DEF RetryResolved, procVars, blindVars, CurrentAttempt, Executing, HoldsLease
<1>12. ASSUME NEW S \in SUBSET Tasks, RecoverExpiredLeases(S)
      PROVE  exec[q][u] = attempts[u]
  BY <1>12 DEF RecoverExpiredLeases, Expired, procVars, blindVars, CurrentAttempt, Executing,
     HoldsLease
<1>13. ASSUME NEW S \in SUBSET Tasks, PruneHistory(S)
      PROVE  exec[q][u] = attempts[u]
  BY <1>13 DEF PruneHistory, procVars, blindVars, CurrentAttempt, Executing, HoldsLease
<1>14. ASSUME NEW t \in Tasks, BecomesDue(t)
      PROVE  exec[q][u] = attempts[u]
  BY <1>14 DEF BecomesDue, Exists, procVars, blindVars, CurrentAttempt, Executing, HoldsLease
<1>15. ASSUME NEW t \in Tasks, LeaseExpires(t)
      PROVE  exec[q][u] = attempts[u]
  BY <1>15 DEF LeaseExpires, procVars, blindVars, CurrentAttempt, Executing, HoldsLease
<1>16. QED
  BY <1>1, <1>2, <1>3, <1>4, <1>5, <1>6, <1>7, <1>8, <1>9, <1>10, <1>11, <1>12, <1>13,
     <1>14, <1>15, RowCases DEF RowChange, OperatorStep

\* A row moves along the table of the trigger, is inserted or is pruned.
LEMMA TransitionStep ==
  ASSUME TypeOK, NEW u \in Tasks, [Next]_vars
  PROVE  LegalMove(u)
<1> USE DEF TypeOK, RowStates, TaskStates
<1>1. ASSUME UNCHANGED rowVars, NothingStarts
      PROVE  LegalMove(u)
  BY <1>1 DEF rowVars, LegalMove, Allowed
<1>2. ASSUME NEW p \in Processes, NEW S \in SUBSET Tasks, ClaimTasks(p, S)
      PROVE  LegalMove(u)
  BY <1>2 DEF ClaimTasks, Claimable, Exists, LegalMove, Allowed
<1>3. ASSUME NEW p \in Processes, NEW t \in Tasks, HeartbeatTask(p, t)
      PROVE  LegalMove(u)
  BY <1>3 DEF HeartbeatTask, HoldsLease, LegalMove, Allowed
<1>4. ASSUME NEW p \in Processes, NEW t \in Tasks, CompleteTask(p, t)
      PROVE  LegalMove(u)
  BY <1>4 DEF CompleteTask, Leave, HoldsLease, LegalMove, Allowed
<1>5. ASSUME NEW p \in Processes, NEW t \in Tasks, NEW decision \in Decisions,
   FailTask(p, t, decision)
      PROVE  LegalMove(u)
  BY <1>5 DEF FailTask, FailState, Decisions, Leave, HoldsLease, LegalMove, Allowed
<1>6. ASSUME NEW p \in Processes, NEW t \in Tasks, NEW now \in BOOLEAN, DeferTask(p, t,
   now)
      PROVE  LegalMove(u)
  BY <1>6 DEF DeferTask, Leave, HoldsLease, LegalMove, Allowed
<1>7. ASSUME NEW t \in Tasks, NEW deps \in SUBSET Tasks, NEW gated \in BOOLEAN, NEW now
   \in BOOLEAN, EnqueueTask(t, deps, gated, now)
      PROVE  LegalMove(u)
  BY <1>7 DEF EnqueueTask, Exists, LegalMove, Allowed
<1>8. ASSUME NEW t \in Tasks, NEW approve \in BOOLEAN, ApproveTask(t, approve)
      PROVE  LegalMove(u)
  BY <1>8 DEF ApproveTask, Leave, Exists, Terminal, LegalMove, Allowed
<1>9. ASSUME NEW t \in Tasks, CancelTask(t)
      PROVE  LegalMove(u)
  BY <1>9 DEF CancelTask, Leave, Exists, Terminal, LegalMove, Allowed
<1>10. ASSUME NEW t \in Tasks, RetryFailed(t)
      PROVE  LegalMove(u)
  BY <1>10 DEF RetryFailed, LegalMove, Allowed
<1>11. ASSUME NEW t \in Tasks, RetryResolved(t)
      PROVE  LegalMove(u)
  BY <1>11 DEF RetryResolved, LegalMove, Allowed
<1>12. ASSUME NEW S \in SUBSET Tasks, RecoverExpiredLeases(S)
      PROVE  LegalMove(u)
  BY <1>12 DEF RecoverExpiredLeases, Expired, LegalMove, Allowed
<1>13. ASSUME NEW S \in SUBSET Tasks, PruneHistory(S)
      PROVE  LegalMove(u)
  BY <1>13 DEF PruneHistory, LegalMove, Allowed
<1>14. ASSUME NEW t \in Tasks, BecomesDue(t)
      PROVE  LegalMove(u)
  BY <1>14 DEF BecomesDue, Exists, LegalMove, Allowed
<1>15. ASSUME NEW t \in Tasks, LeaseExpires(t)
      PROVE  LegalMove(u)
  BY <1>15 DEF LeaseExpires, LegalMove, Allowed
<1>16. QED
  BY <1>1, <1>2, <1>3, <1>4, <1>5, <1>6, <1>7, <1>8, <1>9, <1>10, <1>11, <1>12, <1>13,
     <1>14, <1>15, RowCases DEF RowChange, OperatorStep


----
(* TaskPlane implements LeaseService. *)

\* One row changes its phase with its state.
LEMMA PhaseMove ==
  ASSUME TypeOK, NEW t \in Tasks, NEW s, state' = [state EXCEPT ![t] = s]
  PROVE  Phase' = [Phase EXCEPT ![t] = PhaseOf(s)]
  BY DEF TypeOK, Phase

\* The states a row can still leave are one phase.
LEMMA PhaseOpen ==
  \A s \in {"queued", "running", "waiting", "waiting_for_user", "retrying"} :
    PhaseOf(s) = "open"
  BY DEF PhaseOf

\* Every step of the plane is a step of the lease service or a stuttering one:
\* a claim grants, a failure, a deferral or a recovery returns, a completion, a
\* cancellation or a rejection finishes.
LEMMA LeaseRefinement ==
  ASSUME TypeOK, TypeOK', RowConsistent, [Next]_vars
  PROVE  [Lease!Next]_(Lease!leaseVars)
<1> USE DEF Lease!leaseVars
<1> DEFINE Stutter == UNCHANGED <<Phase, leaseOwner>>
<1>s. ASSUME state' = state, leaseOwner' = leaseOwner
      PROVE  Stutter
  BY <1>s DEF Phase
<1>1. ASSUME UNCHANGED rowVars
      PROVE  Stutter
  BY <1>1, <1>s DEF rowVars
<1>2. ASSUME NEW p \in Processes, NEW S \in SUBSET Tasks, ClaimTasks(p, S)
      PROVE  Lease!Grant(S, Owner(p))
  <2>1. \A t \in S : Phase[t] = "open" /\ leaseOwner[t] = NoOwner
    BY <1>2 DEF ClaimTasks, Claimable, Phase, PhaseOf, RowConsistent, TypeOK
  <2>2. Phase' = Phase
    BY <1>2 DEF ClaimTasks, Claimable, Phase, PhaseOf
  <2>3. QED
    BY <1>2, <2>1, <2>2 DEF ClaimTasks, Lease!Grant
<1>3. ASSUME NEW p \in Processes, NEW t \in Tasks, HeartbeatTask(p, t)
      PROVE  Stutter
  BY <1>3, <1>s DEF HeartbeatTask
<1>4. ASSUME NEW p \in Processes, NEW t \in Tasks, CompleteTask(p, t)
      PROVE  Lease!Finish(t)
  BY <1>4, PhaseMove DEF CompleteTask, Leave, HoldsLease, Lease!Finish, Phase, PhaseOf
<1>5. ASSUME NEW p \in Processes, NEW t \in Tasks, NEW decision \in Decisions,
             FailTask(p, t, decision)
      PROVE  \E D \in SUBSET {t} : Lease!Return({t}, D)
  <2> DEFINE s == FailState(t, decision)
  <2>1. s \in {"waiting_for_user", "retrying", "failed"}
    BY DEF FailState
  <2>2. leaseOwner[t] # NoOwner /\ Phase[t] = "open"
    BY <1>5 DEF FailTask, HoldsLease, RowConsistent, Phase, PhaseOf
  <2>3. Phase' = [Phase EXCEPT ![t] = PhaseOf(s)]
    BY <1>5, PhaseMove DEF FailTask, Leave
  <2>4. leaseOwner' = [i \in Tasks |-> IF i \in {t} THEN NoOwner ELSE leaseOwner[i]]
    BY <1>5 DEF FailTask, Leave, TypeOK
  <2>5. CASE s = "failed"
    <3>1. Phase' = [i \in Tasks |-> IF i \in {t} THEN "dead" ELSE Phase[i]]
      BY <2>3, <2>5 DEF PhaseOf, Phase
    <3>2. QED
      BY <2>2, <2>4, <3>1 DEF Lease!Return
  <2>6. CASE s # "failed"
    <3>1. Phase' = [i \in Tasks |-> IF i \in {} THEN "dead" ELSE Phase[i]]
      BY <2>1, <2>2, <2>3, <2>6 DEF PhaseOf, Phase
    <3>2. \A i \in {t} : leaseOwner[i] # NoOwner
      BY <2>2
    <3>3. Lease!Return({t}, {})
      BY <2>4, <3>1, <3>2 DEF Lease!Return
    <3>4. QED
      BY <3>3
  <2>7. QED
    BY <2>5, <2>6
<1>6. ASSUME NEW p \in Processes, NEW t \in Tasks, NEW now \in BOOLEAN, DeferTask(p, t, now)
      PROVE  Lease!Return({t}, {})
  <2>1. leaseOwner[t] # NoOwner /\ Phase[t] = "open"
    BY <1>6 DEF DeferTask, HoldsLease, RowConsistent, Phase, PhaseOf
  <2>2. Phase' = [Phase EXCEPT ![t] = "open"]
    <3>1. Phase' = [Phase EXCEPT ![t] = PhaseOf("waiting")]
      BY <1>6, PhaseMove DEF DeferTask, Leave
    <3>2. QED
      BY <3>1, PhaseOpen
  <2>3. leaseOwner' = [i \in Tasks |-> IF i \in {t} THEN NoOwner ELSE leaseOwner[i]]
    BY <1>6 DEF DeferTask, Leave, TypeOK
  <2>4. Phase' = [i \in Tasks |-> IF i \in {} THEN "dead" ELSE Phase[i]]
    BY <2>1, <2>2 DEF Phase
  <2>5. QED
    BY <2>1, <2>3, <2>4 DEF Lease!Return
<1>7. ASSUME NEW t \in Tasks, NEW deps \in SUBSET Tasks, NEW gated \in BOOLEAN,
             NEW now \in BOOLEAN, EnqueueTask(t, deps, gated, now)
      PROVE  Lease!Create(t)
  <2>1. Phase' = [Phase EXCEPT ![t] = PhaseOf("queued")]
    BY <1>7, PhaseMove DEF EnqueueTask
  <2>2. Phase[t] = "absent"
    BY <1>7 DEF EnqueueTask, Phase, PhaseOf
  <2>3. QED
    BY <1>7, <2>1, <2>2, PhaseOpen DEF EnqueueTask, Lease!Create
<1>8. ASSUME NEW t \in Tasks, NEW approve \in BOOLEAN, ApproveTask(t, approve)
      PROVE  Stutter \/ Lease!Finish(t)
  <2>1. CASE approve
    BY <1>8, <1>s, <2>1 DEF ApproveTask
  <2>2. CASE ~approve
    BY <1>8, <2>2, PhaseMove
    DEF ApproveTask, Exists, TaskStates, Terminal, Leave, Lease!Finish, Phase, PhaseOf
  <2>3. QED
    BY <2>1, <2>2
<1>9. ASSUME NEW t \in Tasks, CancelTask(t)
      PROVE  Lease!Finish(t)
  BY <1>9, PhaseMove
  DEF CancelTask, Exists, TaskStates, Terminal, Leave, Lease!Finish, Phase, PhaseOf
<1>10. ASSUME NEW t \in Tasks, RetryFailed(t)
       PROVE  Lease!Reopen(t)
  <2>1. Phase' = [Phase EXCEPT ![t] = PhaseOf("queued")]
    BY <1>10, PhaseMove DEF RetryFailed
  <2>2. Phase[t] = "dead"
    BY <1>10 DEF RetryFailed, Phase, PhaseOf
  <2>3. QED
    BY <1>10, <2>1, <2>2, PhaseOpen DEF RetryFailed, Lease!Reopen
<1>11. ASSUME NEW t \in Tasks, RetryResolved(t)
       PROVE  Stutter
  <2>1. Phase' = Phase
    BY <1>11, PhaseMove DEF RetryResolved, Phase, PhaseOf, TypeOK
  <2>2. QED
    BY <1>11, <2>1 DEF RetryResolved
<1>12. ASSUME NEW S \in SUBSET Tasks, RecoverExpiredLeases(S)
       PROVE  \E D \in SUBSET S : Lease!Return(S, D)
  <2> DEFINE D == {t \in S : attempts[t] >= MaxAttempts}
  <2>1. \A t \in S : leaseOwner[t] # NoOwner /\ Phase[t] = "open"
    BY <1>12 DEF RecoverExpiredLeases, Expired, RowConsistent, Phase, PhaseOf
  <2>2. Phase' = [t \in Tasks |-> IF t \in D THEN "dead" ELSE Phase[t]]
    BY <1>12, <2>1 DEF RecoverExpiredLeases, Phase, PhaseOf
  <2>3. Lease!Return(S, D)
    BY <1>12, <2>1, <2>2 DEF RecoverExpiredLeases, Lease!Return
  <2>4. QED
    BY <2>3
<1>13. ASSUME NEW S \in SUBSET Tasks, PruneHistory(S)
       PROVE  Lease!Forget(S)
  <2>1. \A t \in S : Phase[t] = "final"
    BY <1>13 DEF PruneHistory, Phase, PhaseOf
  <2>2. Phase' = [t \in Tasks |-> IF t \in S THEN "gone" ELSE Phase[t]]
    BY <1>13 DEF PruneHistory, Phase, PhaseOf
  <2>3. QED
    BY <1>13, <2>1, <2>2 DEF PruneHistory, Lease!Forget
<1>14. ASSUME NEW t \in Tasks, BecomesDue(t) \/ LeaseExpires(t)
       PROVE  Stutter
  BY <1>14, <1>s DEF BecomesDue, LeaseExpires
<1>15. ASSUME NEW t \in Tasks, Lease!Create(t) \/ Lease!Finish(t) \/ Lease!Reopen(t)
       PROVE  Lease!Next
  BY <1>15 DEF Lease!Next
<1>16. ASSUME NEW S \in SUBSET Tasks, \E D \in SUBSET S : Lease!Return(S, D)
       PROVE  Lease!Next
  BY <1>16 DEF Lease!Next
<1>17. ASSUME NEW S \in SUBSET Tasks, NEW o \in Owners, Lease!Grant(S, o) \/ Lease!Forget(S)
       PROVE  Lease!Next
  BY <1>17 DEF Lease!Next
<1>18. CASE \E p \in Processes, S \in SUBSET Tasks : ClaimTasks(p, S)
  BY <1>2, <1>17, <1>18, OwnerType
<1>19. CASE \E p \in Processes, t \in Tasks :
              \/ HeartbeatTask(p, t) \/ CompleteTask(p, t)
              \/ \E decision \in Decisions : FailTask(p, t, decision)
              \/ \E now \in BOOLEAN : DeferTask(p, t, now)
  <2>1. ASSUME NEW t \in Tasks, \E D \in SUBSET {t} : Lease!Return({t}, D)
        PROVE  Lease!Next
    <3>1. {t} \in SUBSET Tasks
      OBVIOUS
    <3>2. QED
      BY <1>16, <2>1, <3>1
  <2>2. ASSUME NEW p \in Processes, NEW t \in Tasks, NEW now \in BOOLEAN, DeferTask(p, t, now)
        PROVE  Lease!Next
    <3>1. {} \in SUBSET {t}
      OBVIOUS
    <3>2. QED
      BY <1>6, <2>1, <2>2, <3>1
  <2>3. ASSUME NEW p \in Processes, NEW t \in Tasks, NEW decision \in Decisions,
               FailTask(p, t, decision)
        PROVE  Lease!Next
    BY <1>5, <2>1, <2>3
  <2>4. ASSUME NEW p \in Processes, NEW t \in Tasks, CompleteTask(p, t)
        PROVE  Lease!Next
    BY <1>4, <1>15, <2>4
  <2>5. QED
    BY <1>3, <1>19, <2>2, <2>3, <2>4
<1>20. CASE OperatorStep
  BY <1>7, <1>8, <1>9, <1>10, <1>11, <1>15, <1>20 DEF OperatorStep
<1>21. CASE \E S \in SUBSET Tasks : RecoverExpiredLeases(S) \/ PruneHistory(S)
  <2>1. ASSUME NEW S \in SUBSET Tasks, PruneHistory(S)
        PROVE  Lease!Next
    BY <1>13, <2>1 DEF Lease!Next
  <2>2. QED
    BY <1>12, <1>16, <1>21, <2>1
<1>22. QED
  BY <1>1, <1>14, <1>18, <1>19, <1>20, <1>21, RowCases DEF RowChange

----
(* The caps on browser leases. *)

\* The browser tasks leased by claims that were counted, and the executors that
\* POST /claim has let in on a count.
Seen     == RunningBrowser \ unseen
Admitted == {p \in Executors \ uncounted : pc[p] \in {"admitted", "counted"}}

\* Each executor that was let in may take the one task it was let in for.
AdmitInv ==
  Cardinality(Seen) + Cardinality(Admitted) <= MaxBrowser + Cardinality(Executors) - 1

\* What a process that nobody shares its identity with counted is still true: it is
\* the only one that adds to it.
CountedInv ==
  \A p \in Executors :
    SoleOwner(p) => /\ Cardinality(RunningOf(Owner(p))) <= MaxRunning
                    /\ pc[p] = "counted" => Cardinality(RunningOf(Owner(p))) < MaxRunning

CapInv == (Executors # {} => AdmitInv) /\ CountedInv

LEMMA CapsFinite ==
  /\ IsFiniteSet(RunningBrowser) /\ Cardinality(RunningBrowser) \in Nat
  /\ IsFiniteSet(Seen) /\ Cardinality(Seen) \in Nat
  /\ Cardinality(Seen) <= Cardinality(RunningBrowser)
  /\ IsFiniteSet(Admitted) /\ Cardinality(Admitted) \in Nat
  /\ Cardinality(Admitted) <= Cardinality(Executors) /\ Cardinality(Executors) \in Nat
  /\ \A o : IsFiniteSet(RunningOf(o)) /\ Cardinality(RunningOf(o)) \in Nat
<1>1. /\ RunningBrowser \in SUBSET Tasks /\ Admitted \in SUBSET Executors
      /\ Seen \in SUBSET RunningBrowser
  BY TaskPlaneAssumption DEF RunningBrowser, Admitted, Seen
<1>2. \A o : RunningOf(o) \in SUBSET Tasks
  BY DEF RunningOf
<1>3. QED
  BY <1>1, <1>2, TaskPlaneAssumption, FS_Subset, FS_CardinalityType

\* A claim of one task adds at most one to a set of running tasks.
LEMMA OneMore ==
  ASSUME NEW R, NEW Q, IsFiniteSet(R), NEW S \in SUBSET Tasks, Cardinality(S) <= 1,
         Q \subseteq R \cup S
  PROVE  Cardinality(Q) <= Cardinality(R) + 1
<1>1. IsFiniteSet(S) /\ Cardinality(S) \in Nat
  BY TaskPlaneAssumption, FS_Subset, FS_CardinalityType
<1>2. IsFiniteSet(R \cup S) /\ Cardinality(R \cup S) <= Cardinality(R) + Cardinality(S)
  <2>1. /\ IsFiniteSet(R \cup S) /\ IsFiniteSet(R \cap S)
        /\ Cardinality(R \cup S) = Cardinality(R) + Cardinality(S) - Cardinality(R \cap S)
    BY <1>1, FS_Union, FS_Intersection
  <2>2. QED
    BY <1>1, <2>1, FS_CardinalityType
<1>3. IsFiniteSet(Q) /\ Cardinality(Q) <= Cardinality(R \cup S)
  BY <1>2, FS_Subset
<1>4. QED
  BY <1>1, <1>2, <1>3, FS_CardinalityType

\* What leaves nothing running that was not running for the same owner.
NoneStarted ==
  /\ unseen' = unseen
  /\ \A t \in Tasks :
       state'[t] = "running" => state[t] = "running" /\ leaseOwner'[t] = leaseOwner[t]

NoneAdmitted ==
  \A p \in Executors :
    /\ pc'[p] \in {pc[p], "idle"}
    /\ p \in uncounted \ uncounted' => pc'[p] = "idle"

\* Only claims start tasks, and only POST /claim lets an executor in.
LEMMA CapCases ==
  ASSUME TypeOK, [Next]_vars
  PROVE  \/ NoneStarted /\ NoneAdmitted
         \/ \E p \in Ticks, S \in SUBSET Tasks : TickClaim(p, S)
         \/ \E p \in Executors : \/ ClaimAdmit(p) \/ ClaimCount(p)
                                \/ \E S \in SUBSET BrowserTasks : ClaimBrowser(p, S)
<1> USE DEF TypeOK, NoneStarted, NoneAdmitted
<1>1. CASE UNCHANGED vars
  BY <1>1 DEF vars
<1>2. ASSUME NEW p \in Ticks, TickStart(p) \/ TickEnd(p) PROVE NoneStarted /\ NoneAdmitted
  BY <1>2, TaskPlaneAssumption DEF TickStart, TickEnd, rowVars, blindVars, Processes
<1>3. ASSUME NEW p \in Executors, NEW t \in Tasks, HeartbeatTask(p, t)
      PROVE  NoneStarted /\ NoneAdmitted
  BY <1>3 DEF HeartbeatTask, procVars, blindVars
<1>4. ASSUME NEW p \in Processes, Crash(p) PROVE NoneStarted /\ NoneAdmitted
  BY <1>4 DEF Crash, rowVars
<1>5. ASSUME NEW p \in Processes, NEW t \in Tasks, Settle(p, t) PROVE NoneStarted /\ NoneAdmitted
  <2>1. CASE CompleteTask(p, t)
    BY <2>1 DEF CompleteTask, Leave, blindVars
  <2>2. ASSUME NEW decision \in Decisions, FailTask(p, t, decision)
        PROVE  NoneStarted /\ NoneAdmitted
    BY <2>2 DEF FailTask, FailState, Leave, blindVars
  <2>3. ASSUME NEW now \in BOOLEAN, DeferTask(p, t, now) PROVE NoneStarted /\ NoneAdmitted
    BY <2>3 DEF DeferTask, Leave, blindVars
  <2>4. CASE SettleLost(p, t)
    BY <2>4 DEF SettleLost, rowVars, blindVars
  <2>5. QED
    BY <1>5, <2>1, <2>2, <2>3, <2>4 DEF Settle
<1>6. CASE OperatorStep
  BY <1>6 DEF OperatorStep, EnqueueTask, ApproveTask, CancelTask, RetryFailed, RetryResolved,
              Leave, procVars, blindVars
<1>7. ASSUME NEW S \in SUBSET Tasks, RecoverExpiredLeases(S) \/ PruneHistory(S)
      PROVE  NoneStarted /\ NoneAdmitted
  <2>1. CASE RecoverExpiredLeases(S)
    BY <2>1 DEF RecoverExpiredLeases, procVars, blindVars
  <2>2. CASE PruneHistory(S)
    BY <2>2 DEF PruneHistory, procVars, blindVars
  <2>3. QED
    BY <1>7, <2>1, <2>2
<1>8. ASSUME NEW t \in Tasks, BecomesDue(t) \/ LeaseExpires(t) PROVE NoneStarted /\ NoneAdmitted
  BY <1>8 DEF BecomesDue, LeaseExpires, procVars, blindVars
<1>9. QED
  BY <1>1, <1>2, <1>3, <1>4, <1>5, <1>6, <1>7, <1>8
  DEF Next, TickStep, ExecutorStep, Recover

\* A step that starts nothing and lets nobody in keeps the caps.
LEMMA QuietKeepsCaps ==
  ASSUME CapInv, NoneAdmitted,
         Seen' \subseteq Seen,
         \A p \in Executors : RunningOf(Owner(p))' \subseteq RunningOf(Owner(p))
  PROVE  CapInv'
<1>1. Admitted' \subseteq Admitted
  BY DEF Admitted, NoneAdmitted
<1>2. Cardinality(Admitted') <= Cardinality(Admitted)
  BY <1>1, CapsFinite, FS_Subset
<1>3. Cardinality(Seen') <= Cardinality(Seen)
  BY CapsFinite, FS_Subset
<1>4. Cardinality(Admitted') \in Nat /\ Cardinality(Seen') \in Nat
  BY CapsFinite, <1>1, FS_Subset, FS_CardinalityType
<1>5. (Executors # {} => AdmitInv)'
  BY <1>2, <1>3, <1>4, CapsFinite, TaskPlaneAssumption DEF CapInv, AdmitInv
<1>6. ASSUME NEW p \in Executors
      PROVE  /\ Cardinality(RunningOf(Owner(p))') <= Cardinality(RunningOf(Owner(p)))
             /\ Cardinality(RunningOf(Owner(p))') \in Nat
  BY <1>6, CapsFinite, FS_Subset, FS_CardinalityType
<1>7. MaxRunning \in Nat
  BY TaskPlaneAssumption DEF MaxRunning
<1>8. CountedInv'
  BY <1>6, <1>7, CapsFinite DEF CapInv, CountedInv, NoneAdmitted, SoleOwner
<1>9. QED
  BY <1>5, <1>8 DEF CapInv
\* A claim takes what it leases, for its owner.
LEMMA Claimed ==
  ASSUME TypeOK, NEW p \in Processes, NEW S \in SUBSET Tasks, ClaimTasks(p, S)
  PROVE  /\ RunningBrowser' \subseteq RunningBrowser \cup S
         /\ S \cap BrowserTasks = {} => RunningBrowser' \subseteq RunningBrowser
         /\ RunningOf(Owner(p))' \subseteq RunningOf(Owner(p)) \cup S
         /\ \A o : o # Owner(p) => RunningOf(o)' \subseteq RunningOf(o)
  BY TaskPlaneAssumption DEF TypeOK, ClaimTasks, RunningBrowser, RunningOf

LEMMA CapStep ==
  ASSUME TypeOK, CapInv, [Next]_vars
  PROVE  CapInv'
<1> USE DEF TypeOK
<1>a. MaxRunning \in Nat \ {0} /\ MaxBrowser \in Nat \ {0}
  BY TaskPlaneAssumption DEF MaxRunning
<1>b. Executors \subseteq Processes /\ Ticks \subseteq Processes
  BY DEF Processes
<1>1. CASE NoneStarted /\ NoneAdmitted
  <2>1. Seen' \subseteq Seen
    BY <1>1, TaskPlaneAssumption DEF NoneStarted, RunningBrowser, Seen
  <2>2. \A o : RunningOf(o)' \subseteq RunningOf(o)
    BY <1>1 DEF NoneStarted, RunningOf
  <2>3. QED
    BY <1>1, <2>1, <2>2, QuietKeepsCaps
<1>2. ASSUME NEW p \in Ticks, NEW S \in SUBSET Tasks, TickClaim(p, S) PROVE CapInv'
  <2>1. ClaimTasks(p, S) /\ S \cap BrowserTasks = {} /\ NoneAdmitted /\ unseen' = unseen
    BY <1>2 DEF TickClaim, NoneAdmitted, blindVars
  <2>2. \A q \in Executors : Owner(q) # Owner(p)
    BY TaskPlaneAssumption DEF Owner
  <2>3. Seen' \subseteq Seen
    BY <1>b, <2>1, Claimed DEF Seen
  <2>4. QED
    BY <1>b, <2>1, <2>2, <2>3, Claimed, QuietKeepsCaps
<1>3. ASSUME NEW p \in Executors, ClaimAdmit(p) PROVE CapInv'
  <2>1. Seen' = Seen /\ \A o : RunningOf(o)' = RunningOf(o)
    BY <1>3 DEF ClaimAdmit, rowVars, RunningBrowser, RunningOf, Seen
  <2>2. ASSUME Cardinality(RunningBrowser) < MaxBrowser PROVE AdmitInv'
    <3>1. Admitted' \in SUBSET Executors
      BY DEF Admitted
    <3>2. Cardinality(Admitted') <= Cardinality(Executors) /\ Cardinality(Admitted') \in Nat
      BY <3>1, TaskPlaneAssumption, FS_Subset, FS_CardinalityType
    <3>3. QED
      BY <1>a, <2>1, <2>2, <3>2, CapsFinite DEF AdmitInv
  <2>3. ASSUME uncounted' = uncounted \cup {p} PROVE AdmitInv'
    <3>1. Admitted' \subseteq Admitted
      BY <1>3, <1>b, <2>3 DEF ClaimAdmit, Admitted
    <3>2. Cardinality(Admitted') <= Cardinality(Admitted) /\ Cardinality(Admitted') \in Nat
      BY <3>1, CapsFinite, FS_Subset, FS_CardinalityType
    <3>3. QED
      BY <1>a, <2>1, <3>2, CapsFinite DEF CapInv, AdmitInv
  <2>4. AdmitInv'
    BY <1>3, <2>2, <2>3 DEF ClaimAdmit
  <2>5. \A q \in Executors : pc'[q] = "counted" => pc[q] = "counted"
    BY <1>3, <1>b DEF ClaimAdmit
  <2>6. CountedInv'
    BY <2>1, <2>5 DEF CapInv, CountedInv, SoleOwner
  <2>7. QED
    BY <2>4, <2>6 DEF CapInv
<1>4. ASSUME NEW p \in Executors, ClaimCount(p) PROVE CapInv'
  <2>1. Seen' = Seen /\ \A o : RunningOf(o)' = RunningOf(o)
    BY <1>4 DEF ClaimCount, rowVars, RunningBrowser, RunningOf, Seen
  <2>2. Admitted' \subseteq Admitted
    BY <1>4, <1>b DEF ClaimCount, Admitted
  <2>3. Cardinality(Admitted') <= Cardinality(Admitted) /\ Cardinality(Admitted') \in Nat
    BY <2>2, CapsFinite, FS_Subset, FS_CardinalityType
  <2>4. (Executors # {} => AdmitInv)'
    BY <1>a, <2>1, <2>3, CapsFinite DEF CapInv, AdmitInv
  <2>5. \A q \in Executors : pc'[q] = "counted" =>
                            pc[q] = "counted" \/ Cardinality(RunningOf(Owner(q))) < MaxRunning
    BY <1>4, <1>b DEF ClaimCount
  <2>6. CountedInv'
    BY <2>1, <2>5 DEF CapInv, CountedInv, SoleOwner
  <2>7. QED
    BY <2>4, <2>6 DEF CapInv
<1>5. ASSUME NEW p \in Executors, NEW S \in SUBSET BrowserTasks, ClaimBrowser(p, S) PROVE CapInv'
  <2>1. /\ pc[p] = "counted" /\ Cardinality(S) <= 1 /\ ClaimTasks(p, S) /\ S \in SUBSET Tasks
        /\ pc' = [pc EXCEPT ![p] = "idle"]
        /\ unseen' = IF p \in uncounted THEN unseen \cup S ELSE unseen \ S
        /\ uncounted' = uncounted \ {p}
    BY <1>5, TaskPlaneAssumption DEF ClaimBrowser, ClaimEnds
  <2>2. /\ Cardinality(Seen') \in Nat /\ IsFiniteSet(Seen')
        /\ Cardinality(Admitted') \in Nat
    <3>1. Seen' \in SUBSET Tasks /\ Admitted' \in SUBSET Executors
      BY TaskPlaneAssumption DEF RunningBrowser, Seen, Admitted
    <3>2. QED
      BY <3>1, TaskPlaneAssumption, FS_Subset, FS_CardinalityType
  <2>3. ASSUME p \in uncounted PROVE AdmitInv'
    <3>1. Seen' \subseteq Seen
      BY <1>b, <2>1, <2>3, Claimed DEF Seen
    <3>2. Admitted' \subseteq Admitted
      BY <1>b, <2>1, <2>3 DEF Admitted
    <3>3. /\ Cardinality(Seen') <= Cardinality(Seen)
          /\ Cardinality(Admitted') <= Cardinality(Admitted)
      BY <3>1, <3>2, CapsFinite, FS_Subset
    <3>4. QED
      BY <1>a, <2>2, <3>3, CapsFinite DEF CapInv, AdmitInv
  <2>4. ASSUME p \notin uncounted PROVE AdmitInv'
    <3>1. Seen' \subseteq Seen \cup S
      BY <1>b, <2>1, <2>4, Claimed DEF Seen
    <3>2. Cardinality(Seen') <= Cardinality(Seen) + 1
      BY <2>1, <3>1, CapsFinite, OneMore
    <3>3. Admitted' = Admitted \ {p} /\ p \in Admitted
      BY <1>b, <2>1, <2>4 DEF Admitted
    <3>4. Cardinality(Admitted') = Cardinality(Admitted) - 1
      BY <3>3, CapsFinite, FS_RemoveElement
    <3>5. QED
      BY <1>a, <2>2, <3>2, <3>4, CapsFinite DEF CapInv, AdmitInv
  <2>5. AdmitInv'
    BY <2>3, <2>4
  <2>6. ASSUME NEW q \in Executors, SoleOwner(q)
        PROVE  /\ Cardinality(RunningOf(Owner(q))') <= MaxRunning
               /\ pc'[q] = "counted" => Cardinality(RunningOf(Owner(q))') < MaxRunning
    <3>1. CASE q = p
      <4>1. Cardinality(RunningOf(Owner(p))') <= Cardinality(RunningOf(Owner(p))) + 1
        BY <1>b, <2>1, Claimed, CapsFinite, OneMore
      <4>2. Cardinality(RunningOf(Owner(p))) < MaxRunning
        BY <2>1, <2>6, <3>1 DEF CapInv, CountedInv
      <4>3. RunningOf(Owner(p))' \in SUBSET Tasks
        BY DEF RunningOf
      <4>4. Cardinality(RunningOf(Owner(p))') \in Nat
        BY <4>3, TaskPlaneAssumption, FS_Subset, FS_CardinalityType
      <4>5. pc'[p] = "idle"
        BY <1>b, <2>1
      <4>6. QED
        BY <1>a, <3>1, <4>1, <4>2, <4>4, <4>5, CapsFinite
    <3>2. CASE q # p
      <4>1. Owner(q) # Owner(p)
        BY <1>b, <2>6, <3>2 DEF SoleOwner
      <4>2. RunningOf(Owner(q))' \subseteq RunningOf(Owner(q))
        BY <1>b, <2>1, <4>1, Claimed
      <4>3. /\ Cardinality(RunningOf(Owner(q))') <= Cardinality(RunningOf(Owner(q)))
            /\ Cardinality(RunningOf(Owner(q))') \in Nat
        BY <4>2, CapsFinite, FS_Subset, FS_CardinalityType
      <4>4. pc'[q] = pc[q]
        BY <1>b, <2>1, <3>2
      <4>5. QED
        BY <1>a, <2>6, <4>3, <4>4, CapsFinite DEF CapInv, CountedInv
    <3>3. QED
      BY <3>1, <3>2
  <2>7. CountedInv'
    BY <2>6 DEF CountedInv, SoleOwner
  <2>8. QED
    BY <2>5, <2>7 DEF CapInv
<1>6. QED
  BY <1>1, <1>2, <1>3, <1>4, <1>5, CapCases

LEMMA CapInitially == Init => CapInv
<1> SUFFICES ASSUME Init PROVE CapInv
  OBVIOUS
<1>1. Seen = {} /\ Admitted = {} /\ \A o : RunningOf(o) = {}
  BY TaskPlaneAssumption DEF Init, RunningBrowser, Seen, Admitted, RunningOf, Processes
<1>2. Cardinality({}) = 0
  BY FS_EmptySet
<1>3. Executors # {} => AdmitInv
  <2>1. Executors # {} => Cardinality(Executors) >= 1
    BY TaskPlaneAssumption, FS_EmptySet, CapsFinite
  <2>2. QED
    BY <1>1, <1>2, <2>1, CapsFinite, TaskPlaneAssumption DEF AdmitInv
<1>4. CountedInv
  BY <1>1, <1>2, TaskPlaneAssumption DEF CountedInv, MaxRunning
<1>5. QED
  BY <1>3, <1>4 DEF CapInv

----
(* The theorems. *)

\* The inductive invariant holds in every state.
THEOREM Invariance == Spec => []IInv
<1>1. Init => IInv
  BY TaskPlaneAssumption
  DEF Init, IInv, TypeOK, RowStates, TaskStates, Owners, Processes, RowConsistent,
      ApprovalGate, DependenciesSettled, AttemptsBounded, AttemptLeft, AbsentBlank,
      CurrentAttempt, Executing
<1>2. IInv /\ [Next]_vars => IInv'
  BY TypeStep, RowStep, ApprovalStep, DependencyStep, AttemptStep, CurrentStep DEF IInv
<1>3. QED
  BY <1>1, <1>2, PTL DEF Spec

\* Leases, dead-letter marks and intervention requests agree with the row states.
THEOREM RowsConsistent == Spec => []RowConsistent
  BY Invariance, PTL DEF IInv

\* Nothing that needs an approval starts without it.
THEOREM ApprovalRespected == Spec => []ApprovalGate
  BY Invariance, PTL DEF IInv

\* Nothing starts before what it depends on has finished, and nothing that
\* finished goes back into work behind its dependents.
THEOREM DependenciesRespected == Spec => []DependenciesSettled
  BY Invariance, PTL DEF IInv

\* Attempts beyond the retry policy are paid for by operators.
THEOREM AttemptsAreBounded == Spec => []AttemptsBounded
  BY Invariance, PTL DEF IInv

\* An overtaken process cannot end the attempt of the process that overtook it.
THEOREM SettlementsAreCurrent == Spec => NoStaleSettlement
<1>1. IInv /\ [Next]_vars =>
        [\A p \in Processes, t \in Tasks :
           /\ SoleOwner(p) /\ Executing(p, t) /\ exec'[p][t] = 0
           /\ state[t] = "running" /\ state'[t] # "running"
           => exec[p][t] = attempts[t]]_vars
  BY SettlementStep DEF IInv
<1>2. QED
  BY <1>1, Invariance, PTL DEF Spec, NoStaleSettlement

\* No RPC asks the trigger for a transition it refuses.
THEOREM TransitionsAreLegal == Spec => TransitionsLegal
<1>1. IInv /\ [Next]_vars => [\A t \in Tasks : LegalMove(t)]_vars
  BY TransitionStep DEF IInv
<1>2. QED
  BY <1>1, Invariance, PTL DEF Spec, TransitionsLegal

\* The task plane implements the lease service.
THEOREM PlaneImplementsLease == Spec => ImplementsLease
<1>1. Init => Lease!Init
  BY DEF Init, Lease!Init, Phase, PhaseOf
<1>2. IInv /\ IInv' /\ [Next]_vars => [Lease!Next]_(Lease!leaseVars)
  BY LeaseRefinement DEF IInv
<1>3. QED
  BY <1>1, <1>2, Invariance, PTL DEF Spec, ImplementsLease, Lease!Spec

LEMMA CapsHold == Spec => []CapInv
  BY CapInitially, CapStep, TypeCorrect, PTL DEF Spec

\* Each executor that was let in before the cap was reached overshoots the global cap
\* on browser leases by at most one task; the leases of claims whose count failed are
\* not among those it speaks of.
THEOREM OvershootIsBounded == Spec => []OvershootBounded
<1>1. CapInv => OvershootBounded
  BY CapsFinite, TaskPlaneAssumption DEF CapInv, AdmitInv, OvershootBounded, Seen
<1>2. QED
  BY <1>1, CapsHold, PTL

\* An identity that one process uses stays within its own cap.
THEOREM IdentitiesCapped == Spec => []IdentityCap
<1>1. CapInv => IdentityCap
  BY DEF CapInv, CountedInv, IdentityCap
<1>2. QED
  BY <1>1, CapsHold, PTL

----
(* What the lease service promises, and so the plane. *)

LeaseInv ==
  /\ Phase \in [Tasks -> Lease!Phases] /\ leaseOwner \in [Tasks -> Owners \cup {NoOwner}]
  /\ Lease!HeldIsOpen

\* Every operation of the lease service, on the phases and owners of the tasks.
LEMMA LeaseSteps ==
  ASSUME LeaseInv, [Lease!Next]_(Lease!leaseVars)
  PROVE  /\ LeaseInv'
         /\ \A t \in Tasks : leaseOwner[t] # NoOwner => leaseOwner'[t] \in {leaseOwner[t], NoOwner}
         /\ \A t \in Tasks :
              Phase[t] \in {"final", "gone"} =>
                Phase'[t] \in {Phase[t], "gone"} /\ leaseOwner'[t] = NoOwner
<1> DEFINE phase == Phase
           Good ==
             /\ phase' \in [Tasks -> Lease!Phases] /\ leaseOwner' \in [Tasks -> Owners \cup {NoOwner}]
             /\ \A t \in Tasks : leaseOwner'[t] # NoOwner => phase'[t] = "open"
             /\ \A t \in Tasks : leaseOwner[t] # NoOwner => leaseOwner'[t] \in {leaseOwner[t], NoOwner}
             /\ \A t \in Tasks :
                  phase[t] \in {"final", "gone"} =>
                    phase'[t] \in {phase[t], "gone"} /\ leaseOwner'[t] = NoOwner
<1>0. /\ phase \in [Tasks -> Lease!Phases] /\ leaseOwner \in [Tasks -> Owners \cup {NoOwner}]
      /\ \A t \in Tasks : leaseOwner[t] # NoOwner => phase[t] = "open"
  BY DEF LeaseInv, Lease!HeldIsOpen
<1> SUFFICES Good
  BY DEF LeaseInv, Lease!HeldIsOpen
<1> HIDE DEF phase
<1> USE DEF Lease!Phases
<1>1. ASSUME NEW t \in Tasks, Lease!Create(t) \/ Lease!Finish(t) \/ Lease!Reopen(t) PROVE Good
  BY <1>0, <1>1 DEF Lease!Create, Lease!Finish, Lease!Reopen, phase
<1>2. ASSUME NEW S \in SUBSET Tasks, Lease!Forget(S) PROVE Good
  BY <1>0, <1>2 DEF Lease!Forget, phase
<1>3. ASSUME NEW S \in SUBSET Tasks, NEW o \in Owners, Lease!Grant(S, o) PROVE Good
  BY <1>0, <1>3 DEF Lease!Grant, phase
<1>4. ASSUME NEW S \in SUBSET Tasks, NEW D \in SUBSET S, Lease!Return(S, D) PROVE Good
  BY <1>0, <1>4 DEF Lease!Return, phase
<1>5. CASE UNCHANGED Lease!leaseVars
  BY <1>0, <1>5 DEF Lease!leaseVars, phase
<1>6. QED
  BY <1>1, <1>2, <1>3, <1>4, <1>5 DEF Lease!Next

\* A task is leased to one owner at a time, which gives it up before the next one gets it, and
\* a task that has ended stays ended (claim_tasks, recover_expired_leases): the plane
\* inherits both from the lease service, whose steps are the only ones it takes.
THEOREM OneOwnerAtATime ==
  Spec => []Lease!HeldIsOpen /\ Lease!NoTakeover /\ Lease!FinishedForGood
<1>1. Lease!Init => LeaseInv
  BY DEF Lease!Init, LeaseInv, Lease!HeldIsOpen, Lease!Phases
<1>2. LeaseInv /\ [Lease!Next]_(Lease!leaseVars) => LeaseInv'
  BY LeaseSteps
<1>3. LeaseInv /\ [Lease!Next]_(Lease!leaseVars) =>
        /\ [\A i \in Tasks : leaseOwner[i] # NoOwner
              => leaseOwner'[i] \in {leaseOwner[i], NoOwner}]_(Lease!leaseVars)
        /\ [\A i \in Tasks :
              Phase[i] \in {"final", "gone"} =>
                Phase'[i] \in {Phase[i], "gone"} /\ leaseOwner'[i] = NoOwner]_(Lease!leaseVars)
  BY LeaseSteps
<1>4. LeaseInv => Lease!HeldIsOpen
  BY DEF LeaseInv
<1>5. Spec => [][Lease!Next]_(Lease!leaseVars) /\ Lease!Init
  BY PlaneImplementsLease, PTL DEF ImplementsLease, Lease!Spec
<1>6. Spec => []LeaseInv
  BY <1>1, <1>2, <1>5, PTL
<1>7. Spec => Lease!NoTakeover
  BY <1>3, <1>5, <1>6, PTL DEF Lease!NoTakeover
<1>8. Spec => Lease!FinishedForGood
  BY <1>3, <1>5, <1>6, PTL DEF Lease!FinishedForGood
<1>9. QED
  BY <1>4, <1>6, <1>7, <1>8, PTL
====
