---- MODULE ServicesProofs ----
(***************************************************************************)
(* The last of the services, the schedules, and all of them together.      *)
(*                                                                         *)
(* An occurrence becomes one task and one draft, for any hands, any        *)
(* definitions of the schedule, any number of occurrences and any time.    *)
(* Two unique keys do it, of the task and of the copy.  The invariant says *)
(* what they rest on: a run works on a task that was materialized, and so  *)
(* a copy is of such a task, whose occurrence does not change any more.    *)
(* Whatever a schedule's hands do to a task is a step of the lease service.*)
(*                                                                         *)
(* The services side by side (MCServices) keep what each of them keeps by  *)
(* itself: a step is a step of one of them, within its own specification,  *)
(* and leaves the variables of the others alone.                           *)
(***************************************************************************)
EXTENDS MCServices, StorageProofs, ContactProofs, WebhookLedgerProofs, SequenceTheorems

Made(i) == phase[i] # "absent"

CopyRows == [task : Occurrences, variants : BOOLEAN]

PlaneTyped(p, o) ==
  /\ p \in [Occurrences -> Plane!Phases]
  /\ o \in [Occurrences -> Hands \cup {NoHand}]

TablesTyped ==
  /\ PlaneTyped(phase, holder)
  /\ DOMAIN origin = Occurrences
  /\ copies \in Seq(CopyRows)
  /\ DOMAIN hand = Hands

\* The task of a run.
RunOk(w) == w.at \in RecurSteps => w \in [at : RecurSteps, task : Occurrences] /\ Made(w.task)

RunsOfTasks ==
  /\ \A h \in Hands : RunOk(hand[h])
  /\ \A i \in Occurrences : holder[i] # NoHand => Made(i)

OriginsOnce == \A i, k \in Occurrences : Made(i) /\ Made(k) /\ origin[i] = origin[k] => i = k

CopiesOnce ==
  /\ \A c \in DOMAIN copies : Made(copies[c].task)
  /\ \A c, d \in DOMAIN copies : copies[c].task = copies[d].task => c = d

SchedulesInv == TablesTyped /\ RunsOfTasks /\ OriginsOnce /\ CopiesOnce

----
LEMMA CopyTasks ==
  ASSUME SchedulesInv
  PROVE  \A c \in DOMAIN copies : copies[c] \in CopyRows /\ copies[c].task \in Occurrences
<1> TAKE c \in DOMAIN copies
<1>1. copies \in Seq(CopyRows) /\ c \in 1..Len(copies)
  BY DEF SchedulesInv, TablesTyped
<1>2. copies[c] \in CopyRows
  BY <1>1
<1>3. QED
  BY <1>2 DEF CopyRows

\* A step that makes no task and leaves the copies as they are.
LEMMA Keeps ==
  ASSUME SchedulesInv, PlaneTyped(phase', holder'),
         \A i \in Occurrences : (Made(i)' <=> Made(i)) /\ (holder'[i] # NoHand => Made(i)),
         DOMAIN hand' = Hands, \A h \in Hands : RunOk(hand'[h]),
         UNCHANGED <<origin, copies>>
  PROVE  SchedulesInv'
<1>1. TablesTyped'
  BY DEF SchedulesInv, TablesTyped, PlaneTyped
<1>2. RunsOfTasks'
  <2>1. \A h \in Hands : RunOk(hand[h])'
    BY DEF RunOk
  <2>2. QED
    BY <2>1 DEF RunsOfTasks
<1>3. OriginsOnce'
  BY DEF SchedulesInv, OriginsOnce
<1>4. CopiesOnce'
  BY CopyTasks DEF SchedulesInv, CopiesOnce
<1>5. QED
  BY <1>1, <1>2, <1>3, <1>4 DEF SchedulesInv

\* The same, when the plane does not move: a hand goes on, with a task if it goes on with one.
LEMMA HandMoves ==
  ASSUME SchedulesInv, NEW h \in Hands, NEW w, RunOk(w),
         hand' = [hand EXCEPT ![h] = w], UNCHANGED <<phase, holder, origin, copies>>
  PROVE  SchedulesInv'
<1>1. DOMAIN hand' = Hands /\ \A k \in Hands : hand'[k] = IF k = h THEN w ELSE hand[k]
  BY DEF SchedulesInv, TablesTyped
<1>2. \A k \in Hands : RunOk(hand'[k])
  BY <1>1 DEF SchedulesInv, RunsOfTasks
<1>3. \A i \in Occurrences : (Made(i)' <=> Made(i)) /\ (holder'[i] # NoHand => Made(i))
  BY DEF SchedulesInv, RunsOfTasks, Made
<1>4. PlaneTyped(phase', holder')
  BY DEF SchedulesInv, TablesTyped
<1>5. QED
  BY <1>1, <1>2, <1>3, <1>4, Keeps

\* A hand that is idle, or of a tick or a request, has no task.
LEMMA NoRun == RunOk(IdleHand)
BY DEF RunOk, IdleHand, RecurSteps

\* A run goes on with its task.
LEMMA RunMoves ==
  ASSUME SchedulesInv, NEW h \in Hands, hand[h].at \in RecurSteps, NEW s \in RecurSteps
  PROVE  /\ hand[h].task \in Occurrences /\ Made(hand[h].task)
         /\ RunOk([hand[h] EXCEPT !.at = s])
BY DEF SchedulesInv, RunsOfTasks, RunOk

\* No operation of the plane that is used after Create makes a task.
LEMMA PlaneSteps ==
  ASSUME SchedulesInv, NEW i \in Occurrences,
         \/ \E D \in {{}, {i}} : Plane!Return({i}, D)
         \/ Plane!Finish(i)
         \/ Plane!Reopen(i)
         \/ \E h \in Hands : Plane!Grant({i}, h)
         \/ UNCHANGED planeVars
  PROVE  /\ PlaneTyped(phase', holder')
         /\ \A k \in Occurrences : (Made(k)' <=> Made(k)) /\ (holder'[k] # NoHand => Made(k))
<1> USE DEF SchedulesInv, TablesTyped, RunsOfTasks, PlaneTyped, Made, Plane!Phases
<1>1. ASSUME NEW D \in {{}, {i}}, Plane!Return({i}, D)
      PROVE  /\ PlaneTyped(phase', holder')
             /\ \A k \in Occurrences : (Made(k)' <=> Made(k)) /\ (holder'[k] # NoHand => Made(k))
  BY <1>1 DEF Plane!Return
<1>2. CASE Plane!Finish(i)
  BY <1>2 DEF Plane!Finish
<1>3. CASE Plane!Reopen(i)
  BY <1>3 DEF Plane!Reopen
<1>4. ASSUME NEW h \in Hands, Plane!Grant({i}, h)
      PROVE  /\ PlaneTyped(phase', holder')
             /\ \A k \in Occurrences : (Made(k)' <=> Made(k)) /\ (holder'[k] # NoHand => Made(k))
  BY <1>4 DEF Plane!Grant
<1>5. CASE UNCHANGED planeVars
  BY <1>5 DEF planeVars
<1>6. QED
  BY <1>1, <1>2, <1>3, <1>4, <1>5

----
\* The steps.

LEMMA InitHolds ==
  ASSUME SchedulesInit PROVE SchedulesInv
<1> USE DEF SchedulesInit, Plane!Init, Plane!Phases
<1>1. TablesTyped
  BY DEF TablesTyped, PlaneTyped
<1>2. RunsOfTasks
  BY NoRun DEF RunsOfTasks
<1>3. OriginsOnce /\ CopiesOnce
  BY DEF OriginsOnce, CopiesOnce, Made
<1>4. QED
  BY <1>1, <1>2, <1>3 DEF SchedulesInv

\* The occurrence has no task yet, so the new task is the only one of it.
LEMMA NewTaskKeeps ==
  ASSUME SchedulesInv, NEW e, ~Keyed(e), NewTask(e), NEW h \in Hands, EndHand(h),
         UNCHANGED copies
  PROVE  SchedulesInv'
<1>1. PICK i \in Occurrences : Plane!Create(i) /\ origin' = [origin EXCEPT ![i] = e]
  BY DEF NewTask
<1>2. /\ ~Made(i) /\ holder' = holder
      /\ \A k \in Occurrences : Made(k)' <=> Made(k) \/ k = i
      /\ \A k \in Occurrences : origin'[k] = IF k = i THEN e ELSE origin[k]
  BY <1>1 DEF Plane!Create, SchedulesInv, TablesTyped, PlaneTyped, Made
<1>3. TablesTyped'
  BY <1>1 DEF SchedulesInv, TablesTyped, PlaneTyped, Plane!Create, Plane!Phases, EndHand, HandTo
<1>4. RunsOfTasks'
  <2>1. \A k \in Hands : hand'[k] = IF k = h THEN IdleHand ELSE hand[k]
    BY DEF SchedulesInv, TablesTyped, EndHand, HandTo
  <2>2. \A k \in Hands : RunOk(hand'[k])
    BY <2>1, NoRun DEF SchedulesInv, RunsOfTasks
  <2>3. \A k \in Hands : RunOk(hand[k])'
    BY <2>2, <1>2 DEF RunOk
  <2>4. \A k \in Occurrences : holder'[k] # NoHand => Made(k)'
    BY <1>2 DEF SchedulesInv, RunsOfTasks
  <2>5. QED
    BY <2>3, <2>4 DEF RunsOfTasks
<1>5. OriginsOnce'
  <2>1. \A k \in Occurrences : Made(k) => origin[k] # e
    BY DEF Keyed, Made
  <2>2. QED
    BY <1>2, <2>1 DEF SchedulesInv, OriginsOnce
<1>6. CopiesOnce'
  BY <1>2, CopyTasks DEF SchedulesInv, CopiesOnce
<1>7. QED
  BY <1>3, <1>4, <1>5, <1>6 DEF SchedulesInv

\* The first copy of a made task; whatever the run does next.
LEMMA CopyKeeps ==
  ASSUME SchedulesInv, NEW h \in Hands, RunAt(h, "insert"), ~Copied(hand[h].task),
         copies' = Append(copies, [task |-> hand[h].task, variants |-> FALSE]),
         NEW s \in RecurSteps, RunTo(h, s), UNCHANGED planeVars
  PROVE  SchedulesInv'
<1> DEFINE row == [task |-> hand[h].task, variants |-> FALSE]
<1>1. hand[h].at \in RecurSteps
  BY DEF RunAt, HandAt, RecurSteps
<1>2. hand[h].task \in Occurrences /\ Made(hand[h].task) /\ RunOk([hand[h] EXCEPT !.at = s])
  BY <1>1, RunMoves
<1>3. copies \in Seq(CopyRows) /\ row \in CopyRows
  BY <1>2 DEF SchedulesInv, TablesTyped, CopyRows
<1>4. /\ copies' \in Seq(CopyRows) /\ DOMAIN copies' = 1..(Len(copies) + 1)
      /\ DOMAIN copies = 1..Len(copies) /\ Len(copies) \in Nat
      /\ \A c \in DOMAIN copies : copies'[c] = copies[c]
      /\ copies'[Len(copies) + 1] = row
  BY <1>3
<1>5. /\ DOMAIN hand' = Hands
      /\ \A k \in Hands : hand'[k] = IF k = h THEN [hand[h] EXCEPT !.at = s] ELSE hand[k]
  BY DEF SchedulesInv, TablesTyped, RunTo
<1>6. TablesTyped'
  BY <1>4, <1>5 DEF SchedulesInv, TablesTyped, PlaneTyped, RunAt, planeVars
<1>7. RunsOfTasks'
  <2>1. \A k \in Hands : RunOk(hand'[k])
    BY <1>2, <1>5 DEF SchedulesInv, RunsOfTasks
  <2>2. \A k \in Hands : RunOk(hand[k])'
    BY <2>1 DEF RunOk, Made, planeVars
  <2>3. QED
    BY <2>2 DEF SchedulesInv, RunsOfTasks, Made, planeVars
<1>8. OriginsOnce'
  BY DEF SchedulesInv, OriginsOnce, Made, RunAt, planeVars
<1>9. CopiesOnce'
  <2>1. \A c \in DOMAIN copies' : c \in DOMAIN copies \/ c = Len(copies) + 1
    BY <1>4
  <2>2. Len(copies) + 1 \notin DOMAIN copies
    BY <1>4
  <2>3. \A c \in DOMAIN copies : copies'[c].task # hand[h].task
    BY <1>4 DEF Copied
  <2>4. copies'[Len(copies) + 1].task = hand[h].task
    BY <1>4
  <2>5. \A c \in DOMAIN copies' : phase[copies'[c].task] # "absent"
    <3>1. \A c \in DOMAIN copies : phase[copies'[c].task] # "absent"
      BY <1>4 DEF SchedulesInv, CopiesOnce, Made
    <3>2. phase[hand[h].task] # "absent"
      BY <1>2 DEF Made
    <3>3. QED
      BY <2>1, <2>4, <3>1, <3>2
  <2>6. ASSUME NEW c \in DOMAIN copies', NEW d \in DOMAIN copies',
               copies'[c].task = copies'[d].task
        PROVE  c = d
    <3>1. CASE c \in DOMAIN copies /\ d \in DOMAIN copies
      BY <1>4, <2>6, <3>1 DEF SchedulesInv, CopiesOnce
    <3>2. CASE c \notin DOMAIN copies \/ d \notin DOMAIN copies
      BY <2>1, <2>3, <2>4, <2>6, <3>2
    <3>3. QED
      BY <3>1, <3>2
  <2>7. QED
    BY <2>5, <2>6 DEF CopiesOnce, Made, planeVars
<1>10. QED
  BY <1>6, <1>7, <1>8, <1>9 DEF SchedulesInv

\* Copying the variants leaves the copies' tasks alone.
LEMMA VariantsKeep ==
  ASSUME SchedulesInv, NEW h \in Hands, CopyVariants(h) PROVE SchedulesInv'
<1>1. PICK s \in {"done", "thrown"} : RunTo(h, s)
  BY DEF CopyVariants
<1>2. hand[h].at \in RecurSteps /\ s \in RecurSteps
  BY DEF CopyVariants, RunAt, HandAt, RecurSteps
<1>3. RunOk([hand[h] EXCEPT !.at = s])
  BY <1>2, RunMoves
<1>4. copies \in Seq(CopyRows)
  BY DEF SchedulesInv, TablesTyped
<1>5. /\ copies' \in Seq(CopyRows) /\ DOMAIN copies' = DOMAIN copies
      /\ \A c \in DOMAIN copies : copies'[c].task = copies[c].task
  <2> DEFINE c0 == Copy(hand[h].task)
  <2>1. CASE copies' = copies
    BY <1>4, <2>1
  <2>2. CASE copies' = [copies EXCEPT ![c0].variants = TRUE]
    <3> HIDE DEF c0
    <3>1. DOMAIN copies' = DOMAIN copies
      BY <2>2
    <3>2. \A c \in DOMAIN copies : copies[c] \in CopyRows
      BY CopyTasks
    <3>3. \A c \in DOMAIN copies :
            copies'[c] = IF c = c0 THEN [copies[c] EXCEPT !.variants = TRUE] ELSE copies[c]
      BY <2>2
    <3>4. \A c \in DOMAIN copies : copies'[c] \in CopyRows /\ copies'[c].task = copies[c].task
      <4>1. ASSUME NEW r \in CopyRows
            PROVE  /\ [r EXCEPT !.variants = TRUE] \in CopyRows
                   /\ [r EXCEPT !.variants = TRUE].task = r.task
        BY DEF CopyRows
      <4>2. QED
        BY <3>2, <3>3, <4>1
    <3>5. copies' \in Seq(CopyRows)
      <4>1. CASE c0 \in 1..Len(copies)
        <5>1. [copies[c0] EXCEPT !.variants = TRUE] \in CopyRows
          <6>1. copies[c0] \in CopyRows
            BY <1>4, <4>1
          <6>2. QED
            BY <6>1 DEF CopyRows
        <5>2. copies' = [copies EXCEPT ![c0] = [copies[c0] EXCEPT !.variants = TRUE]]
          BY <2>2
        <5>3. QED
          BY <1>4, <4>1, <5>1, <5>2, ExceptSeq
      <4>2. CASE c0 \notin 1..Len(copies)
        <5>1. copies' = copies
          BY <1>4, <2>2, <4>2
        <5>2. QED
          BY <1>4, <5>1
      <4>3. QED
        BY <4>1, <4>2
    <3>6. QED
      BY <3>1, <3>4, <3>5
  <2>3. QED
    BY <2>1, <2>2 DEF CopyVariants
<1>6. /\ DOMAIN hand' = Hands
      /\ \A k \in Hands : hand'[k] = IF k = h THEN [hand[h] EXCEPT !.at = s] ELSE hand[k]
  BY <1>1 DEF SchedulesInv, TablesTyped, RunTo
<1>7. phase' = phase /\ holder' = holder /\ origin' = origin
  BY DEF CopyVariants, RunAt, planeVars
<1>8. TablesTyped'
  BY <1>5, <1>6, <1>7 DEF SchedulesInv, TablesTyped, PlaneTyped
<1>9. RunsOfTasks'
  <2>1. \A k \in Hands : RunOk(hand'[k])
    BY <1>3, <1>6 DEF SchedulesInv, RunsOfTasks
  <2>2. \A k \in Hands : RunOk(hand[k])'
    BY <2>1, <1>7 DEF RunOk, Made
  <2>3. QED
    BY <2>2, <1>7 DEF SchedulesInv, RunsOfTasks, Made
<1>10. OriginsOnce' /\ CopiesOnce'
  BY <1>5, <1>7 DEF SchedulesInv, OriginsOnce, CopiesOnce, Made
<1>11. QED
  BY <1>8, <1>9, <1>10 DEF SchedulesInv

\* A step of one hand.
LEMMA HandKeeps ==
  ASSUME SchedulesInv, NEW h \in Hands,
         \/ FetchSchedules(h) \/ OwnerSchedule(h) \/ ReadBody(h) \/ WriteSchedule(h)
         \/ LookForCopy(h) \/ LoadSource(h) \/ StopHand(h)
  PROVE  SchedulesInv'
<1>1. ASSUME FetchSchedules(h) PROVE SchedulesInv'
  <2>1. PICK e, f : HandTo(h, [at |-> "materialize", expected |-> e, following |-> f])
    BY <1>1 DEF FetchSchedules
  <2>2. RunOk([at |-> "materialize", expected |-> e, following |-> f])
    BY DEF RunOk, RecurSteps
  <2>3. QED
    BY <1>1, <2>1, <2>2, HandMoves DEF FetchSchedules, HandTo, planeVars
<1>2. ASSUME OwnerSchedule(h) PROVE SchedulesInv'
  <2>1. PICK b, d : HandTo(h, [at |-> "body", enabled |-> b, timing |-> d])
    BY <1>2 DEF OwnerSchedule
  <2>2. RunOk([at |-> "body", enabled |-> b, timing |-> d])
    BY DEF RunOk, RecurSteps
  <2>3. QED
    BY <1>2, <2>1, <2>2, HandMoves DEF OwnerSchedule, HandTo, planeVars
<1>3. ASSUME ReadBody(h) PROVE SchedulesInv'
  <2>1. PICK u : HandTo(h, [at |-> "write", update |-> u])
    BY <1>3 DEF ReadBody
  <2>2. RunOk([at |-> "write", update |-> u])
    BY DEF RunOk, RecurSteps
  <2>3. QED
    BY <1>3, <2>1, <2>2, HandMoves DEF ReadBody, HandTo, planeVars
<1>4. ASSUME WriteSchedule(h) \/ StopHand(h) PROVE SchedulesInv'
  BY <1>4, NoRun, HandMoves DEF WriteSchedule, StopHand, EndHand, HandTo, planeVars
<1>5. ASSUME LookForCopy(h) \/ LoadSource(h) PROVE SchedulesInv'
  <2>1. PICK s \in RecurSteps : RunTo(h, s)
    BY <1>5 DEF LookForCopy, LoadSource, RecurSteps
  <2>2. hand[h].at \in RecurSteps
    BY <1>5 DEF LookForCopy, LoadSource, RunAt, HandAt, RecurSteps
  <2>3. RunOk([hand[h] EXCEPT !.at = s])
    BY <2>2, RunMoves
  <2>4. UNCHANGED <<phase, holder, origin, copies>>
    BY <1>5 DEF LookForCopy, LoadSource, RunAt, planeVars
  <2>5. hand' = [hand EXCEPT ![h] = [hand[h] EXCEPT !.at = s]]
    BY <2>1 DEF RunTo
  <2>6. QED
    BY <2>3, <2>4, <2>5, HandMoves
<1>6. QED
  BY <1>1, <1>2, <1>3, <1>4, <1>5

\* A step of the plane, which may be one of a hand too.
LEMMA PlaneKeeps ==
  ASSUME SchedulesInv, PlaneMoves \/ \E h \in Hands : SettleRecur(h) \/ \E i \in Occurrences : StartRecur(h, i)
  PROVE  SchedulesInv'
<1>1. ASSUME PlaneMoves PROVE SchedulesInv'
  <2>1. /\ PlaneTyped(phase', holder')
        /\ \A k \in Occurrences : (Made(k)' <=> Made(k)) /\ (holder'[k] # NoHand => Made(k))
    BY <1>1, PlaneSteps DEF PlaneMoves
  <2>2. DOMAIN hand' = Hands /\ \A k \in Hands : RunOk(hand'[k])
    BY <1>1 DEF PlaneMoves, SchedulesInv, TablesTyped, RunsOfTasks
  <2>3. QED
    BY <1>1, <2>1, <2>2, Keeps DEF PlaneMoves
<1>2. ASSUME NEW h \in Hands, SettleRecur(h) PROVE SchedulesInv'
  <2>1. hand[h].at \in RecurSteps
    BY <1>2 DEF SettleRecur, HandAt, RecurSteps
  <2>2. PICK i \in Occurrences : i = hand[h].task
    BY <2>1, RunMoves
  <2>3. \/ \E D \in {{}, {i}} : Plane!Return({i}, D)
        \/ Plane!Finish(i)
        \/ UNCHANGED planeVars
    BY <1>2, <2>2 DEF SettleRecur
  <2>4. /\ PlaneTyped(phase', holder')
        /\ \A k \in Occurrences : (Made(k)' <=> Made(k)) /\ (holder'[k] # NoHand => Made(k))
    BY <2>3, PlaneSteps
  <2>5. \A k \in Hands : hand'[k] = IF k = h THEN IdleHand ELSE hand[k]
    BY <1>2 DEF SettleRecur, EndHand, HandTo, SchedulesInv, TablesTyped
  <2>6. DOMAIN hand' = Hands /\ \A k \in Hands : RunOk(hand'[k])
    BY <1>2, <2>5, NoRun DEF SettleRecur, EndHand, HandTo, SchedulesInv, TablesTyped, RunsOfTasks
  <2>7. QED
    BY <1>2, <2>4, <2>6, Keeps DEF SettleRecur
<1>3. ASSUME NEW h \in Hands, NEW i \in Occurrences, StartRecur(h, i) PROVE SchedulesInv'
  <2> DEFINE w == [at |-> "look", task |-> i]
  <2>1. Plane!Grant({i}, h) /\ hand' = [hand EXCEPT ![h] = w]
    BY <1>3 DEF StartRecur, HandTo
  <2>2. /\ PlaneTyped(phase', holder')
        /\ \A k \in Occurrences : (Made(k)' <=> Made(k)) /\ (holder'[k] # NoHand => Made(k))
    BY <2>1, PlaneSteps
  <2>3. RunOk(w)
    BY <2>1 DEF RunOk, RecurSteps, Made, Plane!Grant
  <2>4. DOMAIN hand' = Hands /\ \A k \in Hands : hand'[k] = IF k = h THEN w ELSE hand[k]
    BY <2>1 DEF SchedulesInv, TablesTyped
  <2>5. \A k \in Hands : RunOk(hand'[k])
    BY <2>3, <2>4 DEF SchedulesInv, RunsOfTasks
  <2>6. QED
    BY <1>3, <2>2, <2>4, <2>5, Keeps DEF StartRecur, RunAt
<1>4. QED
  BY <1>1, <1>2, <1>3

LEMMA MaterializeKeeps ==
  ASSUME SchedulesInv, NEW h \in Hands, MaterializeSchedule(h)
  PROVE  SchedulesInv'
<1>1. CASE UNCHANGED <<origin, planeVars>>
  BY <1>1, NoRun, HandMoves DEF MaterializeSchedule, EndHand, HandTo, planeVars
<1>2. CASE ~Keyed(hand[h].expected) /\ NewTask(hand[h].expected)
  BY <1>2, NewTaskKeeps DEF MaterializeSchedule
<1>3. QED
  BY <1>1, <1>2 DEF MaterializeSchedule

LEMMA InsertKeeps ==
  ASSUME SchedulesInv, NEW h \in Hands, InsertCopy(h)
  PROVE  SchedulesInv'
<1>1. PICK s \in RecurSteps : RunTo(h, s)
  BY DEF InsertCopy, RecurSteps
<1>2. CASE UNCHANGED copies
  <2>1. hand[h].at \in RecurSteps
    BY DEF InsertCopy, RunAt, HandAt, RecurSteps
  <2>2. RunOk([hand[h] EXCEPT !.at = s])
    BY <2>1, RunMoves
  <2>3. hand' = [hand EXCEPT ![h] = [hand[h] EXCEPT !.at = s]]
    BY <1>1 DEF RunTo
  <2>4. UNCHANGED <<phase, holder, origin>>
    BY DEF InsertCopy, RunAt, planeVars
  <2>5. QED
    BY <1>2, <2>2, <2>3, <2>4, HandMoves
<1>3. CASE ~Copied(hand[h].task) /\ copies' = Append(copies, [task |-> hand[h].task, variants |-> FALSE])
  BY <1>1, <1>3, CopyKeeps DEF InsertCopy
<1>4. QED
  BY <1>2, <1>3 DEF InsertCopy

LEMMA NextKeeps ==
  ASSUME SchedulesInv, [SchedulesNext]_scheduleVars PROVE SchedulesInv'
<1>1. ASSUME PostSchedule \/ DeleteSchedule \/ TimeGoesOn \/ UNCHANGED scheduleVars
      PROVE  SchedulesInv'
  <2>1. UNCHANGED <<phase, holder, origin, copies, hand>>
    BY <1>1 DEF PostSchedule, DeleteSchedule, TimeGoesOn, scheduleVars, planeVars
  <2>2. PlaneTyped(phase', holder') /\ DOMAIN hand' = Hands /\ \A h \in Hands : RunOk(hand'[h])
    BY <2>1 DEF SchedulesInv, TablesTyped, RunsOfTasks
  <2>3. \A i \in Occurrences : (Made(i)' <=> Made(i)) /\ (holder'[i] # NoHand => Made(i))
    BY <2>1 DEF SchedulesInv, RunsOfTasks, Made
  <2>4. QED
    BY <2>1, <2>2, <2>3, Keeps
<1>2. ASSUME PlaneMoves PROVE SchedulesInv'
  BY <1>2, PlaneKeeps
<1>3. ASSUME NEW h \in Hands,
             \/ FetchSchedules(h) \/ OwnerSchedule(h) \/ ReadBody(h) \/ WriteSchedule(h)
             \/ LookForCopy(h) \/ LoadSource(h) \/ StopHand(h)
      PROVE  SchedulesInv'
  BY <1>3, HandKeeps
<1>4. ASSUME NEW h \in Hands, SettleRecur(h) \/ \E i \in Occurrences : StartRecur(h, i)
      PROVE  SchedulesInv'
  BY <1>4, PlaneKeeps
<1>5. ASSUME NEW h \in Hands, MaterializeSchedule(h) PROVE SchedulesInv'
  BY <1>5, MaterializeKeeps
<1>6. ASSUME NEW h \in Hands, InsertCopy(h) PROVE SchedulesInv'
  BY <1>6, InsertKeeps
<1>7. ASSUME NEW h \in Hands, CopyVariants(h) PROVE SchedulesInv'
  BY <1>7, VariantsKeep
<1>8. QED
  BY <1>1, <1>2, <1>3, <1>4, <1>5, <1>6, <1>7 DEF SchedulesNext

----
\* The unique keys of tasks and copies, and what they rest on, hold in every state
\* (materialize_schedule, contentRecurHandler).
THEOREM SchedulesInvariant == SchedulesSpec => []SchedulesInv
<1>1. SchedulesInit => SchedulesInv
  BY InitHolds
<1>2. SchedulesInv /\ [SchedulesNext]_scheduleVars => SchedulesInv'
  BY NextKeeps
<1>3. QED
  BY <1>1, <1>2, PTL DEF SchedulesSpec

\* An occurrence of a schedule becomes one task and at most one draft (materialize_schedule,
\* contentRecurHandler), for any ticks, requests and runs.
THEOREM OneDraft == SchedulesSpec => []OccurrenceOnce
<1>1. SchedulesInv => OccurrenceOnce
  <2> SUFFICES ASSUME SchedulesInv PROVE OccurrenceOnce
    OBVIOUS
  <2>1. \A i, k \in Occurrences : Made(i) /\ Made(k) /\ origin[i] = origin[k] => i = k
    BY DEF SchedulesInv, OriginsOnce
  <2>2. ASSUME NEW c \in DOMAIN copies, NEW d \in DOMAIN copies,
               origin[copies[c].task] = origin[copies[d].task]
        PROVE  c = d
    BY <2>1, <2>2, CopyTasks DEF SchedulesInv, CopiesOnce
  <2>3. QED
    BY <2>1, <2>2 DEF OccurrenceOnce, Made
<1>2. QED
  BY <1>1, SchedulesInvariant, PTL

----
(* Type correctness. *)

HandRows ==
  {IdleHand}
    \cup [at : {"materialize"}, expected : Nat, following : Nat]
    \cup [at : {"body"}, enabled : BOOLEAN, timing : Timings]
    \cup [at : {"write"}, update : Updates]
    \cup [at : RecurSteps, task : Occurrences]

\* The schedule, the tasks and the hands; the rest of SchedulesTypeOK is in SchedulesInv.
ScheduleTyped ==
  /\ time \in 0..MaxTime
  /\ schedule \in ScheduleRows \cup {NoSchedule, Deleted}
  /\ origin \in [Occurrences -> Nat]
  /\ hand \in [Hands -> HandRows]

\* The next run of a definition is a time.
LEMMA RunsAreTimes ==
  ASSUME NEW d \in Timings, NEW t \in Nat, NEW e \in Nat
  PROVE  /\ NextCronRun(d, t) \in Nat
         /\ FirstRun(d, t) \in Nat
         /\ FollowingRun(d, e, t) \in Nat
<1>1. d.every \in Nat \ {0} /\ d.cron \in BOOLEAN
  BY SchedulesAssumption
<1>2. ASSUME NEW n \in Nat PROVE d.every * (n \div d.every + 1) \in Nat
  <2>1. n \div d.every \in Nat
    BY <1>1
  <2>2. \A q \in Nat : d.every * (q + 1) \in Nat
    BY <1>1
  <2>3. QED
    BY <2>1, <2>2
<1>3. \A n \in Nat : NextCronRun(d, n) \in Nat
  BY <1>2 DEF NextCronRun
<1>4. FirstRun(d, t) \in Nat
  BY <1>1, <1>3 DEF FirstRun
<1>5. FollowingRun(d, e, t) \in Nat
  <2> DEFINE floor == IF t > e THEN t ELSE e
  <2>1. floor \in Nat /\ floor - e \in Nat
    OBVIOUS
  <2>2. d.every * ((floor - e) \div d.every + 1) \in Nat
    BY <1>2, <2>1
  <2>3. NextCronRun(d, floor) \in Nat
    BY <1>3, <2>1
  <2>4. FollowingRun(d, e, t) = IF d.cron THEN NextCronRun(d, floor)
                                ELSE e + d.every * ((floor - e) \div d.every + 1)
    BY DEF FollowingRun
  <2> HIDE DEF floor
  <2>5. QED
    BY <2>2, <2>3, <2>4
<1>6. QED
  BY <1>3, <1>4, <1>5

\* A hand goes on with a row of its own kind.
LEMMA HandTyped ==
  ASSUME ScheduleTyped, NEW h \in Hands, NEW w \in HandRows, HandTo(h, w)
  PROVE  hand' \in [Hands -> HandRows]
BY DEF ScheduleTyped, HandTo

\* A run goes on with its task.
LEMMA RunTyped ==
  ASSUME ScheduleTyped, NEW h \in Hands, hand[h].at \in RecurSteps, NEW s \in RecurSteps, RunTo(h, s)
  PROVE  hand' \in [Hands -> HandRows]
<1>1. hand[h] \in [at : RecurSteps, task : Occurrences]
  BY DEF ScheduleTyped, HandRows, IdleHand, RecurSteps
<1>2. [hand[h] EXCEPT !.at = s] \in HandRows
  BY <1>1 DEF HandRows
<1>3. QED
  BY <1>2 DEF ScheduleTyped, RunTo

\* An update keeps the row's columns in their types.
LEMMA UpdateTyped ==
  ASSUME schedule \in ScheduleRows, NEW u \in Updates,
         schedule' = [f \in DOMAIN schedule |-> IF f \in DOMAIN u THEN u[f] ELSE schedule[f]]
  PROVE  schedule' \in ScheduleRows
<1>1. /\ DOMAIN schedule = {"status", "enabled", "timing", "next"}
      /\ schedule.status = "kept" /\ schedule.enabled \in BOOLEAN
      /\ schedule.timing \in Timings /\ schedule.next \in Nat
  BY DEF ScheduleRows
<1>2. /\ DOMAIN u \subseteq {"enabled", "timing", "next"}
      /\ u.enabled \in BOOLEAN
      /\ "timing" \in DOMAIN u => u.timing \in Timings
      /\ "next" \in DOMAIN u => u.next \in Nat
  BY DEF Updates
<1>3. /\ DOMAIN schedule' = {"status", "enabled", "timing", "next"}
      /\ schedule'.status = "kept" /\ schedule'.enabled \in BOOLEAN
      /\ schedule'.timing \in Timings /\ schedule'.next \in Nat
  BY <1>1, <1>2
<1>4. schedule' = [status |-> schedule'.status, enabled |-> schedule'.enabled,
                   timing |-> schedule'.timing, next |-> schedule'.next]
  BY <1>3
<1>5. QED
  BY <1>3, <1>4 DEF ScheduleRows

\* Every step keeps the types.
LEMMA ScheduleTypedStep ==
  ASSUME ScheduleTyped, SchedulesInv, [SchedulesNext]_scheduleVars
  PROVE  ScheduleTyped'
<1> USE DEF ScheduleTyped
<1>t. time \in Nat
  BY SchedulesAssumption
<1>1. ASSUME UNCHANGED scheduleVars PROVE ScheduleTyped'
  BY <1>1 DEF scheduleVars
<1>2. ASSUME PostSchedule PROVE ScheduleTyped'
  <2>1. PICK d \in Timings, b \in BOOLEAN :
          schedule' = [status |-> "kept", enabled |-> b, timing |-> d, next |-> FirstRun(d, time)]
    BY <1>2 DEF PostSchedule
  <2>2. FirstRun(d, time) \in Nat
    BY <1>t, RunsAreTimes
  <2>3. schedule' \in ScheduleRows
    BY <2>1, <2>2 DEF ScheduleRows
  <2>4. QED
    BY <1>2, <2>3 DEF PostSchedule
<1>3. ASSUME DeleteSchedule PROVE ScheduleTyped'
  BY <1>3 DEF DeleteSchedule
<1>4. ASSUME PlaneMoves PROVE ScheduleTyped'
  BY <1>4 DEF PlaneMoves
<1>5. ASSUME TimeGoesOn PROVE ScheduleTyped'
  BY <1>5, SchedulesAssumption DEF TimeGoesOn
<1>6. ASSUME NEW h \in Hands, FetchSchedules(h) PROVE ScheduleTyped'
  <2> DEFINE w == [at |-> "materialize", expected |-> schedule.next,
                   following |-> FollowingRun(schedule.timing, schedule.next, time)]
  <2>1. schedule \in ScheduleRows
    BY <1>6 DEF FetchSchedules, NoSchedule, Deleted
  <2>2. schedule.timing \in Timings /\ schedule.next \in Nat
    BY <2>1 DEF ScheduleRows
  <2>3. FollowingRun(schedule.timing, schedule.next, time) \in Nat
    BY <1>t, <2>2, RunsAreTimes
  <2>4. w \in HandRows
    BY <2>2, <2>3 DEF HandRows
  <2>5. hand' \in [Hands -> HandRows]
    BY <1>6, <2>4, HandTyped DEF FetchSchedules
  <2>6. QED
    BY <1>6, <2>5 DEF FetchSchedules
<1>7. ASSUME NEW h \in Hands, MaterializeSchedule(h) PROVE ScheduleTyped'
  <2>1. CASE hand[h].at = "materialize"
    <3>1. hand[h].expected \in Nat /\ hand[h].following \in Nat
      BY <2>1 DEF HandRows, IdleHand, RecurSteps
    <3>2. schedule' \in ScheduleRows \cup {NoSchedule, Deleted}
      <4>1. ASSUME schedule \in ScheduleRows
            PROVE  [schedule EXCEPT !.next = hand[h].following] \in ScheduleRows
        BY <3>1, <4>1 DEF ScheduleRows
      <4>2. QED
        BY <1>7, <4>1 DEF MaterializeSchedule, NoSchedule, Deleted
    <3>3. origin' \in [Occurrences -> Nat]
      BY <1>7, <3>1 DEF MaterializeSchedule, NewTask
    <3>4. hand' \in [Hands -> HandRows]
      BY <1>7, HandTyped DEF MaterializeSchedule, EndHand, HandRows
    <3>5. QED
      BY <1>7, <3>2, <3>3, <3>4 DEF MaterializeSchedule
  <2>2. QED
    BY <1>7, <2>1 DEF MaterializeSchedule, HandAt
<1>8. ASSUME NEW h \in Hands, OwnerSchedule(h) PROVE ScheduleTyped'
  <2> DEFINE w == [at |-> "body", enabled |-> schedule.enabled, timing |-> schedule.timing]
  <2>1. schedule \in ScheduleRows
    BY <1>8 DEF OwnerSchedule, NoSchedule, Deleted
  <2>2. w \in HandRows
    BY <2>1 DEF ScheduleRows, HandRows
  <2>3. hand' \in [Hands -> HandRows]
    BY <1>8, <2>2, HandTyped DEF OwnerSchedule
  <2>4. QED
    BY <1>8, <2>3 DEF OwnerSchedule
<1>9. ASSUME NEW h \in Hands, ReadBody(h) PROVE ScheduleTyped'
  <2>1. hand[h].enabled \in BOOLEAN /\ hand[h].timing \in Timings
    BY <1>9 DEF ReadBody, HandAt, HandRows, IdleHand, RecurSteps
  <2>2. PICK b \in BOOLEAN, d \in Timings :
          \E u \in {IF b /\ ~hand[h].enabled
                    THEN [enabled |-> b, next |-> FirstRun(hand[h].timing, time)]
                    ELSE [enabled |-> b],
                    [enabled |-> b, timing |-> d, next |-> FirstRun(d, time)]} :
            HandTo(h, [at |-> "write", update |-> u])
    BY <1>9 DEF ReadBody
  <2>3. FirstRun(d, time) \in Nat /\ FirstRun(hand[h].timing, time) \in Nat
    BY <1>t, <2>1, RunsAreTimes
  <2>4. /\ [enabled |-> b, next |-> FirstRun(hand[h].timing, time)] \in Updates
        /\ [enabled |-> b] \in Updates
        /\ [enabled |-> b, timing |-> d, next |-> FirstRun(d, time)] \in Updates
    BY <2>3 DEF Updates
  <2>5. PICK u \in Updates : HandTo(h, [at |-> "write", update |-> u])
    BY <2>2, <2>4
  <2>6. [at |-> "write", update |-> u] \in HandRows
    BY DEF HandRows
  <2>7. hand' \in [Hands -> HandRows]
    BY <2>5, <2>6, HandTyped
  <2>8. QED
    BY <1>9, <2>7 DEF ReadBody
<1>10. ASSUME NEW h \in Hands, WriteSchedule(h) PROVE ScheduleTyped'
  <2>1. hand[h].update \in Updates
    BY <1>10 DEF WriteSchedule, HandAt, HandRows, IdleHand, RecurSteps
  <2>2. schedule.status = "kept" => schedule \in ScheduleRows
    BY DEF NoSchedule, Deleted
  <2>3. schedule' \in ScheduleRows \cup {NoSchedule, Deleted}
    BY <1>10, <2>1, <2>2, UpdateTyped DEF WriteSchedule
  <2>4. hand' \in [Hands -> HandRows]
    BY <1>10, HandTyped DEF WriteSchedule, EndHand, HandRows
  <2>5. QED
    BY <1>10, <2>3, <2>4 DEF WriteSchedule
<1>11. ASSUME NEW h \in Hands, NEW i \in Occurrences, StartRecur(h, i) PROVE ScheduleTyped'
  <2>1. [at |-> "look", task |-> i] \in HandRows
    BY DEF HandRows, RecurSteps
  <2>2. hand' \in [Hands -> HandRows]
    BY <1>11, <2>1, HandTyped DEF StartRecur
  <2>3. QED
    BY <1>11, <2>2 DEF StartRecur, RunAt
<1>12. ASSUME NEW h \in Hands, LookForCopy(h) \/ LoadSource(h) \/ InsertCopy(h) \/ CopyVariants(h)
       PROVE  ScheduleTyped'
  <2>1. PICK s \in RecurSteps : RunTo(h, s)
    BY <1>12 DEF LookForCopy, LoadSource, InsertCopy, CopyVariants, RecurSteps
  <2>2. hand[h].at \in RecurSteps /\ UNCHANGED <<time, schedule, origin>>
    BY <1>12 DEF LookForCopy, LoadSource, InsertCopy, CopyVariants, RunAt, HandAt, RecurSteps
  <2>3. QED
    BY <2>1, <2>2, RunTyped
<1>13. ASSUME NEW h \in Hands, SettleRecur(h) \/ StopHand(h) PROVE ScheduleTyped'
  <2>1. hand' \in [Hands -> HandRows]
    BY <1>13, HandTyped DEF SettleRecur, StopHand, EndHand, HandRows
  <2>2. QED
    BY <1>13, <2>1 DEF SettleRecur, StopHand
<1>14. QED
  BY <1>1, <1>2, <1>3, <1>4, <1>5, <1>6, <1>7, <1>8, <1>9, <1>10, <1>11, <1>12, <1>13
  DEF SchedulesNext

\* The schedule, its tasks, the copies and the hands are well typed (task_schedules,
\* editorial_drafts).
THEOREM SchedulesTypeCorrect == SchedulesSpec => []SchedulesTypeOK
<1>1. SchedulesInit => ScheduleTyped
  BY SchedulesAssumption DEF SchedulesInit, ScheduleTyped, HandRows
<1>2. ScheduleTyped /\ SchedulesInv /\ [SchedulesNext]_scheduleVars => ScheduleTyped'
  BY ScheduleTypedStep
<1>3. ScheduleTyped /\ SchedulesInv => SchedulesTypeOK
  BY DEF ScheduleTyped, HandRows, SchedulesInv, TablesTyped, PlaneTyped, CopyRows, SchedulesTypeOK
<1>4. QED
  BY <1>1, <1>2, <1>3, SchedulesInvariant, PTL DEF SchedulesSpec

----
(* The tasks of a schedule and the lease service. *)

\* The operations of the plane that a schedule uses are the lease service's.
LEMMA LeaseServiceStep ==
  ASSUME NEW i \in Occurrences,
         \/ Plane!Create(i)
         \/ \E D \in {{}, {i}} : Plane!Return({i}, D)
         \/ Plane!Finish(i)
         \/ Plane!Reopen(i)
         \/ \E h \in Hands : Plane!Grant({i}, h)
  PROVE  Plane!Next
<1>1. {i} \in SUBSET Occurrences /\ {{}, {i}} \subseteq SUBSET {i}
  OBVIOUS
<1>2. QED
  BY <1>1 DEF Plane!Next

\* To the tasks of a schedule, hands that overlap, stop and settle without a lease do only
\* what the lease service allows (materialize_schedule, claim_tasks, complete_task,
\* fail_task).  The invariant is needed for a run to settle a task that is one.
THEOREM SchedulesKeepLease == SchedulesSpec => Plane!Spec
<1>1. SchedulesInit => Plane!Init
  BY DEF SchedulesInit
<1>2. SchedulesInv /\ [SchedulesNext]_scheduleVars => [Plane!Next]_(Plane!leaseVars)
  <2> SUFFICES ASSUME SchedulesInv, [SchedulesNext]_scheduleVars PROVE Plane!Next \/ UNCHANGED planeVars
    BY DEF planeVars, Plane!leaseVars
  <2>1. CASE PostSchedule \/ DeleteSchedule \/ TimeGoesOn \/ UNCHANGED scheduleVars
    BY <2>1 DEF PostSchedule, DeleteSchedule, TimeGoesOn, scheduleVars, planeVars
  <2>2. CASE PlaneMoves
    BY <2>2, LeaseServiceStep DEF PlaneMoves
  <2>3. ASSUME NEW h \in Hands, MaterializeSchedule(h) PROVE Plane!Next \/ UNCHANGED planeVars
    BY <2>3, LeaseServiceStep DEF MaterializeSchedule, NewTask
  <2>4. ASSUME NEW h \in Hands, NEW i \in Occurrences, StartRecur(h, i) PROVE Plane!Next
    BY <2>4, LeaseServiceStep DEF StartRecur
  <2>5. ASSUME NEW h \in Hands,
               \/ FetchSchedules(h) \/ OwnerSchedule(h) \/ ReadBody(h) \/ WriteSchedule(h)
               \/ LookForCopy(h) \/ LoadSource(h) \/ InsertCopy(h) \/ CopyVariants(h) \/ StopHand(h)
        PROVE  UNCHANGED planeVars
    BY <2>5 DEF FetchSchedules, OwnerSchedule, ReadBody, WriteSchedule, LookForCopy, LoadSource,
                InsertCopy, CopyVariants, StopHand
  <2>6. ASSUME NEW h \in Hands, SettleRecur(h) PROVE Plane!Next \/ UNCHANGED planeVars
    <3>1. hand[h].task \in Occurrences
      BY <2>6, RunMoves DEF SettleRecur, HandAt, RecurSteps
    <3>2. QED
      BY <2>6, <3>1, LeaseServiceStep DEF SettleRecur
  <2>7. QED
    BY <2>1, <2>2, <2>3, <2>4, <2>5, <2>6 DEF SchedulesNext
<1>3. QED
  BY <1>1, <1>2, SchedulesInvariant, PTL DEF SchedulesSpec, Plane!Spec

----
(* The services side by side. *)

servicesVars ==
  <<part, secretVars, artifactVars, ledgerVars, sequenceVars, flowVars, scheduleVars>>

\* What the store's own behaviours leave alone.
SessionUntouched ==
  /\ session = [status |-> "human", secret |-> NoSecret, attested |-> FALSE]
  /\ flow = [c \in Callers |-> NoFlow]
  /\ flows = 0
  /\ overlapped = FALSE /\ missed = FALSE

\* A behaviour of the store by itself.
StoreAlone == part = "secrets" /\ SessionUntouched

\* A behaviour of a service other than the store.
NotStore == part # "secrets"

\* A service's variables change in its own part only, and there by its own steps.
LEMMA PartSteps ==
  ASSUME [ServicesNext]_servicesVars
  PROVE  /\ part' = part
         /\ [ArtifactsNext]_artifactVars
         /\ [LedgerNext]_ledgerVars
         /\ [SequenceNext]_sequenceVars
         /\ [FlowNext]_flowVars
         /\ [SchedulesNext]_scheduleVars
         /\ part = "secrets" => [SecretsNext]_secretsVars /\ UNCHANGED sessionVars
         /\ part # "secrets" => [SessionNext]_<<secretsVars, sessionVars>>
<1>1. CASE UNCHANGED servicesVars
  BY <1>1 DEF servicesVars, secretVars
<1>2. CASE part = "secrets" /\ ServicesNext
  BY <1>2 DEF ServicesNext
<1>3. CASE part # "secrets" /\ ServicesNext
  BY <1>3 DEF ServicesNext, secretVars
<1>4. QED
  BY <1>1, <1>2, <1>3

\* Every service starts as it starts by itself.
LEMMA PartInits ==
  ASSUME ServicesInit
  PROVE  /\ SecretsInit /\ SessionInit /\ SessionUntouched /\ ArtifactsInit
         /\ LedgerInit /\ SequenceInit /\ FlowInit /\ SchedulesInit
BY DEF ServicesInit, SessionInit, SessionUntouched

\* A behaviour of the services is one of each of them.  The part that is the store by itself
\* is not one of the sessions, but then the sessions stay as they were.
LEMMA ServicesCompose ==
  ServicesSpec =>
    /\ ArtifactsSpec /\ LedgerSpec /\ SequenceSpec /\ FlowSpec /\ SchedulesSpec
    /\ SessionSpec \/ (SecretsSpec /\ []SessionUntouched)
<1>1. ServicesInit =>
        /\ SecretsInit /\ SessionInit /\ SessionUntouched /\ ArtifactsInit
        /\ LedgerInit /\ SequenceInit /\ FlowInit /\ SchedulesInit
  BY PartInits
<1>2. [ServicesNext]_servicesVars =>
        /\ [ArtifactsNext]_artifactVars
        /\ [LedgerNext]_ledgerVars
        /\ [SequenceNext]_sequenceVars
        /\ [FlowNext]_flowVars
        /\ [SchedulesNext]_scheduleVars
  BY PartSteps
<1>3. StoreAlone /\ [ServicesNext]_servicesVars => StoreAlone' /\ [SecretsNext]_secretsVars
  BY PartSteps DEF StoreAlone, SessionUntouched, sessionVars
<1>4. ServicesInit /\ ~StoreAlone => NotStore
  BY PartInits DEF StoreAlone, NotStore
<1>5. NotStore /\ [ServicesNext]_servicesVars =>
        /\ NotStore'
        /\ [SessionNext]_<<secretsVars, sessionVars>>
  BY PartSteps DEF NotStore
<1>6. StoreAlone => SessionUntouched
  BY DEF StoreAlone
<1>7. QED
  BY <1>1, <1>2, <1>3, <1>4, <1>5, <1>6, PTL
  DEF ServicesSpec, servicesVars, ArtifactsSpec, LedgerSpec, SequenceSpec, FlowSpec, SchedulesSpec,
      SessionSpec, SecretsSpec

\* The services side by side are well typed.
THEOREM ServicesTypeCorrect == ServicesSpec => []ServicesTypeOK
<1>1. SessionUntouched /\ SecretsTypeOK => SessionTypeOK
  <2> SUFFICES ASSUME SessionUntouched, SecretsTypeOK PROVE SessionTypeOK
    OBVIOUS
  <2>1. session \in [status : SessionStatuses, secret : SecretIds \cup {NoSecret}, attested : BOOLEAN]
    BY DEF SessionUntouched, SessionStatuses
  <2>2. flow \in [Callers -> Flows \cup {NoFlow}]
    BY DEF SessionUntouched
  <2>3. flows \in 0..MaxFlows
    BY SessionAssumption DEF SessionUntouched
  <2>4. overlapped \in BOOLEAN /\ missed \in BOOLEAN
    BY DEF SessionUntouched
  <2>5. QED
    BY <2>1, <2>2, <2>3, <2>4 DEF SessionTypeOK
<1>2. SessionTypeOK /\ ArtifactsTypeOK /\ LedgerTypeOK /\ SequenceTypeOK /\ FlowTypeOK /\ SchedulesTypeOK
        => ServicesTypeOK
  BY DEF ServicesTypeOK
<1>3. QED
  BY <1>1, <1>2, ServicesCompose, SecretsTypeCorrect, SessionsTypeCorrect, ArtifactsTypeCorrect, LedgerTypeCorrect,
     SequenceTypeCorrect, FlowTypeCorrect, SchedulesTypeCorrect, PTL

\* Side by side the services keep every safety property that each keeps by itself: a service
\* reads and writes its own tables only, and what the store does without a session gives the
\* session nothing to lose.
THEOREM ServicesCorrect ==
  ServicesSpec =>
    /\ [](/\ CurrentVersionKept /\ RetiredKeyUnused /\ RevocationShreds
          /\ AvailableIsStored /\ SweepLeavesNoObject
          /\ FlowStartsOnce /\ QueuedMeansQueued /\ SessionRecoverable /\ OccurrenceOnce)
    /\ RevokedForGood /\ NeverBackwards /\ StepsInOrder /\ DelayRespected /\ LiveNotCancelled
<1>1. SessionUntouched => RevocationShreds
  BY DEF SessionUntouched, RevocationShreds
<1>2. SessionUntouched =>
        [session.status = "revoked" =>
           session'.status = "revoked" /\ session'.secret = session.secret]_sessionVars
  BY DEF SessionUntouched
<1>3. QED
  BY <1>1, <1>2, ServicesCompose, SessionsUseStore, CurrentVersion, RetiredKey, StateShredded, RevocationIsFinal,
     AvailableHasObject, SweepIsFinal, StartedOnce, QueuedIsQueued, ConversationMovesOn, InOrder,
     DelaysPass, SessionsRecover, LiveSessionsStay, OneDraft, PTL DEF RevokedForGood
====
