---- MODULE Schedules ----
(***************************************************************************)
(* A schedule of content.recur: ticks materialize its occurrences as tasks *)
(* (lib/tasks/schedules.ts, materialize_schedule), operators edit it under *)
(* /api/v1/schedules, and each task copies a content item as a draft       *)
(* (lib/publishing/recurring.ts).  The tasks are handed out by the plane   *)
(* as LeaseService promises it, which TaskPlane implements: a lease may be *)
(* taken back while the run that had it goes on.                           *)
(*                                                                         *)
(* Ticks, requests and runs are hands, which overlap and stop at any step. *)
(* Time is counted in the periods of the definitions; a cron expression    *)
(* matches the multiples of its period.  A tick's batch of schedules is    *)
(* one schedule: the rows are independent.  The pruner, which forgets a    *)
(* task and its key after months, is left out, and so are the deletion of  *)
(* the copies and the notification of the owners, an upsert with a key.    *)
(***************************************************************************)
EXTENDS Integers, Sequences

CONSTANTS
  Hands,        \* invocations of the tick, requests and runs of the handler
  NoHand,       \* lease_owner is null
  Timings,      \* definitions an operator may enter: cron or interval, and the period
  Occurrences,  \* ids of the schedule's tasks, numbers from 1
  MaxTime       \* bound: the time until which the schedule is watched

ASSUME SchedulesAssumption ==
  /\ NoHand \notin Hands
  /\ Timings \subseteq [cron : BOOLEAN, every : Nat \ {0}]
  /\ Occurrences \subseteq Nat
  /\ MaxTime \in Nat

VARIABLES
  time,
  schedule,        \* the row of task_schedules: enabled, timing, next_run_at
  origin,          \* the occurrence a task was materialized for (its idempotency key)
  phase, holder,   \* the tasks on the plane
  copies,          \* editorial_drafts with a source_task_id: that task, whether its variants
                   \* were copied
  hand             \* what each hand is doing, and what it has read

planeVars    == <<phase, holder>>
scheduleVars == <<time, schedule, origin, phase, holder, copies, hand>>

Plane == INSTANCE LeaseService WITH Items <- Occurrences, Owners <- Hands, NoOwner <- NoHand

NoSchedule    == [status |-> "none"]
Deleted  == [status |-> "deleted"]
ScheduleRows     == [status : {"kept"}, enabled : BOOLEAN, timing : Timings, next : Nat]
IdleHand == [at |-> "idle"]
RecurSteps == {"look", "load", "insert", "variants", "done", "thrown", "refused"}
Updates  == [enabled : BOOLEAN] \cup [enabled : BOOLEAN, next : Nat]
              \cup [enabled : BOOLEAN, timing : Timings, next : Nat]

SchedulesInit ==
  /\ time = 0 /\ schedule = NoSchedule
  /\ origin = [i \in Occurrences |-> 0]
  /\ Plane!Init
  /\ copies = << >>
  /\ hand = [h \in Hands |-> IdleHand]

SchedulesTypeOK ==
  /\ time \in 0..MaxTime
  /\ schedule \in ScheduleRows \cup {NoSchedule, Deleted}
  /\ origin \in [Occurrences -> Nat]
  /\ phase \in [Occurrences -> Plane!Phases]
  /\ holder \in [Occurrences -> Hands \cup {NoHand}]
  /\ copies \in Seq([task : Occurrences, variants : BOOLEAN])
  /\ hand \in [Hands -> {IdleHand}
       \cup [at : {"materialize"}, expected : Nat, following : Nat]
       \cup [at : {"body"}, enabled : BOOLEAN, timing : Timings]
       \cup [at : {"write"}, update : Updates]
       \cup [at : RecurSteps, task : Occurrences]]

----
(* lib/tasks/cron.ts *)

\* The first match of the expression strictly after a time.
NextCronRun(d, after) == d.every * (after \div d.every + 1)

\* The first run of a definition that is entered now.
FirstRun(d, t) == IF d.cron THEN NextCronRun(d, t) ELSE t + d.every

\* The run after an expected one: the runs that were missed are skipped.
FollowingRun(d, expected, t) ==
  LET floor == IF t > expected THEN t ELSE expected
  IN IF d.cron THEN NextCronRun(d, floor)
     ELSE expected + d.every * ((floor - expected) \div d.every + 1)

----
(* The tick. *)

HandAt(h, s)   == hand[h].at = s
HandTo(h, w)   == hand' = [hand EXCEPT ![h] = w]
EndHand(h) == HandTo(h, IdleHand)

FetchSchedules(h) ==
  /\ HandAt(h, "idle")
  /\ schedule.status = "kept" /\ schedule.enabled /\ schedule.next <= time
  /\ HandTo(h, [at |-> "materialize", expected |-> schedule.next,
            following |-> FollowingRun(schedule.timing, schedule.next, time)])
  /\ UNCHANGED <<time, schedule, origin, planeVars, copies>>

\* Mutant: tasks have no idempotency key, the compare-and-set on next_run_at is all there is.
Keyed_never(e) == FALSE

\* A task with the occurrence's key is there.
Keyed(e) == \E i \in Occurrences : phase[i] # "absent" /\ origin[i] = e

NewTask(e) ==
  \E i \in Occurrences :
    /\ \A k \in Occurrences : k < i => phase[k] # "absent"
    /\ Plane!Create(i)
    /\ origin' = [origin EXCEPT ![i] = e]

\* materialize_schedule, one transaction: the row is advanced if it is still at the expected
\* run, and a task inserted unless its key is taken.  A failure is counted and passed over.
MaterializeSchedule(h) ==
  /\ HandAt(h, "materialize")
  /\ LET e == hand[h].expected IN
       \/ /\ schedule.status = "kept" /\ schedule.enabled /\ schedule.next = e
          /\ schedule' = [schedule EXCEPT !.next = hand[h].following]
          /\ IF Keyed(e) THEN UNCHANGED <<origin, planeVars>> ELSE NewTask(e)
       \/ UNCHANGED <<schedule, origin, planeVars>>
  /\ EndHand(h)
  /\ UNCHANGED <<time, copies>>

----
(* /api/v1/schedules *)

PostSchedule ==
  /\ schedule = NoSchedule
  /\ \E d \in Timings, b \in BOOLEAN :
       schedule' = [status |-> "kept", enabled |-> b, timing |-> d, next |-> FirstRun(d, time)]
  /\ UNCHANGED <<time, origin, planeVars, copies, hand>>

\* PATCH reads the row, then its body, and writes by id.
OwnerSchedule(h) ==
  /\ HandAt(h, "idle") /\ schedule.status = "kept"
  /\ HandTo(h, [at |-> "body", enabled |-> schedule.enabled, timing |-> schedule.timing])
  /\ UNCHANGED <<time, schedule, origin, planeVars, copies>>

\* A body of enabled alone toggles, and what it enables starts afresh; another one replaces
\* the definition.
ReadBody(h) ==
  /\ HandAt(h, "body")
  /\ \E b \in BOOLEAN, d \in Timings :
       \E u \in {IF b /\ ~hand[h].enabled
                 THEN [enabled |-> b, next |-> FirstRun(hand[h].timing, time)]
                 ELSE [enabled |-> b],
                 [enabled |-> b, timing |-> d, next |-> FirstRun(d, time)]} :
         HandTo(h, [at |-> "write", update |-> u])
  /\ UNCHANGED <<time, schedule, origin, planeVars, copies>>

\* The update fails, or finds no row.
WriteSchedule(h) ==
  /\ HandAt(h, "write")
  /\ LET u == hand[h].update IN
       \/ /\ schedule.status = "kept"
          /\ schedule' = [f \in DOMAIN schedule |-> IF f \in DOMAIN u THEN u[f] ELSE schedule[f]]
       \/ UNCHANGED schedule
  /\ EndHand(h)
  /\ UNCHANGED <<time, origin, planeVars, copies>>

DeleteSchedule ==
  /\ schedule.status = "kept"
  /\ schedule' = Deleted
  /\ UNCHANGED <<time, origin, planeVars, copies, hand>>

----
(* A run of content.recur. *)

RunAt(h, s) == HandAt(h, s) /\ UNCHANGED <<time, schedule, origin>>
RunTo(h, s) == hand' = [hand EXCEPT ![h].at = s]
Copied(i)   == \E c \in DOMAIN copies : copies[c].task = i
Copy(i)     == CHOOSE c \in DOMAIN copies : copies[c].task = i

\* claim_tasks; an invocation has a fresh owner, so no lease of an earlier one is its own.
StartRecur(h, i) ==
  /\ RunAt(h, "idle")
  /\ \A k \in Occurrences : holder[k] # h
  /\ Plane!Grant({i}, h)
  /\ HandTo(h, [at |-> "look", task |-> i])
  /\ UNCHANGED copies

\* A lookup that fails finds no copy.
LookForCopy(h) ==
  /\ RunAt(h, "look")
  /\ \/ Copied(hand[h].task) /\ RunTo(h, "done")
     \/ RunTo(h, "load")
  /\ UNCHANGED <<planeVars, copies>>

\* The source item is there, could not be read, or was deleted; its campaign may be closed.
LoadSource(h) ==
  /\ RunAt(h, "load")
  /\ \E s \in {"insert", "thrown", "refused", "done"} : RunTo(h, s)
  /\ UNCHANGED <<planeVars, copies>>

\* source_task_id is unique: a second insert finds the copy of the first.
InsertCopy(h) ==
  /\ RunAt(h, "insert")
  /\ LET i == hand[h].task IN
       \/ /\ ~Copied(i)
          /\ copies' = Append(copies, [task |-> i, variants |-> FALSE])
          /\ RunTo(h, "variants") \/ RunTo(h, "thrown")
       \/ /\ Copied(i) /\ RunTo(h, "done")
          /\ UNCHANGED copies
       \/ /\ RunTo(h, "thrown")
          /\ UNCHANGED copies
  /\ UNCHANGED planeVars

\* An insert that fails throws; a read that fails finds no variants.
CopyVariants(h) ==
  /\ RunAt(h, "variants")
  /\ copies' \in {copies, [copies EXCEPT ![Copy(hand[h].task)].variants = TRUE]}
  /\ RunTo(h, "done") \/ RunTo(h, "thrown")
  /\ UNCHANGED planeVars

\* complete_task, or fail_task with a transient or a terminal error, for the lease's owner.
\* The call may fail.
SettleRecur(h) ==
  /\ HandAt(h, "done") \/ HandAt(h, "thrown") \/ HandAt(h, "refused")
  /\ LET i == hand[h].task IN
       \/ /\ holder[i] = h
          /\ \/ HandAt(h, "done") /\ Plane!Finish(i)
             \/ HandAt(h, "thrown") /\ Plane!Return({i}, {})
             \/ ~HandAt(h, "done") /\ Plane!Return({i}, {i})
       \/ UNCHANGED planeVars
  /\ EndHand(h)
  /\ UNCHANGED <<time, schedule, origin, copies>>

----
\* The plane by itself: leases expire, operators cancel tasks and retry dead ones.
PlaneMoves ==
  /\ \E i \in Occurrences :
       \/ \E D \in {{}, {i}} : Plane!Return({i}, D)
       \/ Plane!Finish(i)
       \/ Plane!Reopen(i)
  /\ UNCHANGED <<time, schedule, origin, copies, hand>>

StopHand(h) ==
  /\ ~HandAt(h, "idle") /\ EndHand(h)
  /\ UNCHANGED <<time, schedule, origin, planeVars, copies>>

TimeGoesOn ==
  /\ time < MaxTime /\ time' = time + 1
  /\ UNCHANGED <<schedule, origin, planeVars, copies, hand>>

SchedulesNext ==
  \/ PostSchedule \/ DeleteSchedule \/ PlaneMoves \/ TimeGoesOn
  \/ \E h \in Hands :
       \/ FetchSchedules(h) \/ MaterializeSchedule(h)
       \/ OwnerSchedule(h) \/ ReadBody(h) \/ WriteSchedule(h)
       \/ \E i \in Occurrences : StartRecur(h, i)
       \/ LookForCopy(h) \/ LoadSource(h) \/ InsertCopy(h) \/ CopyVariants(h)
       \/ SettleRecur(h) \/ StopHand(h)

SchedulesSpec == SchedulesInit /\ [][SchedulesNext]_scheduleVars

----
\* An occurrence of a schedule becomes one task and at most one draft
\* (materialize_schedule: "Concurrent ticks cannot double-create"; recurring.ts: "a retried
\* task never creates a second copy"), whatever ticks overlap, requests write late and runs
\* go on without their lease.
OccurrenceOnce ==
  /\ \A i, k \in Occurrences :
       phase[i] # "absent" /\ phase[k] # "absent" /\ origin[i] = origin[k] => i = k
  /\ \A c, d \in DOMAIN copies :
       origin[copies[c].task] = origin[copies[d].task] => c = d
====
