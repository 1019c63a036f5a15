---- MODULE Enrollments ----
(***************************************************************************)
(* A contact's enrollment in a sequence (lib/sequence-processor.ts): runs  *)
(* of the cron job fetch the enrollments that are due and take each one    *)
(* step, a delay or a message sent through the Gateway.  There is no       *)
(* claim: runs overlap, and a write by one of them is guarded by the step  *)
(* that its snapshot was at.  Each call is a step; a write that fails may  *)
(* have taken effect; runs die.                                            *)
(*                                                                         *)
(* next_step_at is due, minutes away ("soon"), or a step's delay away.     *)
(* The steps of a sequence are not edited while the contact is enrolled.   *)
(***************************************************************************)
EXTENDS Integers

CONSTANTS
  Steps,    \* the steps of the sequence: "message" or "delay", by current_step_index
  Crons     \* invocations of the cron job that may overlap

ASSUME SequenceAssumption ==
  /\ DOMAIN Steps \subseteq Nat /\ 0 \in DOMAIN Steps
  /\ \A n \in DOMAIN Steps : 0..n \subseteq DOMAIN Steps /\ Steps[n] \in {"message", "delay"}

VARIABLES
  enrollment,   \* sequence_enrollments: status, current_step_index, whether
                \* current_operation_id is set, next_step_at
  running,      \* the sequence's status is active
  operation,    \* the Gateway's operation under the key of a step
  cron,         \* what each run is doing, and its snapshot
  \* history
  waited,       \* delays that have passed in full
  hasty         \* a run that saw the sequence paused postponed a later step

sequenceVars == <<enrollment, running, operation, cron, waited, hasty>>

NoCron == [at |-> "idle"]
CronSteps == {"postpone", "complete", "call", "persist", "answer", "retry", "check", "recheck",
              "fail", "advance", "rescue"}
OperationStates == {"none", "pending", "succeeded", "retryable", "failed"}
Indexes == DOMAIN Steps \cup {n + 1 : n \in DOMAIN Steps}

NextAt(n) == IF n \in DOMAIN Steps /\ Steps[n] = "delay" THEN "delayed" ELSE "due"

SequenceInit ==
  /\ enrollment = [status |-> "active", step |-> 0, op |-> FALSE, next |-> NextAt(0)]
  /\ running = TRUE
  /\ operation = [n \in DOMAIN Steps |-> "none"]
  /\ cron = [c \in Crons |-> NoCron]
  /\ waited = {} /\ hasty = FALSE

SequenceTypeOK ==
  /\ enrollment \in [status : {"active", "completed", "cancelled", "failed"}, step : Indexes,
                     op : BOOLEAN, next : {"due", "soon", "delayed", "null"}]
  /\ running \in BOOLEAN
  /\ operation \in [DOMAIN Steps -> OperationStates]
  /\ cron \in [Crons -> [at : CronSteps, step : Indexes, op : BOOLEAN, answer : OperationStates]
                         \cup {NoCron}]
  /\ waited \subseteq DOMAIN Steps /\ hasty \in BOOLEAN

----
(* A run. *)

CronAt(c, s) == cron[c].at = s
CronTo(c, s) == cron' = [cron EXCEPT ![c].at = s]
CronEnds(c)  == cron' = [cron EXCEPT ![c] = NoCron]

\* Mutant: writes are not guarded by the step of the snapshot.
Matches_active(c) == enrollment.status = "active"

\* The filter of the writes: no row matches an enrollment that has moved on.
Matches(c) == enrollment.status = "active" /\ enrollment.step = cron[c].step

\* A filtered write; it goes on at s, and at e when it fails.
Update(c, new, s, e) ==
  /\ \/ enrollment' = (IF Matches(c) THEN new ELSE enrollment) /\ s
     \/ enrollment' \in {enrollment, IF Matches(c) THEN new ELSE enrollment} /\ e
  /\ UNCHANGED <<running, operation, waited, hasty>>

\* The due enrollment, with its sequence.
FetchDue(c) ==
  /\ cron[c] = NoCron
  /\ enrollment.status = "active" /\ enrollment.next = "due"
  /\ LET n == enrollment.step IN
       cron' = [cron EXCEPT ![c] =
         [at   |-> CASE ~running -> "postpone"
                     [] running /\ n \notin DOMAIN Steps -> "complete"
                     [] running /\ n \in DOMAIN Steps ->
                          IF Steps[n] = "message" THEN "call" ELSE "advance",
          step |-> n, op |-> enrollment.op, answer |-> "none"]]
  /\ UNCHANGED <<enrollment, running, operation, waited, hasty>>

\* The sequence is not active: look again later.  This write is not guarded by the step.
Postpone(c) ==
  /\ CronAt(c, "postpone")
  /\ \/ /\ enrollment.status = "active"
        /\ enrollment' = [enrollment EXCEPT !.next = "soon"]
        /\ hasty' = (hasty \/ enrollment.step # cron[c].step)
     \/ UNCHANGED <<enrollment, hasty>>
  /\ CronEnds(c)
  /\ UNCHANGED <<running, operation, waited>>

CompleteEnrollment(c) ==
  /\ CronAt(c, "complete")
  /\ Update(c, [enrollment EXCEPT !.status = "completed", !.op = FALSE, !.next = "null"],
            CronEnds(c), CronTo(c, "rescue"))

----
(* settleMessageStep *)

\* Ask for the operation the snapshot knows, or reply under the step's key: the operation
\* there is already, or a new one.  A retryable error leads to a check, another fails the
\* enrollment, and so does a conversation that is not there.
CallGateway(c) ==
  /\ CronAt(c, "call")
  /\ LET n == cron[c].step IN
       \/ /\ operation' \in {operation} \cup
               (IF operation[n] = "none" THEN {[operation EXCEPT ![n] = o] : o \in OperationStates} ELSE {})
          /\ operation'[n] # "none"
          /\ cron' = [cron EXCEPT ![c].at = IF cron[c].op THEN "answer" ELSE "persist",
                                  ![c].answer = operation'[n]]
       \/ /\ operation' \in {operation} \cup
               (IF operation[n] = "none" THEN {[operation EXCEPT ![n] = "pending"]} ELSE {})
          /\ CronTo(c, "recheck") \/ CronTo(c, "fail")
  /\ UNCHANGED <<enrollment, running, waited, hasty>>

\* The operation's id is kept, so that later runs ask for it; failing to fails the enrollment.
PersistOperation(c) ==
  /\ CronAt(c, "persist")
  /\ Update(c, [enrollment EXCEPT !.op = TRUE],
            cron' = [cron EXCEPT ![c].at = "answer", ![c].op = TRUE],
            cron' = [cron EXCEPT ![c].at = "fail",   ![c].op = TRUE])

\* Mutant: an operation that is on its way is taken for a success.
Delivered_accepted(o) == o \in {"pending", "succeeded"}

Delivered(o) == o = "succeeded"

\* What the Gateway answered may have changed since.
Answer(c) ==
  /\ CronAt(c, "answer")
  /\ LET o == cron[c].answer IN
       CronTo(c, CASE Delivered(o) -> "advance"
                   [] ~Delivered(o) /\ o = "pending"   -> "check"
                   [] ~Delivered(o) /\ o = "retryable" -> "retry"
                   [] ~Delivered(o) /\ o = "failed"    -> "fail")
  /\ UNCHANGED <<enrollment, running, operation, waited, hasty>>

\* Another run may have had it retried already.
RetryOperation(c) ==
  /\ CronAt(c, "retry")
  /\ LET n == cron[c].step IN
       \/ /\ operation' = IF operation[n] = "retryable" THEN [operation EXCEPT ![n] = "pending"]
                                                         ELSE operation
          /\ CronTo(c, "check") \/ CronTo(c, "recheck") \/ CronTo(c, "fail")
       \/ UNCHANGED operation /\ (CronTo(c, "recheck") \/ CronTo(c, "fail"))
  /\ UNCHANGED <<enrollment, running, waited, hasty>>

\* scheduleOperationCheck: with backoff, or after a retryable error.
ScheduleCheck(c) ==
  /\ CronAt(c, "check") \/ CronAt(c, "recheck")
  /\ Update(c, [enrollment EXCEPT !.op = cron[c].op, !.next = "soon"],
            CronEnds(c), CronTo(c, IF CronAt(c, "check") THEN "fail" ELSE "rescue"))

FailEnrollment(c) ==
  /\ CronAt(c, "fail")
  /\ Update(c, [enrollment EXCEPT !.status = "failed", !.op = cron[c].op, !.next = "null"],
            CronEnds(c), CronTo(c, "rescue"))

AdvanceEnrollment(c) ==
  /\ CronAt(c, "advance")
  /\ LET n == cron[c].step + 1 IN
       Update(c, IF n \in DOMAIN Steps
                 THEN [enrollment EXCEPT !.step = n, !.op = FALSE, !.next = NextAt(n)]
                 ELSE [status |-> "completed", step |-> n, op |-> FALSE, next |-> "null"],
              CronEnds(c), CronTo(c, "rescue"))

\* The run catches what processEnrollment threw.
Rescue(c) ==
  /\ CronAt(c, "rescue")
  /\ Update(c, [enrollment EXCEPT !.next = "soon"], CronEnds(c), CronEnds(c))

DieCron(c) == cron[c] # NoCron /\ CronEnds(c) /\ UNCHANGED <<enrollment, running, operation, waited, hasty>>

----
(* Time, the Gateway, and the owners. *)

TimePasses ==
  /\ enrollment.next \in {"soon", "delayed"}
  /\ enrollment' = [enrollment EXCEPT !.next = "due"]
  /\ waited' = IF enrollment.next = "delayed" THEN waited \cup {enrollment.step} ELSE waited
  /\ UNCHANGED <<running, operation, cron, hasty>>

OperationEnds(n) ==
  /\ operation[n] = "pending"
  /\ \E o \in {"succeeded", "retryable", "failed"} : operation' = [operation EXCEPT ![n] = o]
  /\ UNCHANGED <<enrollment, running, cron, waited, hasty>>

\* The sequence is paused or activated.
Toggle == running' = ~running /\ UNCHANGED <<enrollment, operation, cron, waited, hasty>>

\* cancelEnrollment: whatever the enrollment has become.
CancelEnrollment ==
  /\ enrollment.status # "cancelled"
  /\ enrollment' = [enrollment EXCEPT !.status = "cancelled"]
  /\ UNCHANGED <<running, operation, cron, waited, hasty>>

SequenceNext ==
  \/ \E c \in Crons :
       \/ FetchDue(c) \/ Postpone(c) \/ CompleteEnrollment(c) \/ CallGateway(c)
       \/ PersistOperation(c) \/ Answer(c) \/ RetryOperation(c) \/ ScheduleCheck(c)
       \/ FailEnrollment(c) \/ AdvanceEnrollment(c) \/ Rescue(c) \/ DieCron(c)
  \/ \E n \in DOMAIN Steps : OperationEnds(n)
  \/ TimePasses \/ Toggle \/ CancelEnrollment

SequenceSpec == SequenceInit /\ [][SequenceNext]_sequenceVars

----
(* Properties. *)

\* An enrollment moves on one step at a time, and from a message only when the Gateway has
\* delivered it: runs that overlap on a step, or come back to it late, neither skip a step
\* nor take the contact back to one.
StepsInOrder ==
  [][enrollment'.step # enrollment.step =>
       /\ enrollment'.step = enrollment.step + 1
       /\ Steps[enrollment.step] = "message" => operation[enrollment.step] = "succeeded"]_sequenceVars

\* No delay is cut short by a run that is behind, unless it saw the sequence paused: its
\* "look again in five minutes" is written whatever step the enrollment is at by then.
DelayRespected ==
  [][enrollment'.step # enrollment.step /\ Steps[enrollment.step] = "delay" =>
       enrollment.step \in waited \/ hasty]_sequenceVars
====
