---- MODULE ContactProofs ----
(***************************************************************************)
(* What a contact goes through.  Enrollments move on in order and respect  *)
(* their delays, for every sequence of steps and any number of overlapping *)
(* runs.  A run through a flow is never left behind without a job, a       *)
(* message or a walker to go on with it, and no job cancels one that goes  *)
(* on, for every path of nodes and any number of walkers and deaths.       *)
(***************************************************************************)
EXTENDS Enrollments, FlowSessions, TLAPS

----
(* Enrollments. *)
CronRows == [at : CronSteps, step : Indexes, op : BOOLEAN, answer : OperationStates]

\* The indexes of an enrollment: the steps, and one past the last.
LEMMA StepFacts ==
  /\ DOMAIN Steps \subseteq Indexes /\ 0 \in Indexes
  /\ \A n \in DOMAIN Steps : n \in Nat /\ n + 1 \in Indexes /\ n + 1 # n
  BY SequenceAssumption DEF Indexes

\* advanceEnrollment stamps the delay of the next step, or no delay.
LEMMA NextTyped == \A n : NextAt(n) \in {"due", "delayed"}
  BY DEF NextAt

\* SequenceTypeOK, with the two variables that take more than one step to check apart.
Typed ==
  /\ enrollment \in [status : {"active", "completed", "cancelled", "failed"}, step : Indexes,
                     op : BOOLEAN, next : {"due", "soon", "delayed", "null"}]
  /\ running \in BOOLEAN
  /\ operation \in [DOMAIN Steps -> OperationStates]
  /\ waited \subseteq DOMAIN Steps /\ hasty \in BOOLEAN

CronsTyped == cron \in [Crons -> CronRows \cup {NoCron}]

\* The two parts make up SequenceTypeOK.
LEMMA SequenceTypeParts == SequenceTypeOK <=> Typed /\ CronsTyped
  BY DEF SequenceTypeOK, Typed, CronsTyped, CronRows

\* A run that ends leaves no snapshot.
LEMMA Ending ==
  ASSUME CronsTyped, NEW c \in Crons, CronEnds(c)
  PROVE  CronsTyped'
BY DEF CronsTyped, CronEnds

\* A run goes on with its snapshot.
LEMMA GoingOn ==
  ASSUME CronsTyped, NEW c \in Crons, cron[c].at # "idle", NEW s \in CronSteps, CronTo(c, s)
  PROVE  CronsTyped'
<1>1. cron[c] \in CronRows
  BY DEF CronsTyped, NoCron
<1>2. cron' = [cron EXCEPT ![c] = [cron[c] EXCEPT !.at = s]]
  BY DEF CronTo
<1>3. ASSUME NEW r \in CronRows PROVE [r EXCEPT !.at = s] \in CronRows
  BY SMT DEF CronRows
<1>4. [cron[c] EXCEPT !.at = s] \in CronRows \cup {NoCron}
  BY <1>1, <1>3
<1>5. QED
  BY <1>2, <1>4 DEF CronsTyped

EnrollmentRows == [status : {"active", "completed", "cancelled", "failed"}, step : Indexes,
                   op : BOOLEAN, next : {"due", "soon", "delayed", "null"}]

\* A filtered write, whether it fails or not.
LEMMA Wrote ==
  ASSUME Typed, NEW new \in EnrollmentRows, enrollment' \in {enrollment, new},
         UNCHANGED <<running, operation, waited, hasty>>
  PROVE  Typed'
BY DEF Typed, EnrollmentRows

\* The steps of settleMessageStep.
Settling == {"call", "persist", "answer", "retry", "check", "recheck"}

\* A run that settles a message is at one, and goes on from it only when it was delivered.
Placed(c) ==
  /\ cron[c].at \in Settling =>
       cron[c].step \in DOMAIN Steps /\ Steps[cron[c].step] = "message"
  /\ cron[c].at \in {"persist", "answer"} =>
       /\ cron[c].answer # "none"
       /\ cron[c].answer = "succeeded" => operation[cron[c].step] = "succeeded"
  /\ cron[c].at = "advance" =>
       /\ cron[c].step \in DOMAIN Steps
       /\ Steps[cron[c].step] = "message" => operation[cron[c].step] = "succeeded"

AllPlaced == \A c \in Crons : Placed(c)

\* Step n may be left, if it is a delay.
Rested(n) == n \in DOMAIN Steps /\ Steps[n] = "delay" => n \in waited \/ hasty

\* A delay that is not running has passed, and so has the one that a run is at.
Delayed ==
  /\ enrollment.next = "delayed" =>
       enrollment.step \in DOMAIN Steps /\ Steps[enrollment.step] = "delay"
  /\ enrollment.next # "delayed" => Rested(enrollment.step)
  /\ \A c \in Crons : cron[c] # NoCron => Rested(cron[c].step)

SequenceInv == SequenceTypeOK /\ AllPlaced /\ Delayed

\* Every handler keeps the types of the rows and of the snapshots.
LEMMA SequenceTypeStep ==
  ASSUME SequenceInv, [SequenceNext]_sequenceVars
  PROVE  SequenceTypeOK'
<1>0. Typed /\ CronsTyped /\ AllPlaced /\ Delayed
  BY SequenceTypeParts DEF SequenceInv
<1> SUFFICES Typed' /\ CronsTyped'
  BY DEF SequenceTypeOK, Typed, CronsTyped, CronRows
<1> USE <1>0
<1>a. enrollment \in EnrollmentRows
  BY DEF Typed, EnrollmentRows
<1>b. ASSUME NEW c \in Crons, cron[c].at # "idle" PROVE cron[c] \in CronRows
  BY <1>b DEF CronsTyped, NoCron
<1>1. CASE UNCHANGED sequenceVars
  BY <1>1 DEF sequenceVars, Typed, CronsTyped
<1>2. ASSUME NEW c \in Crons, FetchDue(c) PROVE Typed' /\ CronsTyped'
  <2>1. cron[c] = NoCron /\ enrollment.step \in Indexes /\ enrollment.op \in BOOLEAN /\ Typed'
    BY <1>2 DEF FetchDue, Typed
  <2>2. ASSUME NEW s \in CronSteps,
               cron' = [cron EXCEPT ![c] = [at |-> s, step |-> enrollment.step,
                                            op |-> enrollment.op, answer |-> "none"]]
        PROVE  CronsTyped'
    BY <2>1, <2>2 DEF CronsTyped, CronRows, OperationStates
  <2>3. CASE ~running
    BY <1>2, <2>1, <2>2, <2>3 DEF FetchDue, CronSteps
  <2>4. CASE running /\ enrollment.step \notin DOMAIN Steps
    BY <1>2, <2>1, <2>2, <2>4 DEF FetchDue, CronSteps
  <2>5. CASE running /\ enrollment.step \in DOMAIN Steps /\ Steps[enrollment.step] = "message"
    BY <1>2, <2>1, <2>2, <2>5 DEF FetchDue, CronSteps
  <2>6. CASE running /\ enrollment.step \in DOMAIN Steps /\ Steps[enrollment.step] # "message"
    BY <1>2, <2>1, <2>2, <2>6 DEF FetchDue, CronSteps
  <2>7. QED
    BY <2>3, <2>4, <2>5, <2>6 DEF Typed
<1>3. ASSUME NEW c \in Crons, Postpone(c) PROVE Typed' /\ CronsTyped'
  BY <1>3, Ending DEF Postpone, Typed
<1>4. ASSUME NEW c \in Crons, CompleteEnrollment(c) PROVE Typed' /\ CronsTyped'
  <2>1. CronsTyped'
    BY <1>4, Ending, GoingOn DEF CompleteEnrollment, CronAt, Update, CronSteps
  <2>2. [enrollment EXCEPT !.status = "completed", !.op = FALSE, !.next = "null"] \in EnrollmentRows
    BY <1>a DEF EnrollmentRows
  <2>3. QED
    BY <1>4, <2>1, <2>2, Wrote DEF CompleteEnrollment, Update
<1>5. ASSUME NEW c \in Crons, CallGateway(c) PROVE Typed' /\ CronsTyped'
  <2>1. cron[c] \in CronRows /\ cron[c].at # "idle"
    BY <1>5, <1>b DEF CallGateway, CronAt
  <2>2. Typed'
    BY <1>5 DEF CallGateway, Typed, OperationStates
  <2>3. CASE CronTo(c, "recheck")
    BY <2>1, <2>2, <2>3, GoingOn DEF CronSteps
  <2>4. CASE CronTo(c, "fail")
    BY <2>1, <2>2, <2>4, GoingOn DEF CronSteps
  <2>5. CASE \E s \in {"answer", "persist"}, o \in OperationStates :
               cron' = [cron EXCEPT ![c].at = s, ![c].answer = o]
    <3>1. PICK s \in {"answer", "persist"}, o \in OperationStates :
            cron' = [cron EXCEPT ![c] = [[cron[c] EXCEPT !.at = s] EXCEPT !.answer = o]]
      BY <2>5
    <3>2. [[cron[c] EXCEPT !.at = s] EXCEPT !.answer = o] \in CronRows
      BY <2>1 DEF CronRows, CronSteps
    <3>3. QED
      BY <2>2, <3>1, <3>2 DEF CronsTyped
  <2>6. CASE /\ operation' \in {operation} \cup
                  (IF operation[cron[c].step] = "none"
                   THEN {[operation EXCEPT ![cron[c].step] = o] : o \in OperationStates} ELSE {})
             /\ cron' = [cron EXCEPT ![c].at = IF cron[c].op THEN "answer" ELSE "persist",
                                     ![c].answer = operation'[cron[c].step]]
    <3>1. cron[c].step \in DOMAIN Steps
      BY <1>5 DEF CallGateway, CronAt, AllPlaced, Placed, Settling
    <3>2. operation'[cron[c].step] \in OperationStates
      BY <2>2, <3>1 DEF Typed
    <3>3. CASE cron[c].op
      BY <2>5, <2>6, <3>2, <3>3
    <3>4. CASE ~cron[c].op
      BY <2>5, <2>6, <3>2, <3>4
    <3>5. QED
      BY <3>3, <3>4
  <2>7. QED
    BY <1>5, <2>3, <2>4, <2>6 DEF CallGateway
<1>6. ASSUME NEW c \in Crons, PersistOperation(c) PROVE Typed' /\ CronsTyped'
  <2>1. cron[c] \in CronRows /\ cron[c].at # "idle"
    BY <1>6, <1>b DEF PersistOperation, CronAt
  <2>2. [enrollment EXCEPT !.op = TRUE] \in EnrollmentRows
    BY <1>a DEF EnrollmentRows
  <2>3. Typed'
    BY <1>6, <2>2, Wrote DEF PersistOperation, Update
  <2>4. ASSUME NEW s \in {"answer", "fail"}, cron' = [cron EXCEPT ![c].at = s, ![c].op = TRUE]
        PROVE  CronsTyped'
    <3>1. cron' = [cron EXCEPT ![c] = [[cron[c] EXCEPT !.at = s] EXCEPT !.op = TRUE]]
      BY <2>4
    <3>2. [[cron[c] EXCEPT !.at = s] EXCEPT !.op = TRUE] \in CronRows
      BY <2>1 DEF CronRows, CronSteps
    <3>3. QED
      BY <3>1, <3>2 DEF CronsTyped
  <2>5. QED
    BY <1>6, <2>3, <2>4 DEF PersistOperation, Update
<1>7. ASSUME NEW c \in Crons, Answer(c) PROVE Typed' /\ CronsTyped'
  <2>1. cron[c] \in CronRows /\ cron[c].at # "idle"
    BY <1>7, <1>b DEF Answer, CronAt
  <2>2. Typed'
    BY <1>7 DEF Answer, Typed
  <2>3. \E s \in {"advance", "check", "retry", "fail"} : CronTo(c, s)
    <3>1. cron[c].answer \in {"succeeded", "pending", "retryable", "failed"}
      BY <1>7, <2>1 DEF Answer, CronAt, AllPlaced, Placed, CronRows, OperationStates
    <3>2. CASE cron[c].answer = "succeeded"
      BY <1>7, <3>2 DEF Answer, Delivered
    <3>3. CASE cron[c].answer = "pending"
      BY <1>7, <3>3 DEF Answer, Delivered
    <3>4. CASE cron[c].answer = "retryable"
      BY <1>7, <3>4 DEF Answer, Delivered
    <3>5. CASE cron[c].answer = "failed"
      BY <1>7, <3>5 DEF Answer, Delivered
    <3>6. QED
      BY <3>1, <3>2, <3>3, <3>4, <3>5
  <2>4. CronsTyped'
    BY <2>1, <2>3, GoingOn DEF CronSteps
  <2>5. QED
    BY <2>2, <2>4
<1>8. ASSUME NEW c \in Crons, RetryOperation(c) PROVE Typed' /\ CronsTyped'
  <2>1. cron[c].at # "idle"
    BY <1>8 DEF RetryOperation, CronAt
  <2>2. Typed'
    BY <1>8 DEF RetryOperation, Typed, OperationStates
  <2>3. \E s \in {"check", "recheck", "fail"} : CronTo(c, s)
    BY <1>8 DEF RetryOperation
  <2>4. CronsTyped'
    BY <2>1, <2>3, GoingOn DEF CronSteps
  <2>5. QED
    BY <2>2, <2>4
<1>9. ASSUME NEW c \in Crons, ScheduleCheck(c) PROVE Typed' /\ CronsTyped'
  <2>1. cron[c] \in CronRows /\ cron[c].at # "idle"
    BY <1>9, <1>b DEF ScheduleCheck, CronAt
  <2>2. [enrollment EXCEPT !.op = cron[c].op, !.next = "soon"] \in EnrollmentRows
    BY <1>a, <2>1 DEF EnrollmentRows, CronRows
  <2>3. Typed'
    BY <1>9, <2>2, Wrote DEF ScheduleCheck, Update
  <2>4. CronEnds(c) \/ CronTo(c, "fail") \/ CronTo(c, "rescue")
    BY <1>9 DEF ScheduleCheck, Update
  <2>5. CronsTyped'
    BY <2>1, <2>4, Ending, GoingOn DEF CronSteps
  <2>6. QED
    BY <2>3, <2>5
<1>10. ASSUME NEW c \in Crons, FailEnrollment(c) PROVE Typed' /\ CronsTyped'
  <2>1. cron[c] \in CronRows /\ cron[c].at # "idle"
    BY <1>10, <1>b DEF FailEnrollment, CronAt
  <2>2. [enrollment EXCEPT !.status = "failed", !.op = cron[c].op, !.next = "null"] \in EnrollmentRows
    BY <1>a, <2>1 DEF EnrollmentRows, CronRows
  <2>3. Typed'
    BY <1>10, <2>2, Wrote DEF FailEnrollment, Update
  <2>4. CronEnds(c) \/ CronTo(c, "rescue")
    BY <1>10 DEF FailEnrollment, Update
  <2>5. CronsTyped'
    BY <2>1, <2>4, Ending, GoingOn DEF CronSteps
  <2>6. QED
    BY <2>3, <2>5
<1>11. ASSUME NEW c \in Crons, AdvanceEnrollment(c) PROVE Typed' /\ CronsTyped'
  <2> DEFINE n == cron[c].step + 1
             moved == IF n \in DOMAIN Steps
                      THEN [enrollment EXCEPT !.step = n, !.op = FALSE, !.next = NextAt(n)]
                      ELSE [status |-> "completed", step |-> n, op |-> FALSE, next |-> "null"]
  <2>1. cron[c].at # "idle" /\ cron[c].step \in DOMAIN Steps
    BY <1>11 DEF AdvanceEnrollment, CronAt, AllPlaced, Placed
  <2>2. n \in Indexes
    BY <2>1 DEF Indexes
  <2>3. moved \in EnrollmentRows
    BY <1>a, <2>2, NextTyped DEF EnrollmentRows
  <2>4. enrollment' \in {enrollment, moved} /\ UNCHANGED <<running, operation, waited, hasty>>
    BY <1>11 DEF AdvanceEnrollment, Update
  <2>5. Typed'
    BY <2>3, <2>4, Wrote
  <2>6. CronEnds(c) \/ CronTo(c, "rescue")
    BY <1>11 DEF AdvanceEnrollment, Update
  <2>7. CronsTyped'
    BY <2>1, <2>6, Ending, GoingOn DEF CronSteps
  <2>8. QED
    BY <2>5, <2>7
<1>12. ASSUME NEW c \in Crons, Rescue(c) PROVE Typed' /\ CronsTyped'
  <2>1. [enrollment EXCEPT !.next = "soon"] \in EnrollmentRows
    BY <1>a DEF EnrollmentRows
  <2>2. Typed'
    BY <1>12, <2>1, Wrote DEF Rescue, Update
  <2>3. CronsTyped'
    BY <1>12, Ending DEF Rescue, Update
  <2>4. QED
    BY <2>2, <2>3
<1>13. ASSUME NEW c \in Crons, DieCron(c) PROVE Typed' /\ CronsTyped'
  BY <1>13, Ending DEF DieCron, Typed
<1>14. ASSUME NEW n \in DOMAIN Steps, OperationEnds(n) PROVE Typed' /\ CronsTyped'
  BY <1>14 DEF OperationEnds, Typed, CronsTyped, OperationStates
<1>15. CASE TimePasses
  BY <1>15 DEF TimePasses, Typed, CronsTyped, Delayed
<1>16. CASE Toggle
  BY <1>16 DEF Toggle, Typed, CronsTyped
<1>17. CASE CancelEnrollment
  BY <1>17 DEF CancelEnrollment, Typed, CronsTyped
<1>18. QED
  BY <1>1, <1>2, <1>3, <1>4, <1>5, <1>6, <1>7, <1>8, <1>9, <1>10, <1>11, <1>12, <1>13, <1>14,
     <1>15, <1>16, <1>17 DEF SequenceNext

\* What a run's step leaves of its snapshot, and of the other runs.
LEMMA Moved ==
  ASSUME CronsTyped, NEW c \in Crons, cron[c].at # "idle", NEW s \in CronSteps, CronTo(c, s)
  PROVE  /\ cron'[c] # NoCron /\ cron'[c].at = s
         /\ cron'[c].step = cron[c].step /\ cron'[c].answer = cron[c].answer
         /\ \A d \in Crons \ {c} : cron'[d] = cron[d]
<1>1. cron[c] \in CronRows
  BY DEF CronsTyped, NoCron
<1>2. cron'[c] = [cron[c] EXCEPT !.at = s] /\ \A d \in Crons \ {c} : cron'[d] = cron[d]
  BY DEF CronTo, CronsTyped
<1>3. s # "idle"
  BY DEF CronSteps
<1>4. ASSUME NEW r \in CronRows
      PROVE  [r EXCEPT !.at = s].at = s /\ [r EXCEPT !.at = s].step = r.step
             /\ [r EXCEPT !.at = s].answer = r.answer
  BY SMT DEF CronRows
<1>5. QED
  BY <1>1, <1>2, <1>3, <1>4 DEF NoCron

\* A run's end leaves the other runs alone.
LEMMA CronEnded ==
  ASSUME CronsTyped, NEW c \in Crons, CronEnds(c)
  PROVE  cron'[c] = NoCron /\ \A d \in Crons \ {c} : cron'[d] = cron[d]
BY DEF CronsTyped, CronEnds

\* An operation that has succeeded stays so.
Stable == \A n \in DOMAIN Steps : operation[n] = "succeeded" => operation'[n] = "succeeded"

\* A run that does not move stays placed, since no delivery is taken back.
LEMMA OthersPlaced ==
  ASSUME SequenceInv, Stable, NEW d \in Crons, cron'[d] = cron[d]
  PROVE  Placed(d)'
BY DEF SequenceInv, AllPlaced, Placed, Stable, Settling

\* A run that is not at a step that Placed speaks of.
LEMMA ElsewherePlaced ==
  ASSUME NEW d \in Crons, cron'[d].at \in {"idle", "fail", "rescue", "postpone", "complete"}
  PROVE  Placed(d)'
BY DEF Placed, Settling

\* Every handler keeps the runs placed.
LEMMA PlacedStep ==
  ASSUME SequenceInv, [SequenceNext]_sequenceVars
  PROVE  AllPlaced'
<1>0. Typed /\ CronsTyped /\ AllPlaced
  BY SequenceTypeParts DEF SequenceInv
<1> USE <1>0
<1>i. NoCron.at = "idle"
  BY DEF NoCron
<1>a. ASSUME UNCHANGED operation PROVE Stable
  BY <1>a DEF Stable
<1>b. ASSUME NEW c \in Crons, CronEnds(c), Stable PROVE AllPlaced'
  BY <1>b, <1>i, CronEnded, OthersPlaced, ElsewherePlaced DEF AllPlaced
<1>c. ASSUME NEW c \in Crons, cron[c].at # "idle", NEW s \in {"fail", "rescue"}, CronTo(c, s), Stable
      PROVE  AllPlaced'
  BY <1>c, Moved, OthersPlaced, ElsewherePlaced DEF AllPlaced, CronSteps
<1>d. ASSUME NEW c \in Crons, cron[c].at \in Settling, NEW s \in {"retry", "check", "recheck"},
             CronTo(c, s), Stable
      PROVE  AllPlaced'
  <2>1. cron[c].at # "idle" /\ s \in CronSteps
    BY <1>d DEF Settling, CronSteps
  <2>2. cron'[c].at = s /\ cron'[c].step = cron[c].step
    BY <1>d, <2>1, Moved
  <2>3. Placed(c)'
    BY <1>d, <2>2 DEF AllPlaced, Placed
  <2>4. QED
    BY <1>d, <2>1, <2>3, Moved, OthersPlaced DEF AllPlaced
<1>1. CASE UNCHANGED sequenceVars
  BY <1>1, <1>a, OthersPlaced DEF sequenceVars, AllPlaced
<1>2. ASSUME NEW c \in Crons, FetchDue(c) PROVE AllPlaced'
  <2>1. Stable /\ \A d \in Crons \ {c} : cron'[d] = cron[d]
    BY <1>2, <1>a DEF FetchDue, CronsTyped
  <2>2. Placed(c)'
    <3>1. CASE ~running
      BY <1>2, <3>1 DEF FetchDue, Placed, Settling, CronsTyped
    <3>2. CASE running /\ enrollment.step \notin DOMAIN Steps
      BY <1>2, <3>2 DEF FetchDue, Placed, Settling, CronsTyped
    <3>3. CASE running /\ enrollment.step \in DOMAIN Steps /\ Steps[enrollment.step] = "message"
      BY <1>2, <3>3 DEF FetchDue, Placed, Settling, CronsTyped
    <3>4. CASE running /\ enrollment.step \in DOMAIN Steps /\ Steps[enrollment.step] # "message"
      BY <1>2, <3>4 DEF FetchDue, Placed, Settling, CronsTyped
    <3>5. QED
      BY <3>1, <3>2, <3>3, <3>4 DEF Typed
  <2>3. QED
    BY <2>1, <2>2, OthersPlaced DEF AllPlaced
<1>3. ASSUME NEW c \in Crons, Postpone(c) PROVE AllPlaced'
  BY <1>3, <1>a, <1>b DEF Postpone
<1>4. ASSUME NEW c \in Crons, CompleteEnrollment(c) PROVE AllPlaced'
  BY <1>4, <1>a, <1>b, <1>c DEF CompleteEnrollment, CronAt, Update
<1>5. ASSUME NEW c \in Crons, CallGateway(c) PROVE AllPlaced'
  <2> DEFINE n == cron[c].step
  <2>0. cron[c] \in CronRows /\ cron[c].at \in Settling /\ cron[c].at # "idle"
    BY <1>5 DEF CallGateway, CronAt, CronsTyped, NoCron, Settling
  <2>1. Stable
    BY <1>5 DEF CallGateway, Stable, Typed
  <2>2. CASE CronTo(c, "recheck") \/ CronTo(c, "fail")
    <3>1. CASE CronTo(c, "recheck")
      BY <1>d, <2>0, <2>1, <3>1
    <3>2. CASE CronTo(c, "fail")
      BY <1>c, <2>0, <2>1, <3>2
    <3>3. QED
      BY <2>2, <3>1, <3>2
  <2>3. ASSUME NEW s \in {"answer", "persist"}, NEW o, o = operation'[n], o # "none",
               cron' = [cron EXCEPT ![c].at = s, ![c].answer = o]
        PROVE  AllPlaced'
    <3>1. cron'[c] = [[cron[c] EXCEPT !.at = s] EXCEPT !.answer = o]
          /\ \A d \in Crons \ {c} : cron'[d] = cron[d]
      BY <2>3 DEF CronsTyped
    <3>2. cron'[c].at = s /\ cron'[c].answer = o /\ cron'[c].step = n
      BY <2>0, <3>1 DEF CronRows
    <3>3. n \in DOMAIN Steps /\ Steps[n] = "message"
      BY <2>0 DEF AllPlaced, Placed
    <3>4. Placed(c)'
      BY <2>3, <3>2, <3>3 DEF Placed
    <3>5. QED
      BY <2>1, <3>1, <3>4, OthersPlaced DEF AllPlaced
  <2>4. CASE /\ operation'[n] # "none"
             /\ cron' = [cron EXCEPT ![c].at = IF cron[c].op THEN "answer" ELSE "persist",
                                     ![c].answer = operation'[n]]
    <3>1. CASE cron[c].op
      BY <2>3, <2>4, <3>1
    <3>2. CASE ~cron[c].op
      BY <2>3, <2>4, <3>2
    <3>3. QED
      BY <3>1, <3>2
  <2>5. QED
    BY <1>5, <2>2, <2>4 DEF CallGateway
<1>6. ASSUME NEW c \in Crons, PersistOperation(c) PROVE AllPlaced'
  <2>0. cron[c] \in CronRows /\ cron[c].at = "persist"
    BY <1>6 DEF PersistOperation, CronAt, CronsTyped, NoCron
  <2>1. Stable
    BY <1>6, <1>a DEF PersistOperation, Update
  <2>2. ASSUME NEW s \in {"answer", "fail"}, cron' = [cron EXCEPT ![c].at = s, ![c].op = TRUE]
        PROVE  AllPlaced'
    <3>1. cron'[c] = [[cron[c] EXCEPT !.at = s] EXCEPT !.op = TRUE]
          /\ \A d \in Crons \ {c} : cron'[d] = cron[d]
      BY <2>2 DEF CronsTyped
    <3>2. cron'[c].at = s /\ cron'[c].answer = cron[c].answer /\ cron'[c].step = cron[c].step
      BY <2>0, <3>1 DEF CronRows
    <3>3. Placed(c)'
      BY <2>0, <2>1, <2>2, <3>2 DEF AllPlaced, Placed, Settling, Stable
    <3>4. QED
      BY <2>1, <3>1, <3>3, OthersPlaced DEF AllPlaced
  <2>3. QED
    BY <1>6, <2>2 DEF PersistOperation, Update
<1>7. ASSUME NEW c \in Crons, Answer(c) PROVE AllPlaced'
  <2>0. cron[c] \in CronRows /\ cron[c].at = "answer" /\ cron[c].at \in Settling
    BY <1>7 DEF Answer, CronAt, CronsTyped, NoCron, Settling
  <2>1. Stable
    BY <1>7, <1>a DEF Answer
  <2>2. cron[c].answer \in {"succeeded", "pending", "retryable", "failed"}
    BY <2>0 DEF AllPlaced, Placed, CronRows, OperationStates
  <2>3. CASE cron[c].answer = "succeeded"
    <3>1. CronTo(c, "advance")
      BY <1>7, <2>3 DEF Answer, Delivered
    <3>2. cron'[c].at = "advance" /\ cron'[c].step = cron[c].step
      BY <2>0, <3>1, Moved DEF CronSteps
    <3>3. Placed(c)'
      BY <2>0, <2>1, <2>3, <3>2 DEF AllPlaced, Placed, Settling, Stable
    <3>4. QED
      BY <2>0, <2>1, <3>1, <3>3, Moved, OthersPlaced DEF AllPlaced, CronSteps
  <2>4. CASE cron[c].answer = "pending"
    BY <1>7, <2>0, <2>1, <2>4, <1>d DEF Answer, Delivered
  <2>5. CASE cron[c].answer = "retryable"
    BY <1>7, <2>0, <2>1, <2>5, <1>d DEF Answer, Delivered
  <2>6. CASE cron[c].answer = "failed"
    BY <1>7, <2>0, <2>1, <2>6, <1>c DEF Answer, Delivered
  <2>7. QED
    BY <2>2, <2>3, <2>4, <2>5, <2>6
<1>8. ASSUME NEW c \in Crons, RetryOperation(c) PROVE AllPlaced'
  <2>0. cron[c].at = "retry" /\ cron[c].at \in Settling
    BY <1>8 DEF RetryOperation, CronAt, Settling
  <2>1. Stable
    BY <1>8 DEF RetryOperation, Stable, Typed
  <2>2. CronTo(c, "check") \/ CronTo(c, "recheck") \/ CronTo(c, "fail")
    BY <1>8 DEF RetryOperation
  <2>3. QED
    BY <2>0, <2>1, <2>2, <1>c, <1>d
<1>9. ASSUME NEW c \in Crons, ScheduleCheck(c) PROVE AllPlaced'
  <2>1. CronEnds(c) \/ CronTo(c, "fail") \/ CronTo(c, "rescue")
    BY <1>9 DEF ScheduleCheck, Update
  <2>2. Stable /\ cron[c].at # "idle"
    BY <1>9, <1>a DEF ScheduleCheck, Update, CronAt
  <2>3. QED
    BY <2>1, <2>2, <1>b, <1>c
<1>10. ASSUME NEW c \in Crons, FailEnrollment(c) PROVE AllPlaced'
  BY <1>10, <1>a, <1>b, <1>c DEF FailEnrollment, CronAt, Update
<1>11. ASSUME NEW c \in Crons, AdvanceEnrollment(c) PROVE AllPlaced'
  BY <1>11, <1>a, <1>b, <1>c DEF AdvanceEnrollment, CronAt, Update
<1>12. ASSUME NEW c \in Crons, Rescue(c) PROVE AllPlaced'
  BY <1>12, <1>a, <1>b DEF Rescue, Update
<1>13. ASSUME NEW c \in Crons, DieCron(c) PROVE AllPlaced'
  BY <1>13, <1>a, <1>b DEF DieCron
<1>14. ASSUME NEW n \in DOMAIN Steps, OperationEnds(n) PROVE AllPlaced'
  <2>1. Stable
    BY <1>14 DEF OperationEnds, Stable, Typed
  <2>2. QED
    BY <1>14, <2>1, OthersPlaced DEF OperationEnds, AllPlaced
<1>15. CASE TimePasses
  BY <1>15, <1>a, OthersPlaced DEF TimePasses, AllPlaced
<1>16. CASE Toggle
  BY <1>16, <1>a, OthersPlaced DEF Toggle, AllPlaced
<1>17. CASE CancelEnrollment
  BY <1>17, <1>a, OthersPlaced DEF CancelEnrollment, AllPlaced
<1>18. QED
  BY <1>1, <1>2, <1>3, <1>4, <1>5, <1>6, <1>7, <1>8, <1>9, <1>10, <1>11, <1>12, <1>13, <1>14,
     <1>15, <1>16, <1>17 DEF SequenceNext

\* Only AdvanceEnrollment takes an enrollment to another step.
LEMMA StepChange ==
  ASSUME SequenceInv, [SequenceNext]_sequenceVars, enrollment'.step # enrollment.step
  PROVE  \E c \in Crons : AdvanceEnrollment(c) /\ Matches(c)
<1>0. enrollment \in EnrollmentRows
  BY DEF SequenceInv, SequenceTypeOK, EnrollmentRows
<1> USE <1>0 DEF EnrollmentRows
<1>1. CASE UNCHANGED sequenceVars
  BY <1>1 DEF sequenceVars
<1>2. ASSUME NEW c \in Crons, FetchDue(c) PROVE FALSE
  BY <1>2 DEF FetchDue
<1>3. ASSUME NEW c \in Crons, Postpone(c) PROVE FALSE
  BY <1>3 DEF Postpone
<1>4. ASSUME NEW c \in Crons, CompleteEnrollment(c) PROVE FALSE
  BY <1>4 DEF CompleteEnrollment, Update
<1>5. ASSUME NEW c \in Crons, CallGateway(c) PROVE FALSE
  BY <1>5 DEF CallGateway
<1>6. ASSUME NEW c \in Crons, PersistOperation(c) PROVE FALSE
  BY <1>6 DEF PersistOperation, Update
<1>7. ASSUME NEW c \in Crons, Answer(c) PROVE FALSE
  BY <1>7 DEF Answer
<1>8. ASSUME NEW c \in Crons, RetryOperation(c) PROVE FALSE
  BY <1>8 DEF RetryOperation
<1>9. ASSUME NEW c \in Crons, ScheduleCheck(c) PROVE FALSE
  BY <1>9 DEF ScheduleCheck, Update
<1>10. ASSUME NEW c \in Crons, FailEnrollment(c) PROVE FALSE
  BY <1>10 DEF FailEnrollment, Update
<1>11. ASSUME NEW c \in Crons, AdvanceEnrollment(c) PROVE Matches(c)
  BY <1>11 DEF AdvanceEnrollment, Update
<1>12. ASSUME NEW c \in Crons, Rescue(c) PROVE FALSE
  BY <1>12 DEF Rescue, Update
<1>13. ASSUME NEW c \in Crons, DieCron(c) PROVE FALSE
  BY <1>13 DEF DieCron
<1>14. ASSUME NEW n \in DOMAIN Steps, OperationEnds(n) PROVE FALSE
  BY <1>14 DEF OperationEnds
<1>15. CASE TimePasses \/ Toggle \/ CancelEnrollment
  BY <1>15 DEF TimePasses, Toggle, CancelEnrollment
<1>16. QED
  BY <1>1, <1>2, <1>3, <1>4, <1>5, <1>6, <1>7, <1>8, <1>9, <1>10, <1>11, <1>12, <1>13, <1>14,
     <1>15 DEF SequenceNext

\* A run's step that leaves the enrollment at its step, or takes it to a delay that begins.
LEMMA DelayedKept ==
  ASSUME SequenceInv,
         waited \subseteq waited', hasty => hasty',
         \A c \in Crons : cron'[c] # NoCron => cron[c] # NoCron /\ cron'[c].step = cron[c].step,
         \/ enrollment'.step = enrollment.step /\ enrollment'.next = enrollment.next
         \/ enrollment'.next # "delayed" /\ Rested(enrollment.step)'
         \/ /\ enrollment'.step \in DOMAIN Steps /\ Steps[enrollment'.step] = "delay"
            /\ enrollment'.next = "delayed"
  PROVE  Delayed'
<1>1. ASSUME NEW c \in Crons, cron'[c] # NoCron PROVE Rested(cron[c].step)'
  BY <1>1 DEF SequenceInv, Delayed, Rested
<1>2. CASE enrollment'.step = enrollment.step /\ enrollment'.next = enrollment.next
  BY <1>1, <1>2 DEF SequenceInv, Delayed, Rested
<1>3. CASE enrollment'.next # "delayed" /\ Rested(enrollment.step)'
  BY <1>1, <1>3 DEF Delayed
<1>4. CASE /\ enrollment'.step \in DOMAIN Steps /\ Steps[enrollment'.step] = "delay"
           /\ enrollment'.next = "delayed"
  BY <1>1, <1>4 DEF Delayed
<1>5. QED
  BY <1>2, <1>3, <1>4

\* Every handler keeps account of the delays.
LEMMA DelayedStep ==
  ASSUME SequenceInv, [SequenceNext]_sequenceVars
  PROVE  Delayed'
<1>0. Typed /\ CronsTyped /\ AllPlaced /\ Delayed /\ enrollment \in EnrollmentRows
  BY SequenceTypeParts DEF SequenceInv, Typed, EnrollmentRows
<1> USE <1>0
<1> DEFINE Snapshots == \A c \in Crons : cron'[c] # NoCron =>
                          cron[c] # NoCron /\ cron'[c].step = cron[c].step
           Kept == enrollment'.step = enrollment.step /\ enrollment'.next = enrollment.next
           Woken == enrollment'.next # "delayed" /\ Rested(enrollment.step)'
<1>i. NoCron.at = "idle"
  BY DEF NoCron
<1>a. ASSUME NEW c \in Crons, CronEnds(c) PROVE Snapshots
  BY <1>a, CronEnded
<1>b. ASSUME NEW c \in Crons, cron[c].at # "idle", NEW s \in CronSteps, CronTo(c, s) PROVE Snapshots
  BY <1>b, <1>i, Moved
\* A write by a run at step n of its snapshot that leaves the enrollment there.
<1>c. ASSUME NEW c \in Crons, cron[c].at # "idle", UNCHANGED <<waited, hasty>>, Snapshots,
             \/ enrollment' = enrollment
             \/ /\ Matches(c) /\ enrollment'.step = enrollment.step
                /\ enrollment'.next # "delayed"
      PROVE  Delayed'
  <2>1. CASE enrollment' = enrollment
    BY <1>c, <2>1, DelayedKept DEF SequenceInv
  <2>2. CASE Matches(c) /\ enrollment'.step = enrollment.step /\ enrollment'.next # "delayed"
    <3>1. Rested(enrollment.step)'
      BY <1>c, <1>i, <2>2 DEF Matches, Delayed, Rested
    <3>2. QED
      BY <1>c, <2>2, <3>1, DelayedKept DEF SequenceInv
  <2>3. QED
    BY <1>c, <2>1, <2>2
<1>1. CASE UNCHANGED sequenceVars
  BY <1>1 DEF sequenceVars, Delayed, Rested
<1>2. ASSUME NEW c \in Crons, FetchDue(c) PROVE Delayed'
  <2>1. cron'[c].step = enrollment.step /\ \A d \in Crons \ {c} : cron'[d] = cron[d]
    BY <1>2 DEF FetchDue, CronsTyped
  <2>2. Rested(enrollment.step) /\ UNCHANGED <<enrollment, waited, hasty>>
    BY <1>2 DEF FetchDue, Delayed
  <2>3. QED
    BY <2>1, <2>2 DEF Delayed, Rested
<1>3. ASSUME NEW c \in Crons, Postpone(c) PROVE Delayed'
  <2>1. Snapshots /\ UNCHANGED waited /\ cron[c] # NoCron
    BY <1>3, <1>a, <1>i DEF Postpone, CronAt
  <2>2. CASE UNCHANGED <<enrollment, hasty>>
    BY <2>1, <2>2, DelayedKept
  <2>3. CASE /\ enrollment' = [enrollment EXCEPT !.next = "soon"]
             /\ hasty' = (hasty \/ enrollment.step # cron[c].step)
    <3>1. Rested(cron[c].step)
      BY <2>1 DEF Delayed
    <3>2. enrollment'.step = enrollment.step /\ enrollment'.next # "delayed"
      BY <2>3 DEF EnrollmentRows
    <3>3. hasty' \/ (hasty' = hasty /\ enrollment.step = cron[c].step)
      BY <2>3 DEF Typed
    <3>4. Rested(enrollment.step)'
      BY <2>1, <3>1, <3>2, <3>3 DEF Rested
    <3>5. hasty => hasty'
      BY <2>3
    <3>6. QED
      BY <2>1, <3>2, <3>4, <3>5, DelayedKept
  <2>4. QED
    BY <1>3, <2>2, <2>3 DEF Postpone
<1>4. ASSUME NEW c \in Crons, CompleteEnrollment(c) PROVE Delayed'
  BY <1>4, <1>a, <1>b, <1>c DEF CompleteEnrollment, CronAt, Update, CronSteps, EnrollmentRows
<1>5. ASSUME NEW c \in Crons, CallGateway(c) PROVE Delayed'
  <2>1. cron[c] \in CronRows /\ cron[c].at # "idle"
    BY <1>5 DEF CallGateway, CronAt, CronsTyped, NoCron
  <2>2. ASSUME CronTo(c, "recheck") \/ CronTo(c, "fail") PROVE Snapshots
    <3>1. "recheck" \in CronSteps /\ "fail" \in CronSteps
      BY DEF CronSteps
    <3>2. QED
      BY <2>1, <2>2, <3>1, <1>b
  <2>3. ASSUME NEW s, NEW o, cron' = [cron EXCEPT ![c].at = s, ![c].answer = o] PROVE Snapshots
    <3>1. cron'[c] = [[cron[c] EXCEPT !.at = s] EXCEPT !.answer = o]
          /\ \A d \in Crons \ {c} : cron'[d] = cron[d]
      BY <2>3 DEF CronsTyped
    <3>2. cron'[c].step = cron[c].step
      BY <2>1, <3>1 DEF CronRows
    <3>3. QED
      BY <1>i, <2>1, <3>1, <3>2
  <2>4. Snapshots
    BY <1>5, <2>2, <2>3 DEF CallGateway
  <2>5. QED
    BY <1>5, <1>c, <2>1, <2>4 DEF CallGateway
<1>6. ASSUME NEW c \in Crons, PersistOperation(c) PROVE Delayed'
  <2>1. cron[c] \in CronRows /\ cron[c].at # "idle"
    BY <1>6 DEF PersistOperation, CronAt, CronsTyped, NoCron
  <2>2. ASSUME NEW s \in {"answer", "fail"}, cron' = [cron EXCEPT ![c].at = s, ![c].op = TRUE]
        PROVE  Snapshots
    <3>1. cron'[c] = [[cron[c] EXCEPT !.at = s] EXCEPT !.op = TRUE]
          /\ \A d \in Crons \ {c} : cron'[d] = cron[d]
      BY <2>2 DEF CronsTyped
    <3>2. cron'[c].step = cron[c].step
      BY <2>1, <3>1 DEF CronRows
    <3>3. QED
      BY <1>i, <2>1, <3>1, <3>2
  <2>3. Snapshots
    BY <1>6, <2>2 DEF PersistOperation, Update
  <2>4. QED
    <3>1. CASE Matches(c) /\ enrollment' = [enrollment EXCEPT !.op = TRUE]
      BY <1>6, <2>3, <3>1, DelayedKept DEF PersistOperation, Update, EnrollmentRows
    <3>2. CASE enrollment' = enrollment
      BY <1>6, <2>3, <3>2, DelayedKept DEF PersistOperation, Update
    <3>3. QED
      BY <1>6, <3>1, <3>2 DEF PersistOperation, Update
<1>7. ASSUME NEW c \in Crons, Answer(c) PROVE Delayed'
  <2>1. cron[c] \in CronRows /\ cron[c].at # "idle" /\ cron[c].answer # "none"
    BY <1>7 DEF Answer, CronAt, CronsTyped, NoCron, AllPlaced, Placed
  <2>2. CronTo(c, "advance") \/ CronTo(c, "check") \/ CronTo(c, "retry") \/ CronTo(c, "fail")
    BY <1>7, <2>1 DEF Answer, Delivered, CronRows, OperationStates
  <2>3. Snapshots
    BY <1>b, <2>1, <2>2 DEF CronSteps
  <2>4. QED
    BY <1>7, <1>c, <2>1, <2>3 DEF Answer
<1>8. ASSUME NEW c \in Crons, RetryOperation(c) PROVE Delayed'
  <2>1. CronTo(c, "check") \/ CronTo(c, "recheck") \/ CronTo(c, "fail")
    BY <1>8 DEF RetryOperation
  <2>2. cron[c].at # "idle"
    BY <1>8 DEF RetryOperation, CronAt
  <2>3. Snapshots
    BY <1>b, <2>1, <2>2 DEF CronSteps
  <2>4. QED
    BY <1>8, <1>c, <2>2, <2>3 DEF RetryOperation
<1>9. ASSUME NEW c \in Crons, ScheduleCheck(c) PROVE Delayed'
  <2>1. CronEnds(c) \/ CronTo(c, "fail") \/ CronTo(c, "rescue")
    BY <1>9 DEF ScheduleCheck, Update
  <2>2. cron[c].at # "idle"
    BY <1>9 DEF ScheduleCheck, CronAt
  <2>3. Snapshots
    BY <1>a, <1>b, <2>1, <2>2 DEF CronSteps
  <2>4. QED
    BY <1>9, <1>c, <2>2, <2>3 DEF ScheduleCheck, Update, EnrollmentRows
<1>10. ASSUME NEW c \in Crons, FailEnrollment(c) PROVE Delayed'
  BY <1>10, <1>a, <1>b, <1>c DEF FailEnrollment, CronAt, Update, CronSteps, EnrollmentRows
<1>11. ASSUME NEW c \in Crons, AdvanceEnrollment(c) PROVE Delayed'
  <2> DEFINE n == cron[c].step + 1
             moved == IF n \in DOMAIN Steps
                      THEN [enrollment EXCEPT !.step = n, !.op = FALSE, !.next = NextAt(n)]
                      ELSE [status |-> "completed", step |-> n, op |-> FALSE, next |-> "null"]
  <2>1. cron[c].at # "idle"
    BY <1>11 DEF AdvanceEnrollment, CronAt
  <2>2. CronEnds(c) \/ CronTo(c, "rescue")
    BY <1>11 DEF AdvanceEnrollment, Update
  <2>3. Snapshots
    BY <1>a, <1>b, <2>1, <2>2 DEF CronSteps
  <2>4. enrollment' \in {enrollment, moved} /\ UNCHANGED <<waited, hasty>>
    BY <1>11 DEF AdvanceEnrollment, Update
  <2>5. CASE enrollment' = enrollment
    BY <2>3, <2>4, <2>5, DelayedKept
  <2>6. CASE enrollment' = moved /\ n \in DOMAIN Steps /\ Steps[n] = "delay"
    <3>1. enrollment'.step = n /\ enrollment'.next = "delayed"
      BY <2>6 DEF NextAt, EnrollmentRows
    <3>2. QED
      BY <2>3, <2>4, <2>6, <3>1, DelayedKept
  <2>7. CASE enrollment' = moved /\ ~(n \in DOMAIN Steps /\ Steps[n] = "delay")
    <3>1. enrollment'.step = n /\ enrollment'.next # "delayed"
      BY <2>7 DEF NextAt, EnrollmentRows
    <3>2. Rested(enrollment.step)'
      BY <2>7, <3>1 DEF Rested
    <3>3. QED
      BY <2>3, <2>4, <3>1, <3>2, DelayedKept
  <2>8. QED
    BY <2>4, <2>5, <2>6, <2>7
<1>12. ASSUME NEW c \in Crons, Rescue(c) PROVE Delayed'
  BY <1>12, <1>a, <1>c DEF Rescue, CronAt, Update, EnrollmentRows
<1>13. ASSUME NEW c \in Crons, DieCron(c) PROVE Delayed'
  BY <1>13, <1>a, DelayedKept DEF DieCron
<1>14. ASSUME NEW n \in DOMAIN Steps, OperationEnds(n) PROVE Delayed'
  BY <1>14, DelayedKept DEF OperationEnds
<1>15. CASE TimePasses
  <2>1. enrollment'.next # "delayed" /\ enrollment'.step = enrollment.step
    BY <1>15 DEF TimePasses, EnrollmentRows
  <2>2. Rested(enrollment.step)' /\ waited \subseteq waited' /\ UNCHANGED <<cron, hasty>>
    BY <1>15, <2>1 DEF TimePasses, Delayed, Rested
  <2>3. QED
    BY <2>1, <2>2, DelayedKept
<1>16. CASE Toggle \/ CancelEnrollment
  BY <1>16, DelayedKept DEF Toggle, CancelEnrollment, EnrollmentRows
<1>17. QED
  BY <1>1, <1>2, <1>3, <1>4, <1>5, <1>6, <1>7, <1>8, <1>9, <1>10, <1>11, <1>12, <1>13, <1>14,
     <1>15, <1>16 DEF SequenceNext

----
\* An enrollment starts at the first step.
LEMMA InitInv == SequenceInit => SequenceInv
<1> SUFFICES ASSUME SequenceInit PROVE SequenceInv
  OBVIOUS
<1>1. 0 \in Indexes /\ 0 \in DOMAIN Steps
  BY StepFacts, SequenceAssumption
<1>2. SequenceTypeOK
  BY <1>1, NextTyped DEF SequenceInit, SequenceTypeOK, OperationStates
<1>3. AllPlaced
  BY DEF SequenceInit, AllPlaced, Placed, NoCron, Settling
<1>4. Delayed
  BY <1>1 DEF SequenceInit, Delayed, Rested, NextAt
<1>5. QED
  BY <1>2, <1>3, <1>4 DEF SequenceInv

\* The invariant is inductive.
LEMMA InvariantKept == SequenceInv /\ [SequenceNext]_sequenceVars => SequenceInv'
  BY SequenceTypeStep, PlacedStep, DelayedStep DEF SequenceInv

\* What the runs of lib/sequence-processor.ts never lose track of.
THEOREM SequenceInvariant == SequenceSpec => []SequenceInv
  BY InitInv, InvariantKept, PTL DEF SequenceSpec

\* The rows of sequence_enrollments and the snapshots of the runs have the shape that
\* lib/sequence-processor.ts gives them, for every sequence of steps.
THEOREM SequenceTypeCorrect == SequenceSpec => []SequenceTypeOK
<1>1. SequenceInv => SequenceTypeOK
  BY DEF SequenceInv
<1>2. QED
  BY <1>1, SequenceInvariant, PTL

\* advanceEnrollment goes one step on, and settleMessageStep reaches it only after the
\* Gateway reported the message delivered, however many runs overlap.
THEOREM InOrder == SequenceSpec => StepsInOrder
<1> DEFINE OneStep ==
      enrollment'.step # enrollment.step =>
        /\ enrollment'.step = enrollment.step + 1
        /\ Steps[enrollment.step] = "message" => operation[enrollment.step] = "succeeded"
<1>1. SequenceInv /\ [SequenceNext]_sequenceVars => [OneStep]_sequenceVars
  <2> SUFFICES ASSUME SequenceInv, [SequenceNext]_sequenceVars, enrollment'.step # enrollment.step
               PROVE  OneStep
    OBVIOUS
  <2>1. PICK c \in Crons : AdvanceEnrollment(c) /\ Matches(c)
    BY StepChange
  <2> DEFINE n == cron[c].step + 1
             moved == IF n \in DOMAIN Steps
                      THEN [enrollment EXCEPT !.step = n, !.op = FALSE, !.next = NextAt(n)]
                      ELSE [status |-> "completed", step |-> n, op |-> FALSE, next |-> "null"]
  <2>a. enrollment' = moved
    BY <2>1 DEF AdvanceEnrollment, Update
  <2>b. enrollment \in EnrollmentRows
    BY DEF SequenceInv, SequenceTypeOK, EnrollmentRows
  <2>c. moved.step = n
    BY <2>b DEF EnrollmentRows
  <2>2. enrollment.step = cron[c].step /\ enrollment'.step = cron[c].step + 1
    BY <2>1, <2>a, <2>c DEF Matches
  <2>3. Steps[cron[c].step] = "message" => operation[cron[c].step] = "succeeded"
    BY <2>1 DEF AdvanceEnrollment, CronAt, SequenceInv, AllPlaced, Placed
  <2>4. QED
    BY <2>2, <2>3
<1>2. QED
  BY <1>1, SequenceInvariant, PTL DEF SequenceSpec, StepsInOrder

\* The next step after a delay is taken when the delay has passed, unless a run that saw the
\* sequence paused put the enrollment off at a step it had not read.
THEOREM DelaysPass == SequenceSpec => DelayRespected
<1> DEFINE Passed ==
      enrollment'.step # enrollment.step /\ Steps[enrollment.step] = "delay" =>
        enrollment.step \in waited \/ hasty
<1>1. SequenceInv /\ [SequenceNext]_sequenceVars => [Passed]_sequenceVars
  <2> SUFFICES ASSUME SequenceInv, [SequenceNext]_sequenceVars, enrollment'.step # enrollment.step,
                      Steps[enrollment.step] = "delay"
               PROVE  enrollment.step \in waited \/ hasty
    OBVIOUS
  <2>1. PICK c \in Crons : AdvanceEnrollment(c) /\ Matches(c)
    BY StepChange
  <2>2. enrollment.step = cron[c].step /\ cron[c].step \in DOMAIN Steps /\ cron[c] # NoCron
    BY <2>1 DEF AdvanceEnrollment, CronAt, Matches, SequenceInv, AllPlaced, Placed, NoCron
  <2>3. QED
    BY <2>1, <2>2 DEF SequenceInv, Delayed, Rested
<1>2. QED
  BY <1>1, SequenceInvariant, PTL DEF SequenceSpec, DelayRespected

----
(* Flow sessions. *)

\* Where a walker is inside a session, and where the job that it ends has failed already.
Within == {"load", "resume", "throw"} \cup Traversing
Closing == {"cancel", "cancelDead", "lookExhausted", "countExhausted"}

\* A walker has the session it is in, and a job that is claimed or, at its end, has failed.
WalkFits(w) ==
  /\ At(w, "idle") => walk[w] = NoWalk
  /\ walk[w].job = 0 => walk[w].at \in {"idle", "find", "create"} \cup Within
  /\ walk[w].job # 0 => resumes[walk[w].job].status = IF walk[w].at \in Closing THEN "failed" ELSE "processing"
  /\ IF walk[w].at \in Within THEN walk[w].session # 0 ELSE walk[w].session = 0
  /\ walk[w].at \in {"enter", "execute", "stamp"} => walk[w].node \in 1..Len(Flow)
  /\ walk[w].at \in {"load", "resume"} => walk[w].node \in Nodes

WalksFit ==
  /\ \A w \in Walkers : WalkFits(w)
  /\ \A v, w \in Walkers : walk[v].job = walk[w].job /\ walk[v].job # 0 => v = w

\* Jobs and walkers are about sessions that exist.
RowsFit ==
  /\ \A s \in SessionIds : sessions[s].status = "absent" => sessions[s] = NoSession
  /\ \A j \in ResumeIds :
       /\ resumes[j].status = "absent" => resumes[j] = NoResume
       /\ resumes[j].status # "absent" => resumes[j].session # 0 /\ sessions[resumes[j].session].status # "absent"
       /\ resumes[j].status = "processing" => resumes[j].tries # 0
  /\ \A w \in Walkers : walk[w].session # 0 => sessions[walk[w].session].status # "absent"

\* The rows, field by field.
WalkSteps == {"idle", "find", "create", "load", "resume", "look", "settled", "retry", "recheck",
          "throw", "catch", "giveUp", "cancel", "lookExhausted"} \cup Traversing \cup Judging
SessionRows == [status : {"absent", "active", "completed", "cancelled"}, node : Nodes,
                waiting : BOOLEAN, until : BOOLEAN, recent : BOOLEAN]
ResumeRows == [status : {"absent", "pending", "processing", "completed", "failed"},
               tries : 0..MaxTries, session : 0..MaxSessions, node : Nodes]
WalkRows == [at : WalkSteps, job : 0..MaxJobs, session : 0..MaxSessions, node : 0..(Len(Flow) + 1),
             recent : BOOLEAN]

SessionsTyped == sessions \in [SessionIds -> SessionRows]
ResumesTyped == resumes \in [ResumeIds -> ResumeRows]
WalkTyped == walk \in [Walkers -> WalkRows]
RestTyped ==
  /\ messages \in 0..MaxMessages /\ deaths \in 0..MaxDeaths
  /\ elders \in [ResumeIds -> SUBSET Walkers]
  /\ forsaken \cup deceived \subseteq SessionIds /\ overtaken \subseteq Walkers

\* FlowTypeOK, one part for each table.
LEMMA FlowParts ==
  /\ FlowTypeOK <=> SessionsTyped /\ ResumesTyped /\ WalkTyped /\ RestTyped
  /\ FlowTypeOK' <=> SessionsTyped' /\ ResumesTyped' /\ WalkTyped' /\ RestTyped'
BY DEF FlowTypeOK, SessionsTyped, ResumesTyped, WalkTyped, RestTyped, SessionRows, ResumeRows, WalkRows, WalkSteps

\* What the assumption says of the bounds.
LEMMA FlowNumbers ==
  /\ Len(Flow) \in Nat /\ MaxSessions \in Nat /\ MaxJobs \in Nat /\ MaxTries \in Nat /\ MaxTries # 0
  /\ MaxMessages \in Nat /\ MaxDeaths \in Nat
BY FlowAssumption

Base == FlowTypeOK /\ WalksFit /\ RowsFit

----
(* What the steps do to a walker and to a session. *)

Others(w) == WalkTyped' /\ \A v \in Walkers \ {w} : walk'[v] = walk[v]

Went(w, step) ==
  /\ Others(w)
  /\ walk'[w].at = step /\ walk'[w].job = walk[w].job /\ walk'[w].session = walk[w].session
  /\ walk'[w].node = walk[w].node /\ walk'[w].recent = walk[w].recent

\* On to a node of the same session, or beyond the last one.
WentOn(w, n) ==
  /\ Others(w)
  /\ walk'[w].at = IF n > Len(Flow) THEN "complete" ELSE "enter"
  /\ walk'[w].job = walk[w].job /\ walk'[w].session = walk[w].session /\ walk'[w].node = n

Into(w, step, s, n) ==
  /\ Others(w)
  /\ walk'[w].at = step /\ walk'[w].job = walk[w].job
  /\ walk'[w].session = s /\ walk'[w].node = n

\* Out of the session, to its job if it has one.
Left(w, step) ==
  /\ Others(w)
  /\ walk'[w].at = IF walk[w].job = 0 THEN "idle" ELSE step
  /\ walk'[w].job = walk[w].job /\ walk'[w].session = 0
  /\ walk[w].job = 0 => walk'[w] = NoWalk

Stopped(w) == Others(w) /\ walk'[w] = NoWalk

\* A row is written, and with it updated_at.
Rewrote(s, status, node, waiting, until) ==
  /\ SessionsTyped' /\ \A t \in SessionIds \ {s} : sessions'[t] = sessions[t]
  /\ sessions'[s].status = status /\ sessions'[s].node = node
  /\ sessions'[s].waiting = waiting /\ sessions'[s].until = until /\ sessions'[s].recent

\* Its status only.
Closed(s, status) == Rewrote(s, status, sessions[s].node, sessions[s].waiting, sessions[s].until)

\* The idle walker's row.
LEMMA NoWalkIs ==
  NoWalk \in WalkRows /\ NoWalk.at = "idle" /\ NoWalk.job = 0 /\ NoWalk.session = 0
BY FlowNumbers DEF NoWalk, WalkRows, WalkSteps

\* A walker is given a row.
LEMMA RowGiven ==
  ASSUME WalkTyped, NEW w \in Walkers, NEW row \in WalkRows, walk' = [walk EXCEPT ![w] = row]
  PROVE  Others(w) /\ walk'[w] = row
<1>1. walk' \in [Walkers -> WalkRows]
  BY DEF WalkTyped
<1>2. QED
  BY <1>1 DEF WalkTyped, Others

\* The fields of a walker's row.
LEMMA WalkRowOf ==
  ASSUME WalkTyped, NEW w \in Walkers
  PROVE  /\ walk[w] \in WalkRows /\ walk[w].at \in WalkSteps /\ walk[w].job \in 0..MaxJobs
         /\ walk[w].session \in 0..MaxSessions /\ walk[w].node \in 0..(Len(Flow) + 1)
BY DEF WalkTyped, WalkRows

\* Goto changes where the walker is, and nothing else.
LEMMA GotoDoes ==
  ASSUME WalkTyped, NEW w \in Walkers, NEW step \in WalkSteps, Goto(w, step)
  PROVE  Went(w, step)
<1> DEFINE row == [walk[w] EXCEPT !.at = step]
<1>1. row \in WalkRows /\ walk' = [walk EXCEPT ![w] = row]
  BY WalkRowOf DEF Goto, WalkRows
<1>2. Others(w) /\ walk'[w] = row
  BY <1>1, RowGiven
<1>3. QED
  BY <1>1, <1>2, WalkRowOf DEF Went, WalkRows

\* GotoNode enters a node, or completes the session after the last one.
LEMMA GotoNodeDoes ==
  ASSUME WalkTyped, NEW w \in Walkers, NEW n \in 0..(Len(Flow) + 1), GotoNode(w, n)
  PROVE  WentOn(w, n)
<1> DEFINE row == [walk[w] EXCEPT !.at = IF n > Len(Flow) THEN "complete" ELSE "enter", !.node = n]
<1>1. row \in WalkRows /\ walk' = [walk EXCEPT ![w] = row]
  BY WalkRowOf DEF GotoNode, WalkRows, WalkSteps, Traversing
<1>2. Others(w) /\ walk'[w] = row
  BY <1>1, RowGiven
<1>3. QED
  BY <1>1, <1>2, WalkRowOf DEF WentOn, WalkRows

\* A walker enters a session.
LEMMA IntoDoes ==
  ASSUME WalkTyped, NEW w \in Walkers, NEW step \in WalkSteps, NEW s \in 0..MaxSessions,
         NEW n \in 0..(Len(Flow) + 1),
         walk' = [walk EXCEPT ![w].at = step, ![w].session = s, ![w].node = n]
  PROVE  Into(w, step, s, n)
<1> DEFINE row == [walk[w] EXCEPT !.at = step, !.session = s, !.node = n]
<1>1. row \in WalkRows /\ walk' = [walk EXCEPT ![w] = row]
  BY WalkRowOf DEF WalkRows
<1>2. Others(w) /\ walk'[w] = row
  BY <1>1, RowGiven
<1>3. QED
  BY <1>1, <1>2, WalkRowOf DEF Into, WalkRows

\* LeaveFlow goes back to the job, or ends.
LEMMA LeaveFlowDoes ==
  ASSUME WalkTyped, NEW w \in Walkers, NEW step \in WalkSteps, LeaveFlow(w, step)
  PROVE  Left(w, step)
<1> DEFINE row == IF walk[w].job = 0 THEN NoWalk ELSE [NoWalk EXCEPT !.at = step, !.job = walk[w].job]
<1>1. row \in WalkRows /\ walk' = [walk EXCEPT ![w] = row]
  BY WalkRowOf, NoWalkIs DEF LeaveFlow, WalkRows
<1>2. Others(w) /\ walk'[w] = row
  BY <1>1, RowGiven
<1>3. CASE walk[w].job = 0
  BY <1>2, <1>3, NoWalkIs DEF Left
<1>4. CASE walk[w].job # 0
  <2>1. row.at = step /\ row.job = walk[w].job /\ row.session = 0
    BY <1>4 DEF NoWalk
  <2>2. QED
    BY <1>2, <1>4, <2>1 DEF Left
<1>5. QED
  BY <1>3, <1>4

\* A walker ends.
LEMMA StoppedDoes ==
  ASSUME WalkTyped, NEW w \in Walkers, walk' = [walk EXCEPT ![w] = NoWalk]
  PROVE  Stopped(w)
BY RowGiven, NoWalkIs DEF Stopped

\* The fields of a session's row.
LEMMA SessionRowOf ==
  ASSUME SessionsTyped, NEW s \in SessionIds
  PROVE  /\ sessions[s] \in SessionRows /\ sessions[s].node \in Nodes
         /\ sessions[s].status \in {"absent", "active", "completed", "cancelled"}
         /\ sessions[s].waiting \in BOOLEAN /\ sessions[s].until \in BOOLEAN /\ sessions[s].recent \in BOOLEAN
BY DEF SessionsTyped, SessionRows

\* WriteRow writes one row, and stamps updated_at.
LEMMA WriteRowDoes ==
  ASSUME SessionsTyped, NEW s \in SessionIds, NEW row \in SessionRows, WriteRow(s, row)
  PROVE  Rewrote(s, row.status, row.node, row.waiting, row.until)
<1>1. [row EXCEPT !.recent = TRUE] \in SessionRows
  BY DEF SessionRows
<1>2. sessions' \in [SessionIds -> SessionRows]
  BY <1>1 DEF SessionsTyped, WriteRow
<1>3. sessions'[s] = [row EXCEPT !.recent = TRUE]
  BY DEF SessionsTyped, WriteRow
<1>4. \A t \in SessionIds \ {s} : sessions'[t] = sessions[t]
  BY DEF SessionsTyped, WriteRow
<1>5. QED
  BY <1>2, <1>3, <1>4 DEF SessionsTyped, Rewrote, SessionRows

\* completeSession, executeHumanTakeover and the cancels write the status only.
LEMMA StatusWritten ==
  ASSUME SessionsTyped, NEW s \in SessionIds, NEW status \in {"completed", "cancelled"},
         WriteRow(s, [sessions[s] EXCEPT !.status = status])
  PROVE  Closed(s, status)
<1> DEFINE row == [sessions[s] EXCEPT !.status = status]
<1>1. /\ row \in SessionRows /\ row.status = status /\ row.node = sessions[s].node
      /\ row.waiting = sessions[s].waiting /\ row.until = sessions[s].until
  BY SessionRowOf DEF SessionRows
<1> HIDE DEF row
<1>2. WriteRow(s, row)
  BY DEF row
<1>3. Rewrote(s, row.status, row.node, row.waiting, row.until)
  BY <1>1, <1>2, WriteRowDoes
<1>4. QED
  BY <1>1, <1>3 DEF Closed

\* The four updates of a running session: current_node_id, with or without the marks of waiting.
LEMMA NodeWritten ==
  ASSUME SessionsTyped, NEW s \in SessionIds, NEW n \in Nodes
  PROVE  /\ WriteRow(s, [sessions[s] EXCEPT !.node = n])
              => Rewrote(s, sessions[s].status, n, sessions[s].waiting, sessions[s].until)
         /\ WriteRow(s, [sessions[s] EXCEPT !.waiting = TRUE, !.node = n])
              => Rewrote(s, sessions[s].status, n, TRUE, sessions[s].until)
         /\ WriteRow(s, [sessions[s] EXCEPT !.until = TRUE, !.node = n])
              => Rewrote(s, sessions[s].status, n, sessions[s].waiting, TRUE)
         /\ WriteRow(s, [sessions[s] EXCEPT !.waiting = FALSE, !.until = FALSE])
              => Rewrote(s, sessions[s].status, sessions[s].node, FALSE, FALSE)
<1>1. ASSUME NEW row \in SessionRows, WriteRow(s, row)
      PROVE  Rewrote(s, row.status, row.node, row.waiting, row.until)
  BY <1>1, WriteRowDoes
<1> DEFINE entered == [sessions[s] EXCEPT !.node = n]
           asked   == [sessions[s] EXCEPT !.waiting = TRUE, !.node = n]
           stamped == [sessions[s] EXCEPT !.until = TRUE, !.node = n]
           cleared == [sessions[s] EXCEPT !.waiting = FALSE, !.until = FALSE]
<1>2. /\ entered \in SessionRows /\ entered.status = sessions[s].status /\ entered.node = n
      /\ entered.waiting = sessions[s].waiting /\ entered.until = sessions[s].until
  BY SessionRowOf DEF SessionRows
<1>3. /\ asked \in SessionRows /\ asked.status = sessions[s].status /\ asked.node = n
      /\ asked.waiting = TRUE /\ asked.until = sessions[s].until
  BY SessionRowOf DEF SessionRows
<1>4. /\ stamped \in SessionRows /\ stamped.status = sessions[s].status /\ stamped.node = n
      /\ stamped.waiting = sessions[s].waiting /\ stamped.until = TRUE
  BY SessionRowOf DEF SessionRows
<1>5. /\ cleared \in SessionRows /\ cleared.status = sessions[s].status
      /\ cleared.node = sessions[s].node /\ cleared.waiting = FALSE /\ cleared.until = FALSE
  BY SessionRowOf DEF SessionRows
<1>e. WriteRow(s, entered) => Rewrote(s, sessions[s].status, n, sessions[s].waiting, sessions[s].until)
  <2> HIDE DEF entered
  <2>1. QED
    BY <1>1, <1>2
<1>a. WriteRow(s, asked) => Rewrote(s, sessions[s].status, n, TRUE, sessions[s].until)
  <2> HIDE DEF asked
  <2>1. QED
    BY <1>1, <1>3
<1>s. WriteRow(s, stamped) => Rewrote(s, sessions[s].status, n, sessions[s].waiting, TRUE)
  <2> HIDE DEF stamped
  <2>1. QED
    BY <1>1, <1>4
<1>c. WriteRow(s, cleared) => Rewrote(s, sessions[s].status, sessions[s].node, FALSE, FALSE)
  <2> HIDE DEF cleared
  <2>1. QED
    BY <1>1, <1>5
<1>6. QED
  BY <1>e, <1>a, <1>s, <1>c

\* Where a walker is tells whether it has a session and a job.
LEMMA SpotOf ==
  ASSUME Base, NEW w \in Walkers
  PROVE  /\ SessionsTyped /\ ResumesTyped /\ WalkTyped /\ RestTyped /\ WalkFits(w)
         /\ walk[w].at \in Within => walk[w].session \in SessionIds
         /\ walk[w].at \notin Within => walk[w].session = 0
         /\ walk[w].job # 0 => walk[w].job \in ResumeIds /\ OwnSession(w) \in SessionIds
         /\ walk[w].at \notin {"idle", "find", "create"} \cup Within => walk[w].job # 0
<1>1. SessionsTyped /\ ResumesTyped /\ WalkTyped /\ RestTyped /\ WalkFits(w)
  BY FlowParts DEF Base, WalksFit
<1>2. walk[w].job \in 0..MaxJobs /\ walk[w].session \in 0..MaxSessions /\ walk[w].at \in WalkSteps
  BY <1>1, WalkRowOf
<1>3. walk[w].job # 0 => walk[w].job \in ResumeIds
  BY <1>2, FlowNumbers DEF ResumeIds
<1>4. ASSUME walk[w].job # 0 PROVE OwnSession(w) \in SessionIds
  <2>1. resumes[walk[w].job].status # "absent" /\ walk[w].job \in ResumeIds
    BY <1>1, <1>3, <1>4 DEF WalkFits
  <2>2. resumes[walk[w].job].session # 0 /\ resumes[walk[w].job].session \in 0..MaxSessions
    BY <1>1, <2>1 DEF Base, RowsFit, ResumesTyped, ResumeRows
  <2>3. QED
    BY <1>4, <2>2, FlowNumbers DEF OwnSession, SessionIds
<1>5. QED
  BY <1>1, <1>2, <1>3, <1>4, FlowNumbers DEF WalkFits, SessionIds

\* Steps that leave the tables alone.
Same == sessions' = sessions /\ resumes' = resumes /\ deceived' = deceived /\ overtaken' = overtaken
Kept == Same /\ forsaken' = forsaken

\* StartMessage, field by field.
LEMMA DoesStart ==
  ASSUME Base, NEW w \in Walkers, StartMessage(w)
  PROVE  At(w, "idle") /\ Kept /\ Went(w, "find") /\ messages' \in 0..MaxMessages /\ deaths' = deaths
<1>1. "find" \in WalkSteps
  BY DEF WalkSteps
<1>2. QED
  BY <1>1, SpotOf, GotoDoes, FlowNumbers DEF StartMessage, Kept, Same, RestTyped

\* FindWaiting, field by field.
LEMMA DoesFind ==
  ASSUME Base, NEW w \in Walkers, FindWaiting(w)
  PROVE  /\ At(w, "find") /\ Kept /\ UNCHANGED <<messages, deaths>>
         /\ \/ Went(w, "create")
            \/ \E s \in SessionIds : /\ sessions[s].status = "active" /\ sessions[s].waiting
                                     /\ Into(w, "load", s, sessions[s].node)
<1>1. "create" \in WalkSteps /\ "load" \in WalkSteps
  BY DEF WalkSteps
<1>2. At(w, "find") /\ Kept /\ UNCHANGED <<messages, deaths>>
  BY DEF FindWaiting, Kept, Same
<1>3. CASE Goto(w, "create")
  BY <1>1, <1>2, <1>3, SpotOf, GotoDoes
<1>4. ASSUME NEW s \in WaitingSessions,
             walk' = [walk EXCEPT ![w].at = "load", ![w].session = s, ![w].node = sessions[s].node]
      PROVE  /\ s \in SessionIds /\ sessions[s].status = "active" /\ sessions[s].waiting
             /\ Into(w, "load", s, sessions[s].node)
  <2>1. s \in SessionIds /\ sessions[s].status = "active" /\ sessions[s].waiting
    BY DEF WaitingSessions
  <2>2. s \in 0..MaxSessions /\ sessions[s].node \in 0..(Len(Flow) + 1)
    BY <2>1, SpotOf, SessionRowOf, FlowNumbers DEF SessionIds, Nodes
  <2>3. QED
    BY <1>1, <1>4, <2>1, <2>2, SpotOf, IntoDoes
<1>5. QED
  BY <1>2, <1>3, <1>4 DEF FindWaiting

\* CreateSession, field by field.
LEMMA DoesCreate ==
  ASSUME Base, NEW w \in Walkers, CreateSession(w)
  PROVE  /\ At(w, "create") /\ UNCHANGED <<messages, deaths, resumes, deceived, overtaken>>
         /\ \/ Left(w, "settled") /\ sessions' = sessions /\ forsaken' = forsaken
            \/ \E s \in SessionIds :
                 /\ sessions[s].status = "absent" /\ Rewrote(s, "active", 0, FALSE, FALSE)
                 /\ \/ Left(w, "settled") /\ forsaken' = forsaken \cup {s}
                    \/ Into(w, "enter", s, 1) /\ 1 \in 1..Len(Flow) /\ forsaken' = forsaken
<1>1. "settled" \in WalkSteps /\ "enter" \in WalkSteps
  BY DEF WalkSteps, Traversing
<1>2. At(w, "create") /\ UNCHANGED <<messages, deaths, resumes, deceived, overtaken>>
  BY DEF CreateSession
<1>3. Return(w) => Left(w, "settled")
  BY <1>1, SpotOf, LeaveFlowDoes DEF Return
<1>4. ASSUME NEW s \in SessionIds, WriteRow(s, [NoSession EXCEPT !.status = "active"])
      PROVE  Rewrote(s, "active", 0, FALSE, FALSE)
  <2> DEFINE row == [NoSession EXCEPT !.status = "active"]
  <2>1. 0 \in Nodes
    BY FlowNumbers DEF Nodes
  <2>2. NoSession \in SessionRows
    BY <2>1 DEF NoSession, SessionRows
  <2>3. row \in SessionRows
    BY <2>2 DEF SessionRows
  <2>4. row.status = "active" /\ row.node = 0 /\ row.waiting = FALSE /\ row.until = FALSE
    BY DEF NoSession
  <2> HIDE DEF row
  <2>5. WriteRow(s, row)
    BY <1>4 DEF row
  <2>6. Rewrote(s, row.status, row.node, row.waiting, row.until)
    BY <2>3, <2>5, SpotOf, WriteRowDoes
  <2>7. QED
    BY <2>4, <2>6
<1>5. ASSUME NEW s \in SessionIds,
             walk' = [walk EXCEPT ![w].at = "enter", ![w].session = s, ![w].node = 1]
      PROVE  Into(w, "enter", s, 1)
  <2>1. s \in 0..MaxSessions /\ 1 \in 0..(Len(Flow) + 1)
    BY FlowNumbers DEF SessionIds
  <2>2. QED
    BY <1>1, <1>5, <2>1, SpotOf, IntoDoes
<1>6. Flow # <<>> => 1 \in 1..Len(Flow)
  BY FlowAssumption
<1>7. QED
  BY <1>2, <1>3, <1>4, <1>5, <1>6 DEF CreateSession

\* cancelUnresumableSession, field by field.
LEMMA Cancelled ==
  ASSUME Base, NEW w \in Walkers, walk[w].at \in Within, CancelUnresumable(w)
  PROVE  Left(w, "settled") /\ Closed(walk[w].session, "cancelled")
<1>1. "settled" \in WalkSteps
  BY DEF WalkSteps
<1>2. walk[w].session \in SessionIds
  BY SpotOf
<1>4. QED
  BY <1>1, <1>2, SpotOf, StatusWritten, LeaveFlowDoes DEF CancelUnresumable, Return

\* LoadFlow, field by field.
LEMMA DoesLoad ==
  ASSUME Base, NEW w \in Walkers, LoadFlow(w)
  PROVE  /\ At(w, "load") /\ UNCHANGED <<messages, deaths, resumes, forsaken, deceived, overtaken>>
         /\ \/ Went(w, "resume") /\ sessions' = sessions
            \/ /\ Left(w, "settled")
               /\ Closed(walk[w].session, "cancelled")
            \/ Left(w, "retry") /\ sessions' = sessions
<1>1. "resume" \in WalkSteps /\ "retry" \in WalkSteps /\ "load" \in Within
  BY DEF WalkSteps, Within
<1>2. At(w, "load") /\ UNCHANGED <<messages, deaths, resumes, forsaken, deceived, overtaken>>
  BY DEF LoadFlow
<1>3. QED
  BY <1>1, <1>2, SpotOf, Cancelled, GotoDoes, LeaveFlowDoes DEF LoadFlow, LoadError, At

\* Resume, field by field.
LEMMA DoesResume ==
  ASSUME Base, NEW w \in Walkers, Resume(w)
  PROVE  /\ At(w, "resume") /\ UNCHANGED <<messages, deaths, resumes, forsaken, deceived, overtaken>>
         /\ Rewrote(walk[w].session, sessions[walk[w].session].status, sessions[walk[w].session].node, FALSE, FALSE)
         /\ WentOn(w, walk[w].node + 1) \/ Went(w, "missing")
<1>1. "missing" \in WalkSteps /\ "resume" \in Within
  BY DEF WalkSteps, Within, Traversing
<1>2. At(w, "resume") /\ UNCHANGED <<messages, deaths, resumes, forsaken, deceived, overtaken>>
  BY DEF Resume
<1>3. walk[w].session \in SessionIds /\ walk[w].node + 1 \in 0..(Len(Flow) + 1)
  BY <1>1, <1>2, SpotOf, FlowNumbers DEF WalkFits, At, Nodes
<1>5. Rewrote(walk[w].session, sessions[walk[w].session].status, sessions[walk[w].session].node, FALSE, FALSE)
  <2>1. sessions[walk[w].session].node \in Nodes
    BY <1>3, SpotOf, SessionRowOf
  <2>2. QED
    BY <1>3, <2>1, SpotOf, NodeWritten DEF Resume
<1>6. GotoNode(w, walk[w].node + 1) => WentOn(w, walk[w].node + 1)
  BY <1>3, SpotOf, GotoNodeDoes
<1>7. Goto(w, "missing") => Went(w, "missing")
  BY <1>1, SpotOf, GotoDoes
<1>8. QED
  BY <1>2, <1>5, <1>6, <1>7 DEF Resume

\* MissingNode, field by field.
LEMMA DoesMissing ==
  ASSUME Base, NEW w \in Walkers, MissingNode(w)
  PROVE  /\ At(w, "missing") /\ UNCHANGED <<messages, deaths, resumes, deceived, overtaken>>
         /\ \/ /\ Left(w, "settled") /\ forsaken' = forsaken
               /\ Closed(walk[w].session, "cancelled")
            \/ Left(w, "retry") /\ sessions' = sessions /\ forsaken' = forsaken \cup Unbacked(w)
<1>1. "retry" \in WalkSteps /\ "missing" \in Within
  BY DEF WalkSteps, Within, Traversing
<1>2. At(w, "missing") /\ UNCHANGED <<messages, deaths, resumes, deceived, overtaken>>
  BY DEF MissingNode
<1>3. QED
  BY <1>1, <1>2, SpotOf, Cancelled, LeaveFlowDoes DEF MissingNode, LoadError, At

\* The steps inside a session need its row and the walker's place in it.
LEMMA Place ==
  ASSUME Base, NEW w \in Walkers, walk[w].at \in Traversing \cup {"throw"}
  PROVE  /\ walk[w].session \in SessionIds /\ sessions[walk[w].session] \in SessionRows
         /\ walk[w].at \in {"enter", "execute", "stamp"} => walk[w].node \in 1..Len(Flow) /\ walk[w].node \in Nodes
<1>1. walk[w].at \in Within
  BY DEF Within
<1>2. QED
  BY <1>1, SpotOf, SessionRowOf, FlowNumbers DEF WalkFits, Nodes

\* EnterNode, field by field.
LEMMA DoesEnter ==
  ASSUME Base, NEW w \in Walkers, EnterNode(w)
  PROVE  /\ At(w, "enter") /\ UNCHANGED <<messages, deaths, resumes, deceived, overtaken>>
         /\ Rewrote(walk[w].session, sessions[walk[w].session].status, walk[w].node,
                  sessions[walk[w].session].waiting, sessions[walk[w].session].until)
         /\ Went(w, "execute")
         /\ forsaken' = IF sessions[walk[w].session].until THEN forsaken \cup {walk[w].session} ELSE forsaken
<1>1. "execute" \in WalkSteps /\ "enter" \in Traversing
  BY DEF WalkSteps, Traversing
<1>2. At(w, "enter") /\ UNCHANGED <<messages, deaths, resumes, deceived, overtaken>>
  BY DEF EnterNode
<1>3. walk[w].session \in SessionIds /\ walk[w].node \in Nodes
  BY <1>1, <1>2, Place DEF At
<1>5. QED
  BY <1>1, <1>2, <1>3, SpotOf, NodeWritten, GotoDoes DEF EnterNode

\* Work, field by field.
LEMMA DoesWork ==
  ASSUME Base, NEW w \in Walkers, Work(w)
  PROVE  /\ At(w, "execute") /\ Kept /\ UNCHANGED <<messages, deaths>>
         /\ WentOn(w, walk[w].node + 1) \/ Went(w, "throw")
<1>1. "throw" \in WalkSteps /\ "execute" \in Traversing
  BY DEF WalkSteps, Traversing
<1>2. At(w, "execute") /\ Kept /\ UNCHANGED <<messages, deaths>>
  BY DEF Work, AtNode, Kept, Same
<1>3. walk[w].node + 1 \in 0..(Len(Flow) + 1)
  BY <1>1, <1>2, Place, FlowNumbers DEF At
<1>4. GotoNode(w, walk[w].node + 1) => WentOn(w, walk[w].node + 1)
  BY <1>3, SpotOf, GotoNodeDoes
<1>5. Goto(w, "throw") => Went(w, "throw")
  BY <1>1, SpotOf, GotoDoes
<1>6. QED
  BY <1>2, <1>4, <1>5 DEF Work

\* WaitForInput, field by field.
LEMMA DoesWait ==
  ASSUME Base, NEW w \in Walkers, WaitForInput(w)
  PROVE  /\ At(w, "execute") /\ UNCHANGED <<messages, deaths, resumes, forsaken, deceived, overtaken>>
         /\ Rewrote(walk[w].session, sessions[walk[w].session].status, walk[w].node,
                  TRUE, sessions[walk[w].session].until)
         /\ Left(w, "settled")
<1>1. "settled" \in WalkSteps /\ "execute" \in Traversing
  BY DEF WalkSteps, Traversing
<1>2. At(w, "execute") /\ UNCHANGED <<messages, deaths, resumes, forsaken, deceived, overtaken>>
  BY DEF WaitForInput, AtNode
<1>3. walk[w].session \in SessionIds /\ walk[w].node \in Nodes
  BY <1>1, <1>2, Place DEF At
<1>5. Rewrote(walk[w].session, sessions[walk[w].session].status, walk[w].node, TRUE, sessions[walk[w].session].until)
  BY <1>3, SpotOf, NodeWritten DEF WaitForInput
<1>6. QED
  BY <1>1, <1>2, <1>5, SpotOf, LeaveFlowDoes DEF WaitForInput, Return

\* EnqueueResume, field by field.
LEMMA DoesEnqueue ==
  ASSUME Base, NEW w \in Walkers, EnqueueResume(w)
  PROVE  /\ At(w, "execute") /\ UNCHANGED <<messages, deaths, sessions, forsaken, deceived, overtaken>>
         /\ Went(w, "stamp") /\ ResumesTyped'
         /\ \E j \in ResumeIds :
              /\ resumes[j].status = "absent"
              /\ resumes'[j] = [status |-> "pending", tries |-> 0, session |-> walk[w].session, node |-> walk[w].node]
              /\ \A i \in ResumeIds \ {j} : resumes'[i] = resumes[i]
<1>1. "stamp" \in WalkSteps /\ "execute" \in Traversing
  BY DEF WalkSteps, Traversing
<1>2. At(w, "execute") /\ UNCHANGED <<messages, deaths, sessions, forsaken, deceived, overtaken>>
  BY DEF EnqueueResume, AtNode
<1>3. walk[w].session \in 0..MaxSessions /\ walk[w].node \in Nodes
  BY <1>1, <1>2, Place, SpotOf, WalkRowOf DEF At
<1> DEFINE new == [status |-> "pending", tries |-> 0, session |-> walk[w].session, node |-> walk[w].node]
<1>4. new \in ResumeRows
  BY <1>3, FlowNumbers DEF ResumeRows
<1>5. PICK j \in ResumeIds : resumes[j].status = "absent" /\ resumes' = [resumes EXCEPT ![j] = new]
  BY DEF EnqueueResume
<1> HIDE DEF new
<1>6. ResumesTyped' /\ resumes'[j] = new /\ \A i \in ResumeIds \ {j} : resumes'[i] = resumes[i]
  BY <1>4, <1>5, SpotOf DEF ResumesTyped
<1>7. Went(w, "stamp")
  BY <1>1, SpotOf, GotoDoes DEF EnqueueResume
<1>8. QED
  BY <1>2, <1>5, <1>6, <1>7 DEF new

\* StampWaitingUntil, field by field.
LEMMA DoesStamp ==
  ASSUME Base, NEW w \in Walkers, StampWaitingUntil(w)
  PROVE  /\ At(w, "stamp") /\ UNCHANGED <<messages, deaths, resumes, deceived, overtaken>>
         /\ Rewrote(walk[w].session, sessions[walk[w].session].status, walk[w].node,
                  sessions[walk[w].session].waiting, TRUE)
         /\ \/ forsaken' = forsaken \cup {walk[w].session}
            \/ /\ forsaken' = forsaken
               /\ \E j \in ResumeIds : /\ resumes[j].session = walk[w].session /\ resumes[j].node = walk[w].node
                                       /\ resumes[j].status = "pending"
         /\ Left(w, "settled")
<1>1. "settled" \in WalkSteps /\ "stamp" \in Traversing
  BY DEF WalkSteps, Traversing
<1>2. At(w, "stamp") /\ UNCHANGED <<messages, deaths, resumes, deceived, overtaken>>
  BY DEF StampWaitingUntil
<1>3. walk[w].session \in SessionIds /\ walk[w].node \in Nodes
  BY <1>1, <1>2, Place DEF At
<1>5. Rewrote(walk[w].session, sessions[walk[w].session].status, walk[w].node, sessions[walk[w].session].waiting, TRUE)
  BY <1>3, SpotOf, NodeWritten DEF StampWaitingUntil
<1>6. Left(w, "settled")
  BY <1>1, SpotOf, LeaveFlowDoes DEF StampWaitingUntil, Return
<1>7. \/ forsaken' = forsaken \cup {walk[w].session}
      \/ /\ forsaken' = forsaken
         /\ \E j \in ResumeIds : /\ resumes[j].session = walk[w].session /\ resumes[j].node = walk[w].node
                                 /\ resumes[j].status = "pending"
  BY DEF StampWaitingUntil
<1>8. QED
  BY <1>2, <1>5, <1>6, <1>7

\* HumanTakeover, field by field.
LEMMA DoesTakeover ==
  ASSUME Base, NEW w \in Walkers, HumanTakeover(w)
  PROVE  /\ At(w, "execute") /\ UNCHANGED <<messages, deaths, resumes, forsaken, deceived, overtaken>>
         /\ Closed(walk[w].session, "completed")
         /\ Left(w, "settled")
<1>1. "settled" \in WalkSteps /\ "execute" \in Traversing
  BY DEF WalkSteps, Traversing
<1>2. At(w, "execute") /\ UNCHANGED <<messages, deaths, resumes, forsaken, deceived, overtaken>>
  BY DEF HumanTakeover, AtNode
<1>3. walk[w].session \in SessionIds
  BY <1>1, <1>2, Place DEF At
<1>5. QED
  BY <1>1, <1>2, <1>3, SpotOf, StatusWritten, LeaveFlowDoes DEF HumanTakeover, Return

\* GoToFlow, field by field.
LEMMA DoesGoTo ==
  ASSUME Base, NEW w \in Walkers, GoToFlow(w)
  PROVE  /\ At(w, "execute") /\ UNCHANGED <<messages, deaths>> /\ Same
         /\ forsaken' = forsaken \cup {walk[w].session} /\ Into(w, "find", 0, 0)
<1>1. "find" \in WalkSteps /\ 0 \in 0..MaxSessions /\ 0 \in 0..(Len(Flow) + 1)
  BY FlowNumbers DEF WalkSteps
<1>2. QED
  BY <1>1, SpotOf, IntoDoes DEF GoToFlow, AtNode, Same

\* CompleteSession, field by field.
LEMMA DoesComplete ==
  ASSUME Base, NEW w \in Walkers, CompleteSession(w)
  PROVE  /\ At(w, "complete") /\ UNCHANGED <<messages, deaths, resumes, forsaken, deceived, overtaken>>
         /\ Left(w, "settled")
         /\ \/ Closed(walk[w].session, "completed")
            \/ sessions' = sessions /\ sessions[walk[w].session].status # "active"
<1>1. "settled" \in WalkSteps /\ "complete" \in Traversing
  BY DEF WalkSteps, Traversing
<1>2. At(w, "complete") /\ UNCHANGED <<messages, deaths, resumes, forsaken, deceived, overtaken>>
  BY DEF CompleteSession
<1>3. walk[w].session \in SessionIds
  BY <1>1, <1>2, Place DEF At
<1>5. QED
  BY <1>1, <1>2, <1>3, SpotOf, StatusWritten, LeaveFlowDoes DEF CompleteSession, Return

\* Unwind, field by field.
LEMMA DoesUnwind ==
  ASSUME Base, NEW w \in Walkers, Unwind(w)
  PROVE  /\ At(w, "throw") /\ UNCHANGED <<messages, deaths>> /\ Same
         /\ forsaken' = forsaken \cup Unbacked(w) /\ Left(w, "catch")
<1>1. "catch" \in WalkSteps
  BY DEF WalkSteps
<1>2. QED
  BY <1>1, SpotOf, LeaveFlowDoes DEF Unwind, Same

\* A walker that settles or judges has a job.
LEMMA Job ==
  ASSUME Base, NEW w \in Walkers, walk[w].at \notin {"idle", "find", "create"} \cup Within
  PROVE  /\ walk[w].job # 0 /\ walk[w].job \in ResumeIds /\ walk[w].session = 0
         /\ OwnSession(w) \in SessionIds /\ sessions[OwnSession(w)] \in SessionRows
         /\ OwnSession(w) = resumes[walk[w].job].session
         /\ resumes[walk[w].job].status = IF walk[w].at \in Closing THEN "failed" ELSE "processing"
BY SpotOf, SessionRowOf DEF WalkFits, OwnSession

\* A walker takes a note of updated_at.
LEMMA JudgeDoes ==
  ASSUME WalkTyped, NEW w \in Walkers, NEW step \in WalkSteps, NEW recent \in BOOLEAN,
         walk' = [walk EXCEPT ![w].at = step, ![w].recent = recent]
  PROVE  Into(w, step, walk[w].session, walk[w].node) /\ walk'[w].recent = recent
<1> DEFINE row == [walk[w] EXCEPT !.at = step, !.recent = recent]
<1>1. row \in WalkRows /\ walk' = [walk EXCEPT ![w] = row]
  BY WalkRowOf DEF WalkRows
<1>2. Others(w) /\ walk'[w] = row
  BY <1>1, RowGiven
<1>3. QED
  BY <1>1, <1>2, WalkRowOf DEF Into, WalkRows

\* Look, field by field.
LEMMA DoesLook ==
  ASSUME Base, NEW w \in Walkers, Look(w)
  PROVE  LET s   == OwnSession(w)
             row == sessions[s]
         IN  /\ At(w, "look") /\ Kept /\ UNCHANGED <<messages, deaths>>
             /\ \/ /\ row.status = "active" /\ row.node = resumes[walk[w].job].node
                   /\ Into(w, "load", s, row.node)
                \/ /\ row.status = "active" /\ row.node # resumes[walk[w].job].node /\ ~Parked(row)
                   /\ Into(w, "count", 0, walk[w].node) /\ walk'[w].recent = row.recent
                \/ /\ row.status # "active" \/ (row.node # resumes[walk[w].job].node /\ Parked(row))
                   /\ Went(w, "settled")
                \/ Went(w, "retry")
<1> DEFINE s == OwnSession(w)
<1>1. "load" \in WalkSteps /\ "count" \in WalkSteps /\ "settled" \in WalkSteps /\ "retry" \in WalkSteps
  BY DEF WalkSteps, Judging
<1>2. At(w, "look") /\ Kept /\ UNCHANGED <<messages, deaths>>
  BY DEF Look, Kept, Same
<1>3. "look" \notin {"idle", "find", "create"} \cup Within
  BY DEF Within, Traversing
<1>4. s \in SessionIds /\ walk[w].session = 0
  BY <1>2, <1>3, Job DEF At
<1>5. s \in 0..MaxSessions /\ sessions[s].node \in 0..(Len(Flow) + 1) /\ sessions[s].recent \in BOOLEAN
  BY <1>4, SpotOf, SessionRowOf, FlowNumbers DEF SessionIds, Nodes
<1>6. walk' = [walk EXCEPT ![w].at = "load", ![w].session = s, ![w].node = sessions[s].node]
        => Into(w, "load", s, sessions[s].node)
  BY <1>1, <1>5, SpotOf, IntoDoes
<1>7. walk' = [walk EXCEPT ![w].at = "count", ![w].recent = sessions[s].recent]
        => Into(w, "count", 0, walk[w].node) /\ walk'[w].recent = sessions[s].recent
  BY <1>1, <1>4, <1>5, SpotOf, JudgeDoes
<1>8. /\ Goto(w, "settled") => Went(w, "settled")
      /\ Goto(w, "retry") => Went(w, "retry")
  BY <1>1, SpotOf, GotoDoes
<1>9. QED
  BY <1>2, <1>6, <1>7, <1>8 DEF Look

\* Count, field by field.
LEMMA DoesCount ==
  ASSUME Base, NEW w \in Walkers, Count(w)
  PROVE  /\ At(w, "count") /\ UNCHANGED <<messages, deaths, sessions, resumes, forsaken, overtaken>>
         /\ \/ Covering(w) # {} /\ Went(w, "settled") /\ deceived' = deceived \cup TrustsInVain(w)
            \/ Covering(w) = {} /\ ~walk[w].recent /\ Went(w, "condemned") /\ deceived' = deceived
            \/ Went(w, "recheck") /\ deceived' = deceived
            \/ Went(w, "retry") /\ deceived' = deceived
<1>1. "settled" \in WalkSteps /\ "condemned" \in WalkSteps /\ "recheck" \in WalkSteps /\ "retry" \in WalkSteps
  BY DEF WalkSteps, Judging
<1>2. /\ Goto(w, "settled") => Went(w, "settled")
      /\ Goto(w, "retry") => Went(w, "retry")
      /\ Goto(w, "condemned") => Went(w, "condemned")
      /\ Goto(w, "recheck") => Went(w, "recheck")
  BY <1>1, SpotOf, GotoDoes
<1>3. QED
  BY <1>2 DEF Count, Decidable

\* The row of a job is written by the walker that has it.
Noted(j, status, tries) ==
  /\ ResumesTyped' /\ \A i \in ResumeIds \ {j} : resumes'[i] = resumes[i]
  /\ resumes'[j].status = status /\ resumes'[j].tries = tries
  /\ resumes'[j].session = resumes[j].session /\ resumes'[j].node = resumes[j].node

\* The fields of a job's row.
LEMMA ResumeRowOf ==
  ASSUME ResumesTyped, NEW j \in ResumeIds
  PROVE  /\ resumes[j] \in ResumeRows /\ resumes[j].tries \in 0..MaxTries
         /\ resumes[j].session \in 0..MaxSessions
         /\ resumes[j].status \in {"absent", "pending", "processing", "completed", "failed"}
BY DEF ResumesTyped, ResumeRows

\* A job's status and attempts are written, and nothing else of it.
LEMMA JobWritten ==
  ASSUME ResumesTyped, NEW j \in ResumeIds, NEW tries \in 0..MaxTries,
         NEW status \in {"absent", "pending", "processing", "completed", "failed"},
         resumes' = [resumes EXCEPT ![j].status = status, ![j].tries = tries]
  PROVE  Noted(j, status, tries)
<1> DEFINE row == [resumes[j] EXCEPT !.status = status, !.tries = tries]
<1>1. row \in ResumeRows /\ resumes' = [resumes EXCEPT ![j] = row]
  BY ResumeRowOf DEF ResumeRows
<1>f. /\ row.status = status /\ row.tries = tries
      /\ row.session = resumes[j].session /\ row.node = resumes[j].node
  BY ResumeRowOf DEF ResumeRows
<1> HIDE DEF row
<1>2. ResumesTyped' /\ resumes'[j] = row /\ \A i \in ResumeIds \ {j} : resumes'[i] = resumes[i]
  BY <1>1 DEF ResumesTyped
<1>3. QED
  BY <1>f, <1>2 DEF Noted

\* Who learns that a job is done.
Warned(w, status, step) ==
  /\ overtaken' \subseteq Walkers
  /\ \A v \in Walkers \ {w} : v \in overtaken => v \in overtaken'
  /\ step # "idle" => (w \in overtaken => w \in overtaken')
  /\ status # "pending" => Judges(walk[w].job) \ {w} \subseteq overtaken'

\* SettleJob, field by field.
LEMMA Settles ==
  ASSUME Base, NEW w \in Walkers, walk[w].at \notin {"idle", "find", "create"} \cup Within,
         NEW status \in {"pending", "completed", "failed"}, NEW tries \in 0..MaxTries,
         NEW step \in {"idle", "cancel", "cancelDead"}, SettleJob(w, status, tries, step)
  PROVE  /\ UNCHANGED <<messages, deaths, sessions, forsaken, deceived>>
         /\ Noted(walk[w].job, status, tries) /\ Warned(w, status, step)
         /\ IF step = "idle" THEN Stopped(w) ELSE Went(w, step)
<1>1. walk[w].job \in ResumeIds
  BY Job
<1>2. Noted(walk[w].job, status, tries)
  BY <1>1, SpotOf, JobWritten DEF SettleJob
<1>3. Warned(w, status, step)
  BY SpotOf DEF SettleJob, Warned, RestTyped, Judges
<1>4. CASE step = "idle"
  <2>1. walk' = [walk EXCEPT ![w] = NoWalk]
    BY <1>4 DEF SettleJob
  <2>2. QED
    BY <1>2, <1>3, <1>4, <2>1, SpotOf, StoppedDoes DEF SettleJob
<1>5. CASE step # "idle"
  <2>1. Goto(w, step)
    BY <1>5 DEF SettleJob, Goto
  <2>2. step \in WalkSteps
    BY DEF WalkSteps, Judging
  <2>3. QED
    BY <1>2, <1>3, <1>5, <2>1, <2>2, SpotOf, GotoDoes DEF SettleJob
<1>6. QED
  BY <1>4, <1>5

\* The four ends of a job, field by field: which status, from where, and where to.
LEMMA DoesSettle ==
  ASSUME Base, NEW w \in Walkers,
         CompleteJob(w) \/ RecheckJob(w) \/ RetryJob(w) \/ FailJob(w)
  PROVE  /\ UNCHANGED <<messages, deaths, sessions, forsaken, deceived>>
         /\ \E status \in {"pending", "completed", "failed"}, tries \in 0..MaxTries,
               step \in {"idle", "cancel", "cancelDead"} :
              /\ Noted(walk[w].job, status, tries) /\ Warned(w, status, step)
              /\ IF step = "idle" THEN Stopped(w) ELSE Went(w, step)
              /\ \/ At(w, "settled") /\ status = "completed" /\ step = "idle"
                 \/ walk[w].at \in {"recheck", "retry"} /\ status = "pending" /\ step = "idle"
                 \/ walk[w].at \in {"retry", "giveUp"} /\ status = "failed" /\ step = "cancel"
                 \/ At(w, "condemned") /\ status = "failed" /\ step = "cancelDead"
<1>1. walk[w].at \in {"settled", "recheck", "retry", "giveUp", "condemned"}
  BY DEF CompleteJob, RecheckJob, RetryJob, FailJob, At
<1>2. walk[w].at \notin {"idle", "find", "create"} \cup Within /\ walk[w].at \notin Closing
  BY <1>1 DEF Within, Traversing, Closing
<1>3. walk[w].job \in ResumeIds /\ resumes[walk[w].job].status = "processing"
  BY <1>2, Job
<1>4. Tries(w) \in 0..MaxTries /\ Tries(w) # 0
  BY <1>3, SpotOf, ResumeRowOf DEF Tries, Base, RowsFit
<1>5. Tries(w) - 1 \in 0..MaxTries
  BY <1>4, FlowNumbers
<1>6. CASE CompleteJob(w)
  <2>1. At(w, "settled") /\ SettleJob(w, "completed", Tries(w), "idle")
    BY <1>6 DEF CompleteJob
  <2>2. QED
    BY <1>2, <1>4, <2>1, Settles
<1>7. CASE RecheckJob(w)
  <2>1. At(w, "recheck") /\ SettleJob(w, "pending", Tries(w) - 1, "idle")
    BY <1>7 DEF RecheckJob
  <2>2. QED
    BY <1>2, <1>5, <2>1, Settles DEF At
<1>8. CASE RetryJob(w)
  <2>1. At(w, "retry") /\ (SettleJob(w, "pending", Tries(w), "idle") \/ SettleJob(w, "failed", Tries(w), "cancel"))
    BY <1>8 DEF RetryJob
  <2>2. QED
    BY <1>2, <1>4, <2>1, Settles DEF At
<1>9. CASE FailJob(w)
  <2>1. \/ At(w, "giveUp") /\ SettleJob(w, "failed", Tries(w), "cancel")
        \/ At(w, "condemned") /\ SettleJob(w, "failed", Tries(w), "cancelDead")
    BY <1>9 DEF FailJob
  <2>2. QED
    BY <1>2, <1>4, <2>1, Settles DEF At
<1>10. QED
  BY <1>6, <1>7, <1>8, <1>9

\* CatchThrow, field by field.
LEMMA DoesCatch ==
  ASSUME Base, NEW w \in Walkers, CatchThrow(w)
  PROVE  /\ At(w, "catch") /\ UNCHANGED <<messages, deaths, resumes, forsaken, deceived, overtaken>>
         /\ \/ /\ Closed(OwnSession(w), "cancelled")
               /\ Went(w, "retry")
            \/ sessions' = sessions /\ Went(w, "giveUp")
<1>1. "retry" \in WalkSteps /\ "giveUp" \in WalkSteps
  BY DEF WalkSteps
<1>2. At(w, "catch") /\ UNCHANGED <<messages, deaths, resumes, forsaken, deceived, overtaken>>
  BY DEF CatchThrow
<1>3. walk[w].at \notin {"idle", "find", "create"} \cup Within
  BY <1>2 DEF Within, Traversing, At
<1>4. OwnSession(w) \in SessionIds
  BY <1>3, Job
<1>6. QED
  BY <1>1, <1>2, <1>4, SpotOf, StatusWritten, GotoDoes DEF CatchThrow

\* A walker that is done with its job loses its place among the overtaken.
Departs(w) == Stopped(w) /\ overtaken' = overtaken \ {w}

\* Leave ends the walker.
LEMMA LeaveDoes ==
  ASSUME Base, NEW w \in Walkers, Leave(w)
  PROVE  Departs(w)
BY SpotOf, StoppedDoes DEF Leave, Departs

\* CancelSession, field by field.
LEMMA DoesCancel ==
  ASSUME Base, NEW w \in Walkers, CancelSession(w)
  PROVE  LET s == OwnSession(w) IN
         /\ At(w, "cancel") \/ At(w, "cancelDead")
         /\ UNCHANGED <<messages, deaths, resumes, deceived>> /\ Departs(w)
         /\ \/ /\ Closed(s, "cancelled") /\ forsaken' = forsaken
            \/ sessions' = sessions /\ sessions[s].status # "active" /\ forsaken' = forsaken
            \/ sessions' = sessions /\ forsaken' = forsaken \cup {s}
<1> DEFINE s == OwnSession(w)
<1>2. /\ At(w, "cancel") \/ At(w, "cancelDead")
      /\ UNCHANGED <<messages, deaths, resumes, deceived>> /\ Departs(w)
  BY LeaveDoes DEF CancelSession
<1>3. walk[w].at \notin {"idle", "find", "create"} \cup Within
  BY <1>2 DEF Within, Traversing, At
<1>4. s \in SessionIds
  BY <1>3, Job
<1>6. WriteRow(s, [sessions[s] EXCEPT !.status = "cancelled"]) => Closed(s, "cancelled")
  BY <1>4, SpotOf, StatusWritten
<1>7. QED
  BY <1>2, <1>6 DEF CancelSession

\* LookExhausted, field by field.
LEMMA DoesLookExhausted ==
  ASSUME Base, NEW w \in Walkers, LookExhausted(w)
  PROVE  LET s     == OwnSession(w)
             row   == sessions[s]
             stuck == row.node = resumes[walk[w].job].node
         IN  /\ At(w, "lookExhausted")
             /\ UNCHANGED <<sessions, resumes, messages, deaths, deceived>>
             /\ \/ /\ row.status = "active" /\ stuck /\ Went(w, "cancel")
                   /\ forsaken' = forsaken /\ overtaken' = overtaken
                \/ /\ row.status = "active" /\ ~stuck /\ ~Parked(row)
                   /\ Into(w, "countExhausted", 0, walk[w].node) /\ walk'[w].recent = row.recent
                   /\ forsaken' = forsaken /\ overtaken' = overtaken
                \/ /\ row.status # "active" \/ (~stuck /\ Parked(row))
                   /\ Departs(w) /\ forsaken' = forsaken
                \/ Departs(w) /\ forsaken' = forsaken \cup {s}
<1> DEFINE s == OwnSession(w)
<1>1. "cancel" \in WalkSteps /\ "countExhausted" \in WalkSteps
  BY DEF WalkSteps, Judging
<1>2. At(w, "lookExhausted") /\ UNCHANGED <<sessions, resumes, messages, deaths, deceived>>
  BY DEF LookExhausted
<1>3. "lookExhausted" \notin {"idle", "find", "create"} \cup Within
  BY DEF Within, Traversing
<1>4. s \in SessionIds /\ walk[w].session = 0
  BY <1>2, <1>3, Job DEF At
<1>5. sessions[s].recent \in BOOLEAN
  BY <1>4, SpotOf, SessionRowOf
<1>6. walk' = [walk EXCEPT ![w].at = "countExhausted", ![w].recent = sessions[s].recent]
        => Into(w, "countExhausted", 0, walk[w].node) /\ walk'[w].recent = sessions[s].recent
  BY <1>1, <1>4, <1>5, SpotOf, JudgeDoes
<1>7. Goto(w, "cancel") => Went(w, "cancel")
  BY <1>1, SpotOf, GotoDoes
<1>8. QED
  BY <1>2, <1>6, <1>7, LeaveDoes DEF LookExhausted

\* CountExhausted, field by field.
LEMMA DoesCountExhausted ==
  ASSUME Base, NEW w \in Walkers, CountExhausted(w)
  PROVE  /\ At(w, "countExhausted") /\ UNCHANGED <<sessions, resumes, messages, deaths>>
         /\ \/ /\ Covering(w) # {} /\ Departs(w)
               /\ deceived' = deceived \cup TrustsInVain(w) /\ forsaken' = forsaken
            \/ /\ Covering(w) = {} /\ ~walk[w].recent /\ Went(w, "cancelDead")
               /\ forsaken' = forsaken /\ deceived' = deceived /\ overtaken' = overtaken
            \/ Departs(w) /\ forsaken' = forsaken \cup {OwnSession(w)} /\ deceived' = deceived
<1>1. "cancelDead" \in WalkSteps
  BY DEF WalkSteps, Judging
<1>2. Goto(w, "cancelDead") => Went(w, "cancelDead")
  BY <1>1, SpotOf, GotoDoes
<1>3. QED
  BY <1>2, LeaveDoes DEF CountExhausted, Decidable

\* Die, field by field.
LEMMA DoesDie ==
  ASSUME Base, NEW w \in Walkers, Die(w)
  PROVE  /\ ~At(w, "idle") /\ UNCHANGED <<sessions, resumes, messages, deceived>> /\ Departs(w)
         /\ deaths' \in 0..MaxDeaths
         /\ forsaken' = forsaken \cup Unbacked(w) \cup
              (IF walk[w].at \in Closing THEN {OwnSession(w)} ELSE {})
<1>1. deaths' \in 0..MaxDeaths
  BY SpotOf, FlowNumbers DEF Die, RestTyped
<1>2. QED
  BY <1>1, LeaveDoes DEF Die, Closing

\* TakeJob, field by field.
LEMMA DoesTake ==
  ASSUME Base, NEW w \in Walkers, NEW j \in ResumeIds, TakeJob(w, j)
  PROVE  /\ At(w, "idle") /\ Open(j) /\ \A v \in Walkers : walk[v].job # j
         /\ UNCHANGED <<sessions, messages, deaths, forsaken, deceived>>
         /\ Others(w) /\ walk'[w].job = j /\ walk'[w].session = 0
         /\ \/ /\ Noted(j, "processing", resumes[j].tries + 1)
               /\ walk'[w].at = "look" /\ overtaken' = overtaken
            \/ /\ Noted(j, "failed", resumes[j].tries)
               /\ walk'[w].at = "lookExhausted" /\ overtaken' = overtaken \cup Judges(j)
<1>1. At(w, "idle") /\ Open(j) /\ (\A v \in Walkers : walk[v].job # j)
      /\ UNCHANGED <<sessions, messages, deaths, forsaken, deceived>>
  BY DEF TakeJob
<1>2. walk[w] = NoWalk
  BY <1>1, SpotOf DEF WalkFits
<1>3. ASSUME NEW step \in {"look", "lookExhausted"}, walk' = [walk EXCEPT ![w].at = step, ![w].job = j]
      PROVE  Others(w) /\ walk'[w].job = j /\ walk'[w].session = 0 /\ walk'[w].at = step
  <2> DEFINE row == [NoWalk EXCEPT !.at = step, !.job = j]
  <2>a. step \in WalkSteps /\ j \in 0..MaxJobs
    BY FlowNumbers DEF WalkSteps, ResumeIds
  <2>b. NoWalk \in WalkRows
    BY NoWalkIs
  <2>c. row \in WalkRows
    BY <2>a, <2>b DEF WalkRows
  <2>1. row \in WalkRows /\ row.at = step /\ row.job = j /\ row.session = 0
    BY <2>c DEF NoWalk
  <2>2. walk' = [walk EXCEPT ![w] = row]
    BY <1>2, <1>3
  <2> HIDE DEF row
  <2>3. QED
    BY <2>1, <2>2, SpotOf, RowGiven
<1>4. resumes[j].tries \in 0..MaxTries
  BY SpotOf, ResumeRowOf
<1>5. CASE resumes[j].tries < MaxTries
  <2>1. resumes[j].tries + 1 \in 0..MaxTries
    BY <1>4, <1>5, FlowNumbers
  <2>2. resumes' = [resumes EXCEPT ![j].status = "processing", ![j].tries = resumes[j].tries + 1]
    BY <1>5 DEF TakeJob
  <2>3. Noted(j, "processing", resumes[j].tries + 1)
    BY <2>1, <2>2, SpotOf, JobWritten
  <2>4. QED
    BY <1>1, <1>3, <1>5, <2>3 DEF TakeJob
<1>6. CASE ~(resumes[j].tries < MaxTries)
  <2>1. resumes' = [resumes EXCEPT ![j].status = "failed"]
    BY <1>6 DEF TakeJob
  <2>2. Noted(j, "failed", resumes[j].tries)
    <3> DEFINE row == [resumes[j] EXCEPT !.status = "failed"]
    <3>1. row \in ResumeRows /\ resumes' = [resumes EXCEPT ![j] = row]
      BY <2>1, SpotOf, ResumeRowOf DEF ResumeRows
    <3>2. /\ row.status = "failed" /\ row.tries = resumes[j].tries
          /\ row.session = resumes[j].session /\ row.node = resumes[j].node
      BY SpotOf, ResumeRowOf DEF ResumeRows
    <3> HIDE DEF row
    <3>3. ResumesTyped' /\ resumes'[j] = row /\ \A i \in ResumeIds \ {j} : resumes'[i] = resumes[i]
      BY <3>1, SpotOf DEF ResumesTyped
    <3>4. QED
      BY <3>2, <3>3 DEF Noted
  <2>3. QED
    BY <1>1, <1>3, <1>6, <2>2 DEF TakeJob
<1>7. QED
  BY <1>5, <1>6

\* Ages, field by field.
LEMMA DoesAge ==
  ASSUME Base, NEW s \in SessionIds, Ages(s)
  PROVE  /\ UNCHANGED <<resumes, walk, messages, deaths, forsaken, overtaken, deceived>> /\ SessionsTyped'
         /\ sessions[s].recent /\ ~sessions'[s].recent
         /\ sessions'[s].status = sessions[s].status /\ sessions'[s].node = sessions[s].node
         /\ sessions'[s].waiting = sessions[s].waiting /\ sessions'[s].until = sessions[s].until
         /\ \A t \in SessionIds \ {s} : sessions'[t] = sessions[t]
         /\ \A w \in Walkers : walk[w].session = s =>
              ~(walk[w].at \in Traversing \cup {"throw"}) /\ (walk[w].at \in {"load", "resume"} => Parked(sessions[s]))
<1> DEFINE row == [sessions[s] EXCEPT !.recent = FALSE]
<1>s. SessionsTyped
  BY FlowParts DEF Base
<1>r. row \in SessionRows
  BY <1>s, SessionRowOf DEF SessionRows
<1>e. sessions' = [sessions EXCEPT ![s] = row]
  BY <1>s DEF Ages, SessionsTyped
<1>1. row \in SessionRows /\ sessions' = [sessions EXCEPT ![s] = row]
  BY <1>r, <1>e
<1>2. /\ row.status = sessions[s].status /\ row.node = sessions[s].node /\ ~row.recent
      /\ row.waiting = sessions[s].waiting /\ row.until = sessions[s].until
  BY SessionRowOf, FlowParts DEF SessionRows, Base
<1> HIDE DEF row
<1>3. SessionsTyped' /\ sessions'[s] = row /\ \A t \in SessionIds \ {s} : sessions'[t] = sessions[t]
  BY <1>1, <1>s DEF SessionsTyped
<1>4. QED
  BY <1>2, <1>3 DEF Ages

\* Rows are only added to, and a job is only written by the walker that has it.
SessionsGo ==
  /\ SessionsTyped'
  /\ \A s \in SessionIds : \/ sessions'[s] = sessions[s]
                           \/ sessions'[s].recent /\ sessions'[s].status # "absent"

JobGoes(w, j) ==
  \/ resumes'[j] = resumes[j]
  \/ /\ resumes'[j].status # "absent" /\ (resumes'[j].status = "processing" => resumes'[j].tries # 0)
     /\ resumes'[j].session # 0 /\ sessions'[resumes'[j].session].status # "absent"
     /\ resumes[j].status # "absent" =>
          /\ resumes'[j].session = resumes[j].session /\ resumes'[j].node = resumes[j].node
          /\ \A v \in Walkers \ {w} : walk[v].job # j

JobsGo(w) == ResumesTyped' /\ \A j \in ResumeIds : JobGoes(w, j)

Seated(w) ==
  /\ Others(w) /\ WalkFits(w)'
  /\ walk'[w].session # 0 => sessions'[walk'[w].session].status # "absent"
  /\ walk'[w].job # 0 => \A v \in Walkers \ {w} : walk[v].job # walk'[w].job

RestGoes ==
  /\ messages' \in 0..MaxMessages /\ deaths' \in 0..MaxDeaths
  /\ forsaken \subseteq forsaken' /\ deceived \subseteq deceived'
  /\ forsaken' \cup deceived' \subseteq SessionIds /\ overtaken' \subseteq Walkers

Frame(w) == SessionsGo /\ JobsGo(w) /\ Seated(w) /\ RestGoes

\* No session is written.
LEMMA SessionsSame ==
  ASSUME Base, sessions' = sessions
  PROVE  SessionsGo
BY FlowParts DEF Base, SessionsGo, SessionsTyped

\* One session is written.
LEMMA SessionsWrote ==
  ASSUME Base, NEW s \in SessionIds, NEW status, NEW node, NEW waiting, NEW until,
         Rewrote(s, status, node, waiting, until), status # "absent"
  PROVE  SessionsGo
BY DEF SessionsGo, Rewrote

\* What a walker holds exists, and no two hold the same job.
LEMMA SessionPresent ==
  ASSUME Base, NEW w \in Walkers
  PROVE  /\ walk[w].session # 0 =>
              walk[w].session \in SessionIds /\ sessions[walk[w].session].status # "absent"
         /\ walk[w].job # 0 =>
              /\ walk[w].job \in ResumeIds /\ resumes[walk[w].job].status # "absent"
              /\ resumes[walk[w].job].session # 0
              /\ OwnSession(w) = resumes[walk[w].job].session
              /\ OwnSession(w) \in SessionIds /\ sessions[OwnSession(w)].status # "absent"
         /\ walk[w].job # 0 => \A v \in Walkers \ {w} : walk[v].job # walk[w].job
<1>1. walk[w].session # 0 => walk[w].session \in SessionIds /\ sessions[walk[w].session].status # "absent"
  BY SpotOf DEF Base, RowsFit
<1>2. ASSUME walk[w].job # 0
      PROVE  /\ walk[w].job \in ResumeIds /\ resumes[walk[w].job].status # "absent"
             /\ resumes[walk[w].job].session # 0
             /\ OwnSession(w) = resumes[walk[w].job].session
             /\ OwnSession(w) \in SessionIds /\ sessions[OwnSession(w)].status # "absent"
  <2>1. walk[w].job \in ResumeIds /\ OwnSession(w) \in SessionIds /\ resumes[walk[w].job].status # "absent"
    BY <1>2, SpotOf DEF WalkFits
  <2>2. OwnSession(w) = resumes[walk[w].job].session
    BY <1>2 DEF OwnSession
  <2>3. QED
    BY <2>1, <2>2 DEF Base, RowsFit
<1>3. walk[w].job # 0 => \A v \in Walkers \ {w} : walk[v].job # walk[w].job
  BY DEF Base, WalksFit
<1>4. QED
  BY <1>1, <1>2, <1>3

\* Sessions are never deleted.
LEMMA StillPresent ==
  ASSUME SessionsGo, NEW s \in SessionIds, sessions[s].status # "absent"
  PROVE  sessions'[s].status # "absent"
BY DEF SessionsGo

\* No job is written.
LEMMA JobsSame ==
  ASSUME Base, NEW w \in Walkers, resumes' = resumes
  PROVE  JobsGo(w)
BY FlowParts DEF Base, JobsGo, JobGoes, ResumesTyped

\* One job is written, and nobody else has it.
LEMMA JobsNoted ==
  ASSUME Base, SessionsGo, NEW w \in Walkers, NEW j \in ResumeIds, resumes[j].status # "absent",
         \A v \in Walkers \ {w} : walk[v].job # j,
         NEW status \in {"pending", "processing", "completed", "failed"}, NEW tries,
         status = "processing" => tries # 0, Noted(j, status, tries)
  PROVE  JobsGo(w)
<1>1. ResumesTyped' /\ \A i \in ResumeIds \ {j} : JobGoes(w, i)
  BY DEF Noted, JobGoes
<1>2. resumes[j].session \in SessionIds /\ sessions[resumes[j].session].status # "absent"
  <2>1. resumes[j].session # 0 /\ sessions[resumes[j].session].status # "absent"
    BY DEF Base, RowsFit
  <2>2. resumes[j].session \in 0..MaxSessions
    BY FlowParts, ResumeRowOf DEF Base
  <2>3. QED
    BY <2>1, <2>2, FlowNumbers DEF SessionIds
<1>3. sessions'[resumes[j].session].status # "absent" /\ resumes[j].session # 0
  BY <1>2, StillPresent DEF SessionIds
<1>4. JobGoes(w, j)
  BY <1>3 DEF Noted, JobGoes
<1>5. QED
  BY <1>1, <1>4 DEF JobsGo

----
(* Where the walker is after a step. *)

\* A walker that has ended fits.
LEMMA SeatedStopped ==
  ASSUME NEW w \in Walkers, Stopped(w)
  PROVE  Seated(w)
<1>1. walk'[w] = NoWalk /\ Others(w)
  BY DEF Stopped
<1>2. WalkFits(w)'
  BY <1>1 DEF WalkFits, At, NoWalk, Within, Traversing, Closing
<1>3. walk'[w].session = 0 /\ walk'[w].job = 0
  BY <1>1, NoWalkIs
<1>4. QED
  BY <1>1, <1>2, <1>3 DEF Seated

\* A walker back at its job fits.
LEMMA SeatedLeft ==
  ASSUME Base, NEW w \in Walkers, NEW step \in {"settled", "retry", "catch"}, Left(w, step),
         walk[w].at \in Within \cup {"create"}, resumes' = resumes
  PROVE  Seated(w)
<1>1. WalkFits(w) /\ Others(w)
  BY SpotOf DEF Left
<1>2. CASE walk[w].job = 0
  BY <1>1, <1>2, SeatedStopped DEF Left, Stopped
<1>3. CASE walk[w].job # 0
  <2>1. walk[w].at \notin Closing
    BY DEF Within, Traversing, Closing
  <2>2. walk'[w].at = step /\ walk'[w].job = walk[w].job /\ walk'[w].session = 0
    BY <1>3 DEF Left
  <2>3. WalkFits(w)'
    BY <1>1, <1>3, <2>1, <2>2 DEF WalkFits, At, Within, Traversing, Closing
  <2>4. QED
    BY <1>1, <1>3, <2>2, <2>3, SessionPresent DEF Seated
<1>4. QED
  BY <1>2, <1>3

\* A step inside the same session, or outside of any.
LEMMA SeatedOn ==
  ASSUME Base, SessionsGo, NEW w \in Walkers, Others(w), NEW step \in WalkSteps \ {"idle"},
         walk'[w].at = step, walk'[w].job = walk[w].job, walk'[w].session = walk[w].session,
         walk[w].job = 0 => step \in {"find", "create"} \cup Within,
         walk[w].job # 0 => resumes'[walk[w].job].status = IF step \in Closing THEN "failed" ELSE "processing",
         step \in Within <=> walk[w].at \in Within,
         step \in {"enter", "execute", "stamp"} => walk'[w].node \in 1..Len(Flow),
         step \in {"load", "resume"} => walk'[w].node \in Nodes
  PROVE  Seated(w)
<1>1. WalkFits(w)
  BY SpotOf
<1>2. WalkFits(w)'
  BY <1>1 DEF WalkFits, At
<1>3. walk'[w].session # 0 => sessions'[walk'[w].session].status # "absent"
  BY SessionPresent, StillPresent
<1>4. QED
  BY <1>2, <1>3, SessionPresent DEF Seated

\* Into a session.
LEMMA SeatedInto ==
  ASSUME Base, NEW w \in Walkers, NEW step \in {"load", "enter"}, NEW s \in SessionIds, NEW n,
         Into(w, step, s, n), sessions'[s].status # "absent", resumes' = resumes,
         walk[w].at \notin Closing \cup {"idle"},
         step = "enter" => n \in 1..Len(Flow), step = "load" => n \in Nodes
  PROVE  Seated(w)
<1>1. WalkFits(w) /\ s # 0
  BY SpotOf DEF SessionIds
<1>2. WalkFits(w)'
  BY <1>1 DEF WalkFits, At, Into, Within, Traversing, Closing
<1>3. QED
  BY <1>2, SessionPresent DEF Seated, Into

\* The counters and the history, of a step that may forsake sessions.
LEMMA RestForsaken ==
  ASSUME Base, UNCHANGED <<messages, deceived>>, deaths' \in 0..MaxDeaths \/ deaths' = deaths,
         NEW F \in SUBSET SessionIds, forsaken' = forsaken \cup F, overtaken' \subseteq Walkers
  PROVE  RestGoes
BY FlowParts DEF Base, RestTyped, RestGoes

\* The counters and the history, of a step that leaves the history alone.
LEMMA RestSame ==
  ASSUME Base, messages' \in 0..MaxMessages \/ messages' = messages,
         UNCHANGED <<deaths, forsaken, deceived, overtaken>>
  PROVE  RestGoes
BY FlowParts DEF Base, RestTyped, RestGoes

\* Unbacked names a session.
LEMMA UnbackedIs ==
  ASSUME Base, NEW w \in Walkers
  PROVE  Unbacked(w) \subseteq SessionIds
BY Place DEF Unbacked

\* StartMessage is within the frame.
LEMMA FrameStart ==
  ASSUME Base, NEW w \in Walkers, StartMessage(w)
  PROVE  Frame(w)
<1>1. At(w, "idle") /\ Kept /\ Went(w, "find") /\ messages' \in 0..MaxMessages /\ deaths' = deaths
  BY DoesStart
<1>2. SessionsGo /\ JobsGo(w) /\ RestGoes
  BY <1>1, SessionsSame, JobsSame, RestSame DEF Kept, Same
<1>3. walk[w].job = 0 /\ walk[w].at \notin Within
  BY <1>1, SpotOf, NoWalkIs DEF WalkFits, At, Within, Traversing
<1>4. Seated(w)
  BY <1>1, <1>2, <1>3, SeatedOn DEF Went, WalkSteps, Within, Traversing
<1>5. QED
  BY <1>2, <1>4 DEF Frame

\* FindWaiting is within the frame.
LEMMA FrameFind ==
  ASSUME Base, NEW w \in Walkers, FindWaiting(w)
  PROVE  Frame(w)
<1>1. At(w, "find") /\ Kept /\ UNCHANGED <<messages, deaths>>
  BY DoesFind
<1>2. SessionsGo /\ JobsGo(w) /\ RestGoes
  BY <1>1, SessionsSame, JobsSame, RestSame DEF Kept, Same
<1>3. walk[w].at \notin Within \cup Closing \cup {"idle"}
  BY <1>1 DEF At, Within, Traversing, Closing
<1>4. walk[w].job # 0 => resumes'[walk[w].job].status = "processing"
  BY <1>1, <1>3, SpotOf DEF WalkFits, Kept, Same
<1>5. CASE Went(w, "create")
  <2>1. Seated(w)
    BY <1>2, <1>3, <1>4, <1>5, SeatedOn DEF Went, WalkSteps, Within, Traversing, Closing
  <2>2. QED
    BY <1>2, <2>1 DEF Frame
<1>6. ASSUME NEW s \in SessionIds, sessions[s].status = "active", Into(w, "load", s, sessions[s].node)
      PROVE  Frame(w)
  <2>1. sessions[s].node \in Nodes /\ sessions'[s].status # "absent" /\ resumes' = resumes
    BY <1>1, <1>6, SpotOf, SessionRowOf DEF Kept, Same
  <2>2. Seated(w)
    BY <1>3, <1>6, <2>1, SeatedInto
  <2>3. QED
    BY <1>2, <2>2 DEF Frame
<1>7. QED
  BY <1>5, <1>6, DoesFind

\* CreateSession is within the frame.
LEMMA FrameCreate ==
  ASSUME Base, NEW w \in Walkers, CreateSession(w)
  PROVE  Frame(w)
<1>1. At(w, "create") /\ UNCHANGED <<messages, deaths, resumes, deceived, overtaken>>
  BY DoesCreate
<1>2. JobsGo(w)
  BY <1>1, JobsSame
<1>3. walk[w].at \in Within \cup {"create"} /\ walk[w].at \notin Closing \cup {"idle"}
  BY <1>1 DEF At, Closing
<1>4. CASE Left(w, "settled") /\ sessions' = sessions /\ forsaken' = forsaken
  <2>1. Seated(w) /\ SessionsGo /\ RestGoes
    BY <1>1, <1>3, <1>4, SeatedLeft, SessionsSame, RestSame
  <2>2. QED
    BY <1>2, <2>1 DEF Frame
<1>5. ASSUME NEW s \in SessionIds, Rewrote(s, "active", 0, FALSE, FALSE),
             \/ Left(w, "settled") /\ forsaken' = forsaken \cup {s}
             \/ Into(w, "enter", s, 1) /\ 1 \in 1..Len(Flow) /\ forsaken' = forsaken
      PROVE  Frame(w)
  <2>1. SessionsGo
    BY <1>5, SessionsWrote
  <2>2. sessions'[s].status # "absent"
    BY <1>5 DEF Rewrote
  <2>3. RestGoes
    <3>1. overtaken' \subseteq Walkers
      BY <1>1, SpotOf DEF RestTyped
    <3>2. CASE forsaken' = forsaken \cup {s}
      BY <1>1, <3>1, <3>2, RestForsaken
    <3>3. CASE forsaken' = forsaken
      BY <1>1, <3>3, RestSame
    <3>4. QED
      BY <1>5, <3>2, <3>3
  <2>4. Seated(w)
    <3>1. CASE Left(w, "settled")
      BY <1>1, <1>3, <3>1, SeatedLeft
    <3>2. CASE Into(w, "enter", s, 1) /\ 1 \in 1..Len(Flow)
      BY <1>1, <1>3, <2>2, <3>2, SeatedInto
    <3>3. QED
      BY <1>5, <3>1, <3>2
  <2>5. QED
    BY <1>2, <2>1, <2>3, <2>4 DEF Frame
<1>6. QED
  BY <1>4, <1>5, DoesCreate

\* A walker in a session that exists, its job, if any, being processed.
LEMMA Inside ==
  ASSUME Base, NEW w \in Walkers, walk[w].at \in Within
  PROVE  /\ walk[w].at \notin Closing \cup {"idle", "find", "create"}
         /\ walk[w].session \in SessionIds /\ sessions[walk[w].session].status # "absent"
         /\ walk[w].job # 0 => resumes[walk[w].job].status = "processing"
         /\ overtaken \subseteq Walkers
<1>1. walk[w].at \notin Closing \cup {"idle", "find", "create"}
  BY DEF Within, Traversing, Closing
<1>2. walk[w].session \in SessionIds /\ walk[w].session # 0
  BY SpotOf DEF SessionIds
<1>3. QED
  BY <1>1, <1>2, SpotOf, SessionPresent DEF WalkFits, RestTyped

\* What a walker writes to its session.
LEMMA WroteOwn ==
  ASSUME Base, NEW w \in Walkers, walk[w].at \in Within
  PROVE  /\ \A status \in {"cancelled", "completed"} : Closed(walk[w].session, status) => SessionsGo
         /\ \A n, waiting, until :
              Rewrote(walk[w].session, sessions[walk[w].session].status, n, waiting, until) => SessionsGo
<1>1. walk[w].session \in SessionIds /\ sessions[walk[w].session].status # "absent"
  BY Inside
<1>2. ASSUME NEW status \in {"cancelled", "completed"}, Closed(walk[w].session, status)
      PROVE  SessionsGo
  BY <1>1, <1>2, SessionsWrote DEF Closed
<1>3. ASSUME NEW n, NEW waiting, NEW until,
             Rewrote(walk[w].session, sessions[walk[w].session].status, n, waiting, until)
      PROVE  SessionsGo
  BY <1>1, <1>3, SessionsWrote
<1>4. QED
  BY <1>2, <1>3

\* The frame of a step out of a session.
LEMMA FrameLeft ==
  ASSUME Base, NEW w \in Walkers, walk[w].at \in Within, SessionsGo,
         UNCHANGED <<messages, deaths, resumes, deceived, overtaken>>,
         NEW F \in SUBSET SessionIds, forsaken' = forsaken \cup F,
         NEW step \in {"settled", "retry", "catch"}, Left(w, step)
  PROVE  Frame(w)
<1>1. Seated(w)
  BY SeatedLeft
<1>2. RestGoes
  BY Inside, RestForsaken
<1>3. QED
  BY <1>1, <1>2, JobsSame DEF Frame

\* The frame of a step inside a session.
LEMMA FrameOn ==
  ASSUME Base, NEW w \in Walkers, walk[w].at \in Within, SessionsGo, JobsGo(w),
         walk[w].job # 0 => resumes'[walk[w].job].status = "processing",
         UNCHANGED <<messages, deaths, deceived, overtaken>>,
         NEW F \in SUBSET SessionIds, forsaken' = forsaken \cup F,
         NEW step \in Within, Others(w),
         walk'[w].at = step, walk'[w].job = walk[w].job, walk'[w].session = walk[w].session,
         step \in {"enter", "execute", "stamp"} => walk'[w].node \in 1..Len(Flow),
         step \in {"load", "resume"} => walk'[w].node \in Nodes
  PROVE  Frame(w)
<1>1. step \in WalkSteps \ {"idle"} /\ step \notin Closing
  BY DEF Within, WalkSteps, Traversing, Closing
<1>2. Seated(w)
  BY <1>1, SeatedOn
<1>3. RestGoes
  BY Inside, RestForsaken
<1>4. QED
  BY <1>2, <1>3 DEF Frame

\* The frame of a step on to a node.
LEMMA FrameWentOn ==
  ASSUME Base, NEW w \in Walkers, walk[w].at \in Within, SessionsGo,
         UNCHANGED <<messages, deaths, resumes, forsaken, deceived, overtaken>>,
         NEW n \in 1..(Len(Flow) + 1), WentOn(w, n)
  PROVE  Frame(w)
<1>1. walk'[w].at \in {"enter", "complete"} /\ walk'[w].at \in Within
  BY DEF WentOn, Within, Traversing
<1>2. walk'[w].at = "enter" => walk'[w].node \in 1..Len(Flow)
  BY FlowNumbers DEF WentOn
<1>3. forsaken' = forsaken \cup {} /\ {} \in SUBSET SessionIds
  OBVIOUS
<1>4. Others(w) /\ walk'[w].job = walk[w].job /\ walk'[w].session = walk[w].session
  BY DEF WentOn
<1>5. QED
  BY <1>1, <1>2, <1>3, <1>4, JobsSame, Inside, FrameOn

\* LoadFlow is within the frame.
LEMMA FrameLoad ==
  ASSUME Base, NEW w \in Walkers, LoadFlow(w)
  PROVE  Frame(w)
<1>1. At(w, "load") /\ UNCHANGED <<messages, deaths, resumes, forsaken, deceived, overtaken>>
  BY DoesLoad
<1>2. walk[w].at \in Within /\ forsaken' = forsaken \cup {} /\ {} \in SUBSET SessionIds
  BY <1>1 DEF At, Within
<1>3. CASE Went(w, "resume") /\ sessions' = sessions
  <2>1. walk'[w].node \in Nodes
    BY <1>1, <1>3, SpotOf DEF Went, WalkFits, At
  <2>2. QED
    BY <1>1, <1>2, <1>3, <2>1, SessionsSame, JobsSame, Inside, FrameOn DEF Went, Within
<1>4. CASE Left(w, "settled") /\ Closed(walk[w].session, "cancelled")
  BY <1>1, <1>2, <1>4, WroteOwn, FrameLeft
<1>5. CASE Left(w, "retry") /\ sessions' = sessions
  BY <1>1, <1>2, <1>5, SessionsSame, FrameLeft
<1>6. QED
  BY <1>3, <1>4, <1>5, DoesLoad

\* Resume is within the frame.
LEMMA FrameResume ==
  ASSUME Base, NEW w \in Walkers, Resume(w)
  PROVE  Frame(w)
<1>1. At(w, "resume") /\ UNCHANGED <<messages, deaths, resumes, forsaken, deceived, overtaken>>
  BY DoesResume
<1>2. walk[w].at \in Within /\ forsaken' = forsaken \cup {} /\ {} \in SUBSET SessionIds
  BY <1>1 DEF At, Within
<1>3. SessionsGo
  BY <1>2, WroteOwn, DoesResume
<1>4. walk[w].node + 1 \in 1..(Len(Flow) + 1)
  BY <1>1, SpotOf, FlowNumbers DEF WalkFits, At, Nodes
<1>5. CASE WentOn(w, walk[w].node + 1)
  BY <1>1, <1>2, <1>3, <1>4, <1>5, FrameWentOn
<1>6. CASE Went(w, "missing")
  BY <1>1, <1>2, <1>3, <1>6, JobsSame, Inside, FrameOn DEF Went, Within, Traversing
<1>7. QED
  BY <1>5, <1>6, DoesResume

\* MissingNode is within the frame.
LEMMA FrameMissing ==
  ASSUME Base, NEW w \in Walkers, MissingNode(w)
  PROVE  Frame(w)
<1>1. At(w, "missing") /\ UNCHANGED <<messages, deaths, resumes, deceived, overtaken>>
  BY DoesMissing
<1>2. walk[w].at \in Within
  BY <1>1 DEF At, Within, Traversing
<1>3. CASE Left(w, "settled") /\ forsaken' = forsaken /\ Closed(walk[w].session, "cancelled")
  <2>1. forsaken' = forsaken \cup {} /\ {} \in SUBSET SessionIds
    BY <1>3
  <2>2. QED
    BY <1>1, <1>2, <1>3, <2>1, WroteOwn, FrameLeft
<1>4. CASE Left(w, "retry") /\ sessions' = sessions /\ forsaken' = forsaken \cup Unbacked(w)
  BY <1>1, <1>2, <1>4, SessionsSame, UnbackedIs, FrameLeft
<1>5. QED
  BY <1>3, <1>4, DoesMissing

\* EnterNode is within the frame.
LEMMA FrameEnter ==
  ASSUME Base, NEW w \in Walkers, EnterNode(w)
  PROVE  Frame(w)
<1>1. At(w, "enter") /\ UNCHANGED <<messages, deaths, resumes, deceived, overtaken>> /\ Went(w, "execute")
  BY DoesEnter
<1>2. walk[w].at \in Within
  BY <1>1 DEF At, Within, Traversing
<1>3. SessionsGo
  BY <1>2, WroteOwn, DoesEnter
<1>4. PICK F \in SUBSET SessionIds : forsaken' = forsaken \cup F
  <2>1. {walk[w].session} \in SUBSET SessionIds /\ {} \in SUBSET SessionIds
    BY <1>2, Inside
  <2>2. forsaken' = forsaken \cup {walk[w].session} \/ forsaken' = forsaken \cup {}
    BY DoesEnter
  <2>3. QED
    BY <2>1, <2>2
<1>5. walk'[w].node \in 1..Len(Flow)
  BY <1>1, SpotOf DEF WalkFits, At, Went
<1>6. QED
  BY <1>1, <1>2, <1>3, <1>4, <1>5, JobsSame, Inside, FrameOn DEF Went, Within, Traversing

\* Work is within the frame.
LEMMA FrameWork ==
  ASSUME Base, NEW w \in Walkers, Work(w)
  PROVE  Frame(w)
<1>1. At(w, "execute") /\ Kept /\ UNCHANGED <<messages, deaths>>
  BY DoesWork
<1>2. walk[w].at \in Within /\ forsaken' = forsaken \cup {} /\ {} \in SUBSET SessionIds
  BY <1>1 DEF At, Within, Traversing, Kept
<1>3. SessionsGo /\ JobsGo(w) /\ resumes' = resumes /\ deceived' = deceived /\ overtaken' = overtaken
  BY <1>1, SessionsSame, JobsSame DEF Kept, Same
<1>4. walk[w].node + 1 \in 1..(Len(Flow) + 1)
  BY <1>1, SpotOf, FlowNumbers DEF WalkFits, At
<1>5. CASE WentOn(w, walk[w].node + 1)
  BY <1>1, <1>2, <1>3, <1>4, <1>5, FrameWentOn DEF Kept
<1>6. CASE Went(w, "throw")
  BY <1>1, <1>2, <1>3, <1>6, Inside, FrameOn DEF Went, Within
<1>7. QED
  BY <1>5, <1>6, DoesWork

\* WaitForInput is within the frame.
LEMMA FrameWait ==
  ASSUME Base, NEW w \in Walkers, WaitForInput(w)
  PROVE  Frame(w)
<1>1. /\ At(w, "execute") /\ UNCHANGED <<messages, deaths, resumes, forsaken, deceived, overtaken>>
      /\ Left(w, "settled")
  BY DoesWait
<1>2. walk[w].at \in Within /\ forsaken' = forsaken \cup {} /\ {} \in SUBSET SessionIds
  BY <1>1 DEF At, Within, Traversing
<1>3. SessionsGo
  BY <1>2, WroteOwn, DoesWait
<1>4. QED
  BY <1>1, <1>2, <1>3, FrameLeft

\* EnqueueResume is within the frame.
LEMMA FrameEnqueue ==
  ASSUME Base, NEW w \in Walkers, EnqueueResume(w)
  PROVE  Frame(w)
<1>1. /\ At(w, "execute") /\ UNCHANGED <<messages, deaths, sessions, forsaken, deceived, overtaken>>
      /\ Went(w, "stamp") /\ ResumesTyped'
  BY DoesEnqueue
<1>2. walk[w].at \in Within /\ forsaken' = forsaken \cup {} /\ {} \in SUBSET SessionIds
  BY <1>1 DEF At, Within, Traversing
<1>3. PICK j \in ResumeIds :
        /\ resumes[j].status = "absent"
        /\ resumes'[j] = [status |-> "pending", tries |-> 0, session |-> walk[w].session, node |-> walk[w].node]
        /\ \A i \in ResumeIds \ {j} : resumes'[i] = resumes[i]
  BY DoesEnqueue
<1>4. SessionsGo
  BY <1>1, SessionsSame
<1>5. walk[w].session \in SessionIds /\ walk[w].session # 0 /\ sessions'[walk[w].session].status # "absent"
  BY <1>1, <1>2, Inside DEF SessionIds
<1>6. JobGoes(w, j)
  BY <1>3, <1>5 DEF JobGoes
<1>7. JobsGo(w)
  BY <1>1, <1>3, <1>6 DEF JobsGo, JobGoes
<1>8. walk[w].job # 0 => resumes'[walk[w].job].status = "processing"
  <2>1. walk[w].job # 0 => walk[w].job \in ResumeIds /\ resumes[walk[w].job].status = "processing"
    BY <1>2, Inside, SpotOf
  <2>2. QED
    BY <1>3, <2>1
<1>9. walk'[w].node \in 1..Len(Flow)
  BY <1>1, SpotOf DEF WalkFits, At, Went
<1>10. QED
  BY <1>1, <1>2, <1>4, <1>7, <1>8, <1>9, FrameOn DEF Went, Within, Traversing

\* StampWaitingUntil is within the frame.
LEMMA FrameStamp ==
  ASSUME Base, NEW w \in Walkers, StampWaitingUntil(w)
  PROVE  Frame(w)
<1>1. At(w, "stamp") /\ UNCHANGED <<messages, deaths, resumes, deceived, overtaken>> /\ Left(w, "settled")
  BY DoesStamp
<1>2. walk[w].at \in Within
  BY <1>1 DEF At, Within, Traversing
<1>3. SessionsGo
  BY <1>2, WroteOwn, DoesStamp
<1>4. PICK F \in SUBSET SessionIds : forsaken' = forsaken \cup F
  <2>1. {walk[w].session} \in SUBSET SessionIds /\ {} \in SUBSET SessionIds
    BY <1>2, Inside
  <2>2. forsaken' = forsaken \cup {walk[w].session} \/ forsaken' = forsaken \cup {}
    BY DoesStamp
  <2>3. QED
    BY <2>1, <2>2
<1>5. QED
  BY <1>1, <1>2, <1>3, <1>4, FrameLeft

\* HumanTakeover is within the frame.
LEMMA FrameTakeover ==
  ASSUME Base, NEW w \in Walkers, HumanTakeover(w)
  PROVE  Frame(w)
<1>1. /\ At(w, "execute") /\ UNCHANGED <<messages, deaths, resumes, forsaken, deceived, overtaken>>
      /\ Left(w, "settled") /\ Closed(walk[w].session, "completed")
  BY DoesTakeover
<1>2. walk[w].at \in Within /\ forsaken' = forsaken \cup {} /\ {} \in SUBSET SessionIds
  BY <1>1 DEF At, Within, Traversing
<1>3. QED
  BY <1>1, <1>2, WroteOwn, FrameLeft

\* CompleteSession is within the frame.
LEMMA FrameComplete ==
  ASSUME Base, NEW w \in Walkers, CompleteSession(w)
  PROVE  Frame(w)
<1>1. /\ At(w, "complete") /\ UNCHANGED <<messages, deaths, resumes, forsaken, deceived, overtaken>>
      /\ Left(w, "settled") /\ (Closed(walk[w].session, "completed") \/ sessions' = sessions)
  BY DoesComplete
<1>2. walk[w].at \in Within /\ forsaken' = forsaken \cup {} /\ {} \in SUBSET SessionIds
  BY <1>1 DEF At, Within, Traversing
<1>3. SessionsGo
  BY <1>1, <1>2, WroteOwn, SessionsSame
<1>4. QED
  BY <1>1, <1>2, <1>3, FrameLeft

\* Unwind is within the frame.
LEMMA FrameUnwind ==
  ASSUME Base, NEW w \in Walkers, Unwind(w)
  PROVE  Frame(w)
<1>1. /\ At(w, "throw") /\ UNCHANGED <<messages, deaths>> /\ Same
      /\ forsaken' = forsaken \cup Unbacked(w) /\ Left(w, "catch")
  BY DoesUnwind
<1>2. walk[w].at \in Within
  BY <1>1 DEF At, Within
<1>3. QED
  BY <1>1, <1>2, SessionsSame, UnbackedIs, FrameLeft DEF Same

\* GoToFlow is within the frame.
LEMMA FrameGoTo ==
  ASSUME Base, NEW w \in Walkers, GoToFlow(w)
  PROVE  Frame(w)
<1>1. /\ At(w, "execute") /\ UNCHANGED <<messages, deaths>> /\ Same
      /\ forsaken' = forsaken \cup {walk[w].session} /\ Into(w, "find", 0, 0)
  BY DoesGoTo
<1>2. walk[w].at \in Within
  BY <1>1 DEF At, Within, Traversing
<1>3. {walk[w].session} \in SUBSET SessionIds /\ (walk[w].job # 0 => resumes[walk[w].job].status = "processing")
      /\ overtaken' \subseteq Walkers
  BY <1>1, <1>2, Inside DEF Same
<1>4. RestGoes
  BY <1>1, <1>3, RestForsaken DEF Same
<1>5. WalkFits(w)'
  BY <1>1, <1>3 DEF WalkFits, At, Into, Within, Traversing, Closing, Same
<1>6. Seated(w)
  BY <1>1, <1>5, SessionPresent DEF Seated, Into
<1>7. QED
  BY <1>1, <1>4, <1>6, SessionsSame, JobsSame DEF Frame, Same

----
(* The steps of a walker with a job. *)

\* A walker with a job, outside of any session.
LEMMA Outside ==
  ASSUME Base, NEW w \in Walkers, walk[w].at \notin {"idle", "find", "create"} \cup Within
  PROVE  /\ walk[w].job \in ResumeIds /\ walk[w].job # 0 /\ walk[w].session = 0
         /\ OwnSession(w) \in SessionIds /\ sessions[OwnSession(w)].status # "absent"
         /\ resumes[walk[w].job].status # "absent"
         /\ \A v \in Walkers \ {w} : walk[v].job # walk[w].job
         /\ overtaken \subseteq Walkers
BY Job, SessionPresent, SpotOf DEF RestTyped

\* A step outside of a session that leaves the jobs alone.
LEMMA SeatedJob ==
  ASSUME Base, SessionsGo, NEW w \in Walkers, walk[w].at \notin {"idle", "find", "create"} \cup Within,
         resumes' = resumes, NEW step \in WalkSteps \ {"idle"}, step \notin Within,
         step \in Closing <=> walk[w].at \in Closing,
         Others(w), walk'[w].at = step, walk'[w].job = walk[w].job, walk'[w].session = walk[w].session
  PROVE  Seated(w)
<1>1. resumes'[walk[w].job].status = IF step \in Closing THEN "failed" ELSE "processing"
  BY Job
<1>2. step \notin {"enter", "execute", "stamp", "load", "resume"}
  BY DEF Within, Traversing
<1>3. walk[w].job # 0
  BY Outside
<1>4. QED
  BY <1>1, <1>2, <1>3, SeatedOn

\* Look is within the frame.
LEMMA FrameLook ==
  ASSUME Base, NEW w \in Walkers, Look(w)
  PROVE  Frame(w)
<1>1. At(w, "look") /\ Kept /\ UNCHANGED <<messages, deaths>>
  BY DoesLook
<1>2. SessionsGo /\ JobsGo(w) /\ RestGoes
  BY <1>1, SessionsSame, JobsSame, RestSame DEF Kept, Same
<1>3. walk[w].at \notin {"idle", "find", "create"} \cup Within /\ walk[w].at \notin Closing
  BY <1>1 DEF At, Within, Traversing, Closing
<1>4. CASE Into(w, "load", OwnSession(w), sessions[OwnSession(w)].node)
  <2>1. OwnSession(w) \in SessionIds /\ sessions'[OwnSession(w)].status # "absent" /\ resumes' = resumes
        /\ sessions[OwnSession(w)].node \in Nodes
    BY <1>1, <1>3, Outside, SpotOf, SessionRowOf DEF Kept, Same
  <2>2. Seated(w)
    BY <1>3, <1>4, <2>1, SeatedInto
  <2>3. QED
    BY <1>2, <2>2 DEF Frame
<1>5. CASE Into(w, "count", 0, walk[w].node)
  <2>1. Seated(w)
    BY <1>1, <1>2, <1>3, <1>5, Outside, SeatedJob DEF Into, WalkSteps, Judging, Within, Traversing, Closing, Kept, Same
  <2>2. QED
    BY <1>2, <2>1 DEF Frame
<1>6. ASSUME NEW step \in {"settled", "retry"}, Went(w, step)
      PROVE  Frame(w)
  <2>1. Seated(w)
    BY <1>1, <1>2, <1>3, <1>6, SeatedJob DEF Went, WalkSteps, Within, Traversing, Closing, Kept, Same
  <2>2. QED
    BY <1>2, <2>1 DEF Frame
<1>7. QED
  BY <1>4, <1>5, <1>6, DoesLook

\* TrustsInVain names a session.
LEMMA TrustsIs ==
  ASSUME Base, NEW w \in Walkers, walk[w].at \notin {"idle", "find", "create"} \cup Within
  PROVE  TrustsInVain(w) \subseteq SessionIds
BY Outside DEF TrustsInVain

\* The counters and the history, of a count.
LEMMA RestDeceived ==
  ASSUME Base, UNCHANGED <<messages, deaths>>, NEW D \in SUBSET SessionIds,
         deceived' = deceived \cup D, forsaken' = forsaken, overtaken' \subseteq Walkers
  PROVE  RestGoes
BY FlowParts DEF Base, RestTyped, RestGoes

\* Count is within the frame.
LEMMA FrameCount ==
  ASSUME Base, NEW w \in Walkers, Count(w)
  PROVE  Frame(w)
<1>1. At(w, "count") /\ UNCHANGED <<messages, deaths, sessions, resumes, forsaken, overtaken>>
  BY DoesCount
<1>2. SessionsGo /\ JobsGo(w)
  BY <1>1, SessionsSame, JobsSame
<1>3. walk[w].at \notin {"idle", "find", "create"} \cup Within /\ walk[w].at \notin Closing
  BY <1>1 DEF At, Within, Traversing, Closing
<1>4. RestGoes
  <2>1. TrustsInVain(w) \in SUBSET SessionIds /\ {} \in SUBSET SessionIds /\ overtaken' \subseteq Walkers
    BY <1>1, <1>3, TrustsIs, Outside
  <2>2. deceived' = deceived \cup TrustsInVain(w) \/ deceived' = deceived \cup {}
    BY DoesCount
  <2>3. QED
    BY <1>1, <2>1, <2>2, RestDeceived
<1>5. PICK step \in {"settled", "condemned", "recheck", "retry"} : Went(w, step)
  BY DoesCount
<1>6. Seated(w)
  BY <1>1, <1>2, <1>3, <1>5, SeatedJob DEF Went, WalkSteps, Judging, Within, Traversing, Closing
<1>7. QED
  BY <1>2, <1>4, <1>6 DEF Frame

\* The end of a job is within the frame.
LEMMA FrameSettle ==
  ASSUME Base, NEW w \in Walkers, CompleteJob(w) \/ RecheckJob(w) \/ RetryJob(w) \/ FailJob(w)
  PROVE  Frame(w)
<1>1. UNCHANGED <<messages, deaths, sessions, forsaken, deceived>>
  BY DoesSettle
<1>2. PICK status \in {"pending", "completed", "failed"}, tries \in 0..MaxTries,
           step \in {"idle", "cancel", "cancelDead"} :
        /\ Noted(walk[w].job, status, tries) /\ Warned(w, status, step)
        /\ IF step = "idle" THEN Stopped(w) ELSE Went(w, step)
        /\ \/ At(w, "settled") /\ status = "completed" /\ step = "idle"
           \/ walk[w].at \in {"recheck", "retry"} /\ status = "pending" /\ step = "idle"
           \/ walk[w].at \in {"retry", "giveUp"} /\ status = "failed" /\ step = "cancel"
           \/ At(w, "condemned") /\ status = "failed" /\ step = "cancelDead"
  BY DoesSettle
<1>3. walk[w].at \notin {"idle", "find", "create"} \cup Within /\ walk[w].at \notin Closing
  BY <1>2 DEF At, Within, Traversing, Closing
<1>4. SessionsGo /\ RestGoes
  <2>1. overtaken' \subseteq Walkers
    BY <1>2 DEF Warned
  <2>2. forsaken' = forsaken \cup {} /\ {} \in SUBSET SessionIds
    BY <1>1
  <2>3. QED
    BY <1>1, <2>1, <2>2, SessionsSame, RestForsaken
<1>5. JobsGo(w)
  BY <1>2, <1>3, <1>4, Outside, JobsNoted
<1>6. CASE step = "idle"
  BY <1>2, <1>4, <1>5, <1>6, SeatedStopped DEF Frame
<1>7. CASE step # "idle"
  <2>1. Went(w, step) /\ status = "failed" /\ step \in Closing /\ step \in WalkSteps \ {"idle"} /\ step \notin Within
    BY <1>2, <1>7 DEF Closing, WalkSteps, Judging, Within, Traversing
  <2>2. resumes'[walk[w].job].status = "failed"
    BY <1>2, <2>1 DEF Noted
  <2>3. step \notin {"enter", "execute", "stamp", "load", "resume"}
    BY <1>7
  <2>4. walk[w].job # 0
    BY <1>3, Outside
  <2>5. Seated(w)
    BY <1>3, <1>4, <2>1, <2>2, <2>3, <2>4, SeatedOn DEF Went
  <2>6. QED
    BY <1>4, <1>5, <2>5 DEF Frame
<1>8. QED
  BY <1>6, <1>7

\* CatchThrow is within the frame.
LEMMA FrameCatch ==
  ASSUME Base, NEW w \in Walkers, CatchThrow(w)
  PROVE  Frame(w)
<1>1. At(w, "catch") /\ UNCHANGED <<messages, deaths, resumes, forsaken, deceived, overtaken>>
  BY DoesCatch
<1>2. walk[w].at \notin {"idle", "find", "create"} \cup Within /\ walk[w].at \notin Closing
  BY <1>1 DEF At, Within, Traversing, Closing
<1>3. SessionsGo
  <2>1. Closed(OwnSession(w), "cancelled") \/ sessions' = sessions
    BY DoesCatch
  <2>2. OwnSession(w) \in SessionIds
    BY <1>2, Outside
  <2>3. QED
    BY <2>1, <2>2, SessionsSame, SessionsWrote DEF Closed
<1>4. RestGoes /\ JobsGo(w)
  BY <1>1, RestSame, JobsSame
<1>5. PICK step \in {"retry", "giveUp"} : Went(w, step)
  BY DoesCatch
<1>6. Seated(w)
  BY <1>1, <1>2, <1>3, <1>5, SeatedJob DEF Went, WalkSteps, Within, Traversing, Closing
<1>7. QED
  BY <1>3, <1>4, <1>6 DEF Frame

\* CancelSession is within the frame.
LEMMA FrameCancel ==
  ASSUME Base, NEW w \in Walkers, CancelSession(w)
  PROVE  Frame(w)
<1>1. /\ At(w, "cancel") \/ At(w, "cancelDead")
      /\ UNCHANGED <<messages, deaths, resumes, deceived>> /\ Departs(w)
  BY DoesCancel
<1>2. walk[w].at \notin {"idle", "find", "create"} \cup Within
  BY <1>1 DEF At, Within, Traversing
<1>3. OwnSession(w) \in SessionIds /\ overtaken \subseteq Walkers
  BY <1>2, Outside
<1>4. SessionsGo
  <2>1. Closed(OwnSession(w), "cancelled") \/ sessions' = sessions
    BY DoesCancel
  <2>2. QED
    BY <1>3, <2>1, SessionsSame, SessionsWrote DEF Closed
<1>5. RestGoes
  <2>1. {OwnSession(w)} \in SUBSET SessionIds /\ {} \in SUBSET SessionIds /\ overtaken' \subseteq Walkers
    BY <1>1, <1>3 DEF Departs
  <2>2. forsaken' = forsaken \cup {OwnSession(w)} \/ forsaken' = forsaken \cup {}
    BY DoesCancel
  <2>3. QED
    BY <1>1, <2>1, <2>2, RestForsaken
<1>6. QED
  BY <1>1, <1>4, <1>5, JobsSame, SeatedStopped DEF Departs, Frame

\* LookExhausted is within the frame.
LEMMA FrameLookExhausted ==
  ASSUME Base, NEW w \in Walkers, LookExhausted(w)
  PROVE  Frame(w)
<1>1. At(w, "lookExhausted") /\ UNCHANGED <<sessions, resumes, messages, deaths, deceived>>
  BY DoesLookExhausted
<1>2. walk[w].at \notin {"idle", "find", "create"} \cup Within /\ walk[w].at \in Closing
  BY <1>1 DEF At, Within, Traversing, Closing
<1>3. OwnSession(w) \in SessionIds /\ overtaken \subseteq Walkers
  BY <1>2, Outside
<1>4. SessionsGo /\ JobsGo(w)
  BY <1>1, SessionsSame, JobsSame
<1>5. RestGoes
  <2>1. {OwnSession(w)} \in SUBSET SessionIds /\ {} \in SUBSET SessionIds
    BY <1>3
  <2>2. forsaken' = forsaken \cup {OwnSession(w)} \/ forsaken' = forsaken \cup {}
    BY DoesLookExhausted
  <2>3. overtaken' = overtaken \/ overtaken' = overtaken \ {w}
    BY DoesLookExhausted DEF Departs
  <2>4. QED
    BY <1>1, <1>3, <2>1, <2>2, <2>3, RestForsaken
<1>6. Seated(w)
  <2>1. CASE Went(w, "cancel")
    BY <1>1, <1>2, <1>4, <2>1, SeatedJob DEF Went, WalkSteps, Within, Traversing, Closing
  <2>2. CASE Into(w, "countExhausted", 0, walk[w].node)
    BY <1>1, <1>2, <1>4, <2>2, Outside, SeatedJob DEF Into, WalkSteps, Judging, Within, Traversing, Closing
  <2>3. CASE Departs(w)
    BY <2>3, SeatedStopped DEF Departs
  <2>4. QED
    BY <2>1, <2>2, <2>3, DoesLookExhausted
<1>7. QED
  BY <1>4, <1>5, <1>6 DEF Frame

\* CountExhausted is within the frame.
LEMMA FrameCountExhausted ==
  ASSUME Base, NEW w \in Walkers, CountExhausted(w)
  PROVE  Frame(w)
<1>1. At(w, "countExhausted") /\ UNCHANGED <<sessions, resumes, messages, deaths>>
  BY DoesCountExhausted
<1>2. walk[w].at \notin {"idle", "find", "create"} \cup Within /\ walk[w].at \in Closing
  BY <1>1 DEF At, Within, Traversing, Closing
<1>3. OwnSession(w) \in SessionIds /\ overtaken \subseteq Walkers
  BY <1>2, Outside
<1>4. SessionsGo /\ JobsGo(w)
  BY <1>1, SessionsSame, JobsSame
<1>5. RestGoes
  <2>1. {OwnSession(w)} \in SUBSET SessionIds /\ TrustsInVain(w) \in SUBSET SessionIds /\ {} \in SUBSET SessionIds
    BY <1>2, <1>3, TrustsIs
  <2>2. \/ forsaken' = forsaken \cup {OwnSession(w)} /\ deceived' = deceived
        \/ forsaken' = forsaken /\ deceived' = deceived \cup TrustsInVain(w)
        \/ forsaken' = forsaken /\ deceived' = deceived \cup {}
    BY DoesCountExhausted
  <2>3. overtaken' \subseteq Walkers
    BY <1>3, DoesCountExhausted DEF Departs
  <2>4. QED
    BY <1>1, <2>1, <2>2, <2>3, RestForsaken, RestDeceived
<1>6. Seated(w)
  <2>1. CASE Went(w, "cancelDead")
    BY <1>1, <1>2, <1>4, <2>1, SeatedJob DEF Went, WalkSteps, Judging, Within, Traversing, Closing
  <2>2. CASE Departs(w)
    BY <2>2, SeatedStopped DEF Departs
  <2>3. QED
    BY <2>1, <2>2, DoesCountExhausted
<1>7. QED
  BY <1>4, <1>5, <1>6 DEF Frame

\* Die is within the frame.
LEMMA FrameDie ==
  ASSUME Base, NEW w \in Walkers, Die(w)
  PROVE  Frame(w)
<1>1. /\ UNCHANGED <<sessions, resumes, messages, deceived>> /\ Departs(w) /\ deaths' \in 0..MaxDeaths
      /\ forsaken' = forsaken \cup Unbacked(w) \cup (IF walk[w].at \in Closing THEN {OwnSession(w)} ELSE {})
  BY DoesDie
<1> DEFINE F == Unbacked(w) \cup (IF walk[w].at \in Closing THEN {OwnSession(w)} ELSE {})
<1>2. F \in SUBSET SessionIds
  <2>1. walk[w].at \in Closing => walk[w].at \notin {"idle", "find", "create"} \cup Within
    BY DEF Within, Traversing, Closing
  <2>2. QED
    BY <2>1, UnbackedIs, Outside
<1>3. overtaken' \subseteq Walkers
  BY <1>1, SpotOf DEF RestTyped, Departs
<1>4. forsaken' = forsaken \cup F
  BY <1>1
<1>5. RestGoes
  BY <1>1, <1>2, <1>3, <1>4, RestForsaken
<1>6. QED
  BY <1>1, <1>5, SessionsSame, JobsSame, SeatedStopped DEF Departs, Frame

\* TakeJob is within the frame.
LEMMA FrameTake ==
  ASSUME Base, NEW w \in Walkers, NEW j \in ResumeIds, TakeJob(w, j)
  PROVE  Frame(w)
<1>1. /\ At(w, "idle") /\ Open(j) /\ (\A v \in Walkers : walk[v].job # j)
      /\ UNCHANGED <<sessions, messages, deaths, forsaken, deceived>>
      /\ Others(w) /\ walk'[w].job = j /\ walk'[w].session = 0
  BY DoesTake
<1>2. \/ Noted(j, "processing", resumes[j].tries + 1) /\ walk'[w].at = "look" /\ overtaken' = overtaken
      \/ /\ Noted(j, "failed", resumes[j].tries)
         /\ walk'[w].at = "lookExhausted" /\ overtaken' = overtaken \cup Judges(j)
  BY DoesTake
<1>3. SessionsGo /\ resumes[j].status # "absent" /\ j # 0
  BY <1>1, SessionsSame DEF Open, ResumeIds
<1>4. overtaken' \subseteq Walkers /\ resumes[j].tries \in Nat
  BY <1>2, SpotOf, ResumeRowOf, FlowNumbers DEF RestTyped, Judges
<1>5. forsaken' = forsaken \cup {} /\ {} \in SUBSET SessionIds
  BY <1>1
<1>6. RestGoes
  BY <1>1, <1>4, <1>5, RestForsaken
<1>7. JobsGo(w)
  <2>1. resumes[j].tries + 1 # 0
    BY <1>4
  <2>2. QED
    BY <1>1, <1>2, <1>3, <2>1, JobsNoted
<1>8. WalkFits(w)'
  BY <1>1, <1>2, <1>3 DEF WalkFits, At, Noted, Within, Traversing, Closing
<1>9. Seated(w)
  BY <1>1, <1>8 DEF Seated
<1>10. QED
  BY <1>3, <1>6, <1>7, <1>9 DEF Frame

----
\* The steps of a walker.
Acts(w) ==
  \/ StartMessage(w) \/ FindWaiting(w) \/ CreateSession(w) \/ LoadFlow(w) \/ Resume(w)
  \/ MissingNode(w) \/ EnterNode(w) \/ Work(w) \/ WaitForInput(w) \/ EnqueueResume(w)
  \/ StampWaitingUntil(w) \/ HumanTakeover(w) \/ GoToFlow(w) \/ CompleteSession(w) \/ Unwind(w)
  \/ Look(w) \/ Count(w) \/ CompleteJob(w) \/ RecheckJob(w) \/ RetryJob(w) \/ FailJob(w)
  \/ CatchThrow(w) \/ CancelSession(w) \/ LookExhausted(w) \/ CountExhausted(w) \/ Die(w)
  \/ \E j \in ResumeIds : TakeJob(w, j)

\* Every step of a walker is within the frame.
LEMMA Framed ==
  ASSUME Base, NEW w \in Walkers, Acts(w)
  PROVE  Frame(w)
BY FrameStart, FrameFind, FrameCreate, FrameLoad, FrameResume, FrameMissing, FrameEnter, FrameWork,
   FrameWait, FrameEnqueue, FrameStamp, FrameTakeover, FrameGoTo, FrameComplete, FrameUnwind, FrameLook,
   FrameCount, FrameSettle, FrameCatch, FrameCancel, FrameLookExhausted, FrameCountExhausted, FrameDie,
   FrameTake DEF Acts

\* Every step of a walker keeps the types, the walkers' places and the rows.
LEMMA BaseKept ==
  ASSUME Base, NEW w \in Walkers, Frame(w), KeepTime
  PROVE  Base'
<1>1. elders' \in [ResumeIds -> SUBSET Walkers]
  <2>1. elders \in [ResumeIds -> SUBSET Walkers]
    BY SpotOf DEF RestTyped
  <2>2. QED
    BY <2>1 DEF KeepTime
<1>2. FlowTypeOK'
  BY <1>1, FlowParts DEF Frame, SessionsGo, JobsGo, Seated, Others, RestGoes, RestTyped
<1>3. WalksFit'
  <2>1. ASSUME NEW v \in Walkers \ {w}
        PROVE  WalkFits(v)'
    <3>1. walk'[v] = walk[v] /\ WalkFits(v)
      BY SpotOf DEF Frame, Seated, Others
    <3>2. walk[v].job # 0 => resumes'[walk[v].job].status = resumes[walk[v].job].status
      BY SessionPresent DEF Frame, JobsGo, JobGoes
    <3>3. QED
      BY <3>1, <3>2 DEF WalkFits, At
  <2>2. WalkFits(w)'
    BY DEF Frame, Seated
  <2>3. \A v, x \in Walkers : walk'[v].job = walk'[x].job /\ walk'[v].job # 0 => v = x
    BY DEF Frame, Seated, Others, Base, WalksFit
  <2>4. QED
    BY <2>1, <2>2, <2>3 DEF WalksFit
<1>4. RowsFit'
  <2>1. \A s \in SessionIds : sessions'[s].status = "absent" => sessions'[s] = NoSession
    BY DEF Frame, SessionsGo, Base, RowsFit
  <2>2. ASSUME NEW j \in ResumeIds
        PROVE  /\ resumes'[j].status = "absent" => resumes'[j] = NoResume
               /\ resumes'[j].status # "absent" => resumes'[j].session # 0 /\ sessions'[resumes'[j].session].status # "absent"
               /\ resumes'[j].status = "processing" => resumes'[j].tries # 0
    <3>1. CASE resumes'[j] = resumes[j]
      <4>1. ASSUME resumes[j].status # "absent"
            PROVE  resumes[j].session # 0 /\ sessions'[resumes[j].session].status # "absent"
        <5>1. resumes[j].session # 0 /\ sessions[resumes[j].session].status # "absent"
          BY <4>1 DEF Base, RowsFit
        <5>2. resumes[j].session \in SessionIds
          BY <5>1, SpotOf, ResumeRowOf, FlowNumbers DEF SessionIds
        <5>3. QED
          BY <5>1, <5>2, StillPresent DEF Frame
      <4>2. QED
        BY <3>1, <4>1 DEF Base, RowsFit
    <3>2. CASE resumes'[j] # resumes[j]
      BY <3>2 DEF Frame, JobsGo, JobGoes
    <3>3. QED
      BY <3>1, <3>2
  <2>3. ASSUME NEW v \in Walkers, walk'[v].session # 0
        PROVE  sessions'[walk'[v].session].status # "absent"
    <3>1. CASE v = w
      BY <2>3, <3>1 DEF Frame, Seated
    <3>2. CASE v # w
      <4>1. walk'[v] = walk[v]
        BY <3>2 DEF Frame, Seated, Others
      <4>2. QED
        BY <2>3, <4>1, SessionPresent, StillPresent DEF Frame
    <3>3. QED
      BY <3>1, <3>2
  <2>4. QED
    BY <2>1, <2>2, <2>3 DEF RowsFit
<1>5. QED
  BY <1>2, <1>3, <1>4 DEF Base

\* Ages keeps the types, the walkers' places and the rows.
LEMMA BaseAges ==
  ASSUME Base, NEW s \in SessionIds, Ages(s), KeepTime
  PROVE  Base'
<1>1. /\ UNCHANGED <<resumes, walk, messages, deaths, forsaken, overtaken, deceived>> /\ SessionsTyped'
      /\ sessions[s].recent /\ ~sessions'[s].recent /\ sessions'[s].status = sessions[s].status
      /\ \A t \in SessionIds \ {s} : sessions'[t] = sessions[t]
  BY DoesAge
<1>2. elders' \in [ResumeIds -> SUBSET Walkers]
  <2>1. elders \in [ResumeIds -> SUBSET Walkers]
    BY FlowParts DEF Base, RestTyped
  <2>2. QED
    BY <2>1 DEF KeepTime
<1>3. FlowTypeOK'
  BY <1>1, <1>2, FlowParts DEF Base, RestTyped, ResumesTyped, WalkTyped
<1>4. WalksFit'
  BY <1>1 DEF Base, WalksFit, WalkFits, At
<1>5. sessions[s].status # "absent"
  BY <1>1 DEF Base, RowsFit, NoSession
<1>6. \A t \in SessionIds : sessions'[t].status = sessions[t].status
  BY <1>1
<1>7. \A t \in SessionIds : sessions'[t].status = "absent" => sessions'[t] = NoSession
  BY <1>1, <1>5 DEF Base, RowsFit
<1>8. \A j \in ResumeIds : resumes[j].status # "absent" => resumes[j].session # 0 /\ resumes[j].session \in SessionIds
  BY FlowParts, ResumeRowOf, FlowNumbers DEF Base, RowsFit, SessionIds
<1>9. \A w \in Walkers : walk[w].session # 0 => walk[w].session \in SessionIds
  BY SessionPresent
<1>10. RowsFit'
  BY <1>1, <1>6, <1>7, <1>8, <1>9 DEF Base, RowsFit
<1>11. QED
  BY <1>3, <1>4, <1>10 DEF Base

\* A walker with a job leaves the session of the job by goToFlow only.
Stray(w) ==
  walk[w].job # 0 =>
    /\ walk[w].at \in {"find", "create"} => OwnSession(w) \in forsaken
    /\ walk[w].session \notin {0, OwnSession(w)} => OwnSession(w) \in forsaken

\* A session nobody wrote to for a while is at most being looked at.
Hushed(w) ==
  walk[w].session # 0 /\ ~sessions[walk[w].session].recent =>
    /\ walk[w].at \in {"load", "resume"}
    /\ Parked(sessions[walk[w].session]) \/ OwnSession(w) = walk[w].session

Ways == \A w \in Walkers : Stray(w) /\ Hushed(w)

\* The session of a job never changes.
LEMMA OwnKept ==
  ASSUME Base, NEW w \in Walkers, Frame(w), NEW v \in Walkers, walk'[v].job = walk[v].job
  PROVE  OwnSession(v)' = OwnSession(v)
<1>1. walk[v].job # 0 => walk[v].job \in ResumeIds /\ resumes[walk[v].job].status # "absent"
  BY SessionPresent
<1>2. walk[v].job # 0 => resumes'[walk[v].job].session = resumes[walk[v].job].session
  BY <1>1 DEF Frame, JobsGo, JobGoes
<1>3. QED
  BY <1>2 DEF OwnSession

\* A step is one walker's.
LEMMA OthersKept ==
  ASSUME Base, NEW w \in Walkers, Frame(w), NEW v \in Walkers \ {w}
  PROVE  walk'[v] = walk[v] /\ OwnSession(v)' = OwnSession(v)
BY OwnKept DEF Frame, Seated, Others

\* The other walkers stay on their ways.
LEMMA WaysOthers ==
  ASSUME Base, Ways, NEW w \in Walkers, Frame(w), Stray(w)', Hushed(w)'
  PROVE  Ways'
<1>1. ASSUME NEW v \in Walkers \ {w}
      PROVE  Stray(v)' /\ Hushed(v)'
  <2>1. walk'[v] = walk[v] /\ OwnSession(v)' = OwnSession(v) /\ Stray(v) /\ Hushed(v)
    BY OthersKept DEF Ways
  <2>2. forsaken \subseteq forsaken'
    BY DEF Frame, RestGoes
  <2>3. walk[v].session # 0 =>
          \/ sessions'[walk[v].session] = sessions[walk[v].session]
          \/ sessions'[walk[v].session].recent
    BY SessionPresent DEF Frame, SessionsGo
  <2>4. QED
    BY <2>1, <2>2, <2>3 DEF Stray, Hushed, Parked
<1>2. QED
  BY <1>1 DEF Ways

\* Out of the session it was in.
LEMMA WaysOut ==
  ASSUME NEW w \in Walkers, walk'[w].session = 0, walk'[w].at \notin {"find", "create"} \/ walk'[w].job = 0
  PROVE  Stray(w)' /\ Hushed(w)'
BY DEF Stray, Hushed

\* A walker back at its job.
LEMMA WaysLeft ==
  ASSUME NEW w \in Walkers, NEW step \in {"settled", "retry", "catch"}, Left(w, step)
  PROVE  Stray(w)' /\ Hushed(w)'
BY WaysOut DEF Left

\* A walker that has ended.
LEMMA WaysStopped ==
  ASSUME NEW w \in Walkers, Stopped(w)
  PROVE  Stray(w)' /\ Hushed(w)'
BY WaysOut, NoWalkIs DEF Stopped

\* On in the same session.
LEMMA WaysOn ==
  ASSUME Base, Ways, NEW w \in Walkers, Frame(w),
         walk'[w].job = walk[w].job, walk'[w].session = walk[w].session, walk[w].session # 0,
         walk'[w].at \notin {"find", "create"},
         walk[w].at \notin {"load", "resume"} \/ sessions'[walk[w].session].recent
  PROVE  Stray(w)' /\ Hushed(w)'
<1>1. OwnSession(w)' = OwnSession(w) /\ forsaken \subseteq forsaken'
  BY OwnKept DEF Frame, RestGoes
<1>2. Stray(w) /\ Hushed(w)
  BY DEF Ways
<1>3. sessions'[walk[w].session].recent
  BY <1>2, SessionPresent DEF Hushed, Frame, SessionsGo
<1>4. QED
  BY <1>1, <1>2, <1>3 DEF Stray, Hushed

\* Every step of a walker keeps Ways.
LEMMA WaysKept ==
  ASSUME Base, Ways, NEW w \in Walkers, Frame(w),
         Acts(w)
  PROVE  Ways'
<1>s. SUFFICES Stray(w)' /\ Hushed(w)'
  BY WaysOthers
<1>w. Stray(w) /\ Hushed(w) /\ (walk'[w].job = walk[w].job => OwnSession(w)' = OwnSession(w))
      /\ forsaken \subseteq forsaken'
  BY OwnKept DEF Ways, Frame, RestGoes
<1>1. CASE StartMessage(w)
  BY <1>1, DoesStart, SpotOf, NoWalkIs, WaysOut DEF Went, WalkFits, At
<1>2. CASE FindWaiting(w)
  <2>1. At(w, "find") /\ Kept
    BY <1>2, DoesFind
  <2>2. walk[w].job # 0 => OwnSession(w) \in forsaken'
    BY <1>w, <2>1 DEF Stray, At
  <2>3. walk[w].session = 0
    BY <2>1, SpotOf DEF At, Within, Traversing
  <2>4. CASE Went(w, "create")
    BY <1>w, <2>2, <2>3, <2>4 DEF Went, Stray, Hushed
  <2>5. ASSUME NEW s \in SessionIds, sessions[s].waiting, Into(w, "load", s, sessions[s].node)
        PROVE  Stray(w)' /\ Hushed(w)'
    BY <1>w, <2>1, <2>2, <2>5 DEF Into, Stray, Hushed, Parked, Kept, Same
  <2>6. QED
    BY <1>2, <2>4, <2>5, DoesFind
<1>3. CASE CreateSession(w)
  <2>1. At(w, "create")
    BY <1>3, DoesCreate
  <2>2. walk[w].job # 0 => OwnSession(w) \in forsaken'
    BY <1>w, <2>1 DEF Stray, At
  <2>3. CASE Left(w, "settled")
    BY <2>3, WaysLeft
  <2>4. ASSUME NEW s \in SessionIds, Rewrote(s, "active", 0, FALSE, FALSE), Into(w, "enter", s, 1)
        PROVE  Stray(w)' /\ Hushed(w)'
    BY <1>w, <2>2, <2>4 DEF Into, Stray, Hushed, Rewrote
  <2>5. QED
    BY <1>3, <2>3, <2>4, DoesCreate
<1>4. CASE LoadFlow(w)
  <2>1. At(w, "load")
    BY <1>4, DoesLoad
  <2>2. CASE Went(w, "resume") /\ sessions' = sessions
    BY <1>w, <2>1, <2>2 DEF Went, Stray, Hushed, At
  <2>3. QED
    BY <1>4, <2>2, DoesLoad, WaysLeft
<1>5. CASE Resume(w)
  <2>1. At(w, "resume") /\ sessions'[walk[w].session].recent
    BY <1>5, DoesResume DEF Rewrote
  <2>2. walk[w].session # 0
    BY <2>1, Inside DEF At, Within, SessionIds
  <2>3. walk'[w].at \notin {"find", "create"} /\ walk'[w].session = walk[w].session /\ walk'[w].job = walk[w].job
    BY <1>5, DoesResume DEF Went, WentOn
  <2>4. QED
    BY <2>1, <2>2, <2>3, WaysOn
<1>6. CASE MissingNode(w)
  BY <1>6, DoesMissing, WaysLeft
<1>7. CASE EnterNode(w)
  BY <1>7, DoesEnter, Inside, WaysOn DEF Went, At, Within, Traversing, SessionIds
<1>8. CASE Work(w)
  <2>1. At(w, "execute") /\ walk[w].session # 0
    BY <1>8, DoesWork, Inside DEF At, Within, Traversing, SessionIds
  <2>2. walk'[w].at \notin {"find", "create"} /\ walk'[w].session = walk[w].session /\ walk'[w].job = walk[w].job
    BY <1>8, DoesWork DEF Went, WentOn
  <2>3. QED
    BY <2>1, <2>2, WaysOn DEF At
<1>9. CASE WaitForInput(w)
  BY <1>9, DoesWait, WaysLeft
<1>10. CASE EnqueueResume(w)
  <2>1. At(w, "execute") /\ Went(w, "stamp")
    BY <1>10, DoesEnqueue
  <2>2. walk[w].session # 0
    BY <2>1, Inside DEF At, Within, Traversing, SessionIds
  <2>3. QED
    BY <2>1, <2>2, WaysOn DEF Went, At
<1>11. CASE StampWaitingUntil(w)
  BY <1>11, DoesStamp, WaysLeft
<1>12. CASE HumanTakeover(w)
  BY <1>12, DoesTakeover, WaysLeft
<1>13. CASE GoToFlow(w)
  <2>1. At(w, "execute") /\ forsaken' = forsaken \cup {walk[w].session} /\ Into(w, "find", 0, 0)
    BY <1>13, DoesGoTo
  <2>2. walk[w].session # 0
    BY <2>1, Inside DEF At, Within, Traversing, SessionIds
  <2>3. walk[w].job # 0 => OwnSession(w) \in forsaken'
    BY <1>w, <2>1, <2>2 DEF Stray
  <2>4. QED
    BY <1>w, <2>1, <2>3 DEF Into, Stray, Hushed
<1>14. CASE CompleteSession(w)
  BY <1>14, DoesComplete, WaysLeft
<1>15. CASE Unwind(w)
  BY <1>15, DoesUnwind, WaysLeft
<1>16. CASE Look(w)
  <2>1. At(w, "look") /\ walk[w].session = 0
    BY <1>16, DoesLook, Outside DEF At, Within, Traversing
  <2>2. CASE Into(w, "load", OwnSession(w), sessions[OwnSession(w)].node)
    BY <1>w, <2>2 DEF Into, Stray, Hushed
  <2>3. CASE walk'[w].session = 0 /\ walk'[w].at \notin {"find", "create"}
    BY <2>3, WaysOut
  <2>4. QED
    BY <1>16, <2>1, <2>2, <2>3, DoesLook DEF Into, Went
<1>17. CASE Count(w)
  <2>1. At(w, "count") /\ walk[w].session = 0
    BY <1>17, DoesCount, Outside DEF At, Within, Traversing
  <2>2. QED
    BY <1>17, <2>1, DoesCount, WaysOut DEF Went
<1>18. CASE CompleteJob(w) \/ RecheckJob(w) \/ RetryJob(w) \/ FailJob(w)
  <2>1. \/ Stopped(w)
        \/ /\ walk[w].at \in {"retry", "giveUp", "condemned"}
           /\ Went(w, "cancel") \/ Went(w, "cancelDead")
    BY <1>18, DoesSettle DEF At
  <2>2. CASE Stopped(w)
    BY <2>2, WaysStopped
  <2>3. CASE walk[w].at \in {"retry", "giveUp", "condemned"} /\ (Went(w, "cancel") \/ Went(w, "cancelDead"))
    BY <2>3, Outside, WaysOut DEF Went, Within, Traversing
  <2>4. QED
    BY <2>1, <2>2, <2>3
<1>19. CASE CatchThrow(w)
  <2>1. At(w, "catch") /\ walk[w].session = 0
    BY <1>19, DoesCatch, Outside DEF At, Within, Traversing
  <2>2. QED
    BY <1>19, <2>1, DoesCatch, WaysOut DEF Went
<1>20. CASE CancelSession(w)
  BY <1>20, DoesCancel, WaysStopped DEF Departs
<1>21. CASE LookExhausted(w)
  <2>1. At(w, "lookExhausted") /\ walk[w].session = 0
    BY <1>21, DoesLookExhausted, Outside DEF At, Within, Traversing
  <2>2. \/ Stopped(w)
        \/ walk'[w].session = 0 /\ walk'[w].at \notin {"find", "create"}
    BY <1>21, <2>1, DoesLookExhausted DEF Went, Into, Departs
  <2>3. QED
    BY <2>2, WaysOut, WaysStopped
<1>22. CASE CountExhausted(w)
  <2>1. At(w, "countExhausted") /\ walk[w].session = 0
    BY <1>22, DoesCountExhausted, Outside DEF At, Within, Traversing
  <2>2. \/ Stopped(w)
        \/ walk'[w].session = 0 /\ walk'[w].at \notin {"find", "create"}
    BY <1>22, <2>1, DoesCountExhausted DEF Went, Departs
  <2>3. QED
    BY <2>2, WaysOut, WaysStopped
<1>23. CASE Die(w)
  BY <1>23, DoesDie, WaysStopped DEF Departs
<1>24. ASSUME NEW j \in ResumeIds, TakeJob(w, j)
       PROVE  Stray(w)' /\ Hushed(w)'
  BY <1>24, DoesTake, WaysOut
<1>25. QED
  BY <1>1, <1>2, <1>3, <1>4, <1>5, <1>6, <1>7, <1>8, <1>9, <1>10, <1>11, <1>12, <1>13, <1>14, <1>15,
     <1>16, <1>17, <1>18, <1>19, <1>20, <1>21, <1>22, <1>23, <1>24 DEF Acts

\* Ages keeps Ways: this is what its guard is for.
LEMMA WaysAges ==
  ASSUME Base, Ways, NEW s \in SessionIds, Ages(s)
  PROVE  Ways'
<1>1. /\ UNCHANGED <<resumes, walk, forsaken>>
      /\ sessions'[s].waiting = sessions[s].waiting /\ sessions'[s].until = sessions[s].until
      /\ \A t \in SessionIds \ {s} : sessions'[t] = sessions[t]
      /\ \A w \in Walkers : walk[w].session = s =>
           ~(walk[w].at \in Traversing \cup {"throw"}) /\ (walk[w].at \in {"load", "resume"} => Parked(sessions[s]))
  BY DoesAge
<1>2. ASSUME NEW w \in Walkers
      PROVE  Stray(w)' /\ Hushed(w)'
  <2>1. Stray(w) /\ Hushed(w) /\ OwnSession(w)' = OwnSession(w)
    BY <1>1 DEF Ways, OwnSession
  <2>2. CASE walk[w].session = s
    <3>1. walk[w].at \in Within
      BY <2>2, SpotOf DEF SessionIds
    <3>2. walk[w].at \in {"load", "resume"} /\ Parked(sessions'[s])
      BY <1>1, <2>2, <3>1 DEF Within, Parked
    <3>3. QED
      BY <1>1, <2>1, <2>2, <3>2 DEF Stray, Hushed
  <2>3. CASE walk[w].session # s
    <3>1. walk[w].session # 0 => sessions'[walk[w].session] = sessions[walk[w].session]
      BY <1>1, <2>3, SessionPresent
    <3>2. QED
      BY <1>1, <2>1, <3>1 DEF Stray, Hushed
  <2>4. QED
    BY <2>2, <2>3
<1>3. QED
  BY <1>2 DEF Ways

Still(s) == ~Parked(sessions[s]) /\ \A v \in Walkers : walk[v].session # s

\* What a walker that has found its session dead knows.
Judged(w) ==
  w \notin overtaken =>
    /\ walk[w].at \in {"count", "countExhausted"} /\ ~walk[w].recent => Still(OwnSession(w)) \/ Covering(w) # {}
    /\ walk[w].at \in {"condemned", "cancelDead"} => Still(OwnSession(w)) /\ Covering(w) = {}

Judgements == \A w \in Walkers : Judged(w)

\* What a step leaves to the walkers that judge.
Gentle(w) ==
  /\ \A v \in Walkers \ {w} : v \in overtaken => v \in overtaken'
  /\ \A j \in ResumeIds : Open(j) => Open(j)' \/ Judges(j) \ {w} \subseteq overtaken'
  /\ \A j \in ResumeIds : Open(j)' =>
       Open(j) \/ (walk[w].session # 0 /\ resumes'[j].session = walk[w].session)
  /\ \A s \in SessionIds : sessions[s].status # "absent" /\ walk[w].session # s =>
       sessions'[s].waiting = sessions[s].waiting /\ sessions'[s].until = sessions[s].until
  /\ \/ walk'[w].session \in {0, walk[w].session}
     \/ Parked(sessions[walk'[w].session])
     \/ sessions[walk'[w].session].status = "absent"
     \/ walk[w].job # 0 /\ walk'[w].session = OwnSession(w) /\ Open(walk[w].job)

\* A gentle step takes nothing from what another walker has judged.
LEMMA JudgedOthers ==
  ASSUME Base, Judgements, NEW w \in Walkers, Frame(w), Gentle(w), NEW v \in Walkers \ {w}
  PROVE  Judged(v)'
<1> DEFINE s == OwnSession(v)
<1>1. walk'[v] = walk[v] /\ OwnSession(v)' = s
  BY OthersKept
<1>2. SUFFICES ASSUME v \notin overtaken', walk[v].at \in Judging
      PROVE  Judged(v)'
  BY <1>1 DEF Judged, Judging
<1>3. v \notin overtaken /\ Judged(v)
  BY <1>2 DEF Gentle, Judgements
<1>4. walk[v].job # 0 /\ s \in SessionIds /\ sessions[s].status # "absent" /\ s # 0
  BY <1>2, Outside DEF Judging, Within, Traversing, SessionIds
<1>5. ASSUME NEW j \in Covering(v)
      PROVE  j \in Covering(v)'
  <2>1. j \in ResumeIds /\ Open(j) /\ j # walk[v].job /\ resumes[j].session = s
    BY DEF Covering
  <2>2. v \in Judges(j)
    BY <1>2, <2>1 DEF Judges
  <2>3. Open(j)'
    BY <1>2, <2>1, <2>2 DEF Gentle
  <2>4. resumes'[j].session = s
    BY <2>1 DEF Frame, JobsGo, JobGoes, Open
  <2>5. QED
    BY <1>1, <2>1, <2>3, <2>4 DEF Covering
<1>6. ASSUME Still(s), Covering(v) = {}
      PROVE  Still(s)' /\ Covering(v)' = {}
  <2>1. walk[w].session # s /\ ~Parked(sessions[s])
    BY <1>6 DEF Still
  <2>2. ~Parked(sessions'[s])
    BY <1>4, <2>1 DEF Gentle, Parked
  <2>3. walk'[w].session # s
    <3>1. ASSUME walk'[w].session = s
          PROVE  FALSE
      <4>1. walk[w].job # 0 /\ OwnSession(w) = s /\ Open(walk[w].job)
        BY <1>4, <2>1, <3>1 DEF Gentle
      <4>2. walk[w].job \in Covering(v)
        BY <4>1, SessionPresent DEF Covering
      <4>3. QED
        BY <1>6, <4>2
    <3>2. QED
      BY <3>1
  <2>4. Still(s)'
    BY <1>6, <2>2, <2>3, OthersKept DEF Still
  <2>5. ASSUME NEW j \in Covering(v)'
        PROVE  FALSE
    <3>1. j \in ResumeIds /\ Open(j)' /\ j # walk[v].job /\ resumes'[j].session = s
      BY <1>1 DEF Covering
    <3>2. Open(j)
      BY <2>1, <3>1 DEF Gentle
    <3>3. resumes[j].session = s
      BY <3>1, <3>2 DEF Frame, JobsGo, JobGoes, Open
    <3>4. j \in Covering(v)
      BY <3>1, <3>2, <3>3 DEF Covering
    <3>5. QED
      BY <1>6, <3>4
  <2>6. QED
    BY <2>4, <2>5
<1>7. QED
  BY <1>1, <1>3, <1>5, <1>6 DEF Judged

\* Inside a session, and outside of any.
LEMMA GentleInside ==
  ASSUME Base, NEW w \in Walkers, UNCHANGED <<resumes, overtaken>>,
         walk'[w].session \in {0, walk[w].session},
         \A t \in SessionIds \ {walk[w].session} : sessions'[t] = sessions[t]
  PROVE  Gentle(w)
BY DEF Gentle, Open

\* A step outside of any session that cancels its own session at most.
LEMMA GentleOutside ==
  ASSUME Base, NEW w \in Walkers, resumes' = resumes, overtaken' = overtaken \/ overtaken' = overtaken \ {w},
         walk'[w].session = 0,
         \/ sessions' = sessions
         \/ OwnSession(w) \in SessionIds /\ Closed(OwnSession(w), "cancelled")
  PROVE  Gentle(w)
BY DEF Gentle, Open, Closed, Rewrote

\* Every step of a walker is gentle: a job that is done warns those who counted on it.
LEMMA Gently ==
  ASSUME Base, NEW w \in Walkers,
         Acts(w)
  PROVE  Gentle(w)
<1>1. CASE StartMessage(w)
  BY <1>1, DoesStart, GentleInside DEF Went, Kept, Same
<1>2. CASE FindWaiting(w)
  <2>1. Kept
    BY <1>2, DoesFind
  <2>2. CASE Went(w, "create")
    BY <2>1, <2>2, GentleInside DEF Went, Kept, Same
  <2>3. ASSUME NEW s \in SessionIds, sessions[s].waiting, Into(w, "load", s, sessions[s].node)
        PROVE  Gentle(w)
    BY <2>1, <2>3 DEF Gentle, Into, Parked, Open, Kept, Same
  <2>4. QED
    BY <1>2, <2>2, <2>3, DoesFind
<1>3. CASE CreateSession(w)
  <2>1. UNCHANGED <<resumes, overtaken>>
    BY <1>3, DoesCreate
  <2>2. CASE Left(w, "settled") /\ sessions' = sessions
    BY <2>1, <2>2, GentleInside DEF Left
  <2>3. ASSUME NEW s \in SessionIds, sessions[s].status = "absent", Rewrote(s, "active", 0, FALSE, FALSE),
               Left(w, "settled") \/ Into(w, "enter", s, 1)
        PROVE  Gentle(w)
    BY <2>1, <2>3 DEF Gentle, Into, Left, Rewrote, Open
  <2>4. QED
    BY <1>3, <2>2, <2>3, DoesCreate
<1>4. CASE LoadFlow(w)
  BY <1>4, DoesLoad, GentleInside DEF Went, Left, Closed, Rewrote
<1>5. CASE Resume(w)
  BY <1>5, DoesResume, GentleInside DEF Went, WentOn, Rewrote
<1>6. CASE MissingNode(w)
  BY <1>6, DoesMissing, GentleInside DEF Left, Closed, Rewrote
<1>7. CASE EnterNode(w)
  BY <1>7, DoesEnter, GentleInside DEF Went, Rewrote
<1>8. CASE Work(w)
  BY <1>8, DoesWork, GentleInside DEF Went, WentOn, Kept, Same
<1>9. CASE WaitForInput(w)
  BY <1>9, DoesWait, GentleInside DEF Left, Rewrote
<1>10. CASE EnqueueResume(w)
  <2>1. At(w, "execute") /\ UNCHANGED <<sessions, overtaken>> /\ Went(w, "stamp")
    BY <1>10, DoesEnqueue
  <2>2. PICK j \in ResumeIds :
          /\ resumes[j].status = "absent"
          /\ resumes'[j] = [status |-> "pending", tries |-> 0, session |-> walk[w].session, node |-> walk[w].node]
          /\ \A i \in ResumeIds \ {j} : resumes'[i] = resumes[i]
    BY <1>10, DoesEnqueue
  <2>3. walk[w].session # 0
    BY <2>1, Inside DEF At, Within, Traversing, SessionIds
  <2>4. \A i \in ResumeIds : Open(i) => i # j
    BY <2>2 DEF Open
  <2>5. QED
    BY <2>1, <2>2, <2>3, <2>4 DEF Gentle, Open, Went
<1>11. CASE StampWaitingUntil(w)
  BY <1>11, DoesStamp, GentleInside DEF Left, Rewrote
<1>12. CASE HumanTakeover(w)
  BY <1>12, DoesTakeover, GentleInside DEF Left, Closed, Rewrote
<1>13. CASE GoToFlow(w)
  BY <1>13, DoesGoTo, GentleInside DEF Into, Same
<1>14. CASE CompleteSession(w)
  BY <1>14, DoesComplete, GentleInside DEF Left, Closed, Rewrote
<1>15. CASE Unwind(w)
  BY <1>15, DoesUnwind, GentleInside DEF Left, Same
<1>16. CASE Look(w)
  <2>1. At(w, "look") /\ Kept
    BY <1>16, DoesLook
  <2>2. walk[w].session = 0 /\ walk[w].job # 0 /\ Open(walk[w].job)
    BY <2>1, Job DEF At, Within, Traversing, Closing, Open
  <2>3. walk'[w].session \in {0, OwnSession(w)}
    BY <1>16, <2>2, DoesLook DEF Into, Went
  <2>4. QED
    BY <2>1, <2>2, <2>3 DEF Gentle, Open, Kept, Same
<1>17. CASE Count(w)
  BY <1>17, DoesCount, GentleInside DEF Went
<1>18. CASE CompleteJob(w) \/ RecheckJob(w) \/ RetryJob(w) \/ FailJob(w)
  <2>1. sessions' = sessions
    BY <1>18, DoesSettle
  <2>2. PICK status \in {"pending", "completed", "failed"}, tries \in 0..MaxTries,
             step \in {"idle", "cancel", "cancelDead"} :
          /\ Noted(walk[w].job, status, tries) /\ Warned(w, status, step)
          /\ IF step = "idle" THEN Stopped(w) ELSE Went(w, step)
    BY <1>18, DoesSettle
  <2>3. walk[w].at \in {"settled", "recheck", "retry", "giveUp", "condemned"}
    BY <1>18 DEF CompleteJob, RecheckJob, RetryJob, FailJob, At
  <2>4. resumes[walk[w].job].status = "processing" /\ walk[w].session = 0
    BY <2>3, Job DEF Within, Traversing, Closing
  <2>5. walk'[w].session = 0
    BY <2>2, <2>4, NoWalkIs DEF Went, Stopped
  <2>6. \A j \in ResumeIds : Open(j) => Open(j)' \/ Judges(j) \ {w} \subseteq overtaken'
    BY <2>2 DEF Noted, Warned, Open
  <2>7. \A j \in ResumeIds : Open(j)' => Open(j)
    BY <2>2, <2>4 DEF Noted, Open
  <2>8. \A v \in Walkers \ {w} : v \in overtaken => v \in overtaken'
    BY <2>2 DEF Warned
  <2>9. QED
    BY <2>1, <2>5, <2>6, <2>7, <2>8 DEF Gentle
<1>19. CASE CatchThrow(w)
  <2>1. At(w, "catch")
    BY <1>19, DoesCatch
  <2>2. walk[w].session = 0 /\ OwnSession(w) \in SessionIds
    BY <2>1, Outside DEF At, Within, Traversing
  <2>3. QED
    BY <1>19, <2>2, DoesCatch, GentleOutside DEF Went
<1>20. CASE CancelSession(w)
  <2>1. (At(w, "cancel") \/ At(w, "cancelDead")) /\ Departs(w) /\ resumes' = resumes
    BY <1>20, DoesCancel
  <2>2. OwnSession(w) \in SessionIds
    BY <2>1, Outside DEF At, Within, Traversing
  <2>3. walk'[w].session = 0
    BY <2>1, NoWalkIs DEF Departs, Stopped
  <2>4. QED
    BY <1>20, <2>1, <2>2, <2>3, DoesCancel, GentleOutside DEF Departs
<1>21. CASE LookExhausted(w)
  <2>1. At(w, "lookExhausted") /\ walk[w].session = 0
    BY <1>21, DoesLookExhausted, Outside DEF At, Within, Traversing
  <2>2. UNCHANGED <<sessions, resumes>>
    BY <1>21, DoesLookExhausted
  <2>3. walk'[w].session = 0 /\ (overtaken' = overtaken \/ overtaken' = overtaken \ {w})
    BY <1>21, <2>1, DoesLookExhausted, NoWalkIs DEF Went, Into, Departs, Stopped
  <2>4. QED
    BY <2>2, <2>3, GentleOutside
<1>22. CASE CountExhausted(w)
  <2>1. At(w, "countExhausted") /\ walk[w].session = 0
    BY <1>22, DoesCountExhausted, Outside DEF At, Within, Traversing
  <2>2. UNCHANGED <<sessions, resumes>>
    BY <1>22, DoesCountExhausted
  <2>3. walk'[w].session = 0 /\ (overtaken' = overtaken \/ overtaken' = overtaken \ {w})
    BY <1>22, <2>1, DoesCountExhausted, NoWalkIs DEF Went, Departs, Stopped
  <2>4. QED
    BY <2>2, <2>3, GentleOutside
<1>23. CASE Die(w)
  BY <1>23, DoesDie, NoWalkIs, GentleOutside DEF Departs, Stopped
<1>24. ASSUME NEW j \in ResumeIds, TakeJob(w, j)
       PROVE  Gentle(w)
  <2>1. Open(j) /\ sessions' = sessions /\ walk'[w].session = 0
    BY <1>24, DoesTake
  <2>2. \/ Noted(j, "processing", resumes[j].tries + 1) /\ overtaken' = overtaken
        \/ Noted(j, "failed", resumes[j].tries) /\ overtaken' = overtaken \cup Judges(j)
    BY <1>24, DoesTake
  <2>3. \A i \in ResumeIds : Open(i) => Open(i)' \/ Judges(i) \ {w} \subseteq overtaken'
    BY <2>2 DEF Noted, Open
  <2>4. \A i \in ResumeIds : Open(i)' => Open(i)
    BY <2>1, <2>2 DEF Noted, Open
  <2>5. QED
    BY <2>1, <2>2, <2>3, <2>4 DEF Gentle
<1>25. QED
  BY <1>1, <1>2, <1>3, <1>4, <1>5, <1>6, <1>7, <1>8, <1>9, <1>10, <1>11, <1>12, <1>13, <1>14, <1>15,
     <1>16, <1>17, <1>18, <1>19, <1>20, <1>21, <1>22, <1>23, <1>24 DEF Acts

\* A session that nobody has written to lately, not parked: still, unless another job of it is being taken up.
LEMMA Resting ==
  ASSUME Base, Ways, NEW w \in Walkers, walk[w].at \notin {"idle", "find", "create"} \cup Within,
         ~sessions[OwnSession(w)].recent, ~Parked(sessions[OwnSession(w)])
  PROVE  Still(OwnSession(w)) \/ Covering(w) # {}
<1> DEFINE s == OwnSession(w)
<1>1. s \in SessionIds /\ s # 0 /\ walk[w].job # 0
  BY Outside DEF SessionIds
<1>2. ASSUME NEW v \in Walkers, walk[v].session = s
      PROVE  Covering(w) # {}
  <2>1. walk[v].at \in {"load", "resume"} /\ OwnSession(v) = s
    BY <1>1, <1>2 DEF Ways, Hushed
  <2>2. walk[v].job # 0 /\ v # w
    BY <1>1, <1>2, <2>1, Outside DEF OwnSession
  <2>3. walk[v].job \in ResumeIds /\ resumes[walk[v].job].session = s /\ walk[v].job # walk[w].job
    BY <1>1, <2>1, <2>2, SessionPresent
  <2>4. Open(walk[v].job)
    BY <2>1, <2>2, Inside DEF Open, Within
  <2>5. walk[v].job \in Covering(w)
    BY <2>3, <2>4 DEF Covering
  <2>6. QED
    BY <2>5
<1>3. QED
  BY <1>2 DEF Still

\* A walker that only reads keeps what it knows.
LEMMA LooksOn ==
  ASSUME Base, NEW w \in Walkers, Frame(w), UNCHANGED <<sessions, resumes>>,
         walk'[w].job = walk[w].job, walk'[w].session = walk[w].session
  PROVE  /\ OwnSession(w)' = OwnSession(w) /\ Covering(w)' = Covering(w)
         /\ Still(OwnSession(w)) => Still(OwnSession(w))'
<1>1. OwnSession(w)' = OwnSession(w)
  BY OwnKept
<1>2. Covering(w)' = Covering(w)
  BY <1>1 DEF Covering, Open
<1>3. \A v \in Walkers : walk'[v].session = walk[v].session
  BY OthersKept
<1>4. QED
  BY <1>1, <1>2, <1>3 DEF Still

\* A walker that does not judge knows nothing.
LEMMA NotJudging ==
  ASSUME NEW w \in Walkers, walk'[w].at \notin Judging
  PROVE  Judged(w)'
BY DEF Judged, Judging

\* A walker back at its job does not judge.
LEMMA LeftJudges ==
  ASSUME NEW w \in Walkers, NEW step \in {"settled", "retry", "catch"}, Left(w, step)
  PROVE  Judged(w)'
BY NotJudging DEF Left, Judging

\* A walker that has ended does not judge.
LEMMA StoppedJudges ==
  ASSUME NEW w \in Walkers, Stopped(w)
  PROVE  Judged(w)'
BY NotJudging, NoWalkIs DEF Stopped, Judging

\* What a walker knows of its session after a step of its own.
LEMMA JudgedSelf ==
  ASSUME Base, Ways, Judgements, NEW w \in Walkers, Frame(w), Acts(w)
  PROVE  Judged(w)'
<1>0. Judged(w)
  BY DEF Judgements
<1>1. CASE StartMessage(w)
  BY <1>1, DoesStart, NotJudging DEF Went, Judging
<1>2. CASE FindWaiting(w)
  <2>1. walk'[w].at \in {"load", "create"}
    BY <1>2, DoesFind DEF Went, Into
  <2>2. QED
    BY <2>1, NotJudging DEF Judging
<1>3. CASE CreateSession(w)
  <2>1. Left(w, "settled") \/ walk'[w].at = "enter"
    BY <1>3, DoesCreate DEF Into
  <2>2. QED
    BY <2>1, LeftJudges, NotJudging DEF Judging
<1>4. CASE LoadFlow(w)
  BY <1>4, DoesLoad, LeftJudges, NotJudging DEF Went, Judging
<1>5. CASE Resume(w)
  BY <1>5, DoesResume, NotJudging DEF Went, WentOn, Judging
<1>6. CASE MissingNode(w)
  BY <1>6, DoesMissing, LeftJudges
<1>7. CASE EnterNode(w)
  BY <1>7, DoesEnter, NotJudging DEF Went, Judging
<1>8. CASE Work(w)
  BY <1>8, DoesWork, NotJudging DEF Went, WentOn, Judging
<1>9. CASE WaitForInput(w)
  BY <1>9, DoesWait, LeftJudges
<1>10. CASE EnqueueResume(w)
  BY <1>10, DoesEnqueue, NotJudging DEF Went, Judging
<1>11. CASE StampWaitingUntil(w)
  BY <1>11, DoesStamp, LeftJudges
<1>12. CASE HumanTakeover(w)
  BY <1>12, DoesTakeover, LeftJudges
<1>13. CASE GoToFlow(w)
  BY <1>13, DoesGoTo, NotJudging DEF Into, Judging
<1>14. CASE CompleteSession(w)
  BY <1>14, DoesComplete, LeftJudges
<1>15. CASE Unwind(w)
  BY <1>15, DoesUnwind, LeftJudges
<1>16. CASE Look(w)
  <2>1. At(w, "look") /\ Kept
    BY <1>16, DoesLook
  <2>2. walk[w].at \notin {"idle", "find", "create"} \cup Within /\ walk[w].session = 0
    BY <2>1, Outside DEF At, Within, Traversing
  <2>3. CASE /\ ~Parked(sessions[OwnSession(w)]) /\ Into(w, "count", 0, walk[w].node)
             /\ walk'[w].recent = sessions[OwnSession(w)].recent
    <3>1. walk'[w].at = "count" /\ walk'[w].job = walk[w].job /\ walk'[w].session = walk[w].session
      BY <2>2, <2>3 DEF Into
    <3>2. ~walk'[w].recent => Still(OwnSession(w)) \/ Covering(w) # {}
      BY <2>2, <2>3, Resting
    <3>3. /\ OwnSession(w)' = OwnSession(w) /\ Covering(w)' = Covering(w)
          /\ Still(OwnSession(w)) => Still(OwnSession(w))'
      BY <2>1, <3>1, LooksOn DEF Kept, Same
    <3>4. QED
      BY <3>1, <3>2, <3>3 DEF Judged
  <2>4. CASE walk'[w].at \in {"load", "settled", "retry"}
    BY <2>4, NotJudging DEF Judging
  <2>5. QED
    BY <1>16, <2>3, <2>4, DoesLook DEF Into, Went
<1>17. CASE Count(w)
  <2>1. At(w, "count") /\ UNCHANGED <<sessions, resumes, overtaken>>
    BY <1>17, DoesCount
  <2>2. CASE Covering(w) = {} /\ ~walk[w].recent /\ Went(w, "condemned")
    <3>1. walk'[w].at = "condemned" /\ walk'[w].job = walk[w].job /\ walk'[w].session = walk[w].session
      BY <2>2 DEF Went
    <3>2. w \notin overtaken => Still(OwnSession(w)) /\ Covering(w) = {}
      BY <1>0, <2>1, <2>2 DEF Judged, At
    <3>3. /\ OwnSession(w)' = OwnSession(w) /\ Covering(w)' = Covering(w)
          /\ Still(OwnSession(w)) => Still(OwnSession(w))'
      BY <2>1, <3>1, LooksOn
    <3>4. QED
      BY <2>1, <3>1, <3>2, <3>3 DEF Judged
  <2>3. CASE walk'[w].at \in {"settled", "recheck", "retry"}
    BY <2>3, NotJudging DEF Judging
  <2>4. QED
    BY <1>17, <2>2, <2>3, DoesCount DEF Went
<1>18. CASE CompleteJob(w) \/ RecheckJob(w) \/ RetryJob(w) \/ FailJob(w)
  <2>1. sessions' = sessions
    BY <1>18, DoesSettle
  <2>2. PICK status \in {"pending", "completed", "failed"}, tries \in 0..MaxTries,
             step \in {"idle", "cancel", "cancelDead"} :
          /\ Noted(walk[w].job, status, tries) /\ Warned(w, status, step)
          /\ IF step = "idle" THEN Stopped(w) ELSE Went(w, step)
          /\ step = "cancelDead" => At(w, "condemned") /\ status = "failed"
    BY <1>18, DoesSettle
  <2>3. CASE step = "idle"
    BY <2>2, <2>3, StoppedJudges
  <2>4. CASE step = "cancel"
    BY <2>2, <2>4, NotJudging DEF Went, Judging
  <2>5. CASE step = "cancelDead"
    <3>1. At(w, "condemned") /\ Went(w, "cancelDead") /\ (w \in overtaken => w \in overtaken')
      BY <2>2, <2>5 DEF Warned
    <3>2. w \notin overtaken' => Still(OwnSession(w)) /\ Covering(w) = {}
      BY <1>0, <3>1 DEF Judged, At
    <3>3. walk'[w].at = "cancelDead" /\ walk'[w].job = walk[w].job /\ walk'[w].session = walk[w].session
      BY <3>1 DEF Went
    <3>4. OwnSession(w)' = OwnSession(w)
      BY <3>3, OwnKept
    <3>5. Covering(w)' \subseteq Covering(w)
      BY <2>2, <3>3, <3>4 DEF Covering, Noted, Open
    <3>6. \A v \in Walkers : walk'[v].session = walk[v].session
      BY <3>3, OthersKept
    <3>7. Still(OwnSession(w)) => Still(OwnSession(w))'
      BY <2>1, <3>4, <3>6 DEF Still
    <3>8. QED
      BY <3>2, <3>3, <3>5, <3>7 DEF Judged
  <2>6. QED
    BY <2>3, <2>4, <2>5
<1>19. CASE CatchThrow(w)
  BY <1>19, DoesCatch, NotJudging DEF Went, Judging
<1>20. CASE CancelSession(w)
  BY <1>20, DoesCancel, StoppedJudges DEF Departs
<1>21. CASE LookExhausted(w)
  <2>1. At(w, "lookExhausted") /\ UNCHANGED <<sessions, resumes>>
    BY <1>21, DoesLookExhausted
  <2>2. walk[w].at \notin {"idle", "find", "create"} \cup Within /\ walk[w].session = 0
    BY <2>1, Outside DEF At, Within, Traversing
  <2>3. CASE /\ ~Parked(sessions[OwnSession(w)]) /\ Into(w, "countExhausted", 0, walk[w].node)
             /\ walk'[w].recent = sessions[OwnSession(w)].recent
    <3>1. walk'[w].at = "countExhausted" /\ walk'[w].job = walk[w].job /\ walk'[w].session = walk[w].session
      BY <2>2, <2>3 DEF Into
    <3>2. ~walk'[w].recent => Still(OwnSession(w)) \/ Covering(w) # {}
      BY <2>2, <2>3, Resting
    <3>3. /\ OwnSession(w)' = OwnSession(w) /\ Covering(w)' = Covering(w)
          /\ Still(OwnSession(w)) => Still(OwnSession(w))'
      BY <2>1, <3>1, LooksOn
    <3>4. QED
      BY <3>1, <3>2, <3>3 DEF Judged
  <2>4. CASE walk'[w].at = "cancel" \/ Departs(w)
    BY <2>4, NotJudging, StoppedJudges DEF Judging, Departs
  <2>5. QED
    BY <1>21, <2>3, <2>4, DoesLookExhausted DEF Went
<1>22. CASE CountExhausted(w)
  <2>1. At(w, "countExhausted") /\ UNCHANGED <<sessions, resumes>>
    BY <1>22, DoesCountExhausted
  <2>2. CASE Covering(w) = {} /\ ~walk[w].recent /\ Went(w, "cancelDead") /\ overtaken' = overtaken
    <3>1. walk'[w].at = "cancelDead" /\ walk'[w].job = walk[w].job /\ walk'[w].session = walk[w].session
      BY <2>2 DEF Went
    <3>2. w \notin overtaken => Still(OwnSession(w)) /\ Covering(w) = {}
      BY <1>0, <2>1, <2>2 DEF Judged, At
    <3>3. /\ OwnSession(w)' = OwnSession(w) /\ Covering(w)' = Covering(w)
          /\ Still(OwnSession(w)) => Still(OwnSession(w))'
      BY <2>1, <3>1, LooksOn
    <3>4. QED
      BY <2>2, <3>1, <3>2, <3>3 DEF Judged
  <2>3. CASE Departs(w)
    BY <2>3, StoppedJudges DEF Departs
  <2>4. QED
    BY <1>22, <2>2, <2>3, DoesCountExhausted
<1>23. CASE Die(w)
  BY <1>23, DoesDie, StoppedJudges DEF Departs
<1>24. ASSUME NEW j \in ResumeIds, TakeJob(w, j)
       PROVE  Judged(w)'
  BY <1>24, DoesTake, NotJudging DEF Judging
<1>25. QED
  BY <1>1, <1>2, <1>3, <1>4, <1>5, <1>6, <1>7, <1>8, <1>9, <1>10, <1>11, <1>12, <1>13, <1>14, <1>15,
     <1>16, <1>17, <1>18, <1>19, <1>20, <1>21, <1>22, <1>23, <1>24 DEF Acts

\* Every step of a walker keeps Judgements.
LEMMA JudgementsKept ==
  ASSUME Base, Ways, Judgements, NEW w \in Walkers, Frame(w), Acts(w)
  PROVE  Judgements'
BY Gently, JudgedOthers, JudgedSelf DEF Judgements

\* Ages keeps Judgements: it changes no mark that they are about.
LEMMA JudgementsAges ==
  ASSUME Base, Judgements, NEW s \in SessionIds, Ages(s)
  PROVE  Judgements'
<1>1. /\ UNCHANGED <<resumes, walk, overtaken>>
      /\ sessions'[s].waiting = sessions[s].waiting /\ sessions'[s].until = sessions[s].until
      /\ \A t \in SessionIds \ {s} : sessions'[t] = sessions[t]
  BY DoesAge
<1>2. ASSUME NEW w \in Walkers
      PROVE  Judged(w)'
  <2>1. OwnSession(w)' = OwnSession(w) /\ Covering(w)' = Covering(w)
    BY <1>1 DEF OwnSession, Covering, Open
  <2>2. walk[w].at \in Judging => OwnSession(w) \in SessionIds
    BY Outside DEF Judging, Within, Traversing
  <2>3. walk[w].at \in Judging /\ Still(OwnSession(w)) => Still(OwnSession(w))'
    BY <1>1, <2>1, <2>2 DEF Still, Parked
  <2>4. Judged(w)
    BY DEF Judgements
  <2>5. QED
    BY <1>1, <2>1, <2>3, <2>4 DEF Judged, Judging
<1>3. QED
  BY <1>2 DEF Judgements

Minded(s) == s \notin forsaken \cup deceived /\ sessions[s].status = "active"

Done(j) == \E w \in Walkers : walk[w].job = j /\ At(w, "settled")

Tends(w, s) ==
  \/ walk[w].session = s /\ walk[w].at \in Traversing \cup {"throw"}
  \/ OwnSession(w) = s /\ walk[w].at \in Closing

Tended(s) ==
  \/ sessions[s].waiting
  \/ \E w \in Walkers : Tends(w, s)
  \/ \E j \in ResumeIds : Open(j) /\ resumes[j].session = s /\ ~Done(j)

\* A job that will find its session parked where it says.
Returning == {"look", "load", "resume", "retry"}
Returns(j) ==
  \/ Open(j) /\ \A w \in Walkers : walk[w].job = j => walk[w].at \in Returning
  \/ \E w \in Walkers : walk[w].job = j /\ walk[w].at \in {"lookExhausted", "cancel"}

Awaited(s) ==
  sessions[s].until /\ ~sessions[s].waiting =>
    \E j \in ResumeIds : resumes[j].session = s /\ resumes[j].node = sessions[s].node /\ Returns(j)

Recovers == \A s \in SessionIds : Minded(s) => Tended(s) /\ Awaited(s)

----
\* A step of a walker that has its job already.
Steady(w) ==
  /\ walk'[w].job \in {0, walk[w].job}
  /\ \A j \in ResumeIds \ {walk[w].job} : resumes[j].status # "absent" => resumes'[j] = resumes[j]

OwnJob(w, s) == walk[w].job # 0 /\ OwnSession(w) = s /\ Open(walk[w].job)

\* What is left to show of such a step: that what tends the session goes on to, and the
\* job that the session waits for.
Holds(w, s) ==
  /\ sessions[s].waiting => sessions'[s].waiting \/ Tended(s)'
  /\ Tends(w, s) => Tended(s)'
  /\ OwnJob(w, s) /\ ~At(w, "settled") => Tended(s)'
  /\ sessions'[s].until /\ ~sessions'[s].waiting =>
       \/ sessions[s].until /\ ~sessions[s].waiting /\ sessions'[s].node = sessions[s].node
       \/ Awaited(s)'
  /\ \A j \in ResumeIds :
       /\ walk[w].job = j /\ OwnSession(w) = s /\ resumes[j].node = sessions[s].node
       /\ walk[w].at \in Returning \cup {"lookExhausted", "cancel"}
       => Returns(j)' \/ Awaited(s)'

\* A job of another walker, or of none, goes on as it was.
LEMMA ByOther ==
  ASSUME Base, NEW w \in Walkers, Frame(w), Steady(w), NEW j \in ResumeIds \ {walk[w].job}, Open(j)
  PROVE  /\ Open(j)' /\ resumes'[j] = resumes[j]
         /\ ~Done(j) => ~Done(j)'
         /\ (\A v \in Walkers : walk[v].job = j => walk[v].at \in Returning) => Returns(j)'
<1>1. resumes'[j] = resumes[j] /\ Open(j)'
  BY DEF Steady, Open
<1>2. walk'[w].job # j
  BY DEF Steady, ResumeIds
<1>3. \A v \in Walkers \ {w} : walk'[v] = walk[v]
  BY OthersKept
<1>4. QED
  BY <1>1, <1>2, <1>3 DEF Done, Returns, At

\* Tended is kept by a step that holds.
LEMMA TendedOn ==
  ASSUME Base, NEW w \in Walkers, Frame(w), Steady(w), NEW s \in SessionIds, Tended(s), Holds(w, s)
  PROVE  Tended(s)'
<1>1. CASE sessions[s].waiting
  BY <1>1 DEF Holds, Tended
<1>2. ASSUME NEW v \in Walkers, Tends(v, s)
      PROVE  Tended(s)'
  <2>1. CASE v = w
    BY <1>2, <2>1 DEF Holds
  <2>2. CASE v # w
    <3>1. walk'[v] = walk[v] /\ OwnSession(v)' = OwnSession(v)
      BY <2>2, OthersKept
    <3>2. Tends(v, s)'
      BY <1>2, <3>1 DEF Tends
    <3>3. QED
      BY <3>2 DEF Tended
  <2>3. QED
    BY <2>1, <2>2
<1>3. ASSUME NEW j \in ResumeIds, Open(j), resumes[j].session = s, ~Done(j)
      PROVE  Tended(s)'
  <2>1. CASE j = walk[w].job
    <3>1. OwnJob(w, s) /\ ~At(w, "settled")
      BY <1>3, <2>1 DEF OwnJob, OwnSession, Done, ResumeIds
    <3>2. QED
      BY <3>1 DEF Holds
  <2>2. CASE j # walk[w].job
    <3>1. Open(j)' /\ resumes'[j] = resumes[j] /\ ~Done(j)'
      BY <1>3, <2>2, ByOther
    <3>2. QED
      BY <1>3, <3>1 DEF Tended
  <2>3. QED
    BY <2>1, <2>2
<1>4. QED
  BY <1>1, <1>2, <1>3 DEF Tended

\* Awaited is kept by a step that holds.
LEMMA AwaitedOn ==
  ASSUME Base, NEW w \in Walkers, Frame(w), Steady(w), NEW s \in SessionIds, Awaited(s), Holds(w, s)
  PROVE  Awaited(s)'
<1>1. SUFFICES ASSUME sessions'[s].until, ~sessions'[s].waiting,
                      sessions[s].until, ~sessions[s].waiting, sessions'[s].node = sessions[s].node
      PROVE  Awaited(s)'
  BY DEF Holds, Awaited
<1>2. PICK j \in ResumeIds : resumes[j].session = s /\ resumes[j].node = sessions[s].node /\ Returns(j)
  BY <1>1 DEF Awaited
<1>3. CASE j = walk[w].job
  <2>1. walk[w].at \in Returning \cup {"lookExhausted", "cancel"}
    BY <1>2, <1>3, SessionPresent DEF Returns, ResumeIds
  <2>2. walk[w].job # 0 /\ OwnSession(w) = s
    BY <1>2, <1>3 DEF OwnSession, ResumeIds
  <2>3. Returns(j)' \/ Awaited(s)'
    BY <1>2, <1>3, <2>1, <2>2 DEF Holds
  <2>4. resumes'[j].session = s /\ resumes'[j].node = sessions'[s].node
    BY <1>1, <1>2, <1>3, <2>2, SessionPresent DEF Frame, JobsGo, JobGoes
  <2>5. QED
    BY <2>3, <2>4 DEF Awaited
<1>4. CASE j # walk[w].job
  <2>1. CASE Open(j) /\ \A v \in Walkers : walk[v].job = j => walk[v].at \in Returning
    <3>1. resumes'[j] = resumes[j] /\ Returns(j)'
      BY <1>4, <2>1, ByOther
    <3>2. QED
      BY <1>1, <1>2, <3>1 DEF Awaited
  <2>2. ASSUME NEW v \in Walkers, walk[v].job = j, walk[v].at \in {"lookExhausted", "cancel"}
        PROVE  Awaited(s)'
    <3>1. v # w
      BY <1>4, <2>2
    <3>2. walk'[v] = walk[v]
      BY <3>1, OthersKept
    <3>3. resumes'[j].session = s /\ resumes'[j].node = sessions'[s].node
      BY <1>1, <1>2, <2>2, SessionPresent DEF Frame, JobsGo, JobGoes, ResumeIds
    <3>4. Returns(j)'
      BY <2>2, <3>2 DEF Returns
    <3>5. QED
      BY <3>3, <3>4 DEF Awaited
  <2>3. QED
    BY <1>2, <2>1, <2>2 DEF Returns
<1>5. QED
  BY <1>3, <1>4

----
(* What tends a session after a step. *)

\* A session that waits for a message is tended.
LEMMA ByWait ==
  ASSUME NEW s, sessions'[s].waiting
  PROVE  Tended(s)'
BY DEF Tended

\* A session that a walker goes through is tended.
LEMMA ByWalker ==
  ASSUME NEW w \in Walkers, NEW s, walk'[w].session = s, walk'[w].at \in Traversing \cup {"throw"}
  PROVE  Tended(s)'
BY DEF Tended, Tends

\* A session that is about to be cancelled is tended.
LEMMA ByClosing ==
  ASSUME Base, NEW w \in Walkers, Frame(w), NEW s, OwnSession(w) = s,
         walk'[w].job = walk[w].job, walk'[w].at \in Closing
  PROVE  Tended(s)'
<1>1. OwnSession(w)' = OwnSession(w)
  BY OwnKept
<1>2. QED
  BY <1>1 DEF Tended, Tends

\* The walker's own job, still open.
LEMMA ByJob ==
  ASSUME Base, NEW w \in Walkers, Frame(w), NEW s, NEW j \in ResumeIds, walk[w].job = j, OwnSession(w) = s,
         Open(j)', walk'[w].job \in {0, j}, walk'[w].job = 0 \/ walk'[w].at # "settled"
  PROVE  /\ Tended(s)'
         /\ walk'[w].job = 0 \/ walk'[w].at \in Returning => Returns(j)'
<1>1. j # 0 /\ resumes[j].session = s /\ resumes[j].status # "absent"
      /\ \A v \in Walkers \ {w} : walk[v].job # j
  BY SessionPresent DEF ResumeIds
<1>2. resumes'[j].session = s
  BY <1>1 DEF Frame, JobsGo, JobGoes
<1>3. \A v \in Walkers \ {w} : walk'[v].job # j
  BY <1>1, OthersKept
<1>4. ~Done(j)'
  BY <1>1, <1>3 DEF Done, At
<1>5. Tended(s)'
  BY <1>1, <1>2, <1>4 DEF Tended
<1>6. walk'[w].job = 0 \/ walk'[w].at \in Returning => Returns(j)'
  BY <1>1, <1>3 DEF Returns
<1>7. QED
  BY <1>5, <1>6

\* Who goes on, when a session is parked at a node that the job does not name.
LEMMA ByAwaited ==
  ASSUME Base, NEW w \in Walkers, Frame(w), Steady(w), NEW s \in SessionIds, sessions' = sessions,
         Parked(sessions[s]), Awaited(s), walk[w].job # 0 => resumes[walk[w].job].node # sessions[s].node
  PROVE  Tended(s)'
<1>1. CASE sessions[s].waiting
  BY <1>1, ByWait
<1>2. CASE ~sessions[s].waiting
  <2>1. PICK j \in ResumeIds : resumes[j].session = s /\ resumes[j].node = sessions[s].node /\ Returns(j)
    BY <1>2 DEF Awaited, Parked
  <2>2. j # walk[w].job
    BY <2>1 DEF ResumeIds
  <2>3. CASE Open(j) /\ \A v \in Walkers : walk[v].job = j => walk[v].at \in Returning
    <3>1. ~Done(j)
      BY <2>3 DEF Done, At, Returning
    <3>2. Open(j)' /\ resumes'[j] = resumes[j] /\ ~Done(j)'
      BY <2>2, <2>3, <3>1, ByOther
    <3>3. QED
      BY <2>1, <3>2 DEF Tended
  <2>4. ASSUME NEW v \in Walkers, walk[v].job = j, walk[v].at \in {"lookExhausted", "cancel"}
        PROVE  Tended(s)'
    <3>1. v # w /\ OwnSession(v) = s
      BY <2>1, <2>2, <2>4 DEF OwnSession, ResumeIds
    <3>2. walk'[v] = walk[v] /\ OwnSession(v)' = s
      BY <3>1, OthersKept
    <3>3. Tends(v, s)'
      BY <2>4, <3>2 DEF Tends, Closing
    <3>4. QED
      BY <3>3 DEF Tended
  <2>5. QED
    BY <2>1, <2>3, <2>4 DEF Returns
<1>3. QED
  BY <1>1, <1>2

\* Who goes on, when a job trusts another one.
LEMMA ByCovering ==
  ASSUME Base, NEW w \in Walkers, Frame(w), Steady(w), NEW s, OwnSession(w) = s,
         Covering(w) # {}, s \notin TrustsInVain(w)
  PROVE  Tended(s)'
<1>1. PICK j \in Covering(w) : ~\E v \in Walkers : walk[v].job = j /\ At(v, "settled")
  BY DEF TrustsInVain
<1>2. j \in ResumeIds /\ Open(j) /\ j # walk[w].job /\ resumes[j].session = s /\ ~Done(j)
  BY <1>1 DEF Covering, Done
<1>3. Open(j)' /\ resumes'[j] = resumes[j] /\ ~Done(j)'
  BY <1>2, ByOther
<1>4. QED
  BY <1>2, <1>3 DEF Tended

\* A step that writes no job is steady.
LEMMA SteadySame ==
  ASSUME NEW w \in Walkers, resumes' = resumes, walk'[w].job \in {0, walk[w].job}
  PROVE  Steady(w)
BY DEF Steady

Given(w, s) == Base /\ Ways /\ Frame(w) /\ Minded(s) /\ Minded(s)' /\ Awaited(s)

\* Minded, taken apart.
LEMMA StillMinded ==
  ASSUME NEW w \in Walkers, NEW s, Given(w, s)
  PROVE  /\ s \notin forsaken \cup deceived /\ s \notin forsaken' \cup deceived'
         /\ sessions[s].status = "active" /\ sessions'[s].status = "active"
BY DEF Given, Minded

\* Who has a session by a job has the job.
LEMMA JobOf ==
  ASSUME Base, NEW w \in Walkers, NEW s \in SessionIds, OwnSession(w) = s
  PROVE  walk[w].job \in ResumeIds /\ walk[w].job # 0
<1>1. walk[w].job # 0
  BY DEF OwnSession, SessionIds
<1>2. QED
  BY <1>1, SessionPresent

\* A walker inside another session.
LEMMA Elsewhere ==
  ASSUME NEW w \in Walkers, NEW s \in SessionIds, Given(w, s), walk[w].at \in Within,
         walk[w].session # s, sessions'[s] = sessions[s]
  PROVE  Holds(w, s)
<1>1. walk[w].session # 0 /\ walk[w].at \notin Closing
  BY Inside DEF Given, SessionIds
<1>2. OwnSession(w) # s
  BY <1>1, JobOf, StillMinded DEF Given, Ways, Stray
<1>3. QED
  BY <1>1, <1>2 DEF Holds, Tends, OwnJob

\* A walker that leaves its session to its job.
LEMMA LeftHolds ==
  ASSUME NEW w \in Walkers, NEW s \in SessionIds, Given(w, s), walk[w].at \in Within, walk[w].session = s,
         sessions'[s] = sessions[s], resumes' = resumes,
         NEW step \in {"retry", "catch"}, Left(w, step),
         walk[w].at \in {"load", "resume"} => step = "retry",
         walk[w].at \in {"load", "resume"} \/ OwnSession(w) = s
  PROVE  Holds(w, s)
<1>1. walk[w].at \notin Closing \cup {"lookExhausted", "cancel", "look", "retry"}
  BY DEF Within, Traversing, Closing
<1>2. ASSUME OwnSession(w) = s, NEW j \in ResumeIds, walk[w].job = j
      PROVE  Tended(s)' /\ (step = "retry" => Returns(j)')
  <2>1. j # 0 /\ walk'[w].at = step /\ walk'[w].job = j
    BY <1>2 DEF Left, ResumeIds
  <2>2. Open(j)'
    BY <1>2, <2>1, Inside DEF Given, Open
  <2>3. QED
    BY <1>2, <2>1, <2>2, ByJob DEF Given, Returning
<1>3. OwnSession(w) = s => Tended(s)'
  BY <1>2, JobOf DEF Given
<1>4. walk[w].at \in {"load", "resume"} => ~Tends(w, s)
  BY <1>1 DEF Tends, Traversing
<1>5. QED
  BY <1>1, <1>2, <1>3, <1>4 DEF Holds, OwnJob, Returning

\* A walker that goes on in its session.
LEMMA OnHolds ==
  ASSUME NEW w \in Walkers, NEW s \in SessionIds, Given(w, s), walk[w].at \in Traversing,
         walk'[w].session = s, walk'[w].at \in Traversing \cup {"throw"},
         sessions'[s].until => sessions[s].until /\ sessions'[s].waiting = sessions[s].waiting
                               /\ sessions'[s].node = sessions[s].node
  PROVE  Holds(w, s)
<1>1. Tended(s)'
  BY ByWalker
<1>2. walk[w].at \notin Returning \cup {"lookExhausted", "cancel"}
  BY DEF Traversing, Returning
<1>3. QED
  BY <1>1, <1>2 DEF Holds

\* A walker that may stop without forsaking its session has a job of it.
LEMMA UnbackedHere ==
  ASSUME NEW w \in Walkers, NEW s \in SessionIds, Given(w, s), walk[w].session = s,
         walk[w].at \in Traversing \cup {"throw"}, Unbacked(w) \subseteq forsaken'
  PROVE  OwnSession(w) = s
BY StillMinded DEF Unbacked

\* Every step inside a session holds.
LEMMA InsideHolds ==
  ASSUME NEW w \in Walkers, NEW s \in SessionIds, Given(w, s), walk[w].at \in Within,
         \/ LoadFlow(w) \/ Resume(w) \/ MissingNode(w) \/ EnterNode(w) \/ Work(w) \/ WaitForInput(w)
         \/ EnqueueResume(w) \/ StampWaitingUntil(w) \/ HumanTakeover(w) \/ GoToFlow(w)
         \/ CompleteSession(w) \/ Unwind(w)
  PROVE  Holds(w, s)
<1>b. Base
  BY DEF Given
<1>o. CASE walk[w].session # s
  <2>1. sessions'[s] = sessions[s]
    <3>1. CASE LoadFlow(w)
      BY <1>b, <1>o, <3>1, DoesLoad DEF Closed, Rewrote
    <3>2. CASE Resume(w)
      BY <1>b, <1>o, <3>2, DoesResume DEF Rewrote
    <3>3. CASE MissingNode(w)
      BY <1>b, <1>o, <3>3, DoesMissing DEF Closed, Rewrote
    <3>4. CASE EnterNode(w)
      BY <1>b, <1>o, <3>4, DoesEnter DEF Rewrote
    <3>5. CASE Work(w)
      BY <1>b, <1>o, <3>5, DoesWork DEF Kept, Same
    <3>6. CASE WaitForInput(w)
      BY <1>b, <1>o, <3>6, DoesWait DEF Rewrote
    <3>7. CASE EnqueueResume(w)
      BY <1>b, <1>o, <3>7, DoesEnqueue
    <3>8. CASE StampWaitingUntil(w)
      BY <1>b, <1>o, <3>8, DoesStamp DEF Rewrote
    <3>9. CASE HumanTakeover(w)
      BY <1>b, <1>o, <3>9, DoesTakeover DEF Closed, Rewrote
    <3>10. CASE GoToFlow(w)
      BY <1>b, <1>o, <3>10, DoesGoTo DEF Same
    <3>11. CASE CompleteSession(w)
      BY <1>b, <1>o, <3>11, DoesComplete DEF Closed, Rewrote
    <3>12. CASE Unwind(w)
      BY <1>b, <1>o, <3>12, DoesUnwind DEF Same
    <3>13. QED
      BY <3>1, <3>2, <3>3, <3>4, <3>5, <3>6, <3>7, <3>8, <3>9, <3>10, <3>11, <3>12
  <2>2. QED
    BY <1>o, <2>1, Elsewhere
<1>h. CASE walk[w].session = s
  <2>1. CASE LoadFlow(w)
    <3>1. At(w, "load") /\ resumes' = resumes
      BY <1>b, <2>1, DoesLoad
    <3>2. CASE Went(w, "resume") /\ sessions' = sessions
      <4>1. ASSUME NEW j \in ResumeIds, walk[w].job = j, OwnSession(w) = s
            PROVE  Tended(s)' /\ Returns(j)'
        <5>1. Open(j)' /\ walk'[w].job = j /\ walk'[w].at = "resume"
          BY <1>b, <3>1, <3>2, <4>1, Inside DEF Went, Open, ResumeIds
        <5>2. QED
          BY <4>1, <5>1, ByJob DEF Given, Returning
      <4>2. OwnSession(w) = s => Tended(s)'
        BY <1>b, <4>1, JobOf
      <4>3. ~Tends(w, s)
        BY <3>1 DEF Tends, At, Traversing, Closing
      <4>4. QED
        BY <3>2, <4>1, <4>2, <4>3 DEF Holds, OwnJob
    <3>3. CASE Closed(walk[w].session, "cancelled")
      BY <1>h, <3>3, StillMinded DEF Closed, Rewrote
    <3>4. CASE Left(w, "retry") /\ sessions' = sessions
      BY <1>h, <3>1, <3>4, LeftHolds DEF At
    <3>5. QED
      BY <1>b, <2>1, <3>2, <3>3, <3>4, DoesLoad
  <2>2. CASE Resume(w)
    <3>1. At(w, "resume") /\ Rewrote(s, sessions[s].status, sessions[s].node, FALSE, FALSE)
          /\ (WentOn(w, walk[w].node + 1) \/ Went(w, "missing"))
      BY <1>b, <1>h, <2>2, DoesResume
    <3>2. ~sessions'[s].until
      BY <3>1 DEF Rewrote
    <3>3. walk'[w].session = s /\ walk'[w].at \in Traversing
      BY <1>h, <3>1 DEF Went, WentOn, Traversing
    <3>4. Tended(s)' /\ Awaited(s)'
      BY <3>2, <3>3, ByWalker DEF Awaited
    <3>5. QED
      BY <3>4 DEF Holds
  <2>3. CASE MissingNode(w)
    <3>1. At(w, "missing") /\ resumes' = resumes
      BY <1>b, <2>3, DoesMissing
    <3>2. CASE Closed(walk[w].session, "cancelled")
      BY <1>h, <3>2, StillMinded DEF Closed, Rewrote
    <3>3. CASE Left(w, "retry") /\ sessions' = sessions /\ forsaken' = forsaken \cup Unbacked(w)
      <4>1. OwnSession(w) = s
        BY <1>h, <3>1, <3>3, UnbackedHere DEF At, Traversing
      <4>2. QED
        BY <1>h, <3>1, <3>3, <4>1, LeftHolds
    <3>4. QED
      BY <1>b, <2>3, <3>2, <3>3, DoesMissing
  <2>4. CASE EnterNode(w)
    <3>1. /\ At(w, "enter") /\ Went(w, "execute")
          /\ Rewrote(s, sessions[s].status, walk[w].node, sessions[s].waiting, sessions[s].until)
          /\ forsaken' = IF sessions[s].until THEN forsaken \cup {s} ELSE forsaken
      BY <1>b, <1>h, <2>4, DoesEnter
    <3>2. ~sessions[s].until
      BY <3>1, StillMinded
    <3>3. ~sessions'[s].until
      BY <3>1, <3>2 DEF Rewrote
    <3>4. QED
      BY <1>h, <3>1, <3>3, OnHolds DEF At, Went, Traversing
  <2>5. CASE Work(w)
    BY <1>b, <1>h, <2>5, DoesWork, OnHolds DEF Kept, Same, Went, WentOn, At, Traversing
  <2>6. CASE WaitForInput(w)
    <3>1. sessions'[s].waiting /\ At(w, "execute")
      BY <1>b, <1>h, <2>6, DoesWait DEF Rewrote
    <3>2. Tended(s)' /\ Awaited(s)'
      BY <3>1, ByWait DEF Awaited
    <3>3. QED
      BY <3>2 DEF Holds
  <2>7. CASE EnqueueResume(w)
    <3>1. At(w, "execute") /\ sessions' = sessions /\ Went(w, "stamp")
      BY <1>b, <2>7, DoesEnqueue
    <3>2. QED
      BY <1>h, <3>1, OnHolds DEF At, Went, Traversing
  <2>8. CASE StampWaitingUntil(w)
    <3>1. At(w, "stamp") /\ UNCHANGED <<resumes, deceived>> /\ Left(w, "settled")
          /\ Rewrote(s, sessions[s].status, walk[w].node, sessions[s].waiting, TRUE)
      BY <1>b, <1>h, <2>8, DoesStamp
    <3>2. PICK j \in ResumeIds : /\ resumes[j].session = s /\ resumes[j].node = walk[w].node
                                 /\ resumes[j].status = "pending"
      BY <1>b, <1>h, <2>8, DoesStamp, StillMinded
    <3>3. walk[w].job # j
      BY <1>b, <3>2, Inside DEF ResumeIds
    <3>4. Open(j) /\ \A v \in Walkers : walk[v].job # j
      BY <1>b, <3>2, SpotOf DEF Open, WalkFits, ResumeIds
    <3>5. Steady(w)
      BY <3>1, SteadySame DEF Left
    <3>6. Open(j)' /\ resumes'[j] = resumes[j] /\ ~Done(j)' /\ Returns(j)'
      BY <3>3, <3>4, <3>5, ByOther DEF Done, Given
    <3>7. sessions'[s].node = resumes'[j].node
      BY <3>1, <3>2, <3>6 DEF Rewrote
    <3>8. Tended(s)' /\ Awaited(s)'
      BY <3>2, <3>6, <3>7 DEF Tended, Awaited
    <3>9. QED
      BY <3>8 DEF Holds
  <2>9. CASE HumanTakeover(w)
    BY <1>b, <1>h, <2>9, DoesTakeover, StillMinded DEF Closed, Rewrote
  <2>10. CASE GoToFlow(w)
    BY <1>b, <1>h, <2>10, DoesGoTo, StillMinded
  <2>11. CASE CompleteSession(w)
    BY <1>b, <1>h, <2>11, DoesComplete, StillMinded DEF Closed, Rewrote
  <2>12. CASE Unwind(w)
    <3>1. /\ At(w, "throw") /\ Same /\ forsaken' = forsaken \cup Unbacked(w) /\ Left(w, "catch")
      BY <1>b, <2>12, DoesUnwind
    <3>2. OwnSession(w) = s
      BY <1>h, <3>1, UnbackedHere DEF At
    <3>3. QED
      BY <1>h, <3>1, <3>2, LeftHolds DEF Same, At
  <2>13. QED
    BY <2>1, <2>2, <2>3, <2>4, <2>5, <2>6, <2>7, <2>8, <2>9, <2>10, <2>11, <2>12
<1>q. QED
  BY <1>o, <1>h

\* A walker that has nothing to do with the session.
LEMMA Nothing ==
  ASSUME NEW w \in Walkers, NEW s \in SessionIds, Given(w, s),
         OwnSession(w) # s, walk[w].session # s, sessions'[s] = sessions[s]
  PROVE  Holds(w, s)
BY DEF Holds, Tends, OwnJob

\* The steps of a message that is in no session yet hold.
LEMMA MessageHolds ==
  ASSUME NEW w \in Walkers, NEW s \in SessionIds, Given(w, s),
         StartMessage(w) \/ FindWaiting(w) \/ CreateSession(w)
  PROVE  Holds(w, s)
<1>b. Base
  BY DEF Given
<1>1. walk[w].at \in {"idle", "find", "create"}
  BY <1>b, DoesStart, DoesFind, DoesCreate DEF At
<1>2. walk[w].session # s
  <2>1. walk[w].at \notin Within
    BY <1>1 DEF Within, Traversing
  <2>2. QED
    BY <1>b, <2>1, SpotOf DEF SessionIds
<1>3. OwnSession(w) # s
  <2>1. walk[w].at = "idle" => walk[w].job = 0
    BY <1>b, SpotOf, NoWalkIs DEF WalkFits, At
  <2>2. QED
    BY <1>1, <1>b, <2>1, JobOf, StillMinded DEF Given, Ways, Stray
<1>4. sessions'[s] = sessions[s]
  BY <1>b, DoesStart, DoesFind, DoesCreate, StillMinded DEF Kept, Same, Rewrote
<1>5. QED
  BY <1>2, <1>3, <1>4, Nothing

\* A walker with a job, outside of any session.
LEMMA OutsideHolds ==
  ASSUME NEW w \in Walkers, NEW s \in SessionIds, Given(w, s), Steady(w),
         \/ Look(w) \/ Count(w) \/ CompleteJob(w) \/ RecheckJob(w) \/ RetryJob(w) \/ FailJob(w)
         \/ CatchThrow(w) \/ CancelSession(w) \/ LookExhausted(w) \/ CountExhausted(w)
  PROVE  Holds(w, s)
<1>b. Base
  BY DEF Given
<1>1. walk[w].at \in {"look", "count", "settled", "recheck", "retry", "giveUp", "condemned", "catch",
                      "cancel", "cancelDead", "lookExhausted", "countExhausted"}
  BY <1>b, DoesLook, DoesCount, DoesSettle, DoesCatch, DoesCancel, DoesLookExhausted,
     DoesCountExhausted DEF At
<1>2. walk[w].at \notin {"idle", "find", "create"} \cup Within /\ walk[w].at \notin Traversing \cup {"throw"}
  BY <1>1 DEF Within, Traversing
<1>3. PICK j \in ResumeIds : walk[w].job = j
  BY <1>b, <1>2, Outside
<1>4. walk[w].session = 0 /\ s # 0 /\ j # 0
  BY <1>b, <1>2, Outside DEF SessionIds, ResumeIds
<1>5. CASE OwnSession(w) # s
  <2>1. sessions'[s] = sessions[s]
    BY <1>b, <1>5, DoesLook, DoesCount, DoesSettle, DoesCatch, DoesCancel, DoesLookExhausted,
       DoesCountExhausted DEF Kept, Same, Closed, Rewrote
  <2>2. QED
    BY <1>4, <1>5, <2>1, Nothing
<1>6. CASE OwnSession(w) = s
  <2>o. resumes[j].status = IF walk[w].at \in Closing THEN "failed" ELSE "processing"
    BY <1>b, <1>2, <1>3, Job
  <2>1. CASE Look(w)
    <3>1. At(w, "look") /\ Kept /\ Open(j)' /\ walk[w].at \notin Closing
      BY <1>b, <2>1, <2>o, DoesLook DEF At, Closing, Open, Kept, Same
    <3>2. sessions' = sessions /\ ~Tends(w, s)
      BY <1>2, <1>4, <3>1 DEF Tends, Kept, Same
    <3>3. CASE Into(w, "load", s, sessions[s].node)
      <4>1. Tended(s)' /\ Returns(j)'
        BY <1>b, <1>3, <1>6, <3>1, <3>3, ByJob DEF Into, Given, Returning
      <4>2. QED
        BY <1>3, <3>2, <4>1 DEF Holds
    <3>4. CASE sessions[s].node # resumes[j].node /\ Into(w, "count", 0, walk[w].node)
      <4>1. Tended(s)'
        BY <1>b, <1>3, <1>6, <3>1, <3>4, ByJob DEF Into, Given
      <4>2. QED
        BY <1>3, <3>2, <3>4, <4>1 DEF Holds
    <3>5. CASE sessions[s].node # resumes[j].node /\ Parked(sessions[s])
      <4>1. Tended(s)'
        BY <1>b, <1>3, <3>2, <3>5, ByAwaited DEF Given
      <4>2. QED
        BY <1>3, <3>2, <3>5, <4>1 DEF Holds
    <3>6. CASE Went(w, "retry")
      <4>1. Tended(s)' /\ Returns(j)'
        BY <1>b, <1>3, <1>6, <3>1, <3>6, ByJob DEF Went, Given, Returning
      <4>2. QED
        BY <1>3, <3>2, <4>1 DEF Holds
    <3>7. QED
      BY <1>b, <1>3, <1>6, <2>1, <3>3, <3>4, <3>5, <3>6, DoesLook, StillMinded
  <2>2. CASE Count(w)
    <3>1. At(w, "count") /\ UNCHANGED <<sessions, resumes>> /\ walk[w].at \notin Closing \cup Returning
      BY <1>b, <2>2, DoesCount DEF At, Closing, Returning
    <3>2. Open(j)' /\ ~Tends(w, s)
      BY <1>2, <1>4, <2>o, <3>1 DEF Tends, Open
    <3>3. Tended(s)'
      <4>1. CASE Covering(w) # {} /\ deceived' = deceived \cup TrustsInVain(w)
        BY <1>b, <1>6, <4>1, ByCovering, StillMinded DEF Given
      <4>2. CASE walk'[w].job = j /\ walk'[w].at # "settled"
        BY <1>b, <1>3, <1>6, <3>2, <4>2, ByJob DEF Given
      <4>3. QED
        BY <1>b, <1>3, <2>2, <4>1, <4>2, DoesCount DEF Went
    <3>4. QED
      BY <3>1, <3>2, <3>3 DEF Holds, Closing
  <2>3. CASE CompleteJob(w) \/ RecheckJob(w) \/ RetryJob(w) \/ FailJob(w)
    <3>1. sessions' = sessions
      BY <1>b, <2>3, DoesSettle
    <3>2. PICK status \in {"pending", "completed", "failed"}, tries \in 0..MaxTries,
               step \in {"idle", "cancel", "cancelDead"} :
            /\ Noted(j, status, tries)
            /\ IF step = "idle" THEN Stopped(w) ELSE Went(w, step)
            /\ \/ At(w, "settled") /\ status = "completed" /\ step = "idle"
               \/ walk[w].at \in {"recheck", "retry"} /\ status = "pending" /\ step = "idle"
               \/ walk[w].at \in {"retry", "giveUp"} /\ status = "failed" /\ step = "cancel"
               \/ At(w, "condemned") /\ status = "failed" /\ step = "cancelDead"
      BY <1>b, <1>3, <2>3, DoesSettle
    <3>3. ~Tends(w, s) /\ walk[w].at \notin {"look", "load", "resume", "lookExhausted", "cancel"}
      BY <1>2, <1>4, <3>2 DEF Tends, At, Closing
    <3>4. CASE status = "completed"
      <4>1. At(w, "settled")
        BY <3>2, <3>4
      <4>2. QED
        BY <3>1, <3>3, <4>1 DEF Holds, Returning, At
    <3>5. CASE status = "pending"
      <4>1. Open(j)' /\ walk'[w].job = 0
        BY <3>2, <3>5, NoWalkIs DEF Noted, Open, Stopped
      <4>2. Tended(s)' /\ Returns(j)'
        BY <1>b, <1>3, <1>6, <4>1, ByJob DEF Given
      <4>3. QED
        BY <1>3, <3>1, <3>3, <4>2 DEF Holds
    <3>6. CASE step # "idle"
      <4>1. walk'[w].at = step /\ walk'[w].job = j /\ step \in Closing
        BY <1>3, <3>2, <3>6 DEF Went, Closing
      <4>2. Tended(s)'
        BY <1>b, <1>3, <1>6, <4>1, ByClosing DEF Given
      <4>3. walk[w].at = "retry" => Returns(j)'
        BY <3>2, <3>6, <4>1 DEF Returns, At
      <4>4. QED
        BY <1>3, <3>1, <3>3, <4>2, <4>3 DEF Holds, Returning
    <3>7. QED
      BY <3>2, <3>4, <3>5, <3>6
  <2>4. CASE CatchThrow(w)
    <3>1. At(w, "catch") /\ resumes' = resumes
      BY <1>b, <2>4, DoesCatch
    <3>2. CASE sessions' = sessions /\ Went(w, "giveUp")
      <4>1. Open(j)' /\ walk[w].at \notin Closing \cup Returning \cup {"cancel", "lookExhausted"}
        BY <2>o, <3>1 DEF At, Closing, Returning, Open
      <4>2. Tended(s)' /\ ~Tends(w, s)
        BY <1>b, <1>2, <1>3, <1>4, <1>6, <3>2, <4>1, ByJob DEF Went, Given, Tends
      <4>3. QED
        BY <3>2, <4>1, <4>2 DEF Holds
    <3>3. QED
      BY <1>b, <1>6, <2>4, <3>2, DoesCatch, StillMinded DEF Closed, Rewrote
  <2>5. CASE CancelSession(w)
    BY <1>b, <1>6, <2>5, DoesCancel, StillMinded DEF Closed, Rewrote
  <2>6. CASE LookExhausted(w)
    <3>1. At(w, "lookExhausted") /\ UNCHANGED <<sessions, resumes>> /\ walk[w].at \in Closing
      BY <1>b, <2>6, DoesLookExhausted DEF At, Closing
    <3>2. ~OwnJob(w, s)
      BY <1>3, <2>o, <3>1 DEF OwnJob, Open
    <3>3. CASE Went(w, "cancel")
      <4>1. Tended(s)' /\ Returns(j)'
        BY <1>b, <1>3, <1>6, <3>3, ByClosing DEF Went, Given, Closing, Returns
      <4>2. QED
        BY <1>3, <3>1, <4>1 DEF Holds
    <3>4. CASE sessions[s].node # resumes[j].node /\ Into(w, "countExhausted", 0, walk[w].node)
      <4>1. Tended(s)'
        BY <1>b, <1>3, <1>6, <3>4, ByClosing DEF Into, Given, Closing
      <4>2. QED
        BY <1>3, <3>1, <3>4, <4>1 DEF Holds
    <3>5. CASE sessions[s].node # resumes[j].node /\ Parked(sessions[s])
      <4>1. Tended(s)'
        BY <1>b, <1>3, <3>1, <3>5, ByAwaited DEF Given
      <4>2. QED
        BY <1>3, <3>1, <3>5, <4>1 DEF Holds
    <3>6. QED
      BY <1>b, <1>3, <1>6, <2>6, <3>3, <3>4, <3>5, DoesLookExhausted, StillMinded
  <2>7. CASE CountExhausted(w)
    <3>1. At(w, "countExhausted") /\ UNCHANGED <<sessions, resumes>>
          /\ walk[w].at \notin Returning \cup {"lookExhausted", "cancel"}
      BY <1>b, <2>7, DoesCountExhausted DEF At, Returning
    <3>2. Tended(s)'
      <4>1. CASE Covering(w) # {} /\ deceived' = deceived \cup TrustsInVain(w)
        BY <1>b, <1>6, <4>1, ByCovering, StillMinded DEF Given
      <4>2. CASE Went(w, "cancelDead")
        BY <1>b, <1>6, <4>2, ByClosing DEF Went, Given, Closing
      <4>3. QED
        BY <1>b, <1>6, <2>7, <4>1, <4>2, DoesCountExhausted, StillMinded
    <3>3. QED
      BY <3>1, <3>2 DEF Holds
  <2>8. QED
    BY <2>1, <2>2, <2>3, <2>4, <2>5, <2>6, <2>7
<1>7. QED
  BY <1>5, <1>6

\* A death holds: the job, if there is one, is still open, or the session is forsaken.
LEMMA DieHolds ==
  ASSUME NEW w \in Walkers, NEW s \in SessionIds, Given(w, s), Die(w)
  PROVE  Holds(w, s)
<1>b. Base
  BY DEF Given
<1>1. /\ ~At(w, "idle") /\ UNCHANGED <<sessions, resumes>> /\ walk'[w].job = 0
      /\ Unbacked(w) \subseteq forsaken'
      /\ walk[w].at \in Closing => OwnSession(w) \in forsaken'
  BY <1>b, DoesDie, NoWalkIs DEF Departs, Stopped
<1>2. ASSUME OwnSession(w) = s, NEW j \in ResumeIds, walk[w].job = j
      PROVE  Tended(s)' /\ Returns(j)'
  <2>1. walk[w].at \notin Closing
    BY <1>1, <1>2, StillMinded
  <2>2. Open(j)'
    BY <1>b, <1>1, <1>2, <2>1, SpotOf DEF WalkFits, Open, ResumeIds
  <2>3. QED
    BY <1>b, <1>1, <1>2, <2>2, ByJob DEF Given
<1>3. OwnSession(w) = s => Tended(s)'
  BY <1>b, <1>2, JobOf
<1>4. Tends(w, s) => OwnSession(w) = s
  BY <1>1, UnbackedHere DEF Tends
<1>5. QED
  BY <1>1, <1>2, <1>3, <1>4 DEF Holds, OwnJob

\* A step that writes its own job is steady.
LEMMA SteadyNoted ==
  ASSUME NEW w \in Walkers, NEW status, NEW tries, Noted(walk[w].job, status, tries),
         walk'[w].job \in {0, walk[w].job}
  PROVE  Steady(w)
BY DEF Steady, Noted

\* Every step but the claim of a job is steady.
LEMMA Steadily ==
  ASSUME Base, NEW w \in Walkers, Acts(w), ~\E j \in ResumeIds : TakeJob(w, j)
  PROVE  Steady(w)
<1>1. CASE CompleteJob(w) \/ RecheckJob(w) \/ RetryJob(w) \/ FailJob(w)
  BY <1>1, DoesSettle, NoWalkIs, SteadyNoted DEF Stopped, Went
<1>2. CASE EnqueueResume(w)
  BY <1>2, DoesEnqueue DEF Steady, Went
<1>3. CASE StartMessage(w) \/ FindWaiting(w) \/ CreateSession(w)
  BY <1>3, DoesStart, DoesFind, DoesCreate, SteadySame DEF Kept, Same, Went, Into, Left
<1>4. CASE LoadFlow(w) \/ Resume(w) \/ MissingNode(w) \/ EnterNode(w) \/ Work(w)
  BY <1>4, DoesLoad, DoesResume, DoesMissing, DoesEnter, DoesWork, SteadySame
     DEF Kept, Same, Went, WentOn, Left
<1>5. CASE WaitForInput(w) \/ StampWaitingUntil(w) \/ HumanTakeover(w)
  BY <1>5, DoesWait, DoesStamp, DoesTakeover, SteadySame DEF Left
<1>6. CASE GoToFlow(w) \/ CompleteSession(w) \/ Unwind(w)
  BY <1>6, DoesGoTo, DoesComplete, DoesUnwind, SteadySame DEF Same, Into, Left
<1>7. CASE Look(w)
  BY <1>7, DoesLook, SteadySame DEF Kept, Same, Into, Went
<1>8. CASE Count(w) \/ CatchThrow(w)
  BY <1>8, DoesCount, DoesCatch, SteadySame DEF Went
<1>9. CASE CancelSession(w) \/ LookExhausted(w) \/ CountExhausted(w) \/ Die(w)
  BY <1>9, DoesCancel, DoesLookExhausted, DoesCountExhausted, DoesDie, NoWalkIs, SteadySame
     DEF Departs, Stopped, Into, Went
<1>10. QED
  BY <1>1, <1>2, <1>3, <1>4, <1>5, <1>6, <1>7, <1>8, <1>9 DEF Acts

\* Every step but the claim of a job holds.
LEMMA StepHolds ==
  ASSUME NEW w \in Walkers, NEW s \in SessionIds, Given(w, s), Acts(w), ~\E j \in ResumeIds : TakeJob(w, j)
  PROVE  Holds(w, s)
<1>b. Base /\ Steady(w)
  BY Steadily DEF Given
<1>1. CASE \/ LoadFlow(w) \/ Resume(w) \/ MissingNode(w) \/ EnterNode(w) \/ Work(w) \/ WaitForInput(w)
           \/ EnqueueResume(w) \/ StampWaitingUntil(w) \/ HumanTakeover(w) \/ GoToFlow(w)
           \/ CompleteSession(w) \/ Unwind(w)
  <2>1. walk[w].at \in Within
    BY <1>b, <1>1, DoesLoad, DoesResume, DoesMissing, DoesEnter, DoesWork, DoesWait, DoesEnqueue,
       DoesStamp, DoesTakeover, DoesGoTo, DoesComplete, DoesUnwind DEF At, Within, Traversing
  <2>2. QED
    BY <1>1, <2>1, InsideHolds
<1>2. CASE ~(\/ LoadFlow(w) \/ Resume(w) \/ MissingNode(w) \/ EnterNode(w) \/ Work(w) \/ WaitForInput(w)
             \/ EnqueueResume(w) \/ StampWaitingUntil(w) \/ HumanTakeover(w) \/ GoToFlow(w)
             \/ CompleteSession(w) \/ Unwind(w))
  BY <1>b, <1>2, MessageHolds, OutsideHolds, DieHolds DEF Acts
<1>3. QED
  BY <1>1, <1>2

\* A session that has just been made is being walked.
LEMMA NewSession ==
  ASSUME Base, NEW w \in Walkers, Frame(w), Acts(w), NEW s \in SessionIds, Minded(s)', ~Minded(s)
  PROVE  Tended(s)' /\ Awaited(s)'
<1>1. s \notin forsaken \cup deceived /\ s \notin forsaken' \cup deceived' /\ sessions'[s].status = "active"
      /\ sessions[s].status # "active"
  BY DEF Minded, Frame, RestGoes
<1>2. CreateSession(w)
  <2>1. CASE StartMessage(w) \/ FindWaiting(w) \/ Work(w) \/ GoToFlow(w) \/ Unwind(w)
    BY <1>1, <2>1, DoesStart, DoesFind, DoesWork, DoesGoTo, DoesUnwind DEF Kept, Same
  <2>2. CASE LoadFlow(w) \/ MissingNode(w) \/ HumanTakeover(w) \/ CompleteSession(w)
    BY <1>1, <2>2, DoesLoad, DoesMissing, DoesTakeover, DoesComplete DEF Closed, Rewrote
  <2>3. CASE Resume(w) \/ EnterNode(w)
    BY <1>1, <2>3, DoesResume, DoesEnter DEF Rewrote
  <2>4. CASE WaitForInput(w) \/ StampWaitingUntil(w)
    BY <1>1, <2>4, DoesWait, DoesStamp DEF Rewrote
  <2>5. CASE EnqueueResume(w)
    BY <1>1, <2>5, DoesEnqueue
  <2>6. CASE Look(w) \/ Count(w) \/ LookExhausted(w) \/ CountExhausted(w) \/ Die(w)
    BY <1>1, <2>6, DoesLook, DoesCount, DoesLookExhausted, DoesCountExhausted, DoesDie DEF Kept, Same
  <2>7. CASE CompleteJob(w) \/ RecheckJob(w) \/ RetryJob(w) \/ FailJob(w)
    BY <1>1, <2>7, DoesSettle
  <2>8. CASE CatchThrow(w) \/ CancelSession(w)
    BY <1>1, <2>8, DoesCatch, DoesCancel DEF Closed, Rewrote
  <2>9. ASSUME NEW j \in ResumeIds, TakeJob(w, j)
        PROVE  FALSE
    BY <1>1, <2>9, DoesTake
  <2>10. QED
    BY <2>1, <2>2, <2>3, <2>4, <2>5, <2>6, <2>7, <2>8, <2>9 DEF Acts
<1>3. sessions' # sessions
  BY <1>1
<1>4. PICK t \in SessionIds : /\ Rewrote(t, "active", 0, FALSE, FALSE)
                              /\ \/ forsaken' = forsaken \cup {t}
                                 \/ Into(w, "enter", t, 1)
  BY <1>2, <1>3, DoesCreate
<1>5. t = s
  BY <1>1, <1>4 DEF Rewrote
<1>6. Into(w, "enter", s, 1) /\ ~sessions'[s].until
  BY <1>1, <1>4, <1>5 DEF Rewrote
<1>7. Tended(s)'
  BY <1>6, ByWalker DEF Into, Traversing
<1>8. QED
  BY <1>6, <1>7 DEF Awaited

\* The claim of a job: it goes on with the session, or sees to its end.
LEMMA TakenOn ==
  ASSUME Base, NEW w \in Walkers, Frame(w), NEW j \in ResumeIds, TakeJob(w, j),
         NEW s \in SessionIds, Tended(s), Awaited(s)
  PROVE  Tended(s)' /\ Awaited(s)'
<1>1. /\ At(w, "idle") /\ Open(j) /\ (\A v \in Walkers : walk[v].job # j) /\ sessions' = sessions
      /\ walk'[w].job = j
      /\ \/ Noted(j, "processing", resumes[j].tries + 1) /\ walk'[w].at = "look"
         \/ Noted(j, "failed", resumes[j].tries) /\ walk'[w].at = "lookExhausted"
  BY DoesTake
<1>2. walk[w].job = 0 /\ walk[w].session = 0 /\ j # 0 /\ s # 0
  BY <1>1, SpotOf, NoWalkIs DEF WalkFits, ResumeIds, SessionIds
<1>3. \A v \in Walkers \ {w} : walk'[v] = walk[v] /\ walk'[v].job # j
  BY <1>1, OthersKept
<1>4. \A i \in ResumeIds \ {j} : resumes'[i] = resumes[i]
  BY <1>1 DEF Noted
<1>5. resumes'[j].session = resumes[j].session /\ resumes'[j].node = resumes[j].node
  BY <1>1 DEF Noted
<1>6. Returns(j)'
  <2>1. CASE resumes'[j].status = "processing" /\ walk'[w].at = "look"
    BY <1>3, <2>1 DEF Returns, Open, Returning
  <2>2. CASE walk'[w].at = "lookExhausted"
    BY <1>1, <2>2 DEF Returns
  <2>3. QED
    BY <1>1, <2>1, <2>2 DEF Noted
<1>7. Tended(s)'
  <2>1. CASE sessions[s].waiting
    BY <1>1, <2>1, ByWait
  <2>2. ASSUME NEW v \in Walkers, Tends(v, s)
        PROVE  Tended(s)'
    <3>1. v # w
      BY <1>2, <2>2 DEF Tends, OwnSession
    <3>2. walk'[v] = walk[v] /\ OwnSession(v)' = OwnSession(v)
      BY <3>1, OthersKept
    <3>3. Tends(v, s)'
      BY <2>2, <3>2 DEF Tends
    <3>4. QED
      BY <3>3 DEF Tended
  <2>3. ASSUME NEW i \in ResumeIds, Open(i), resumes[i].session = s, ~Done(i)
        PROVE  Tended(s)'
    <3>1. CASE i = j
      <4>1. CASE resumes'[j].status = "processing" /\ walk'[w].at = "look"
        <5>1. Open(j)' /\ ~Done(j)'
          BY <1>3, <4>1 DEF Open, Done, At
        <5>2. QED
          BY <1>5, <2>3, <3>1, <5>1 DEF Tended
      <4>2. CASE walk'[w].at = "lookExhausted"
        <5>1. OwnSession(w)' = s
          BY <1>1, <1>2, <1>5, <2>3, <3>1 DEF OwnSession
        <5>2. Tends(w, s)'
          BY <4>2, <5>1 DEF Tends, Closing
        <5>3. QED
          BY <5>2 DEF Tended
      <4>3. QED
        BY <1>1, <4>1, <4>2 DEF Noted
    <3>2. CASE i # j
      <4>1. Open(i)' /\ resumes'[i].session = s /\ ~Done(i)'
        BY <1>1, <1>3, <1>4, <2>3, <3>2 DEF Open, Done, At
      <4>2. QED
        BY <4>1 DEF Tended
    <3>3. QED
      BY <3>1, <3>2
  <2>4. QED
    BY <2>1, <2>2, <2>3 DEF Tended
<1>8. Awaited(s)'
  <2>1. SUFFICES ASSUME sessions[s].until, ~sessions[s].waiting
        PROVE  Awaited(s)'
    BY <1>1 DEF Awaited
  <2>2. PICK i \in ResumeIds : resumes[i].session = s /\ resumes[i].node = sessions[s].node /\ Returns(i)
    BY <2>1 DEF Awaited
  <2>3. CASE i = j
    BY <1>1, <1>5, <1>6, <2>2, <2>3 DEF Awaited
  <2>4. CASE i # j
    <3>1. CASE Open(i) /\ \A v \in Walkers : walk[v].job = i => walk[v].at \in Returning
      <4>1. Returns(i)'
        BY <1>1, <1>3, <1>4, <2>4, <3>1 DEF Returns, Open
      <4>2. QED
        BY <1>1, <1>4, <2>2, <2>4, <4>1 DEF Awaited
    <3>2. ASSUME NEW v \in Walkers, walk[v].job = i, walk[v].at \in {"lookExhausted", "cancel"}
          PROVE  Awaited(s)'
      <4>1. v # w
        BY <1>2, <3>2 DEF ResumeIds
      <4>2. Returns(i)'
        BY <1>3, <3>2, <4>1 DEF Returns
      <4>3. QED
        BY <1>1, <1>4, <2>2, <2>4, <4>2 DEF Awaited
    <3>3. QED
      BY <2>2, <3>1, <3>2 DEF Returns
  <2>5. QED
    BY <2>3, <2>4
<1>9. QED
  BY <1>7, <1>8

\* Every step of a walker keeps Recovers.
LEMMA RecoversKept ==
  ASSUME Base, Ways, Recovers, NEW w \in Walkers, Frame(w), Acts(w)
  PROVE  Recovers'
<1>1. SUFFICES ASSUME NEW s \in SessionIds, Minded(s)'
      PROVE  Tended(s)' /\ Awaited(s)'
  BY DEF Recovers
<1>2. CASE ~Minded(s)
  BY <1>1, <1>2, NewSession
<1>3. CASE Minded(s)
  <2>1. Tended(s) /\ Awaited(s)
    BY <1>3 DEF Recovers
  <2>2. CASE ~\E j \in ResumeIds : TakeJob(w, j)
    <3>1. Given(w, s)
      BY <1>1, <1>3, <2>1 DEF Given
    <3>2. Holds(w, s) /\ Steady(w)
      BY <2>2, <3>1, StepHolds, Steadily
    <3>3. QED
      BY <2>1, <3>2, TendedOn, AwaitedOn
  <2>3. ASSUME NEW j \in ResumeIds, TakeJob(w, j)
        PROVE  Tended(s)' /\ Awaited(s)'
    BY <2>1, <2>3, TakenOn
  <2>4. QED
    BY <2>2, <2>3
<1>4. QED
  BY <1>2, <1>3

\* Ages keeps Recovers.
LEMMA RecoversAges ==
  ASSUME Base, Recovers, NEW s \in SessionIds, Ages(s)
  PROVE  Recovers'
<1>1. /\ UNCHANGED <<resumes, walk, forsaken, deceived>>
      /\ sessions'[s].status = sessions[s].status /\ sessions'[s].node = sessions[s].node
      /\ sessions'[s].waiting = sessions[s].waiting /\ sessions'[s].until = sessions[s].until
      /\ \A t \in SessionIds \ {s} : sessions'[t] = sessions[t]
  BY DoesAge
<1>2. ASSUME NEW t \in SessionIds, Minded(t)'
      PROVE  Tended(t)' /\ Awaited(t)'
  <2>1. /\ sessions'[t].status = sessions[t].status /\ sessions'[t].node = sessions[t].node
        /\ sessions'[t].waiting = sessions[t].waiting /\ sessions'[t].until = sessions[t].until
    BY <1>1
  <2>2. Tended(t) /\ Awaited(t)
    BY <1>1, <1>2, <2>1 DEF Recovers, Minded
  <2>3. Tended(t)'
    BY <1>1, <2>1, <2>2 DEF Tended, Tends, OwnSession, Open, Done, At
  <2>4. \A j \in ResumeIds : Returns(j)' = Returns(j)
    BY <1>1 DEF Returns, Open
  <2>5. Awaited(t)'
    BY <1>1, <2>1, <2>2, <2>4 DEF Awaited
  <2>6. QED
    BY <2>3, <2>5
<1>3. QED
  BY <1>2 DEF Recovers

----
FlowInv == FlowTypeOK /\ WalksFit /\ RowsFit /\ Ways /\ Recovers /\ Judgements

\* FlowInv holds before the first message.
LEMMA FlowBegins == FlowInit => FlowInv
<1> SUFFICES ASSUME FlowInit
    PROVE  FlowInv
  OBVIOUS
<1>1. /\ sessions = [s \in SessionIds |-> NoSession] /\ resumes = [j \in ResumeIds |-> NoResume]
      /\ walk = [w \in Walkers |-> NoWalk]
      /\ messages = 0 /\ deaths = 0 /\ elders = [j \in ResumeIds |-> {}]
      /\ forsaken = {} /\ deceived = {} /\ overtaken = {}
  BY DEF FlowInit
<1>2. NoSession \in SessionRows /\ NoResume \in ResumeRows /\ NoWalk \in WalkRows
  BY FlowNumbers, NoWalkIs DEF NoSession, NoResume, SessionRows, ResumeRows, Nodes
<1>3. SessionsTyped /\ ResumesTyped /\ WalkTyped /\ RestTyped
  BY <1>1, <1>2, FlowNumbers DEF SessionsTyped, ResumesTyped, WalkTyped, RestTyped
<1>4. FlowTypeOK
  BY <1>3, FlowParts
<1>5. WalksFit
  BY <1>1, NoWalkIs DEF WalksFit, WalkFits, At, Within, Traversing
<1>6. RowsFit
  BY <1>1, NoWalkIs DEF RowsFit, NoResume
<1>7. Ways
  BY <1>1, NoWalkIs DEF Ways, Stray, Hushed
<1>8. Recovers
  BY <1>1 DEF Recovers, Minded, NoSession
<1>9. Judgements
  BY <1>1, NoWalkIs DEF Judgements, Judged
<1>10. QED
  BY <1>4, <1>5, <1>6, <1>7, <1>8, <1>9 DEF FlowInv

\* FlowInv is inductive.
LEMMA FlowGoesOn == FlowInv /\ [FlowNext]_flowVars => FlowInv'
<1> SUFFICES ASSUME FlowInv, [FlowNext]_flowVars
    PROVE  FlowInv'
  OBVIOUS
<1>b. Base
  BY DEF FlowInv, Base
<1>1. ASSUME NEW w \in Walkers, Acts(w), KeepTime
      PROVE  FlowInv'
  <2>1. Frame(w)
    BY <1>b, <1>1, Framed
  <2>2. Base' /\ Ways' /\ Recovers' /\ Judgements'
    BY <1>b, <1>1, <2>1, BaseKept, WaysKept, RecoversKept, JudgementsKept DEF FlowInv
  <2>3. QED
    BY <2>2 DEF FlowInv, Base
<1>2. ASSUME NEW s \in SessionIds, Ages(s), KeepTime
      PROVE  FlowInv'
  <2>1. Base' /\ Ways' /\ Recovers' /\ Judgements'
    BY <1>b, <1>2, BaseAges, WaysAges, RecoversAges, JudgementsAges DEF FlowInv
  <2>2. QED
    BY <2>1 DEF FlowInv, Base
<1>3. CASE UNCHANGED flowVars
  <2>1. FlowTypeOK' /\ WalksFit' /\ RowsFit'
    BY <1>3 DEF flowVars, FlowInv, FlowTypeOK, WalksFit, WalkFits, RowsFit, At
  <2>2. Ways'
    BY <1>3 DEF flowVars, FlowInv, Ways, Stray, Hushed, OwnSession
  <2>3. Recovers'
    BY <1>3 DEF flowVars, FlowInv, Recovers, Minded, Tended, Tends, Awaited, Returns, Done, Open, OwnSession, At
  <2>4. Judgements'
    BY <1>3 DEF flowVars, FlowInv, Judgements, Judged, Still, Covering, Open, OwnSession
  <2>5. QED
    BY <2>1, <2>2, <2>3, <2>4 DEF FlowInv
<1>4. QED
  BY <1>1, <1>2, <1>3 DEF FlowNext, FlowStep, Acts

\* What tends a session is in hand, or covers it.
LEMMA RecoverableFrom == FlowInv => SessionRecoverable
<1> SUFFICES ASSUME FlowInv, NEW s \in SessionIds \ (forsaken \cup deceived), sessions[s].status = "active"
    PROVE  InHand(s) \/ Covered(s)
  BY DEF SessionRecoverable
<1>1. Tended(s)
  BY DEF FlowInv, Recovers, Minded
<1>2. QED
  BY <1>1 DEF Tended, Tends, InHand, Covered

\* A session that is still, with no other job, is not live.
LEMMA LiveStays ==
  FlowInv /\ [FlowNext]_flowVars =>
    \A w \in Walkers : At(w, "cancelDead") /\ walk'[w].at = "idle" /\ sessions' # sessions
      => w \in overtaken \/ ~Live(OwnSession(w), w)
<1> SUFFICES ASSUME FlowInv, NEW w \in Walkers, At(w, "cancelDead"), w \notin overtaken
    PROVE  ~Live(OwnSession(w), w)
  OBVIOUS
<1>1. Still(OwnSession(w)) /\ Covering(w) = {}
  BY DEF FlowInv, Judgements, Judged, At
<1>2. QED
  BY <1>1 DEF Live, Still, Covering

\* FlowInv holds in every reachable state, for any path of nodes and any number of walkers, jobs,
\* messages and deaths (executeFlow, processResumeFlow and the ends of their jobs).
THEOREM FlowInvariant == FlowSpec => []FlowInv
BY FlowBegins, FlowGoesOn, PTL DEF FlowSpec

\* The sessions, the resume_flow jobs and the walkers are well typed.
THEOREM FlowTypeCorrect == FlowSpec => []FlowTypeOK
<1>1. FlowInv => FlowTypeOK
  BY DEF FlowInv
<1>2. QED
  BY <1>1, FlowInvariant, PTL

\* An active session that is not forsaken or deceived is walked, waits for a message or has a job
\* left, however the walkers of executeFlow and processResumeFlow interleave, throw and die.
THEOREM SessionsRecover == FlowSpec => []SessionRecoverable
BY FlowInvariant, RecoverableFrom, PTL

\* A job that takes its session for dead (isSessionParkedRecoverably, wasSessionWrittenRecently)
\* cancels no session that another walker is in or that waits to be resumed, unless another job
\* of the session was settled meanwhile.
THEOREM LiveSessionsStay == FlowSpec => LiveNotCancelled
<1>1. FlowInv /\ [FlowNext]_flowVars =>
        [\A w \in Walkers : At(w, "cancelDead") /\ walk'[w].at = "idle" /\ sessions' # sessions
           => w \in overtaken \/ ~Live(OwnSession(w), w)]_flowVars
  BY LiveStays
<1>2. QED
  BY <1>1, FlowInvariant, PTL DEF FlowSpec, LiveNotCancelled
====
