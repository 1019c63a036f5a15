---- MODULE MCPublishing ----
(***************************************************************************)
(* Publishing on small instances: what bounds them beside the constants.   *)
(* The bounds are on operators' actions, of which no fairness is assumed.  *)
(***************************************************************************)
EXTENDS Publishing, TLC

\* A retry by the operator makes a difference where attempts are ambiguous.
AsksWhenAmbiguous == Idempotent => \A k \in Keys : Retried(k)' = 0

\* A job that finds its content only ends early: the liveness run looks at that.
ContentIsRead == overlooked' = {}

\* After a status read that wrote an attempt off, what matters is the job's own retry.
RetriesAfterMisread ==
  (\E k \in Keys : misread[k] # {}) =>
    ~Unschedule /\ ~SweepVariant /\ \A k \in Keys : ~CancelJob(k)

AskingSpec ==
  Init /\ [][Next /\ AsksWhenAmbiguous /\ ContentIsRead /\ RetriesAfterMisread]_vars

\* The keys are alike: the first one is used first.
First == CHOOSE k \in Keys : TRUE

FirstComesFirst == state[First] = "absent" => \A k \in Keys \ {First} : state'[k] = "absent"

\* Only the first job is cancelled from the list of tasks.
CancelsFirst == \A k \in Keys \ {First} : ~CancelJob(k)

OrderedSpec == Init /\ [][Next /\ FirstComesFirst /\ CancelsFirst]_vars /\ Fairness
====
