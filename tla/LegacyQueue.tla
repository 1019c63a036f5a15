---- MODULE LegacyQueue ----
(***************************************************************************)
(* The drain of scheduled_jobs (app/api/cron/jobs/route.ts): overlapping   *)
(* runs each fetch a batch of rows and handle them one after the other.    *)
(* There is no lease: a row is claimed by a compare-and-swap on what the   *)
(* fetch saw, a claim older than five minutes counts as dead, and a run    *)
(* settles a row by its id alone.                                          *)
(*                                                                         *)
(* What the work of a row does belongs to the modules that extend this     *)
(* one; here it ends in any way.  supabase-js returns errors instead of    *)
(* throwing them and most results are not looked at, so a write may be     *)
(* lost without the run noticing.                                          *)
(***************************************************************************)
EXTENDS Integers, FiniteSets

CONSTANTS
  Jobs,         \* rows of scheduled_jobs
  Runs,         \* invocations of the drain that may overlap
  NoJob,        \* a run that works on no row
  MaxAttempts,  \* maxAttempts
  Batch         \* rows fetched at once

ASSUME QueueAssumption ==
  /\ NoJob \notin Jobs
  /\ MaxAttempts \in Nat \ {0}
  /\ Batch \in Nat \ {0}

VARIABLES
  \* scheduled_jobs
  status, attempts,
  due,          \* run_at <= now()
  claimedAt,    \* claimed_at: null, within STALE_INVOCATION_MS, or before it
  \* the runs
  snapshot,     \* the rows a run fetched and has not dealt with, as it saw them
  cur,          \* the row a run works on
  pc,
  \* history
  aged,         \* a claim of the row went stale under a run that was still working
  parked        \* the row was last claimed by a run that gave the attempt back

rows       == <<status, attempts, due, claimedAt>>
queueVars  == <<rows, snapshot, cur, pc, aged, parked>>

Statuses == {"absent", "pending", "processing", "completed", "failed"}

\* What the drain looks at in a fetched row.
Seen(j) == [status   |-> status[j], attempts |-> attempts[j],
            unaged   |-> status[j] = "processing" /\ claimedAt[j] = "null"]

SeenRows == [status : {"pending", "processing"}, attempts : 0..MaxAttempts, unaged : BOOLEAN]
Batches  == UNION {[S -> SeenRows] : S \in SUBSET Jobs}

Worker(r, j) == pc[r] = "work" /\ cur[r] = j

QueueInit ==
  /\ status    = [j \in Jobs |-> "absent"]
  /\ attempts  = [j \in Jobs |-> 0]
  /\ due       = [j \in Jobs |-> FALSE]
  /\ claimedAt = [j \in Jobs |-> "null"]
  /\ snapshot  = [r \in Runs |-> <<>>]
  /\ cur       = [r \in Runs |-> NoJob]
  /\ pc        = [r \in Runs |-> "idle"]
  /\ aged      = [j \in Jobs |-> FALSE]
  /\ parked    = [j \in Jobs |-> FALSE]

QueueTypeOK ==
  /\ status \in [Jobs -> Statuses]
  /\ attempts \in [Jobs -> 0..MaxAttempts]
  /\ due \in [Jobs -> BOOLEAN]
  /\ claimedAt \in [Jobs -> {"null", "fresh", "stale"}]
  /\ cur \in [Runs -> Jobs \cup {NoJob}]
  /\ pc \in [Runs -> {"idle", "loop", "work", "settle"}]
  /\ aged \in [Jobs -> BOOLEAN] /\ parked \in [Jobs -> BOOLEAN]
  /\ snapshot \in [Runs -> Batches]
  /\ \A r \in Runs :
       /\ cur[r] # NoJob <=> pc[r] \in {"work", "settle"}
       /\ cur[r] # NoJob => cur[r] \in DOMAIN snapshot[r]

----
(* Rows and time. *)

\* A producer inserts rows, to be run now or later.
Enqueue(S, now) ==
  /\ \A j \in S : status[j] = "absent"
  /\ status' = [j \in Jobs |-> IF j \in S THEN "pending" ELSE status[j]]
  /\ due'    = [j \in Jobs |-> IF j \in S THEN now ELSE due[j]]
  /\ UNCHANGED <<attempts, claimedAt, snapshot, cur, pc, aged, parked>>

BecomesDue(j) ==
  /\ status[j] \in {"pending", "processing"} /\ ~due[j]
  /\ due' = [due EXCEPT ![j] = TRUE]
  /\ UNCHANGED <<status, attempts, claimedAt, snapshot, cur, pc, aged, parked>>

\* Five minutes pass after a claim, whether or not its run is still at work.
ClaimAges(j) ==
  /\ status[j] = "processing" /\ claimedAt[j] = "fresh"
  /\ claimedAt' = [claimedAt EXCEPT ![j] = "stale"]
  /\ aged' = [aged EXCEPT ![j] = @ \/ \E r \in Runs : Worker(r, j)]
  /\ UNCHANGED <<status, attempts, due, snapshot, cur, pc, parked>>

\* A run of the code before migration 00014 claimed without a stamp, and died.
UnstampedClaim(j) ==
  /\ status[j] = "pending" /\ due[j] /\ attempts[j] < MaxAttempts
  /\ claimedAt[j] = "null"
  /\ status'   = [status EXCEPT ![j] = "processing"]
  /\ attempts' = [attempts EXCEPT ![j] = @ + 1]
  /\ UNCHANGED <<due, claimedAt, snapshot, cur, pc, aged, parked>>

----
(* A run. *)

\* Mutant: a row in processing is never looked at again.
Eligible_pendingOnly(j) == due[j] /\ status[j] = "pending"

Eligible(j) ==
  /\ due[j]
  /\ \/ status[j] = "pending"
     \/ status[j] = "processing" /\ claimedAt[j] # "fresh"

\* The oldest rows up to the limit; which are oldest is left open.
Fetch(r) ==
  /\ pc[r] = "idle"
  /\ \E S \in SUBSET {j \in Jobs : Eligible(j)} :
       /\ Cardinality(S) <= Batch
       /\ S # {j \in Jobs : Eligible(j)} => Cardinality(S) = Batch
       /\ snapshot' = [snapshot EXCEPT ![r] = [j \in S |-> Seen(j)]]
       /\ pc' = [pc EXCEPT ![r] = IF S = {} THEN "idle" ELSE "loop"]
  /\ UNCHANGED <<rows, cur, aged, parked>>

Remaining(r, j) == [i \in DOMAIN snapshot[r] \ {j} |-> snapshot[r][i]]

\* On to the next row of the batch.
Advance(r, j) ==
  /\ snapshot' = [snapshot EXCEPT ![r] = Remaining(r, j)]
  /\ cur' = [cur EXCEPT ![r] = NoJob]
  /\ pc'  = [pc EXCEPT ![r] = IF DOMAIN snapshot[r] = {j} THEN "idle" ELSE "loop"]

Start(r, j, phase) ==
  /\ cur' = [cur EXCEPT ![r] = j]
  /\ pc'  = [pc EXCEPT ![r] = phase]
  /\ UNCHANGED snapshot

AtRow(r, j) == pc[r] = "loop" /\ j \in DOMAIN snapshot[r]

\* A claim without a stamp cannot be aged: start its clock.
Stamp(r, j) ==
  /\ AtRow(r, j) /\ snapshot[r][j].unaged
  /\ \/ /\ status[j] = "processing" /\ claimedAt[j] = "null"
        /\ claimedAt' = [claimedAt EXCEPT ![j] = "fresh"]
     \/ UNCHANGED claimedAt
  /\ Advance(r, j)
  /\ UNCHANGED <<status, attempts, due, aged, parked>>

\* Mutant: the cap is compared with >.
Exhausted_offByOne(n) == n > MaxAttempts

Exhausted(n) == n >= MaxAttempts

\* Write to status by id, whatever it has become; the write may be lost unnoticed.
WriteStatus(j, s) == status' \in {status, [status EXCEPT ![j] = s]}

\* A reclaimed row that has had its attempts: failed, then settled.
Exhaust(r, j) ==
  /\ AtRow(r, j) /\ ~snapshot[r][j].unaged /\ Exhausted(snapshot[r][j].attempts)
  /\ WriteStatus(j, "failed")
  /\ Start(r, j, "settle")
  /\ UNCHANGED <<attempts, due, claimedAt, aged, parked>>

\* Mutant: the swap compares the status only.
Unchanged_statusOnly(r, j) == status[j] = snapshot[r][j].status

\* The swap: status and attempts are still those of the snapshot.
Unchanged(r, j) ==
  status[j] = snapshot[r][j].status /\ attempts[j] = snapshot[r][j].attempts

Swap(r, j) ==
  /\ Unchanged(r, j)
  /\ status'    = [status EXCEPT ![j] = "processing"]
  /\ attempts'  = [attempts EXCEPT ![j] = snapshot[r][j].attempts + 1]
  /\ claimedAt' = [claimedAt EXCEPT ![j] = "fresh"]
  /\ parked'    = [parked EXCEPT ![j] = FALSE]

Claimable(r, j) ==
  AtRow(r, j) /\ ~snapshot[r][j].unaged /\ ~Exhausted(snapshot[r][j].attempts)

Claim(r, j) ==
  /\ Claimable(r, j)
  /\ Swap(r, j)
  /\ Start(r, j, "work")
  /\ UNCHANGED <<due, aged>>

\* The swap found another row than the snapshot's, failed, or its answer was lost:
\* the run passes on, even when the row is now claimed.
PassOver(r, j) ==
  /\ Claimable(r, j)
  /\ Swap(r, j) \/ UNCHANGED <<status, attempts, claimedAt, parked>>
  /\ Advance(r, j)
  /\ UNCHANGED <<due, aged>>

----
(* How work ends. *)

AtWork(r) == pc[r] = "work"

Complete(r) ==
  /\ AtWork(r)
  /\ WriteStatus(cur[r], "completed")
  /\ Advance(r, cur[r])
  /\ UNCHANGED <<attempts, due, claimedAt, aged, parked>>

\* GatewayOperationPendingError, SessionRecheckError: look again later, and put the
\* attempts back to what the snapshot says.
Park(r) ==
  /\ AtWork(r)
  /\ LET j == cur[r] IN
       \/ /\ status'   = [status EXCEPT ![j] = "pending"]
          /\ due'      = [due EXCEPT ![j] = FALSE]
          /\ attempts' = [attempts EXCEPT ![j] = snapshot[r][j].attempts]
          /\ parked'   = [parked EXCEPT ![j] = TRUE]
       \/ UNCHANGED <<status, due, attempts, parked>>
  /\ Advance(r, cur[r])
  /\ UNCHANGED <<claimedAt, aged>>

\* Mutant: the retry too puts the attempts back.
RetryAttempts_restored(r) == [attempts EXCEPT ![cur[r]] = snapshot[r][cur[r]].attempts]

\* A retry keeps the attempt it used.
RetryAttempts(r) == attempts

Retry(r) ==
  /\ AtWork(r)
  /\ ~Exhausted(snapshot[r][cur[r]].attempts + 1)
  /\ \/ /\ status'   = [status EXCEPT ![cur[r]] = "pending"]
        /\ due'      = [due EXCEPT ![cur[r]] = FALSE]
        /\ attempts' = RetryAttempts(r)
     \/ UNCHANGED <<status, due, attempts>>
  /\ Advance(r, cur[r])
  /\ UNCHANGED <<claimedAt, aged, parked>>

\* Out of attempts, or an error that no retry can help.
GiveUp(r) ==
  /\ AtWork(r)
  /\ WriteStatus(cur[r], "failed")
  /\ Start(r, cur[r], "settle")
  /\ UNCHANGED <<attempts, due, claimedAt, aged, parked>>

\* settleFailedWork has returned.
Settled(r) ==
  /\ pc[r] = "settle"
  /\ Advance(r, cur[r])
  /\ UNCHANGED <<rows, aged, parked>>

\* The invocation ends anywhere: killed, out of memory, out of time.
Crash(r) ==
  /\ pc[r] # "idle"
  /\ snapshot' = [snapshot EXCEPT ![r] = <<>>]
  /\ cur' = [cur EXCEPT ![r] = NoJob]
  /\ pc'  = [pc EXCEPT ![r] = "idle"]
  /\ UNCHANGED <<rows, aged, parked>>

----
QueueNext ==
  \/ \E S \in SUBSET Jobs, now \in BOOLEAN : Enqueue(S, now)
  \/ \E j \in Jobs : BecomesDue(j) \/ ClaimAges(j) \/ UnstampedClaim(j)
  \/ \E r \in Runs : Fetch(r) \/ Complete(r) \/ Park(r) \/ Retry(r) \/ GiveUp(r)
                     \/ Settled(r) \/ Crash(r)
  \/ \E r \in Runs, j \in Jobs : Stamp(r, j) \/ Exhaust(r, j) \/ Claim(r, j) \/ PassOver(r, j)

QueueSpec == QueueInit /\ [][QueueNext]_queueVars

----
(* Properties. *)

\* Overlapping runs never work on the same row, as long as every claim is settled
\* within the five minutes: the swap on status and attempts stops them.  (Once a
\* claim has gone stale under its run, a late settlement by id may free the row
\* of another run.)
Exclusive ==
  \A j \in Jobs : ~aged[j] =>
    \A r, s \in Runs : Worker(r, j) /\ Worker(s, j) => r = s

\* A row that failed and waits for its backoff is not claimed before that: no old
\* snapshot matches its attempts.  (A row that was parked has the attempts of
\* older snapshots again, and these may claim it at once.)
BackoffRespected ==
  [][\A j \in Jobs :
       status[j] = "pending" /\ status'[j] = "processing" /\ ~due[j]
         => parked[j] \/ aged[j]]_queueVars
====
