---- MODULE LegacyQueueProofs ----
(***************************************************************************)
(* Type correctness of LegacyQueue, and that overlapping runs do not work  *)
(* on the same row, for every set of rows and runs.                        *)
(***************************************************************************)
EXTENDS LegacyQueue, TLAPS

----
(* Batches. *)

\* What Fetch stores in a snapshot: rows, as they were seen.
LEMMA BatchFacts ==
  ASSUME NEW b \in Batches
  PROVE  /\ DOMAIN b \subseteq Jobs
         /\ \A j \in DOMAIN b : b[j] \in SeenRows
  BY DEF Batches

LEMMA BatchIntro ==
  ASSUME NEW S \in SUBSET Jobs, NEW b \in [S -> SeenRows]
  PROVE  b \in Batches
  BY DEF Batches

LEMMA EmptyBatch == <<>> \in Batches
  <1>1. <<>> \in [{} -> SeenRows]
    OBVIOUS
  <1>2. {} \in SUBSET Jobs
    OBVIOUS
  <1> QED
    BY <1>1, <1>2 DEF Batches

\* Dropping a row from a batch leaves the others as they were seen.
LEMMA RemainingFacts ==
  ASSUME QueueTypeOK, NEW r \in Runs, NEW j \in Jobs
  PROVE  /\ Remaining(r, j) \in Batches
         /\ DOMAIN Remaining(r, j) = DOMAIN snapshot[r] \ {j}
         /\ \A i \in DOMAIN Remaining(r, j) : Remaining(r, j)[i] = snapshot[r][i]
  <1>1. snapshot[r] \in Batches
    BY DEF QueueTypeOK
  <1>2. DOMAIN snapshot[r] \ {j} \in SUBSET Jobs
    BY <1>1, BatchFacts
  <1>3. Remaining(r, j) \in [DOMAIN snapshot[r] \ {j} -> SeenRows]
    BY <1>1, BatchFacts DEF Remaining
  <1>4. Remaining(r, j) \in Batches
    BY <1>2, <1>3, BatchIntro
  <1> QED
    BY <1>4 DEF Remaining

LEMMA SeenTyped ==
  ASSUME QueueTypeOK, NEW j \in Jobs, Eligible(j)
  PROVE  Seen(j) \in SeenRows
  BY DEF QueueTypeOK, Eligible, Seen, SeenRows, Statuses

----
(* Types. *)

RowsTyped ==
  /\ status \in [Jobs -> Statuses]
  /\ attempts \in [Jobs -> 0..MaxAttempts]
  /\ due \in [Jobs -> BOOLEAN]
  /\ claimedAt \in [Jobs -> {"null", "fresh", "stale"}]
  /\ aged \in [Jobs -> BOOLEAN] /\ parked \in [Jobs -> BOOLEAN]

RunsTyped ==
  /\ cur \in [Runs -> Jobs \cup {NoJob}]
  /\ pc \in [Runs -> {"idle", "loop", "work", "settle"}]
  /\ snapshot \in [Runs -> Batches]
  /\ \A r \in Runs :
       /\ cur[r] # NoJob <=> pc[r] \in {"work", "settle"}
       /\ cur[r] # NoJob => cur[r] \in DOMAIN snapshot[r]

LEMMA TypeParts ==
  /\ QueueTypeOK <=> RowsTyped /\ RunsTyped
  /\ QueueTypeOK' <=> RowsTyped' /\ RunsTyped'
  BY DEF QueueTypeOK, RowsTyped, RunsTyped

\* A run that goes on to the next row of its batch.
LEMMA AdvanceTyped ==
  ASSUME QueueTypeOK, NEW r \in Runs, NEW j \in Jobs, Advance(r, j)
  PROVE  RunsTyped'
<1>1. Remaining(r, j) \in Batches
  BY RemainingFacts
<1>2. snapshot' \in [Runs -> Batches]
  BY <1>1 DEF QueueTypeOK, Advance
<1>3. /\ cur' \in [Runs -> Jobs \cup {NoJob}]
      /\ pc' \in [Runs -> {"idle", "loop", "work", "settle"}]
  BY DEF QueueTypeOK, Advance
<1>4. ASSUME NEW s \in Runs
      PROVE  /\ cur'[s] # NoJob <=> pc'[s] \in {"work", "settle"}
             /\ cur'[s] # NoJob => cur'[s] \in DOMAIN snapshot'[s]
  <2>1. CASE s = r
    BY <2>1 DEF QueueTypeOK, Advance
  <2>2. CASE s # r
    BY <2>2 DEF QueueTypeOK, Advance
  <2>3. QED
    BY <2>1, <2>2
<1>5. QED
  BY <1>2, <1>3, <1>4 DEF RunsTyped

\* A run that starts to work on a row, or to settle it.
LEMMA StartTyped ==
  ASSUME QueueTypeOK, NEW r \in Runs, NEW j \in Jobs, j \in DOMAIN snapshot[r],
         NEW phase \in {"work", "settle"}, Start(r, j, phase)
  PROVE  RunsTyped'
  BY QueueAssumption DEF QueueTypeOK, Start, RunsTyped

LEMMA FetchTyped ==
  ASSUME QueueTypeOK, NEW r \in Runs, Fetch(r)
  PROVE  RunsTyped'
<1>1. PICK S \in SUBSET {j \in Jobs : Eligible(j)} :
        /\ snapshot' = [snapshot EXCEPT ![r] = [j \in S |-> Seen(j)]]
        /\ pc' = [pc EXCEPT ![r] = IF S = {} THEN "idle" ELSE "loop"]
  BY DEF Fetch
<1>2. [j \in S |-> Seen(j)] \in [S -> SeenRows]
  BY SeenTyped
<1>3. [j \in S |-> Seen(j)] \in Batches
  BY <1>2, BatchIntro
<1>4. snapshot' \in [Runs -> Batches]
  BY <1>1, <1>3 DEF QueueTypeOK
<1>5. pc[r] = "idle" /\ cur[r] = NoJob /\ cur' = cur
  BY DEF Fetch, QueueTypeOK
<1>6. QED
  BY <1>1, <1>4, <1>5 DEF QueueTypeOK, RunsTyped

LEMMA CrashTyped ==
  ASSUME QueueTypeOK, NEW r \in Runs, Crash(r)
  PROVE  RunsTyped'
  BY EmptyBatch DEF QueueTypeOK, Crash, RunsTyped

\* The row a run works on is one of its snapshot.
LEMMA CurTyped ==
  ASSUME QueueTypeOK, NEW r \in Runs, pc[r] \in {"work", "settle"}
  PROVE  /\ cur[r] \in Jobs /\ cur[r] \in DOMAIN snapshot[r]
         /\ snapshot[r][cur[r]].attempts \in 0..MaxAttempts
<1>1. cur[r] \in Jobs /\ cur[r] \in DOMAIN snapshot[r] /\ snapshot[r] \in Batches
  BY DEF QueueTypeOK
<1>2. snapshot[r][cur[r]] \in SeenRows
  BY <1>1, BatchFacts
<1>3. QED
  BY <1>1, <1>2 DEF SeenRows

LEMMA AtRowTyped ==
  ASSUME QueueTypeOK, NEW r \in Runs, NEW j \in Jobs, AtRow(r, j)
  PROVE  /\ j \in DOMAIN snapshot[r]
         /\ snapshot[r][j].attempts \in 0..MaxAttempts
<1>1. snapshot[r] \in Batches /\ j \in DOMAIN snapshot[r]
  BY DEF QueueTypeOK, AtRow
<1>2. QED
  BY <1>1, BatchFacts DEF SeenRows

\* Every step of the drain keeps the types.
LEMMA TypeStep == QueueTypeOK /\ [QueueNext]_queueVars => QueueTypeOK'
<1> SUFFICES ASSUME QueueTypeOK, [QueueNext]_queueVars PROVE QueueTypeOK'
  OBVIOUS
<1> USE QueueAssumption
<1>1. CASE UNCHANGED queueVars
  BY <1>1 DEF QueueTypeOK, queueVars, rows
<1>2. ASSUME NEW S \in SUBSET Jobs, NEW now \in BOOLEAN, Enqueue(S, now) PROVE QueueTypeOK'
  BY <1>2 DEF QueueTypeOK, Enqueue, Statuses
<1>3. ASSUME NEW j \in Jobs, BecomesDue(j) PROVE QueueTypeOK'
  BY <1>3 DEF QueueTypeOK, BecomesDue
<1>4. ASSUME NEW j \in Jobs, ClaimAges(j) PROVE QueueTypeOK'
  <2>1. aged' \in [Jobs -> BOOLEAN]
    <3>1. (aged[j] \/ \E r \in Runs : Worker(r, j)) \in BOOLEAN
      BY Zenon
    <3>2. QED
      BY <1>4, <3>1 DEF QueueTypeOK, ClaimAges
  <2>2. QED
    BY <1>4, <2>1 DEF QueueTypeOK, ClaimAges
<1>5. ASSUME NEW j \in Jobs, UnstampedClaim(j) PROVE QueueTypeOK'
  BY <1>5 DEF QueueTypeOK, UnstampedClaim, Statuses
<1>6. ASSUME NEW r \in Runs, Fetch(r) PROVE QueueTypeOK'
  BY <1>6, FetchTyped, TypeParts DEF RowsTyped, Fetch, rows
<1>7. ASSUME NEW r \in Runs, AtWork(r), Complete(r) \/ Park(r) \/ Retry(r) PROVE QueueTypeOK'
  <2>1. cur[r] \in Jobs /\ snapshot[r][cur[r]].attempts \in 0..MaxAttempts
    BY <1>7, CurTyped DEF AtWork
  <2>2. RunsTyped'
    BY <1>7, <2>1, AdvanceTyped DEF Complete, Park, Retry
  <2>3. RowsTyped'
    BY <1>7, <2>1, TypeParts
    DEF RowsTyped, Complete, Park, Retry, RetryAttempts, WriteStatus, Statuses
  <2>4. QED
    BY <2>2, <2>3, TypeParts
<1>8. ASSUME NEW r \in Runs, GiveUp(r) PROVE QueueTypeOK'
  <2>1. cur[r] \in Jobs /\ cur[r] \in DOMAIN snapshot[r]
    BY <1>8, CurTyped DEF GiveUp, AtWork
  <2>2. RunsTyped'
    BY <1>8, <2>1, StartTyped DEF GiveUp
  <2>3. RowsTyped'
    BY <1>8, <2>1, TypeParts DEF RowsTyped, GiveUp, WriteStatus, Statuses
  <2>4. QED
    BY <2>2, <2>3, TypeParts
<1>9. ASSUME NEW r \in Runs, Settled(r) PROVE QueueTypeOK'
  <2>1. cur[r] \in Jobs
    BY <1>9, CurTyped DEF Settled
  <2>2. RunsTyped'
    BY <1>9, <2>1, AdvanceTyped DEF Settled
  <2>3. QED
    BY <1>9, <2>2, TypeParts DEF RowsTyped, Settled, rows
<1>10. ASSUME NEW r \in Runs, Crash(r) PROVE QueueTypeOK'
  BY <1>10, CrashTyped, TypeParts DEF RowsTyped, Crash, rows
<1>11. ASSUME NEW r \in Runs, NEW j \in Jobs, Stamp(r, j) PROVE QueueTypeOK'
  <2>1. RunsTyped'
    BY <1>11, AdvanceTyped DEF Stamp
  <2>2. QED
    BY <1>11, <2>1, TypeParts DEF RowsTyped, Stamp
<1>12. ASSUME NEW r \in Runs, NEW j \in Jobs, Exhaust(r, j) PROVE QueueTypeOK'
  <2>1. RunsTyped'
    BY <1>12, AtRowTyped, StartTyped DEF Exhaust
  <2>2. QED
    BY <1>12, <2>1, TypeParts DEF RowsTyped, Exhaust, WriteStatus, Statuses
<1>13. ASSUME NEW r \in Runs, NEW j \in Jobs, Claim(r, j) PROVE QueueTypeOK'
  <2>1. snapshot[r][j].attempts + 1 \in 0..MaxAttempts /\ j \in DOMAIN snapshot[r]
    BY <1>13, AtRowTyped DEF Claim, Claimable, Exhausted
  <2>2. RunsTyped'
    BY <1>13, <2>1, StartTyped DEF Claim
  <2>3. QED
    BY <1>13, <2>1, <2>2, TypeParts DEF RowsTyped, Claim, Swap, Statuses
<1>14. ASSUME NEW r \in Runs, NEW j \in Jobs, PassOver(r, j) PROVE QueueTypeOK'
  <2>1. snapshot[r][j].attempts + 1 \in 0..MaxAttempts
    BY <1>14, AtRowTyped DEF PassOver, Claimable, Exhausted
  <2>2. RunsTyped'
    BY <1>14, AdvanceTyped DEF PassOver
  <2>3. RowsTyped'
    <3>1. UNCHANGED <<due, aged>>
      BY <1>14 DEF PassOver
    <3>2. CASE Swap(r, j)
      BY <2>1, <3>1, <3>2, TypeParts DEF RowsTyped, Swap, Statuses
    <3>3. CASE UNCHANGED <<status, attempts, claimedAt, parked>>
      BY <3>1, <3>3, TypeParts DEF RowsTyped
    <3>4. QED
      BY <1>14, <3>2, <3>3 DEF PassOver
  <2>4. QED
    BY <2>2, <2>3, TypeParts
<1>15. QED
  BY <1>1, <1>2, <1>3, <1>4, <1>5, <1>6, <1>7, <1>8, <1>9, <1>10, <1>11, <1>12, <1>13, <1>14
  DEF QueueNext, Complete, Park, Retry

\* Every row, snapshot and run holds a value of its type, and attempts stay within
\* the cap.
THEOREM QueueTypeCorrect == QueueSpec => []QueueTypeOK
<1>1. QueueInit => QueueTypeOK
  BY QueueAssumption, EmptyBatch DEF QueueInit, QueueTypeOK, Statuses
<1>2. QED
  BY <1>1, TypeStep, PTL DEF QueueSpec

----
(* Exclusion. *)

\* What a working run relies on while its claim is fresh: the row is as the claim
\* left it, no other run works on it, and no snapshot of it is newer than the run's.
Holding(r, j) ==
  /\ status[j] = "processing" /\ claimedAt[j] = "fresh"
  /\ attempts[j] = snapshot[r][j].attempts + 1
  /\ ~Exhausted(snapshot[r][j].attempts)
  /\ \A s \in Runs : s # r =>
       /\ ~Worker(s, j)
       /\ j \in DOMAIN snapshot[s] => snapshot[s][j].attempts <= snapshot[r][j].attempts

\* No snapshot is ahead of its row.
NotAhead(s, j) == j \in DOMAIN snapshot[s] => snapshot[s][j].attempts <= attempts[j]

RowInv(j) ==
  ~aged[j] => /\ \A s \in Runs : NotAhead(s, j)
              /\ \A r \in Runs : Worker(r, j) => Holding(r, j)

\* The inductive invariant.
SwapInv == QueueTypeOK /\ \A j \in Jobs : RowInv(j)

\* The attempts of a snapshot and of a row are numbers.
LEMMA RowNumbers ==
  ASSUME QueueTypeOK, NEW j \in Jobs
  PROVE  /\ attempts[j] \in Nat
         /\ \A r \in Runs : j \in DOMAIN snapshot[r] => snapshot[r][j].attempts \in Nat
         /\ \A r \in Runs : Worker(r, j) => j \in DOMAIN snapshot[r]
<1>1. attempts[j] \in Nat
  BY QueueAssumption DEF QueueTypeOK
<1>2. ASSUME NEW r \in Runs, j \in DOMAIN snapshot[r] PROVE snapshot[r][j].attempts \in Nat
  BY <1>2, BatchFacts, QueueAssumption DEF QueueTypeOK, SeenRows
<1>3. ASSUME NEW r \in Runs, Worker(r, j) PROVE j \in DOMAIN snapshot[r]
  BY <1>3, QueueAssumption DEF QueueTypeOK, Worker
<1>4. QED
  BY <1>1, <1>2, <1>3

\* Nothing that matters to a row changes: its columns stay, snapshots of it and its
\* workers may only go.
QuietFor(j) ==
  /\ status'[j] = status[j] /\ attempts'[j] = attempts[j]
  /\ claimedAt'[j] = claimedAt[j] /\ aged'[j] = aged[j]
  /\ \A s \in Runs :
       /\ Worker(s, j)' => Worker(s, j)
       /\ j \in DOMAIN snapshot'[s] =>
            j \in DOMAIN snapshot[s] /\ snapshot'[s][j] = snapshot[s][j]

LEMMA QuietRow ==
  ASSUME SwapInv, QueueTypeOK', NEW j \in Jobs, QuietFor(j)
  PROVE  RowInv(j)'
<1> SUFFICES ASSUME ~aged[j], ~aged'[j]
             PROVE  /\ \A s \in Runs : NotAhead(s, j)'
                    /\ \A r \in Runs : Worker(r, j)' => Holding(r, j)'
  BY DEF RowInv, QuietFor
<1>1. RowInv(j) /\ QueueTypeOK
  BY DEF SwapInv
<1>2. ASSUME NEW s \in Runs PROVE NotAhead(s, j)'
  BY <1>1 DEF RowInv, NotAhead, QuietFor
<1>3. ASSUME NEW r \in Runs, Worker(r, j)' PROVE Holding(r, j)'
  <2>1. Worker(r, j) /\ Holding(r, j) /\ j \in DOMAIN snapshot[r]
    BY <1>1, <1>3, RowNumbers DEF RowInv, QuietFor
  <2>2. j \in DOMAIN snapshot'[r]
    BY <1>3, QueueAssumption DEF QueueTypeOK, Worker
  <2>3. snapshot'[r][j] = snapshot[r][j]
    BY <2>2 DEF QuietFor
  <2>4. QED
    BY <2>1, <2>3 DEF Holding, QuietFor, Exhausted
<1>4. QED
  BY <1>2, <1>3

\* Without workers, a row only has to stay ahead of its snapshots.
LEMMA FreeRow ==
  ASSUME NEW j \in Jobs, \A r \in Runs : ~Worker(r, j)', \A s \in Runs : NotAhead(s, j)'
  PROVE  RowInv(j)'
  BY DEF RowInv

\* How a step of run r moves the runs: others keep their place, r drops row k.
LEMMA AdvanceQuiet ==
  ASSUME QueueTypeOK, NEW r \in Runs, NEW k \in Jobs, Advance(r, k), NEW j \in Jobs
  PROVE  \A s \in Runs :
           /\ Worker(s, j)' => Worker(s, j) /\ s # r
           /\ j \in DOMAIN snapshot'[s] =>
                j \in DOMAIN snapshot[s] /\ snapshot'[s][j] = snapshot[s][j]
<1>1. ASSUME NEW s \in Runs, s = r
      PROVE  /\ ~Worker(s, j)'
             /\ j \in DOMAIN snapshot'[s] =>
                  j \in DOMAIN snapshot[s] /\ snapshot'[s][j] = snapshot[s][j]
  <2>1. ~Worker(s, j)'
    BY <1>1 DEF Advance, Worker, QueueTypeOK
  <2>2. snapshot'[s] = Remaining(r, k)
    BY <1>1 DEF Advance, QueueTypeOK
  <2>3. /\ DOMAIN Remaining(r, k) = DOMAIN snapshot[r] \ {k}
        /\ \A i \in DOMAIN Remaining(r, k) : Remaining(r, k)[i] = snapshot[r][i]
    BY RemainingFacts
  <2>4. QED
    BY <1>1, <2>1, <2>2, <2>3
<1>2. ASSUME NEW s \in Runs, s # r
      PROVE  /\ Worker(s, j)' <=> Worker(s, j)
             /\ snapshot'[s] = snapshot[s]
  BY <1>2 DEF Advance, Worker, QueueTypeOK
<1>3. QED
  BY <1>1, <1>2

LEMMA StartQuiet ==
  ASSUME QueueTypeOK, NEW r \in Runs, NEW k \in Jobs, NEW phase \in {"work", "settle"},
         Start(r, k, phase), NEW j \in Jobs
  PROVE  \A s \in Runs :
           /\ snapshot'[s] = snapshot[s]
           /\ Worker(s, j)' => (Worker(s, j) /\ s # r) \/ (s = r /\ j = k /\ phase = "work")
<1>1. snapshot' = snapshot
  BY DEF Start
<1>2. ASSUME NEW s \in Runs, Worker(s, j)'
      PROVE  (Worker(s, j) /\ s # r) \/ (s = r /\ j = k /\ phase = "work")
  <2>1. pc'[s] = "work" /\ cur'[s] = j
    BY <1>2 DEF Worker
  <2>2. CASE s = r
    <3>1. pc'[r] = phase /\ cur'[r] = k
      BY DEF Start, QueueTypeOK
    <3>2. QED
      BY <2>1, <2>2, <3>1
  <2>3. CASE s # r
    <3>1. pc'[s] = pc[s] /\ cur'[s] = cur[s]
      BY <2>3 DEF Start, QueueTypeOK
    <3>2. QED
      BY <2>1, <2>3, <3>1 DEF Worker
  <2>4. QED
    BY <2>2, <2>3
<1>3. QED
  BY <1>1, <1>2

\* A swap that succeeds finds no run at work: its snapshot would be newer than theirs.
LEMMA SwapFindsNobody ==
  ASSUME SwapInv, NEW r \in Runs, NEW j \in Jobs, ~aged[j],
         AtRow(r, j), Unchanged(r, j)
  PROVE  \A s \in Runs : ~Worker(s, j)
<1> SUFFICES ASSUME NEW s \in Runs, Worker(s, j) PROVE FALSE
  OBVIOUS
<1>1. Holding(s, j) /\ s # r
  BY DEF SwapInv, RowInv, Worker, AtRow
<1>2. snapshot[r][j].attempts <= snapshot[s][j].attempts
  BY <1>1 DEF Holding, AtRow
<1>3. /\ attempts[j] = snapshot[s][j].attempts + 1
      /\ attempts[j] = snapshot[r][j].attempts
  BY <1>1 DEF Holding, Unchanged
<1>4. snapshot[s][j].attempts \in Nat /\ snapshot[r][j].attempts \in Nat
  BY RowNumbers DEF SwapInv, AtRow
<1>5. QED
  BY <1>2, <1>3, <1>4

\* A step that leaves the columns of row j alone and only moves run r on.
LEMMA ElsewhereRow ==
  ASSUME SwapInv, QueueTypeOK', NEW r \in Runs, NEW k \in Jobs, NEW j \in Jobs,
         \/ Advance(r, k)
         \/ Start(r, k, "settle")
         \/ Start(r, k, "work") /\ j # k,
         status'[j] = status[j], attempts'[j] = attempts[j],
         claimedAt'[j] = claimedAt[j], aged'[j] = aged[j]
  PROVE  RowInv(j)'
<1>1. QueueTypeOK
  BY DEF SwapInv
<1>2. CASE Advance(r, k)
  <2>1. QuietFor(j)
    BY <1>1, <1>2, AdvanceQuiet DEF QuietFor
  <2>2. QED
    BY <2>1, QuietRow
<1>3. CASE Start(r, k, "settle")
  <2>1. QuietFor(j)
    BY <1>1, <1>3, StartQuiet DEF QuietFor
  <2>2. QED
    BY <2>1, QuietRow
<1>4. CASE Start(r, k, "work") /\ j # k
  <2>1. QuietFor(j)
    BY <1>1, <1>4, StartQuiet DEF QuietFor
  <2>2. QED
    BY <2>1, QuietRow
<1>5. QED
  BY <1>2, <1>3, <1>4

\* A row that nobody worked on, after run r moves on without it or settles it.
LEMMA LeftRow ==
  ASSUME SwapInv, NEW r \in Runs, NEW k \in Jobs, NEW j \in Jobs, ~aged[j],
         Advance(r, k) \/ Start(r, k, "settle"),
         \A s \in Runs : Worker(s, j) => s = r,
         attempts'[j] >= attempts[j], attempts'[j] \in Nat
  PROVE  RowInv(j)'
<1>1. QueueTypeOK /\ \A s \in Runs : NotAhead(s, j)
  BY DEF SwapInv, RowInv
<1>2. \A s \in Runs : /\ Worker(s, j)' => Worker(s, j) /\ s # r
                      /\ j \in DOMAIN snapshot'[s] =>
                           j \in DOMAIN snapshot[s] /\ snapshot'[s][j] = snapshot[s][j]
  <2>1. CASE Advance(r, k)
    BY <1>1, <2>1, AdvanceQuiet
  <2>2. CASE Start(r, k, "settle")
    BY <1>1, <2>2, StartQuiet
  <2>3. QED
    BY <2>1, <2>2
<1>3. \A s \in Runs : ~Worker(s, j)'
  BY <1>2
<1>4. ASSUME NEW s \in Runs PROVE NotAhead(s, j)'
  <2> SUFFICES ASSUME j \in DOMAIN snapshot'[s]
               PROVE  snapshot'[s][j].attempts <= attempts'[j]
    BY DEF NotAhead
  <2>1. j \in DOMAIN snapshot[s] /\ snapshot'[s][j] = snapshot[s][j]
    BY <1>2
  <2>2. snapshot[s][j].attempts \in Nat /\ attempts[j] \in Nat
    BY <1>1, <2>1, RowNumbers
  <2>3. snapshot[s][j].attempts <= attempts[j]
    BY <1>1, <2>1 DEF NotAhead
  <2>4. QED
    BY <2>1, <2>2, <2>3
<1>5. QED
  BY <1>3, <1>4, FreeRow

\* Steps that move no run and give no worker a row.
LEMMA StillRow ==
  ASSUME SwapInv, NEW j \in Jobs, ~aged[j], UNCHANGED <<snapshot, cur, pc>>,
         \A r \in Runs : ~Worker(r, j),
         attempts'[j] >= attempts[j], attempts'[j] \in Nat
  PROVE  RowInv(j)'
<1>1. QueueTypeOK /\ \A s \in Runs : NotAhead(s, j)
  BY DEF SwapInv, RowInv
<1>2. \A r \in Runs : ~Worker(r, j)'
  BY DEF Worker
<1>3. ASSUME NEW s \in Runs PROVE NotAhead(s, j)'
  <2>1. j \in DOMAIN snapshot[s] => snapshot[s][j].attempts \in Nat /\ attempts[j] \in Nat
    BY <1>1, RowNumbers
  <2>2. QED
    BY <1>1, <2>1 DEF NotAhead
<1>4. QED
  BY <1>2, <1>3, FreeRow

\* A row in any state but a fresh claim has no worker.
LEMMA NoWorker ==
  ASSUME SwapInv, NEW j \in Jobs, ~aged[j], ~(status[j] = "processing" /\ claimedAt[j] = "fresh")
  PROVE  \A r \in Runs : ~Worker(r, j)
  BY DEF SwapInv, RowInv, Holding

\* A fetch sees rows as they are, and none that a run holds.
LEMMA FetchRow ==
  ASSUME SwapInv, QueueTypeOK', NEW r \in Runs, Fetch(r), NEW j \in Jobs
  PROVE  RowInv(j)'
<1>1. QueueTypeOK /\ pc[r] = "idle" /\ UNCHANGED <<rows, cur, aged>>
  BY DEF SwapInv, Fetch
<1>2. PICK S \in SUBSET {i \in Jobs : Eligible(i)} :
        /\ snapshot' = [snapshot EXCEPT ![r] = [i \in S |-> Seen(i)]]
        /\ pc' = [pc EXCEPT ![r] = IF S = {} THEN "idle" ELSE "loop"]
  BY DEF Fetch
<1>3. \A s \in Runs : Worker(s, j)' => Worker(s, j)
  <2>1. ASSUME NEW s \in Runs, Worker(s, j)' PROVE s # r
    BY <1>1, <1>2, <2>1 DEF QueueTypeOK, Worker
  <2>2. QED
    BY <1>1, <1>2, <2>1 DEF QueueTypeOK, Worker
<1>4. \A s \in Runs : snapshot'[s] = IF s = r THEN [i \in S |-> Seen(i)] ELSE snapshot[s]
  BY <1>1, <1>2 DEF QueueTypeOK
<1>5. CASE j \in S
  <2> SUFFICES ASSUME ~aged[j] PROVE RowInv(j)'
    BY <1>1 DEF RowInv
  <2>1. \A s \in Runs : ~Worker(s, j)
    BY <1>5, NoWorker DEF Eligible
  <2>2. \A s \in Runs : NotAhead(s, j)
    BY DEF SwapInv, RowInv
  <2>3. attempts'[j] = attempts[j] /\ attempts[j] \in Nat
    BY <1>1, RowNumbers DEF rows
  <2>4. ASSUME NEW s \in Runs PROVE NotAhead(s, j)'
    <3>1. CASE s = r
      <4>1. snapshot'[s] = [i \in S |-> Seen(i)]
        BY <1>4, <3>1
      <4>2. snapshot'[s][j] = Seen(j)
        BY <1>5, <4>1
      <4>3. Seen(j).attempts = attempts[j]
        BY DEF Seen
      <4>4. QED
        BY <2>3, <4>2, <4>3 DEF NotAhead
    <3>2. CASE s # r
      BY <1>4, <2>2, <2>3, <3>2 DEF NotAhead
    <3>3. QED
      BY <3>1, <3>2
  <2>5. QED
    BY <1>3, <2>1, <2>4, FreeRow
<1>6. CASE j \notin S
  <2>1. ASSUME NEW s \in Runs, j \in DOMAIN snapshot'[s]
        PROVE  j \in DOMAIN snapshot[s] /\ snapshot'[s][j] = snapshot[s][j]
    <3>1. s # r
      BY <1>4, <1>6, <2>1
    <3>2. QED
      BY <1>4, <2>1, <3>1
  <2>2. QuietFor(j)
    BY <1>1, <1>3, <2>1 DEF QuietFor, rows
  <2>3. QED
    BY <2>2, QuietRow
<1>7. QED
  BY <1>5, <1>6

\* The row a run claims is the run's alone, and newer than every snapshot.
LEMMA ClaimedRow ==
  ASSUME SwapInv, QueueTypeOK', NEW r \in Runs, NEW j \in Jobs, Claim(r, j)
  PROVE  RowInv(j)'
<1> SUFFICES ASSUME ~aged[j] PROVE RowInv(j)'
  BY DEF RowInv, Claim
<1>1. /\ QueueTypeOK /\ AtRow(r, j) /\ Unchanged(r, j) /\ Start(r, j, "work")
      /\ ~Exhausted(snapshot[r][j].attempts)
  BY DEF SwapInv, Claim, Claimable, Swap
<1>2. \A s \in Runs : ~Worker(s, j)
  BY <1>1, SwapFindsNobody
<1>3. /\ status'[j] = "processing" /\ claimedAt'[j] = "fresh"
      /\ attempts'[j] = snapshot[r][j].attempts + 1
  BY <1>1 DEF Claim, Swap, QueueTypeOK
<1>4. attempts[j] = snapshot[r][j].attempts /\ attempts[j] \in Nat
  BY <1>1, RowNumbers DEF Unchanged
<1>5. \A s \in Runs : /\ snapshot'[s] = snapshot[s]
                      /\ Worker(s, j)' => s = r
  BY <1>1, <1>2, StartQuiet
<1>6. ASSUME NEW s \in Runs, j \in DOMAIN snapshot'[s]
      PROVE  /\ snapshot'[s][j].attempts <= snapshot[r][j].attempts
             /\ snapshot'[s][j].attempts <= attempts'[j]
  <2>1. j \in DOMAIN snapshot[s] /\ snapshot'[s][j] = snapshot[s][j]
    BY <1>5, <1>6
  <2>2. snapshot[s][j].attempts <= attempts[j]
    BY <2>1 DEF SwapInv, RowInv, NotAhead
  <2>3. snapshot[s][j].attempts \in Nat
    BY <1>1, <2>1, RowNumbers
  <2>4. QED
    BY <1>3, <1>4, <2>1, <2>2, <2>3
<1>7. \A s \in Runs : NotAhead(s, j)'
  BY <1>6 DEF NotAhead
<1>8. Holding(r, j)'
  BY <1>1, <1>3, <1>5, <1>6 DEF Holding, Exhausted
<1>9. QED
  BY <1>5, <1>7, <1>8 DEF RowInv

\* A run that passes a row over may have claimed it without knowing.
LEMMA PassedRow ==
  ASSUME SwapInv, QueueTypeOK', NEW r \in Runs, NEW j \in Jobs, PassOver(r, j)
  PROVE  RowInv(j)'
<1> SUFFICES ASSUME ~aged[j] PROVE RowInv(j)'
  BY DEF RowInv, PassOver
<1>1. QueueTypeOK /\ AtRow(r, j) /\ Advance(r, j) /\ aged' = aged
  BY DEF SwapInv, PassOver, Claimable
<1>2. CASE Swap(r, j)
  <2>1. \A s \in Runs : ~Worker(s, j)
    BY <1>1, <1>2, SwapFindsNobody DEF Swap
  <2>2. attempts'[j] = attempts[j] + 1 /\ attempts[j] \in Nat
    BY <1>1, <1>2, RowNumbers DEF Swap, Unchanged, QueueTypeOK
  <2>3. attempts'[j] >= attempts[j] /\ attempts'[j] \in Nat
    BY <2>2
  <2>4. QED
    BY <1>1, <2>1, <2>3, LeftRow
<1>3. CASE UNCHANGED <<status, attempts, claimedAt, parked>>
  BY <1>1, <1>3, ElsewhereRow
<1>4. QED
  BY <1>2, <1>3 DEF PassOver

\* A snapshot out of attempts is not that of a row some run works on.
LEMMA ExhaustedRow ==
  ASSUME SwapInv, QueueTypeOK', NEW r \in Runs, NEW j \in Jobs, Exhaust(r, j)
  PROVE  RowInv(j)'
<1> SUFFICES ASSUME ~aged[j] PROVE RowInv(j)'
  BY DEF RowInv, Exhaust
<1>1. /\ QueueTypeOK /\ AtRow(r, j) /\ Start(r, j, "settle") /\ attempts' = attempts
      /\ Exhausted(snapshot[r][j].attempts)
  BY DEF SwapInv, Exhaust
<1>2. ASSUME NEW s \in Runs, Worker(s, j) PROVE FALSE
  <2>1. Holding(s, j) /\ s # r
    BY <1>1, <1>2 DEF SwapInv, RowInv, Worker, AtRow
  <2>2. snapshot[r][j].attempts <= snapshot[s][j].attempts /\ ~Exhausted(snapshot[s][j].attempts)
    BY <1>1, <2>1 DEF Holding, AtRow
  <2>3. snapshot[s][j].attempts \in Nat /\ snapshot[r][j].attempts \in Nat
    BY <1>1, <1>2, RowNumbers DEF AtRow
  <2>4. QED
    BY <1>1, <2>2, <2>3, QueueAssumption DEF Exhausted
<1>3. attempts'[j] >= attempts[j] /\ attempts'[j] \in Nat
  BY <1>1, RowNumbers
<1>4. QED
  BY <1>1, <1>2, <1>3, LeftRow

\* The run that ends its work is the only one on the row.
LEMMA LoneWorker ==
  ASSUME SwapInv, NEW r \in Runs, NEW j \in Jobs, ~aged[j], Worker(r, j)
  PROVE  /\ \A s \in Runs : Worker(s, j) => s = r
         /\ \A s \in Runs : s # r /\ j \in DOMAIN snapshot[s] =>
              snapshot[s][j].attempts <= snapshot[r][j].attempts
  BY DEF SwapInv, RowInv, Holding

\* Work that ends without touching the attempts.
LEMMA EndedRow ==
  ASSUME SwapInv, QueueTypeOK', NEW r \in Runs, Complete(r) \/ Retry(r) \/ GiveUp(r),
         NEW j \in Jobs, j = cur[r]
  PROVE  RowInv(j)'
<1>1. QueueTypeOK /\ Worker(r, j) /\ aged' = aged /\ attempts' = attempts
  BY DEF SwapInv, Complete, Retry, GiveUp, AtWork, Worker, RetryAttempts
<1>2. Advance(r, j) \/ Start(r, j, "settle")
  BY DEF Complete, Retry, GiveUp
<1> SUFFICES ASSUME ~aged[j] PROVE RowInv(j)'
  BY <1>1 DEF RowInv
<1>3. \A s \in Runs : Worker(s, j) => s = r
  BY <1>1, LoneWorker
<1>4. attempts'[j] >= attempts[j] /\ attempts'[j] \in Nat
  BY <1>1, RowNumbers
<1>5. QED
  BY <1>1, <1>2, <1>3, <1>4, LeftRow

\* A parked row goes back to attempts that no other snapshot exceeds.
LEMMA ParkedRow ==
  ASSUME SwapInv, QueueTypeOK', NEW r \in Runs, Park(r), NEW j \in Jobs, j = cur[r]
  PROVE  RowInv(j)'
<1>1. QueueTypeOK /\ Worker(r, j) /\ aged' = aged /\ Advance(r, j)
  BY DEF SwapInv, Park, AtWork, Worker
<1> SUFFICES ASSUME ~aged[j] PROVE RowInv(j)'
  BY <1>1 DEF RowInv
<1>2. /\ \A s \in Runs : Worker(s, j) => s = r
      /\ \A s \in Runs : s # r /\ j \in DOMAIN snapshot[s] =>
           snapshot[s][j].attempts <= snapshot[r][j].attempts
  BY <1>1, LoneWorker
<1>3. attempts'[j] = attempts[j] \/ attempts'[j] = snapshot[r][j].attempts
  BY <1>1 DEF Park, QueueTypeOK
<1>4. CASE attempts'[j] = attempts[j]
  <2>1. attempts'[j] >= attempts[j] /\ attempts'[j] \in Nat
    BY <1>1, <1>4, RowNumbers
  <2>2. QED
    BY <1>1, <1>2, <2>1, LeftRow
<1>5. CASE attempts'[j] = snapshot[r][j].attempts
  <2>1. \A s \in Runs : /\ Worker(s, j)' => Worker(s, j) /\ s # r
                        /\ j \in DOMAIN snapshot'[s] =>
                             j \in DOMAIN snapshot[s] /\ snapshot'[s][j] = snapshot[s][j]
    BY <1>1, AdvanceQuiet
  <2>2. \A s \in Runs : ~Worker(s, j)'
    BY <1>2, <2>1
  <2>3. j \notin DOMAIN snapshot'[r]
    <3>1. snapshot'[r] = Remaining(r, j)
      BY <1>1 DEF Advance, QueueTypeOK
    <3>2. DOMAIN Remaining(r, j) = DOMAIN snapshot[r] \ {j}
      BY <1>1, RemainingFacts
    <3>3. QED
      BY <3>1, <3>2
  <2>4. ASSUME NEW s \in Runs PROVE NotAhead(s, j)'
    <3> SUFFICES ASSUME j \in DOMAIN snapshot'[s]
                 PROVE  snapshot'[s][j].attempts <= attempts'[j]
      BY DEF NotAhead
    <3>1. s # r
      BY <2>3
    <3>2. QED
      BY <1>2, <1>5, <2>1, <3>1
  <2>5. QED
    BY <1>1, <2>2, <2>4, FreeRow
<1>6. QED
  BY <1>3, <1>4, <1>5

\* Every step of the drain keeps every row's part of the invariant.
LEMMA SwapStep == SwapInv /\ [QueueNext]_queueVars => SwapInv'
<1> SUFFICES ASSUME SwapInv, [QueueNext]_queueVars PROVE SwapInv'
  OBVIOUS
<1>a. QueueTypeOK /\ QueueTypeOK'
  BY TypeStep DEF SwapInv
<1> SUFFICES ASSUME NEW j \in Jobs PROVE RowInv(j)'
  BY <1>a DEF SwapInv
<1>b. attempts[j] \in Nat
  BY <1>a, RowNumbers
<1>1. CASE UNCHANGED queueVars
  <2>1. QuietFor(j)
    BY <1>1 DEF QuietFor, queueVars, rows, Worker
  <2>2. QED
    BY <1>a, <2>1, QuietRow
<1>2. ASSUME NEW S \in SUBSET Jobs, NEW now \in BOOLEAN, Enqueue(S, now) PROVE RowInv(j)'
  <2>1. CASE j \in S /\ ~aged[j]
    <3>1. \A r \in Runs : ~Worker(r, j)
      BY <1>2, <2>1, NoWorker DEF Enqueue
    <3>2. attempts'[j] >= attempts[j] /\ attempts'[j] \in Nat
      BY <1>2, <1>b DEF Enqueue
    <3>3. QED
      BY <1>2, <2>1, <3>1, <3>2, StillRow DEF Enqueue
  <2>2. CASE j \notin S
    <3>1. QuietFor(j)
      BY <1>2, <2>2 DEF QuietFor, Enqueue, Worker
    <3>2. QED
      BY <1>a, <3>1, QuietRow
  <2>3. CASE aged[j]
    BY <1>2, <2>3 DEF RowInv, Enqueue
  <2>4. QED
    BY <2>1, <2>2, <2>3
<1>3. ASSUME NEW k \in Jobs, BecomesDue(k) PROVE RowInv(j)'
  <2>1. QuietFor(j)
    BY <1>3 DEF QuietFor, BecomesDue, Worker
  <2>2. QED
    BY <1>a, <2>1, QuietRow
<1>4. ASSUME NEW k \in Jobs, ClaimAges(k) PROVE RowInv(j)'
  <2>1. CASE j # k
    <3>1. QuietFor(j)
      BY <1>a, <1>4, <2>1 DEF QuietFor, ClaimAges, Worker, QueueTypeOK
    <3>2. QED
      BY <1>a, <3>1, QuietRow
  <2>2. CASE j = k /\ ~aged'[j]
    <3>1. ~aged[j] /\ \A r \in Runs : ~Worker(r, j)
      BY <1>a, <1>4, <2>2 DEF ClaimAges, QueueTypeOK
    <3>2. attempts'[j] >= attempts[j] /\ attempts'[j] \in Nat
      BY <1>4, <1>b DEF ClaimAges
    <3>3. QED
      BY <1>4, <3>1, <3>2, StillRow DEF ClaimAges
  <2>3. CASE aged'[j]
    BY <2>3 DEF RowInv
  <2>4. QED
    BY <2>1, <2>2, <2>3
<1>5. ASSUME NEW k \in Jobs, UnstampedClaim(k) PROVE RowInv(j)'
  <2>1. CASE j # k
    <3>1. QuietFor(j)
      BY <1>a, <1>5, <2>1 DEF QuietFor, UnstampedClaim, Worker, QueueTypeOK
    <3>2. QED
      BY <1>a, <3>1, QuietRow
  <2>2. CASE j = k /\ ~aged[j]
    <3>1. \A r \in Runs : ~Worker(r, j)
      BY <1>5, <2>2, NoWorker DEF UnstampedClaim
    <3>2. attempts'[j] = attempts[j] + 1
      BY <1>a, <1>5, <2>2 DEF UnstampedClaim, QueueTypeOK
    <3>3. attempts'[j] >= attempts[j] /\ attempts'[j] \in Nat
      BY <1>b, <3>2
    <3>4. QED
      BY <1>5, <2>2, <3>1, <3>3, StillRow DEF UnstampedClaim
  <2>3. CASE aged[j]
    BY <1>5, <2>3 DEF RowInv, UnstampedClaim
  <2>4. QED
    BY <2>1, <2>2, <2>3
<1>6. ASSUME NEW r \in Runs, Fetch(r) PROVE RowInv(j)'
  BY <1>a, <1>6, FetchRow
<1>7. ASSUME NEW r \in Runs, Complete(r) \/ Park(r) \/ Retry(r) \/ GiveUp(r) PROVE RowInv(j)'
  <2>1. cur[r] \in Jobs
    BY <1>a, <1>7, CurTyped DEF Complete, Park, Retry, GiveUp, AtWork
  <2>2. CASE j = cur[r]
    BY <1>a, <1>7, <2>2, EndedRow, ParkedRow
  <2>3. CASE j # cur[r]
    <3>1. /\ status'[j] = status[j] /\ attempts'[j] = attempts[j]
          /\ claimedAt'[j] = claimedAt[j] /\ aged'[j] = aged[j]
      BY <1>a, <1>7, <2>1, <2>3
      DEF QueueTypeOK, Complete, Park, Retry, GiveUp, RetryAttempts, WriteStatus
    <3>2. Advance(r, cur[r]) \/ Start(r, cur[r], "settle")
      BY <1>7 DEF Complete, Park, Retry, GiveUp
    <3>3. QED
      BY <1>a, <2>1, <3>1, <3>2, ElsewhereRow
  <2>4. QED
    BY <2>2, <2>3
<1>8. ASSUME NEW r \in Runs, Settled(r) PROVE RowInv(j)'
  <2>1. cur[r] \in Jobs /\ Advance(r, cur[r])
    BY <1>a, <1>8, CurTyped DEF Settled
  <2>2. QED
    BY <1>a, <1>8, <2>1, ElsewhereRow DEF Settled, rows
<1>9. ASSUME NEW r \in Runs, Crash(r) PROVE RowInv(j)'
  <2>1. ASSUME NEW s \in Runs
        PROVE  /\ Worker(s, j)' => Worker(s, j)
               /\ j \in DOMAIN snapshot'[s] =>
                    j \in DOMAIN snapshot[s] /\ snapshot'[s][j] = snapshot[s][j]
    <3>1. CASE s = r
      BY <1>a, <1>9, <3>1 DEF Crash, Worker, QueueTypeOK
    <3>2. CASE s # r
      BY <1>a, <1>9, <3>2 DEF Crash, Worker, QueueTypeOK
    <3>3. QED
      BY <3>1, <3>2
  <2>2. QuietFor(j)
    BY <1>9, <2>1 DEF QuietFor, Crash, rows
  <2>3. QED
    BY <1>a, <2>2, QuietRow
<1>10. ASSUME NEW r \in Runs, NEW k \in Jobs, Stamp(r, k) PROVE RowInv(j)'
  <2>1. Advance(r, k) /\ UNCHANGED <<status, attempts, aged>>
    BY <1>10 DEF Stamp
  <2>2. CASE claimedAt'[j] = claimedAt[j]
    BY <1>a, <2>1, <2>2, ElsewhereRow
  <2>3. CASE claimedAt'[j] # claimedAt[j] /\ ~aged[j]
    <3>1. claimedAt[j] = "null"
      BY <1>a, <1>10, <2>3 DEF Stamp, QueueTypeOK
    <3>2. \A s \in Runs : ~Worker(s, j)
      BY <2>3, <3>1, NoWorker
    <3>3. attempts'[j] >= attempts[j] /\ attempts'[j] \in Nat
      BY <1>b, <2>1
    <3>4. QED
      BY <2>1, <2>3, <3>2, <3>3, LeftRow
  <2>4. CASE aged[j]
    BY <2>1, <2>4 DEF RowInv
  <2>5. QED
    BY <2>2, <2>3, <2>4
<1>11. ASSUME NEW r \in Runs, NEW k \in Jobs, Exhaust(r, k) \/ Claim(r, k) \/ PassOver(r, k)
       PROVE RowInv(j)'
  <2>1. CASE j = k
    BY <1>a, <1>11, <2>1, ExhaustedRow, ClaimedRow, PassedRow
  <2>2. CASE j # k
    <3>1. /\ status'[j] = status[j] /\ attempts'[j] = attempts[j]
          /\ claimedAt'[j] = claimedAt[j] /\ aged'[j] = aged[j]
      BY <1>a, <1>11, <2>2 DEF QueueTypeOK, Exhaust, Claim, PassOver, Swap, WriteStatus
    <3>2. Advance(r, k) \/ Start(r, k, "settle") \/ (Start(r, k, "work") /\ j # k)
      BY <1>11, <2>2 DEF Exhaust, Claim, PassOver
    <3>3. QED
      BY <1>a, <3>1, <3>2, ElsewhereRow
  <2>3. QED
    BY <2>1, <2>2
<1>12. QED
  BY <1>1, <1>2, <1>3, <1>4, <1>5, <1>6, <1>7, <1>8, <1>9, <1>10, <1>11 DEF QueueNext

\* Nothing is held at first.
LEMMA SwapInitially == QueueInit => SwapInv
<1> SUFFICES ASSUME QueueInit PROVE SwapInv
  OBVIOUS
<1>1. QueueTypeOK
  BY QueueAssumption, EmptyBatch DEF QueueInit, QueueTypeOK, Statuses
<1>2. ASSUME NEW j \in Jobs PROVE RowInv(j)
  BY DEF QueueInit, RowInv, NotAhead, Worker
<1>3. QED
  BY <1>1, <1>2 DEF SwapInv

\* Overlapping runs never work on the same row, as long as its claims are settled
\* within the five minutes.
THEOREM Exclusion == QueueSpec => []Exclusive
<1>1. SwapInv => Exclusive
  BY DEF SwapInv, RowInv, Holding, Exclusive
<1>2. QED
  BY <1>1, SwapInitially, SwapStep, PTL DEF QueueSpec
----
(* Backoff. *)

\* A row that waits for its backoff is ahead of every snapshot of it, and a row that was never
\* inserted is in none.
Waits(j) == status[j] = "pending" /\ ~due[j] /\ ~aged[j] /\ ~parked[j]

Ahead(j) ==
  /\ status[j] = "absent" => \A s \in Runs : j \notin DOMAIN snapshot[s]
  /\ Waits(j) => \A s \in Runs : j \in DOMAIN snapshot[s] => snapshot[s][j].attempts < attempts[j]

AheadInv == \A j \in Jobs : Ahead(j)

\* Only a fetch adds to what a run has seen, and it sees neither of these rows.
LEMMA SeenBefore ==
  ASSUME QueueTypeOK, [QueueNext]_queueVars, NEW j \in Jobs, status[j] = "absent" \/ Waits(j)
  PROVE  \A s \in Runs : j \in DOMAIN snapshot'[s] =>
            j \in DOMAIN snapshot[s] /\ snapshot'[s][j] = snapshot[s][j]
<1>0. snapshot \in [Runs -> Batches]
  BY DEF QueueTypeOK
<1>1. ASSUME NEW r \in Runs, Fetch(r), NEW s \in Runs, j \in DOMAIN snapshot'[s]
      PROVE  j \in DOMAIN snapshot[s] /\ snapshot'[s][j] = snapshot[s][j]
  <2>1. PICK S \in SUBSET {k \in Jobs : Eligible(k)} : snapshot' = [snapshot EXCEPT ![r] = [k \in S |-> Seen(k)]]
    BY <1>1 DEF Fetch
  <2>2. ~Eligible(j)
    BY DEF Eligible, Waits
  <2>3. s # r
    BY <1>0, <1>1, <2>1, <2>2
  <2>4. QED
    BY <1>0, <1>1, <2>1, <2>3
<1>2. ASSUME NEW r \in Runs, NEW i, snapshot' = [snapshot EXCEPT ![r] = Remaining(r, i)],
             NEW s \in Runs, j \in DOMAIN snapshot'[s]
      PROVE  j \in DOMAIN snapshot[s] /\ snapshot'[s][j] = snapshot[s][j]
  <2>1. CASE s = r
    <3>1. snapshot'[s] = Remaining(r, i)
      BY <1>0, <1>2, <2>1
    <3>2. QED
      BY <1>2, <2>1, <3>1 DEF Remaining
  <2>2. CASE s # r
    BY <1>0, <1>2, <2>2
  <2>3. QED
    BY <2>1, <2>2
<1>3. ASSUME NEW r \in Runs, Crash(r), NEW s \in Runs, j \in DOMAIN snapshot'[s]
      PROVE  j \in DOMAIN snapshot[s] /\ snapshot'[s][j] = snapshot[s][j]
  <2>1. DOMAIN <<>> = {}
    OBVIOUS
  <2>2. snapshot'[s] = IF s = r THEN <<>> ELSE snapshot[s]
    BY <1>0, <1>3 DEF Crash
  <2>3. QED
    BY <1>3, <2>1, <2>2
<1>4. CASE UNCHANGED snapshot
  BY <1>4
<1>5. ASSUME NEW r \in Runs, Complete(r) \/ Park(r) \/ Retry(r) \/ Settled(r)
      PROVE  snapshot' = [snapshot EXCEPT ![r] = Remaining(r, cur[r])]
  BY <1>5 DEF Complete, Park, Retry, Settled, Advance
<1>6. ASSUME NEW r \in Runs, NEW i \in Jobs, Stamp(r, i) \/ PassOver(r, i)
      PROVE  snapshot' = [snapshot EXCEPT ![r] = Remaining(r, i)]
  BY <1>6 DEF Stamp, PassOver, Advance
<1>7. QED
  BY <1>1, <1>2, <1>3, <1>4, <1>5, <1>6 DEF QueueNext, queueVars, Enqueue, BecomesDue, ClaimAges, UnstampedClaim,
     GiveUp, Start, Exhaust, Claim

\* A row comes to wait for its backoff by its insert or by a retry, and waits with the attempts
\* it had.
LEMMA ComesToWait ==
  ASSUME QueueTypeOK, [QueueNext]_queueVars, NEW j \in Jobs, Waits(j)'
  PROVE  \/ Waits(j) /\ attempts'[j] = attempts[j]
         \/ status[j] = "absent"
         \/ ~aged[j] /\ \E r \in Runs : Worker(r, j) /\ Retry(r) /\ attempts' = attempts
<1>0. /\ status \in [Jobs -> Statuses] /\ due \in [Jobs -> BOOLEAN]
      /\ attempts \in [Jobs -> 0..MaxAttempts]
      /\ aged \in [Jobs -> BOOLEAN] /\ parked \in [Jobs -> BOOLEAN]
  BY DEF QueueTypeOK
<1>1. CASE UNCHANGED <<status, due, attempts, aged, parked>>
  BY <1>1 DEF Waits
<1>2. ASSUME NEW S \in SUBSET Jobs, NEW now \in BOOLEAN, Enqueue(S, now)
      PROVE  status[j] = "absent" \/ (Waits(j) /\ attempts'[j] = attempts[j])
  BY <1>0, <1>2 DEF Enqueue, Waits
<1>3. ASSUME NEW k \in Jobs, BecomesDue(k) \/ ClaimAges(k) \/ UnstampedClaim(k)
      PROVE  Waits(j) /\ attempts'[j] = attempts[j]
  BY <1>0, <1>3 DEF BecomesDue, ClaimAges, UnstampedClaim, Waits
<1>4. ASSUME NEW r \in Runs, Complete(r) \/ GiveUp(r) PROVE Waits(j) /\ attempts'[j] = attempts[j]
  BY <1>0, <1>4 DEF Complete, GiveUp, WriteStatus, Waits
<1>5. ASSUME NEW r \in Runs, Park(r) PROVE Waits(j) /\ attempts'[j] = attempts[j]
  BY <1>0, <1>5 DEF Park, Waits
<1>6. ASSUME NEW r \in Runs, Retry(r)
      PROVE  \/ Waits(j) /\ attempts'[j] = attempts[j]
             \/ ~aged[j] /\ Worker(r, j) /\ attempts' = attempts
  BY <1>0, <1>6 DEF Retry, RetryAttempts, AtWork, Waits, Worker
<1>7. ASSUME NEW r \in Runs, NEW k \in Jobs, Stamp(r, k) \/ Exhaust(r, k) \/ Claim(r, k) \/ PassOver(r, k)
      PROVE  Waits(j) /\ attempts'[j] = attempts[j]
  BY <1>0, <1>7 DEF Stamp, Exhaust, Claim, PassOver, Swap, WriteStatus, Waits
<1>8. QED
  BY <1>1, <1>2, <1>3, <1>4, <1>5, <1>6, <1>7 DEF QueueNext, queueVars, rows, Fetch, Settled, Crash

\* A row is never un-inserted.
LEMMA StaysInserted ==
  ASSUME QueueTypeOK, [QueueNext]_queueVars, NEW j \in Jobs, status'[j] = "absent"
  PROVE  status[j] = "absent"
<1>0. status \in [Jobs -> Statuses]
  BY DEF QueueTypeOK
<1>1. CASE UNCHANGED status
  BY <1>1
<1>2. ASSUME NEW r \in Runs, Complete(r) \/ Park(r) \/ Retry(r) \/ GiveUp(r) PROVE status[j] = "absent"
  BY <1>0, <1>2 DEF Complete, Park, Retry, GiveUp, WriteStatus
<1>3. ASSUME NEW r \in Runs, NEW k \in Jobs, Exhaust(r, k) \/ Claim(r, k) \/ PassOver(r, k)
      PROVE  status[j] = "absent"
  BY <1>0, <1>3 DEF Exhaust, Claim, PassOver, Swap, WriteStatus
<1>4. QED
  BY <1>0, <1>1, <1>2, <1>3 DEF QueueNext, queueVars, rows, Enqueue, BecomesDue, ClaimAges, UnstampedClaim, Fetch,
     Settled, Crash, Stamp

\* A retry leaves every snapshot behind: none was newer than the one its run worked from.
LEMMA AheadStep ==
  ASSUME SwapInv, AheadInv, [QueueNext]_queueVars
  PROVE  AheadInv'
<1> SUFFICES ASSUME NEW j \in Jobs PROVE Ahead(j)'
  BY DEF AheadInv
<1>0. QueueTypeOK /\ RowInv(j) /\ Ahead(j)
  BY DEF SwapInv, AheadInv
<1>1. ASSUME status'[j] = "absent", NEW s \in Runs PROVE j \notin DOMAIN snapshot'[s]
  BY <1>0, <1>1, StaysInserted, SeenBefore DEF Ahead
<1>2. ASSUME Waits(j)', NEW s \in Runs, j \in DOMAIN snapshot'[s]
      PROVE  snapshot'[s][j].attempts < attempts'[j]
  <2>1. CASE Waits(j) /\ attempts'[j] = attempts[j]
    BY <1>0, <1>2, <2>1, SeenBefore DEF Ahead
  <2>2. CASE status[j] = "absent"
    BY <1>0, <1>2, <2>2, SeenBefore DEF Ahead
  <2>3. ASSUME NEW r \in Runs, Worker(r, j), Retry(r), attempts' = attempts, ~aged[j]
        PROVE  snapshot'[s][j].attempts < attempts'[j]
    <3>1. Holding(r, j) /\ snapshot[r][j].attempts \in Nat /\ cur[r] = j
      BY <1>0, <2>3, RowNumbers DEF RowInv, Worker
    <3>2. snapshot' = [snapshot EXCEPT ![r] = Remaining(r, j)]
      BY <2>3, <3>1 DEF Retry, Advance
    <3>3. s # r
      BY <1>0, <1>2, <3>2 DEF Remaining, QueueTypeOK
    <3>4. snapshot'[s] = snapshot[s]
      BY <1>0, <3>2, <3>3 DEF QueueTypeOK
    <3>5. snapshot[s][j].attempts \in Nat /\ snapshot[s][j].attempts <= snapshot[r][j].attempts
      BY <1>0, <1>2, <3>1, <3>3, <3>4, RowNumbers DEF Holding
    <3>6. QED
      BY <2>3, <3>1, <3>4, <3>5 DEF Holding
  <2>4. QED
    BY <1>0, <1>2, <2>1, <2>2, <2>3, ComesToWait
<1>3. QED
  BY <1>1, <1>2 DEF Ahead

\* What a step may not do: claim a row that waits for its backoff.
KeepsBackoff ==
  \A j \in Jobs :
    status[j] = "pending" /\ status'[j] = "processing" /\ ~due[j] => parked[j] \/ aged[j]

LEMMA BackoffStep ==
  ASSUME QueueTypeOK, AheadInv, [QueueNext]_queueVars
  PROVE  KeepsBackoff
<1> SUFFICES ASSUME NEW j \in Jobs, Waits(j), status'[j] = "processing" PROVE FALSE
  BY DEF KeepsBackoff, Waits
<1>0. status \in [Jobs -> Statuses] /\ attempts[j] \in Nat
  BY RowNumbers DEF QueueTypeOK
<1>1. ASSUME NEW r \in Runs, NEW k \in Jobs, Claim(r, k) \/ PassOver(r, k), status' # status PROVE FALSE
  <2>1. Swap(r, k) /\ k \in DOMAIN snapshot[r]
    BY <1>1 DEF Claim, PassOver, Claimable, AtRow
  <2>2. k = j
    BY <1>0, <2>1 DEF Swap, Waits
  <2>3. attempts[j] = snapshot[r][j].attempts
    BY <2>1, <2>2 DEF Swap, Unchanged
  <2>4. QED
    BY <1>0, <2>1, <2>2, <2>3 DEF AheadInv, Ahead
<1>2. ASSUME NEW r \in Runs, Complete(r) \/ Park(r) \/ Retry(r) \/ GiveUp(r) PROVE FALSE
  BY <1>0, <1>2 DEF Complete, Park, Retry, GiveUp, WriteStatus, Waits
<1>3. ASSUME NEW r \in Runs, NEW k \in Jobs, Exhaust(r, k) PROVE FALSE
  BY <1>0, <1>3 DEF Exhaust, WriteStatus, Waits
<1>4. ASSUME NEW k \in Jobs, UnstampedClaim(k) PROVE FALSE
  BY <1>0, <1>4 DEF UnstampedClaim, Waits
<1>5. ASSUME NEW S \in SUBSET Jobs, NEW now \in BOOLEAN, Enqueue(S, now) PROVE FALSE
  BY <1>0, <1>5 DEF Enqueue, Waits
<1>6. CASE UNCHANGED status
  BY <1>6 DEF Waits
<1>7. QED
  BY <1>1, <1>2, <1>3, <1>4, <1>5, <1>6 DEF QueueNext, queueVars, rows, BecomesDue, ClaimAges, Fetch, Settled,
     Crash, Stamp

\* A row that failed is not claimed before its backoff is over: the swap compares the attempts,
\* and a failed attempt is not given back.
THEOREM BackoffKept == QueueSpec => BackoffRespected
<1>1. QueueInit => AheadInv
  <2> SUFFICES ASSUME QueueInit PROVE AheadInv
    OBVIOUS
  <2>1. \A s \in Runs : DOMAIN snapshot[s] = {}
    BY DEF QueueInit
  <2>2. QED
    BY <2>1 DEF QueueInit, AheadInv, Ahead, Waits
<1>2. QueueTypeOK /\ AheadInv /\ [QueueNext]_queueVars => [KeepsBackoff]_queueVars
  BY BackoffStep
<1>3. QueueSpec => []SwapInv
  BY SwapInitially, SwapStep, PTL DEF QueueSpec
<1>4. SwapInv => QueueTypeOK
  BY DEF SwapInv
<1>5. QED
  BY <1>1, <1>2, <1>3, <1>4, AheadStep, PTL DEF QueueSpec, BackoffRespected, KeepsBackoff

====
