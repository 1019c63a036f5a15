---- MODULE MCTaskPlane ----
(* TaskPlane on a small instance: values of the constants. *)
EXTENDS TaskPlane, TLC

MCIdentityOf == [e \in Executors |-> CHOOSE i \in Identities : TRUE]
\* Every executor process has its own identity, or all of them share one.
MCOwnIdentity == CHOOSE f \in [Executors -> Identities] :
                   \A e, g \in Executors : f[e] = f[g] => e = g

TickSymmetry == Permutations(Ticks)

TaskSymmetry == Permutations(Tasks)

RowSymmetry == TickSymmetry \cup TaskSymmetry

\* The cap of the browser tasks, with operators out of the way: tasks are enqueued
\* ungated and due, and executors claim, settle, die and are recovered from.
CapNext ==
  \/ \E p \in Executors : ExecutorStep(p) \/ Crash(p) \/ \E t \in Tasks : Settle(p, t)
  \/ \E t \in Tasks : EnqueueTask(t, {}, FALSE, TRUE) \/ LeaseExpires(t)
  \/ Recover

CapSpec == Init /\ [][CapNext]_vars

\* The liveness run has one browser task and one identity: a claim let in on a
\* failed count finds the identity's own cap, and is left out for its states.
CountsWork == uncounted' = {}

CountedSpec == Init /\ [][Next /\ CountsWork]_vars /\ Fairness
====
