---- MODULE LeaseService ----
(***************************************************************************)
(* What the execution plane promises about a task, with the queueing, the  *)
(* retries, the approvals and the executors left out: a work item is held  *)
(* by at most one owner, an owner gives it up before another one gets it,  *)
(* and a finished item is never handed out again.  TaskPlane implements    *)
(* this specification (TaskPlane!Lease).                                    *)
(***************************************************************************)

CONSTANTS Items,     \* the work items
          Owners,    \* what a lease can name
          NoOwner    \* the holder of an item nobody works on

VARIABLES phase,     \* absent, open, dead (parked in dead letters), final, gone
          holder     \* who works on the item

leaseVars == <<phase, holder>>

Phases == {"absent", "open", "dead", "final", "gone"}

Init ==
  /\ phase  = [i \in Items |-> "absent"]
  /\ holder = [i \in Items |-> NoOwner]

Create(i) ==
  /\ phase[i] = "absent"
  /\ phase' = [phase EXCEPT ![i] = "open"]
  /\ UNCHANGED holder

\* One claim hands out a batch of open items nobody holds.
Grant(S, o) ==
  /\ \A i \in S : phase[i] = "open" /\ holder[i] = NoOwner
  /\ holder' = [i \in Items |-> IF i \in S THEN o ELSE holder[i]]
  /\ UNCHANGED phase

\* Held items are taken back; D of them go to dead letters.
Return(S, D) ==
  /\ D \subseteq S
  /\ \A i \in S : holder[i] # NoOwner
  /\ holder' = [i \in Items |-> IF i \in S THEN NoOwner ELSE holder[i]]
  /\ phase'  = [i \in Items |-> IF i \in D THEN "dead" ELSE phase[i]]

\* An open item ends, whether somebody holds it or not.
Finish(i) ==
  /\ phase[i] = "open"
  /\ phase'  = [phase EXCEPT ![i] = "final"]
  /\ holder' = [holder EXCEPT ![i] = NoOwner]

Reopen(i) ==
  /\ phase[i] = "dead"
  /\ phase' = [phase EXCEPT ![i] = "open"]
  /\ UNCHANGED holder

Forget(S) ==
  /\ \A i \in S : phase[i] = "final"
  /\ phase' = [i \in Items |-> IF i \in S THEN "gone" ELSE phase[i]]
  /\ UNCHANGED holder

Next ==
  \/ \E i \in Items : Create(i) \/ Finish(i) \/ Reopen(i)
  \/ \E S \in SUBSET Items : Forget(S)
  \/ \E S \in SUBSET Items, o \in Owners : Grant(S, o)
  \/ \E S \in SUBSET Items : \E D \in SUBSET S : Return(S, D)

Spec == Init /\ [][Next]_leaseVars

----
\* What follows from it for whoever works under a lease.

\* Nobody holds an item that is parked, finished or forgotten (the trigger of tasks clears
\* lease_owner whenever a row is not running).
HeldIsOpen == \A i \in Items : holder[i] # NoOwner => phase[i] = "open"

\* A lease goes from one owner to another only through a state in which nobody has it: a
\* claim never takes over a row that is still leased, expired or not (claim_tasks,
\* recover_expired_leases).
NoTakeover ==
  [][\A i \in Items : holder[i] # NoOwner => holder'[i] \in {holder[i], NoOwner}]_leaseVars

\* What has finished is neither handed out nor parked nor opened again, and its id is not used
\* for a new item, even after the pruner forgot it.
FinishedForGood ==
  [][\A i \in Items :
       phase[i] \in {"final", "gone"} =>
         phase'[i] \in {phase[i], "gone"} /\ holder'[i] = NoOwner]_leaseVars
====
