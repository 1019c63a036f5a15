---- MODULE MCBroadcasts ----
(* Broadcasts on a small instance: values of the constants. *)
EXTENDS Broadcasts, TLC

MCJobs == Sends \X Contacts

RunSymmetry == Permutations(Runs)
====
