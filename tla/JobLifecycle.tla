---------------------------- MODULE JobLifecycle ----------------------------
(***************************************************************************)
(* What a chat job promises whoever watches its row, whichever channel     *)
(* runs it: it is queued once, it runs only from the queue, it is done     *)
(* only after it ran, and once it is done, failed or cancelled its status  *)
(* never changes again, unless its row is deleted.                         *)
(***************************************************************************)
CONSTANT Jobs

VARIABLE status

Terminal == {"done", "failed", "cancelled"}
Statuses == {"none", "queued", "running", "gone"} \cup Terminal

Init == status = [j \in Jobs |-> "none"]

Becomes(j, s) == status' = [status EXCEPT ![j] = s]

Create(j) == status[j] = "none" /\ Becomes(j, "queued")

Start(j) == status[j] = "queued" /\ Becomes(j, "running")

(* A job that never ran is withdrawn: cancelled by its user, or failed by
   the dispatcher that gave it up. *)
Withdraw(j) == status[j] = "queued" /\ \E s \in {"failed", "cancelled"} : Becomes(j, s)

Settle(j) == status[j] = "running" /\ \E s \in Terminal : Becomes(j, s)

Delete(j) == status[j] \notin {"none", "gone"} /\ Becomes(j, "gone")

Next == \E j \in Jobs : Create(j) \/ Start(j) \/ Withdraw(j) \/ Settle(j) \/ Delete(j)

Spec == Init /\ [][Next]_status
=============================================================================
