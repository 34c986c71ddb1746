----------------------------- MODULE MCChatJobs -----------------------------
(* A job or two, their workers and their readers, for checking ChatJobs with
   TLC. *)
EXTENDS ChatJobs

CONSTANTS j1, j2, w1, w2, w3, r1, r2

(* j1 is dispatched twice. *)
JobOfWorker == [w \in Workers |-> IF w = w3 THEN j2 ELSE j1]
JobOfReader == [r \in Readers |-> j1]
=============================================================================
