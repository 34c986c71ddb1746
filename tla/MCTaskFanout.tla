---------------------------- MODULE MCTaskFanout ----------------------------
(* Instances of TaskFanout: a council of two platforms, a race of
   the same two, and a run on the default platform. *)
EXTENDS TaskFanout, TLC

CONSTANTS c1, c2, w1, claude, codex

Council == [how |-> "fanout", list |-> <<claude, codex>>, merge |-> "council"]
Race == [how |-> "fanout", list |-> <<claude, codex>>, merge |-> "first-wins"]
Single == [how |-> "default", list |-> <<claude>>, merge |-> "first-wins"]

Bodies == {Council, Single}
CouncilOrRace == {Council, Race}
NoneOrCodex == {{}, {codex}}

Symmetric == Permutations(Clients)
=============================================================================
