-------------------------- MODULE MCDynamicWorkflow --------------------------
(***************************************************************************)
(* The definitions that TLC runs.                                          *)
(***************************************************************************)
EXTENDS DynamicWorkflow

Call(c, n) == [id |-> c, type |-> "activity", tries |-> n, steps |-> <<>>]
Approval(a) == [id |-> a, type |-> "human_approval", tries |-> 0, steps |-> <<>>]
Both(s, t) == [id |-> "both", type |-> "parallel", tries |-> 0, steps |-> <<s, t>>]
Loop(steps) == [id |-> "loop", type |-> "for_each", tries |-> 0, steps |-> steps]
Other(type) == [id |-> type, type |-> type, tries |-> 0, steps |-> <<>>]

(* A loop over an approval and a parallel step, a child on the code worker, a
   call, and the whole again. *)
Monitor == << Loop(<<Approval("ok"), Both(Call("mail", 2), Call("crm", 1))>>),
              Other("cli_execute"), Call("save", 2), Other("continue_as_new") >>

(* A packet drafted, approved and saved, as in workflow_templates.py:485-530. *)
Packet == << Call("draft", 2), Approval("ok"), Call("save", 3) >>
=============================================================================
