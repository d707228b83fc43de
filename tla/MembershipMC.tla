---------------------------- MODULE MembershipMC ----------------------------
(***************************************************************************)
(* Instances of Membership.                                                *)
(***************************************************************************)
EXTENDS Membership

\* Two processes and power failures, with nobody watching.
Directory ==
  [processes |-> {1, 2}, joins |-> 3, files |-> 5, failures |-> 2,
   restores |-> 0, doubts |-> 0, observed |-> FALSE]

\* Three incarnations, one of them from an old state file, and a watching node.
Restored ==
  [processes |-> {1}, joins |-> 3, files |-> 3, failures |-> 0,
   restores |-> 1, doubts |-> 0, observed |-> TRUE]

\* Restarts after power failures, watched by a node that loses sight once.
Watched ==
  [processes |-> {1}, joins |-> 2, files |-> 3, failures |-> 1,
   restores |-> 0, doubts |-> 1, observed |-> TRUE]

Scenarios == {Directory, Restored, Watched}
=============================================================================
