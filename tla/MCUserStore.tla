---------------------------- MODULE MCUserStore ----------------------------
(* Instantiation of UserStore for TLC: user 1 exists with two todos, ids  *)
(* 2 and 3 are free for registrations, two email addresses.                *)
EXTENDS UserStore

CONSTANTS r1, r2, a1, a2, w1, e1, e2, User, Admin

MCOwners == {1, 2, 3}
MCTodoIds == 1..3
MCUserTodos == {<<1, 1>>, <<1, 3>>}
MCInitUsers == 1 :> [email |-> e1, role |-> Admin]
=============================================================================
