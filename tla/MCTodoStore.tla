---------------------------- MODULE MCTodoStore ----------------------------
(* Model-checking instance of TodoStore.  Owner 1 holds three todos with   *)
(* free ids before, between and after them; owner 2's todo sits inside    *)
(* the id range so that a scan of owner 1 must stop at its prefix.         *)
EXTENDS TodoStore

CONSTANTS d1, d2, q1

MCOwners == {1, 2}
MCTodoIds == 1..6
MCActors == {1}
MCInitTodos == {<<1, 2>>, <<1, 3>>, <<1, 5>>, <<2, 4>>}
\* The instance where a delete_all call and a paging client run together:
\* owner 1's one todo has a free id before and after it, owner 2's todo
\* ends owner 1's prefix, and pages of one key make every put span pages.
MCTodoIdsSmall == 1..4
MCInitTodosSmall == {<<1, 2>>, <<2, 3>>}
=============================================================================
