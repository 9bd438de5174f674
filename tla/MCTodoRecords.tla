-------------------------- MODULE MCTodoRecords --------------------------
(* Instance of TodoRecords for TLC: one user, one todo stored as V1 by an *)
(* older build and one id left for an add, two texts, one group, and one *)
(* patch per field, sent by two concurrent requests.                     *)
EXTENDS TodoRecords, TLC

CONSTANTS c1, c2, x, y, g, NoGrp

MCPatches == {[text |-> y, completed |-> None, group |-> None],
              [text |-> None, completed |-> TRUE, group |-> None],
              [text |-> None, completed |-> None, group |-> g]}

MCInitV1 == <<1, 1>> :> [v |-> 1, text |-> x, completed |-> FALSE]
==========================================================================
