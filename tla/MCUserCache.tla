---------------------------- MODULE MCUserCache ----------------------------
(* Instance of UserCache for TLC: three user ids (the calling admin, one  *)
(* user in storage, one id left for a registration), two emails.          *)
EXTENDS UserCache, TLC

CONSTANTS c1, c2, e1, e2, e3, User, Admin

MCInitUsers == (1 :> [email |-> e1, role |-> Admin])
               @@ (2 :> [email |-> e2, role |-> User])
=============================================================================
