---------------------------- MODULE MCAdminSeed ----------------------------
(* Instance of AdminSeed for TLC: two configured admins, one more email  *)
(* for a self-registered user, three user ids.                           *)
EXTENDS AdminSeed

CONSTANTS a1, a2, e1, User, Admin

MCAdminEmails == <<a1, a2>>
=============================================================================
