--------------------------- MODULE MCSessionStore ---------------------------
(* Instance of SessionStore for TLC: one user, two session ids, four jtis *)
(* (a login and three rotations), two concurrent requests.                *)
EXTENDS SessionStore, TLC

CONSTANTS c1, c2, s1, s2, j1, j2, j3, j4
=============================================================================
