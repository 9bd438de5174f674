--------------------------- MODULE UserDirectory ---------------------------
(***************************************************************************)
(* What UserStorage promises its callers, with the trees, the cascade and *)
(* the request steps hidden: a map from user id to [email, role] in which *)
(* users appear by registration under a fresh id and an unused email,     *)
(* change role, and disappear, each in one step.                          *)
(*                                                                         *)
(* UserStore, the detailed model of users_impl.rs, is checked to implement *)
(* this module (UserStore's UserDirRefined); UserCache uses its actions  *)
(* storage half of the service requests.                                  *)
(***************************************************************************)
CONSTANTS Ids, Emails, Roles, UserRole, InitUsers, None

VARIABLES users, uids

dirVars == <<users, uids>>

\* The ids whose user holds email e.
HolderOf(e) == {i \in Ids : users[i] # None /\ users[i].email = e}

DirInit ==
    /\ users = [i \in Ids |-> IF i \in DOMAIN InitUsers THEN InitUsers[i]
                                                        ELSE None]
    /\ uids = DOMAIN InitUsers

\* add_user after create_new_user's uniqueness check: a fresh UserId and
\* an email no user holds.
DirRegister(u, e) ==
    /\ u \in Ids \ uids
    /\ HolderOf(e) = {}
    /\ users' = [users EXCEPT ![u] = [email |-> e, role |-> UserRole]]
    /\ uids' = uids \cup {u}

\* update_user_role: NotFound unless the user exists.
DirSetRole(u, r) ==
    /\ users[u] # None
    /\ users' = [users EXCEPT ![u].role = r]
    /\ UNCHANGED uids

\* delete: the user record goes (its todos with it, in UserStore).
DirRemove(u) ==
    /\ users[u] # None
    /\ users' = [users EXCEPT ![u] = None]
    /\ UNCHANGED uids

DirNext ==
    \/ \E u \in Ids, e \in Emails : DirRegister(u, e)
    \/ \E u \in Ids, r \in Roles : DirSetRole(u, r)
    \/ \E u \in Ids : DirRemove(u)

DirSpec == DirInit /\ [][DirNext]_dirVars
=============================================================================
