----------------------------- MODULE UserStore -----------------------------
(***************************************************************************)
(* The "users" and "emails" trees of SledStorage, the operations of        *)
(* UserStorage (storage/sled/users_impl.rs) and the service requests that  *)
(* drive them, composed with the "todos" tree of TodoStore:                *)
(*   register      ServiceUserRef::create_new_user: a storage lookup by    *)
(*                 email, an await on password hashing, then add_user, a   *)
(*                 transaction writing the user under "user:<id>" and      *)
(*                 "email:<email>";                                        *)
(*   update_role   one transaction rewriting both records;                 *)
(*   delete        the existence check, then the batched cascade over the  *)
(*                 owner's todos, whose last transaction also runs         *)
(*                 remove_user_and_email;                                  *)
(*   todo write    the auth middleware resolves the token's user           *)
(*                 (validate_user), then the handler puts or deletes one   *)
(*                 todo of that user, with no further user check.          *)
(* Every sled call runs on a thread of the multi-threaded runtime, so the  *)
(* steps of different requests interleave between sled calls.  A user id   *)
(* is an owner of TodoStore; the email tree holds a copy of the user       *)
(* record, modelled as the id and role it carries.  The user cache of the  *)
(* service layer is left to its own module: here every lookup reads the    *)
(* trees.                                                                  *)
(***************************************************************************)
EXTENDS TodoStore

CONSTANTS Emails,       \* email addresses in play
          Roles,        \* Role::User, Role::Admin
          UserRole,     \* the role a registration gets (Role::User)
          Registrars,   \* concurrent register requests
          Admins,       \* concurrent update_role / delete requests
          Writers,      \* concurrent authenticated todo requests
          InitUsers     \* the user records present initially: id -> record

ASSUME UserRole \in Roles

VARIABLES users,    \* users tree: id -> [email, role] or None
          emails,   \* emails tree: email -> [id, role] or None
          uids,     \* user ids handed out so far (UserId::new is fresh)
          reg,      \* local state of each register request
          adm,      \* local state of each admin request
          wr,       \* local state of each todo request
          durable   \* the trees as of sled's last flush to disk

userVars == <<users, emails, uids>>
procVars == <<reg, adm, wr>>
allVars == <<todoTree, used, del, pager, users, emails, uids, reg, adm, wr,
             durable>>

UserRec == [email: Emails, role: Roles]
EmailRec == [id: Owners, role: Roles]

RegState == [pc: {"idle", "check", "put", "exists"}, email: Emails]
AdmState == [pc: {"idle", "check", "scan", "commit", "done", "nocontent",
                  "failed"},
             owner: Owners, after: Keys \cup {None}, batch: Seq(Keys),
             next: Keys \cup {None}]
WrState == [pc: {"idle", "auth", "write", "unauth"}, owner: Owners]

EmailEntry(u) == [id |-> u, role |-> users[u].role]

\* The todo processes of TodoStore stay idle in this composition.
UserInit ==
    /\ Init
    /\ users = [u \in Owners |-> IF u \in DOMAIN InitUsers THEN InitUsers[u]
                                                          ELSE None]
    /\ emails = [e \in Emails |->
                   IF \E u \in DOMAIN InitUsers : InitUsers[u].email = e
                   THEN LET u == CHOOSE v \in DOMAIN InitUsers : InitUsers[v].email = e
                        IN [id |-> u, role |-> InitUsers[u].role]
                   ELSE None]
    /\ uids = DOMAIN InitUsers
    /\ reg = [r \in Registrars |-> [pc |-> "idle", email |-> CHOOSE e \in Emails : TRUE]]
    /\ adm = [a \in Admins |-> [pc |-> "idle", owner |-> CHOOSE u \in Owners : TRUE,
                                after |-> None, batch |-> <<>>, next |-> None]]
    /\ wr = [w \in Writers |-> [pc |-> "idle", owner |-> CHOOSE u \in Owners : TRUE]]
    /\ durable = [todos |-> todoTree, users |-> users, emails |-> emails]

-----------------------------------------------------------------------------
(* register: ServiceUserRef::create_new_user.                              *)

RegStart(r, e) ==
    /\ reg[r].pc = "idle"
    /\ reg' = [reg EXCEPT ![r] = [pc |-> "check", email |-> e]]
    /\ UNCHANGED <<todoVars, userVars, adm, wr>>

\* Mutation of RegCheck: the storage lookup by email is skipped.
RegCheckSkip(r) ==
    /\ reg[r].pc = "check"
    /\ reg' = [reg EXCEPT ![r].pc = "put"]
    /\ UNCHANGED <<todoVars, userVars, adm, wr>>

\* storage.get_by_email: a hit refuses with UserAlreadyExists.
RegCheck(r) ==
    LET e == reg[r].email IN
    /\ reg[r].pc = "check"
    /\ reg' = [reg EXCEPT ![r].pc = IF emails[e] # None THEN "exists" ELSE "put"]
    /\ UNCHANGED <<todoVars, userVars, adm, wr>>

\* After the password hash, add_user with a fresh UserId: one transaction
\* inserting the record under the user key and under the email key.
RegPut(r) ==
    LET e == reg[r].email IN
    /\ reg[r].pc = "put"
    /\ \E u \in Owners \ uids :
          /\ users' = [users EXCEPT ![u] = [email |-> e, role |-> UserRole]]
          /\ emails' = [emails EXCEPT ![e] = [id |-> u, role |-> UserRole]]
          /\ uids' = uids \cup {u}
    /\ reg' = [reg EXCEPT ![r].pc = "idle"]
    /\ UNCHANGED <<todoVars, adm, wr>>

RegRefused(r) ==
    /\ reg[r].pc = "exists"
    /\ reg' = [reg EXCEPT ![r].pc = "idle"]
    /\ UNCHANGED <<todoVars, userVars, adm, wr>>

-----------------------------------------------------------------------------
(* Admin requests: update_role and delete.                                 *)

\* Mutation of UpdateRole: only the users tree is rewritten.
UpdateRoleUsersOnly(a, u, r) ==
    /\ adm[a].pc = "idle"
    /\ users[u] # None
    /\ users' = [users EXCEPT ![u].role = r]
    /\ UNCHANGED <<emails, todoVars, uids, procVars>>

\* update_user_role: one transaction that reads the user (NotFound aborts
\* it with no change) and writes the record with the new role under the
\* user key and under the key of the email it holds.
UpdateRole(a, u, r) ==
    /\ adm[a].pc = "idle"
    /\ users[u] # None
    /\ users' = [users EXCEPT ![u].role = r]
    /\ emails' = [emails EXCEPT ![users[u].email] = [id |-> u, role |-> r]]
    /\ UNCHANGED <<todoVars, uids, procVars>>

UserDeleteStart(a, u) ==
    /\ adm[a].pc = "idle"
    /\ adm' = [adm EXCEPT ![a] = [pc |-> "check", owner |-> u, after |-> None,
                                  batch |-> <<>>, next |-> None]]
    /\ UNCHANGED <<todoVars, userVars, reg, wr>>

\* UserStorage::delete begins with a read of the user key: an absent user
\* is NoContent.
UserDeleteCheck(a) ==
    LET u == adm[a].owner IN
    /\ adm[a].pc = "check"
    /\ adm' = [adm EXCEPT ![a].pc = IF users[u] = None THEN "nocontent" ELSE "scan"]
    /\ UNCHANGED <<todoVars, userVars, reg, wr>>

\* The scan of the loop, as in delete_all_todos.
UserDeleteScan(a) ==
    LET d == adm[a] IN
    /\ d.pc = "scan"
    /\ \E r \in {DeletePage(d.owner, d.after)} :
          \/ /\ ~r.found
             /\ adm' = [adm EXCEPT ![a].pc = "failed"]
          \/ /\ r.found
             /\ adm' = [adm EXCEPT ![a].pc = "commit",
                                   ![a].batch = CursorBatch(d.after, r),
                                   ![a].next = r.next]
    /\ UNCHANGED <<todoVars, userVars, reg, wr>>

\* remove_user_and_email inside the transaction: reads the user and, if it
\* is there, removes the user key and the key of the email it holds.
RemoveUserAndEmail(u) ==
    IF users[u] # None
    THEN /\ users' = [users EXCEPT ![u] = None]
         /\ emails' = [emails EXCEPT ![users[u].email] = None]
    ELSE UNCHANGED <<users, emails>>

\* Mutation of UserDeleteCommit: the user is removed with the first batch.
UserDeleteCommitFirst(a) ==
    LET d == adm[a] IN
    /\ d.pc = "commit"
    /\ todoTree' = RemoveBatch(todoTree, d.batch)
    /\ RemoveUserAndEmail(d.owner)
    /\ adm' = [adm EXCEPT ![a].pc = IF d.next = None THEN "done" ELSE "scan",
                          ![a].after = d.next]
    /\ UNCHANGED <<used, uids, reg, wr>>

\* The transaction over users, emails and todos: removes the batch and, on
\* the last page (no cursor), the user and its email.
UserDeleteCommit(a) ==
    LET d == adm[a] IN
    /\ d.pc = "commit"
    /\ todoTree' = RemoveBatch(todoTree, d.batch)
    /\ \/ /\ d.next = None
          /\ RemoveUserAndEmail(d.owner)
          /\ adm' = [adm EXCEPT ![a].pc = "done"]
       \/ /\ d.next # None
          /\ adm' = [adm EXCEPT ![a].pc = "scan", ![a].after = d.next]
          /\ UNCHANGED <<users, emails>>
    /\ UNCHANGED <<used, uids, reg, wr>>

UserDeleteReturn(a) ==
    /\ adm[a].pc \in {"done", "nocontent", "failed"}
    /\ adm' = [adm EXCEPT ![a].pc = "idle"]
    /\ UNCHANGED <<todoVars, userVars, reg, wr>>

-----------------------------------------------------------------------------
(* Authenticated todo requests: the auth middleware, then the handler.     *)

WriterStart(w, u) ==
    /\ wr[w].pc = "idle"
    /\ wr' = [wr EXCEPT ![w] = [pc |-> "auth", owner |-> u]]
    /\ UNCHANGED <<todoVars, userVars, reg, adm>>

\* validate_user: the token's user must exist, or the request is 401.
WriterAuth(w) ==
    /\ wr[w].pc = "auth"
    /\ wr' = [wr EXCEPT ![w].pc = IF users[wr[w].owner] = None THEN "unauth" ELSE "write"]
    /\ UNCHANGED <<todoVars, userVars, reg, adm>>

\* The handler's single todo write for the authenticated user.
WriterWrite(w) ==
    LET u == wr[w].owner IN
    /\ wr[w].pc = "write"
    /\ \/ PutTodo(u)
       \/ \E t \in TodoIds : DeleteTodo(u, t)
    /\ wr' = [wr EXCEPT ![w].pc = "idle"]
    /\ UNCHANGED <<userVars, reg, adm>>

WriterRefused(w) ==
    /\ wr[w].pc = "unauth"
    /\ wr' = [wr EXCEPT ![w].pc = "idle"]
    /\ UNCHANGED <<todoVars, userVars, reg, adm>>

-----------------------------------------------------------------------------
UserNext ==
    \/ \E r \in Registrars : \/ \E e \in Emails : RegStart(r, e)
                             \/ RegCheck(r) \/ RegPut(r) \/ RegRefused(r)
    \/ \E a \in Admins : \/ \E u \in Owners, r \in Roles : UpdateRole(a, u, r)
                         \/ \E u \in Owners : UserDeleteStart(a, u)
                         \/ UserDeleteCheck(a) \/ UserDeleteScan(a)
                         \/ UserDeleteCommit(a) \/ UserDeleteReturn(a)
    \/ \E w \in Writers : \/ \E u \in Owners : WriterStart(w, u)
                          \/ WriterAuth(w) \/ WriterWrite(w) \/ WriterRefused(w)

\* A step of the user requests, the rest of the composed state unchanged.
UserStep(A) == A /\ UNCHANGED <<del, pager, durable>>

UserSpec == UserInit /\ [][UserStep(UserNext)]_allVars

-----------------------------------------------------------------------------
(* Crash and restart.  SledStorage::new opens the database with            *)
(* sled::Config::default(), which flushes to disk in the background; the   *)
(* service flushes explicitly only at graceful shutdown (main.rs 80).  A   *)
(* crash therefore loses the writes since the last background flush, and   *)
(* sled recovers the state as of that flush, transactions whole.  The      *)
(* requests in flight are lost with the process.                           *)

\* sled's background flush: what is on disk catches up with the trees.
Flush ==
    /\ durable # [todos |-> todoTree, users |-> users, emails |-> emails]
    /\ durable' = [todos |-> todoTree, users |-> users, emails |-> emails]
    /\ UNCHANGED <<todoVars, userVars, del, pager, procVars>>

\* The process dies and restarts: SledStorage::new reopens the trees.
Restart ==
    /\ todoTree' = durable.todos
    /\ users' = durable.users
    /\ emails' = durable.emails
    /\ reg' = [r \in Registrars |-> [reg[r] EXCEPT !.pc = "idle"]]
    /\ adm' = [a \in Admins |-> [adm[a] EXCEPT !.pc = "idle"]]
    /\ wr' = [w \in Writers |-> [wr[w] EXCEPT !.pc = "idle"]]
    /\ UNCHANGED <<used, uids, del, pager, durable>>

UserCrashSpec ==
    UserInit /\ [][\/ UserStep(UserNext)
                   \/ Flush
                   \/ Restart]_allVars

-----------------------------------------------------------------------------
(***************************************************************************)
(* Properties                                                              *)
(***************************************************************************)

\* The email index and the users tree describe the same users: every user
\* is found under its email with its current role, and every email entry
\* names a user that holds that email (add_user, update_user_role and
\* remove_user_and_email each write both trees in one transaction; the
\* uniqueness check of create_new_user runs before the hash await).
EmailIndexConsistent ==
    /\ \A u \in Owners : users[u] # None => emails[users[u].email] = EmailEntry(u)
    /\ \A e \in Emails : emails[e] # None =>
          users[emails[e].id] # None /\ users[emails[e].id].email = e

\* A user that no longer exists owns no todos: the cascade of
\* UserStorage::delete removes every todo of the user before (or in the
\* same transaction as) the user record.
NoOrphanTodos ==
    \A u \in Owners : users[u] = None => OwnerKeys(u) = {}

\* UserStorage implements UserDirectory: with the trees, the todo cascade
\* and the request steps hidden, users appear only by registration of a
\* fresh id under an email no user holds, change role, and disappear in a
\* single step (the last transaction of the cascade).
Dir == INSTANCE UserDirectory WITH Ids <- Owners

UserDirRefined == Dir!DirSpec
=============================================================================
