----------------------------- MODULE AdminSeed -----------------------------
(***************************************************************************)
(* Seeding of the configured admins at start-up across restarts.           *)
(*                                                                         *)
(* init_storage (init/storage.rs) opens the sled trees and then runs       *)
(* ServiceUserRef::create_admins (service/user.rs), which calls            *)
(* create_new_user(admin, Role::Admin) for each entry of                   *)
(* settings.auth.admins in order, with `?`: the first error leaves the     *)
(* loop, and UserAlreadyExists is then turned into Ok.  Only after that    *)
(* does the server accept requests, registrations among them.  sled        *)
(* persists what it has flushed: in the background at any time, and on a  *)
(* graceful shutdown through flush_storage (main.rs).  A crash reopens     *)
(* the trees as of the last flush.                                         *)
(*                                                                         *)
(* The users storage is UserDirectory; an admin is registered by the same  *)
(* step with the role Admin.  Start-up runs alone, so each                 *)
(* create_new_user (lookup, hash, put) is one step; the caches are fresh  *)
(* at start and create_new_user does not fill them.                        *)
(***************************************************************************)
EXTENDS Naturals, Sequences

CONSTANTS
    Ids,          \* user ids UserId::new may hand out
    Emails,       \* email addresses
    Roles,        \* Role::User and Role::Admin
    UserRole,     \* Role::User, the role of a self-registered user
    AdminRole,    \* Role::Admin, the role create_admins gives
    AdminEmails,  \* settings.auth.admins: the configured emails, in order
    None

ASSUME AdminEmails \in Seq(Emails)

VARIABLES
    users,      \* storage: id -> [email, role] or None
    uids,       \* ids UserId::new has handed out (uuids never repeat)
    durable,    \* the users storage as of sled's last flush
    boot        \* the process: seeding admin number `next`, or serving

vars == <<users, uids, durable, boot>>

NoUsers == [i \in {} |-> None]

UserDir == INSTANCE UserDirectory WITH InitUsers <- NoUsers
AdminDir == INSTANCE UserDirectory WITH InitUsers <- NoUsers, UserRole <- AdminRole

HolderOf(e) == UserDir!HolderOf(e)

TypeOK ==
    /\ users \in [Ids -> [email : Emails, role : Roles] \cup {None}]
    /\ uids \subseteq Ids
    /\ durable \in [Ids -> [email : Emails, role : Roles] \cup {None}]
    /\ boot \in [pc : {"seeding", "serving"}, next : 1..Len(AdminEmails) + 1]

\* init_storage: the trees are open, create_admins starts at the first
\* configured admin.
BootStart == [pc |-> "seeding", next |-> 1]

Init ==
    /\ UserDir!DirInit
    /\ durable = users
    /\ boot = BootStart

-----------------------------------------------------------------------------
\* One pass of the `for admin in &settings.auth.admins` loop: the email is
\* taken (UserAlreadyExists, which ends the loop and then start-up with
\* Ok), or a fresh admin is put.
SeedAdmin ==
    LET e == AdminEmails[boot.next] IN
    /\ boot.pc = "seeding"
    /\ boot.next <= Len(AdminEmails)
    /\ \/ /\ HolderOf(e) # {}
          /\ boot' = [boot EXCEPT !.pc = "serving"]
          /\ UNCHANGED <<users, uids>>
       \/ /\ HolderOf(e) = {}
          /\ \E u \in Ids : AdminDir!DirRegister(u, e)
          /\ boot' = [boot EXCEPT !.next = @ + 1]
    /\ UNCHANGED durable

\* Every configured admin was put: init_storage returns, the server runs.
SeedDone ==
    /\ boot.pc = "seeding"
    /\ boot.next > Len(AdminEmails)
    /\ boot' = [boot EXCEPT !.pc = "serving"]
    /\ UNCHANGED <<users, uids, durable>>

\* POST /auth/register while serving: a user with the role User.
Register(u, e) ==
    /\ boot.pc = "serving"
    /\ UserDir!DirRegister(u, e)
    /\ UNCHANGED <<durable, boot>>

\* sled's background flush, or flush_storage (FlushStorage::flush).
Flush ==
    /\ durable' = users
    /\ UNCHANGED <<users, uids, boot>>

\* Graceful shutdown (main.rs): flush_storage, then a new start.
CleanRestart ==
    /\ boot.pc = "serving"
    /\ durable' = users
    /\ boot' = BootStart
    /\ UNCHANGED <<users, uids>>

\* The process dies at any point; SledStorage::new reopens the last flush.
Crash ==
    /\ users' = durable
    /\ boot' = BootStart
    /\ UNCHANGED <<uids, durable>>

Next ==
    \/ SeedAdmin \/ SeedDone \/ Flush \/ CleanRestart \/ Crash
    \/ \E u \in Ids, e \in Emails : Register(u, e)

Spec == Init /\ [][Next]_vars

-----------------------------------------------------------------------------
(* Once start-up is over and the server accepts requests, every admin of  *)
(* the configuration is a stored user with the role Admin: create_admins  *)
(* is run on every start so that admins missing from storage, after a     *)
(* crash during seeding or a new configuration entry, are created.        *)
AdminsSeeded ==
    boot.pc = "serving" =>
        \A n \in 1..Len(AdminEmails) :
            \E u \in HolderOf(AdminEmails[n]) : users[u].role = AdminRole
=============================================================================
