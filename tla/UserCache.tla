----------------------------- MODULE UserCache -----------------------------
(***************************************************************************)
(* The user cache of the service layer (src/service/mod.rs UserCache and   *)
(* src/service/user.rs ServiceUserRef) over the user storage.              *)
(*                                                                         *)
(* UserCache holds two independent moka caches, by_id and by_email, with   *)
(* capacity 10_000 and no TTL.  get and get_by_email read the cache, fall  *)
(* back to storage and then fill BOTH caches, but only if the by_id (resp. *)
(* by_email) entry is still absent.  update and delete write storage and   *)
(* then invalidate both entries only if by_id still holds the user.  Each  *)
(* `.await` on the cache or on storage is a step of its own, so requests   *)
(* of several clients interleave between them.                             *)
(*                                                                         *)
(* Admin update and delete come through the /admin routes: the auth       *)
(* middleware's validate_user is a cache get of the token's user, then     *)
(* require_role checks Admin on the User it returned, then the handler     *)
(* calls the service with that User as the caller.                         *)
(*                                                                         *)
(* Storage is abstracted to one map id -> [email, role]: UserStore models  *)
(* how the users and emails trees and the todo cascade keep to that map.   *)
(***************************************************************************)
EXTENDS Naturals, FiniteSets, Sequences

CONSTANTS
    Ids,        \* user ids UserId::new may hand out
    Emails,     \* email addresses
    Roles,      \* Role::User and Role::Admin
    UserRole,   \* the role of a self-registered user
    AdminRole,  \* Role::Admin, which the /admin routes require
    Clients,    \* concurrent request handlers sharing the cache
    Evict,      \* TRUE when moka may evict entries (capacity reached)
    InitUsers,  \* users in storage at start: a function into records
    PageLimit,  \* the limit an admin pages the user list with
    None

VARIABLES
    users,      \* storage: id -> [email, role] or None
    byId,       \* cache by_id: id -> [id, email, role] or None
    byEmail,    \* cache by_email: email -> [id, email, role] or None
    uids,       \* ids UserId::new has handed out (uuids never repeat)
    cl,         \* per client: the step of its current request
    lister      \* per client: its loop over the pages of /admin/users

vars == <<users, byId, byEmail, uids, cl, lister>>

StoredUser == [email : Emails, role : Roles]
CachedUser == [id : Ids, email : Emails, role : Roles]

\* The User value of a stored record, as storage deserialises it.
AsUser(i) == [id |-> i, email |-> users[i].email, role |-> users[i].role]

\* The storage half of the requests: UserStorage as UserDirectory states it.
Dir == INSTANCE UserDirectory

\* The user storage.get_by_email finds: the email index entry of
\* users_impl.rs, kept equal to the users tree (EmailIndexConsistent).
HolderOf(e) == Dir!HolderOf(e)

\* The range scan of the users tree.  A user key "user:<id>" is <<0, id>>;
\* the bare "user:" key a first page starts from is <<0, 0>>.
Scan == INSTANCE TreeScan
UserKey(i) == <<0, i>>
UserKeys == {UserKey(i) : i \in {j \in Ids : users[j] # None}}

\* seen: the ids of the pages received; initial: the users stored, the
\* caller aside, when the first page was asked for.
ListerState == [pc : {"idle", "paging", "done", "failed"}, caller : Ids \cup {None},
                after : Ids \cup {None}, seen : Seq(Ids), initial : SUBSET Ids]

IdleLister == [pc |-> "idle", caller |-> None, after |-> None, seen |-> <<>>,
               initial |-> {}]

Pcs == {"idle", "getStore", "fillCheck", "fillId", "fillEmail", "roleCheck",
        "admin", "invalCheck", "invalEmail", "invalId"}

\* op "auth" is validate_user's get; in pc "admin" key is the caller's id.
ClientState == [pc : Pcs, op : {"id", "email", "auth"},
                key : Ids \cup Emails \cup {None}, val : CachedUser \cup {None}]

Idle == [pc |-> "idle", op |-> "id", key |-> None, val |-> None]

\* require_role(Admin) (middleware/role.rs 12-27) on the User validate_user
\* returned: FORBIDDEN unless its role is Admin, else the handler runs for
\* that caller.
RoleChecked(u) ==
    IF u.role = AdminRole THEN [pc |-> "admin", op |-> "auth", key |-> u.id, val |-> None]
                          ELSE Idle

TypeOK ==
    /\ users \in [Ids -> StoredUser \cup {None}]
    /\ byId \in [Ids -> CachedUser \cup {None}]
    /\ byEmail \in [Emails -> CachedUser \cup {None}]
    /\ uids \subseteq Ids
    /\ cl \in [Clients -> ClientState]
    /\ lister \in [Clients -> ListerState]

Init ==
    /\ Dir!DirInit
    /\ byId = [i \in Ids |-> None]
    /\ byEmail = [e \in Emails |-> None]
    /\ cl = [c \in Clients |-> Idle]
    /\ lister = [c \in Clients |-> IdleLister]

-----------------------------------------------------------------------------
(* get (user.rs 66-85) and get_by_email (88-108).  A cache hit returns the  *)
(* cached user and changes nothing, so only the miss is a step.            *)

Get(c, i) ==
    /\ cl[c].pc = "idle"
    /\ byId[i] = None
    /\ cl' = [cl EXCEPT ![c] = [pc |-> "getStore", op |-> "id", key |-> i,
                                val |-> None]]
    /\ UNCHANGED <<users, byId, byEmail, uids, lister>>

GetByEmail(c, e) ==
    /\ cl[c].pc = "idle"
    /\ byEmail[e] = None
    /\ cl' = [cl EXCEPT ![c] = [pc |-> "getStore", op |-> "email", key |-> e,
                                val |-> None]]
    /\ UNCHANGED <<users, byId, byEmail, uids, lister>>

\* validate_user (middleware/auth.rs 102-105, 164-170) on an /admin route
\* for a token of user a: a by_id hit goes straight on to validate_session
\* (a read) and require_role; a miss is a get that goes to storage.
AuthHit(c, a) ==
    /\ cl[c].pc = "idle"
    /\ byId[a] # None
    /\ cl' = [cl EXCEPT ![c] = RoleChecked(byId[a])]
    /\ UNCHANGED <<users, byId, byEmail, uids, lister>>

AuthMiss(c, a) ==
    /\ cl[c].pc = "idle"
    /\ byId[a] = None
    /\ cl' = [cl EXCEPT ![c] = [pc |-> "getStore", op |-> "auth", key |-> a,
                                val |-> None]]
    /\ UNCHANGED <<users, byId, byEmail, uids, lister>>

\* Mutant: the fill carries the stored record, not the User with its id.
StorageReadNoId(c) ==
    /\ cl[c].pc = "getStore"
    /\ \E i \in Ids : /\ users[i] # None
                     /\ cl' = [cl EXCEPT ![c].pc = "fillCheck", ![c].val = users[i]]
    /\ UNCHANGED <<users, byId, byEmail, uids, lister>>

\* storage.get(id) / storage.get_by_email(email): NotFound ends the request.
StorageRead(c) ==
    LET k == cl[c].key
        found == IF cl[c].op # "email"
                 THEN IF users[k] # None THEN {k} ELSE {}
                 ELSE HolderOf(k)
    IN  /\ cl[c].pc = "getStore"
        /\ \/ /\ found = {}
              /\ cl' = [cl EXCEPT ![c] = Idle]
           \/ \E i \in found :
                 cl' = [cl EXCEPT ![c].pc = "fillCheck", ![c].val = AsUser(i)]
        /\ UNCHANGED <<users, byId, byEmail, uids, lister>>

\* Where a get goes once it has its User: validate_user's goes on to the
\* role check, any other returns.
Returned(st) == IF st.op = "auth" THEN [st EXCEPT !.pc = "roleCheck"] ELSE Idle

\* `if cache.get(key).await.is_none()`: the fill goes ahead only when the
\* entry the request missed on is still absent.
FillCheck(c) ==
    LET absent == IF cl[c].op # "email" THEN byId[cl[c].key] = None
                                        ELSE byEmail[cl[c].key] = None
    IN  /\ cl[c].pc = "fillCheck"
        /\ cl' = [cl EXCEPT ![c] = IF absent THEN [@ EXCEPT !.pc = "fillId"]
                                             ELSE Returned(@)]
        /\ UNCHANGED <<users, byId, byEmail, uids, lister>>

\* insert_user_into_cache (user.rs 178-184): by_id first, then by_email.
FillId(c) ==
    /\ cl[c].pc = "fillId"
    /\ byId' = [byId EXCEPT ![cl[c].val.id] = cl[c].val]
    /\ cl' = [cl EXCEPT ![c].pc = "fillEmail"]
    /\ UNCHANGED <<users, byEmail, uids, lister>>

FillEmail(c) ==
    /\ cl[c].pc = "fillEmail"
    /\ byEmail' = [byEmail EXCEPT ![cl[c].val.email] = cl[c].val]
    /\ cl' = [cl EXCEPT ![c] = Returned(@)]
    /\ UNCHANGED <<users, byId, uids, lister>>

\* Mutant: the route is mounted without the require_role layer.
RequireRoleSkip(c) ==
    /\ cl[c].pc = "roleCheck"
    /\ cl' = [cl EXCEPT ![c] = [pc |-> "admin", op |-> "auth", key |-> cl[c].val.id,
                                val |-> None]]
    /\ UNCHANGED <<users, byId, byEmail, uids, lister>>

\* After a miss: validate_session (a read), then require_role.
RequireRole(c) ==
    /\ cl[c].pc = "roleCheck"
    /\ cl' = [cl EXCEPT ![c] = RoleChecked(cl[c].val)]
    /\ UNCHANGED <<users, byId, byEmail, uids, lister>>

-----------------------------------------------------------------------------
(* update (user.rs 128-152) and delete (154-175).  Forbidden on the        *)
(* caller's own id; a storage error (NotFound, NoContent) returns before    *)
(* the cache is touched.  On success the request goes on to invalidate.    *)

Update(c, t, r) ==
    /\ cl[c].pc = "admin"
    /\ t # cl[c].key
    /\ Dir!DirSetRole(t, r)
    /\ cl' = [cl EXCEPT ![c] = [pc |-> "invalCheck", op |-> "id", key |-> t,
                                val |-> None]]
    /\ UNCHANGED <<byId, byEmail, lister>>

Delete(c, t) ==
    /\ cl[c].pc = "admin"
    /\ t # cl[c].key
    /\ Dir!DirRemove(t)
    /\ cl' = [cl EXCEPT ![c] = [pc |-> "invalCheck", op |-> "id", key |-> t,
                                val |-> None]]
    /\ UNCHANGED <<byId, byEmail, lister>>

\* The admin request ends without a write: Forbidden on the caller's own
\* id, or NotFound / NoContent from storage for an absent user.
AdminRefused(c, t) ==
    /\ cl[c].pc = "admin"
    /\ t = cl[c].key \/ users[t] = None
    /\ cl' = [cl EXCEPT ![c] = Idle]
    /\ UNCHANGED <<users, byId, byEmail, uids, lister>>

(* GET /admin/users (handlers/admin.rs get_all -> service get_all ->      *)
(* users_impl.rs get_all): one page of the users tree from the client's   *)
(* cursor, or from "user:" for a first page, with the filter that drops   *)
(* the caller.  A cursor no longer in the tree is NotFound.  Each page is *)
(* a request of its own, authenticated anew; a client pages with one     *)
(* token, and may start a new listing once the last one ended.            *)
ListPageWith(c, excluded) ==
    LET l == lister[c]
        caller == cl[c].key
        cont == l.pc = "paging"
        after == IF cont THEN l.after ELSE None
        r == Scan!Collect(UserKeys, IF after = None THEN UserKey(0) ELSE UserKey(after),
                          after # None, 0, PageLimit, excluded)
        got == (IF cont THEN l.seen ELSE <<>>) \o [n \in DOMAIN r.items |-> r.items[n][2]]
        st == [pc |-> "paging", caller |-> caller, after |-> after, seen |-> got,
               initial |-> IF cont THEN l.initial
                          ELSE {i \in Ids : users[i] # None} \ {caller}]
    IN  /\ cl[c].pc = "admin"
        /\ cont => l.caller = caller
        /\ \/ /\ ~r.found
              /\ lister' = [lister EXCEPT ![c] = [st EXCEPT !.pc = "failed"]]
           \/ /\ r.found /\ r.next = None
              /\ lister' = [lister EXCEPT ![c] = [st EXCEPT !.pc = "done"]]
           \/ /\ r.found /\ r.next # None
              /\ lister' = [lister EXCEPT ![c] = [st EXCEPT !.after = r.next[2]]]
        /\ cl' = [cl EXCEPT ![c] = Idle]
        /\ UNCHANGED <<users, byId, byEmail, uids>>

\* Mutant: the storage scan is run without the user_filter.
ListPageNoFilter(c) == ListPageWith(c, {})

ListPage(c) == ListPageWith(c, {UserKey(cl[c].key)})

\* `if let Some(user) = by_id.get(&id).await`: nothing is invalidated when
\* by_id does not hold the user, whatever by_email holds.
InvalCheck(c) ==
    /\ cl[c].pc = "invalCheck"
    /\ cl' = [cl EXCEPT ![c] = IF byId[cl[c].key] # None
                               THEN [@ EXCEPT !.pc = "invalEmail",
                                              !.val = byId[cl[c].key]]
                               ELSE Idle]
    /\ UNCHANGED <<users, byId, byEmail, uids, lister>>

\* invalidate_user_in_cache (user.rs 186-189): by_email of the cached
\* user's email first, then by_id.
InvalEmail(c) ==
    /\ cl[c].pc = "invalEmail"
    /\ byEmail' = [byEmail EXCEPT ![cl[c].val.email] = None]
    /\ cl' = [cl EXCEPT ![c].pc = "invalId"]
    /\ UNCHANGED <<users, byId, uids, lister>>

\* Mutant: invalidate_user_in_cache forgets the by_id entry.
InvalIdSkip(c) ==
    /\ cl[c].pc = "invalId"
    /\ cl' = [cl EXCEPT ![c] = Idle]
    /\ UNCHANGED <<users, byId, byEmail, uids, lister>>

InvalId(c) ==
    /\ cl[c].pc = "invalId"
    /\ byId' = [byId EXCEPT ![cl[c].val.id] = None]
    /\ cl' = [cl EXCEPT ![c] = Idle]
    /\ UNCHANGED <<users, byEmail, uids, lister>>

-----------------------------------------------------------------------------
(* create_new_user (user.rs 198-235): refused when by_email holds the      *)
(* email or storage finds it; otherwise a fresh UserId is stored.  The     *)
(* check-then-put race of two registrations is UserStore's subject; here   *)
(* the request is one step, so only what it reads from the cache matters. *)

Register(c, e) ==
    /\ cl[c].pc = "idle"
    /\ byEmail[e] = None
    /\ \E u \in Ids : Dir!DirRegister(u, e)
    /\ UNCHANGED <<byId, byEmail, cl, lister>>

\* moka evicts entries of each cache on its own once capacity is reached.
EvictId(i) ==
    /\ Evict
    /\ byId[i] # None
    /\ byId' = [byId EXCEPT ![i] = None]
    /\ UNCHANGED <<users, byEmail, uids, cl, lister>>

EvictEmail(e) ==
    /\ Evict
    /\ byEmail[e] # None
    /\ byEmail' = [byEmail EXCEPT ![e] = None]
    /\ UNCHANGED <<users, byId, uids, cl, lister>>

Next ==
    \/ \E c \in Clients :
          \/ \E i \in Ids : \/ Get(c, i) \/ Delete(c, i) \/ AdminRefused(c, i)
                          \/ AuthHit(c, i) \/ AuthMiss(c, i)
          \/ \E e \in Emails : GetByEmail(c, e) \/ Register(c, e)
          \/ \E t \in Ids, r \in Roles : Update(c, t, r)
          \/ StorageRead(c) \/ FillCheck(c) \/ FillId(c) \/ FillEmail(c)
          \/ RequireRole(c) \/ ListPage(c)
          \/ InvalCheck(c) \/ InvalEmail(c) \/ InvalId(c)
    \/ \E i \in Ids : EvictId(i)
    \/ \E e \in Emails : EvictEmail(e)

Spec == Init /\ [][Next]_vars

-----------------------------------------------------------------------------
(* No request in flight. *)
Quiescent == \A c \in Clients : cl[c].pc = "idle"

(* Once every request has returned, each by_id entry is the user storage *)
(* holds under that id.  by_id is what the auth middleware's validate_user *)
(* and admin get read; with no TTL a stale entry authenticates a deleted  *)
(* user, or carries a revoked role, until moka evicts it.                 *)
ByIdCoherent ==
    Quiescent =>
        \A i \in Ids : byId[i] # None => users[i] # None /\ byId[i] = AsUser(i)

(* Once every request has returned, each by_email entry is the user       *)
(* storage.get_by_email finds for that email.  by_email is what login and *)
(* the registration check read: a stale entry logs a deleted user in and  *)
(* refuses to register its email again.                                   *)
ByEmailCoherent ==
    Quiescent =>
        \A e \in Emails : byEmail[e] # None =>
            \E i \in HolderOf(e) : byEmail[e] = AsUser(i)

(* The /admin routes act only for an admin: every role update or delete   *)
(* that storage commits is made by a caller who, at that moment, exists    *)
(* and is an Admin in storage.  require_role checks the User validate_user *)
(* got through the cache, so a by_id entry that kept a revoked role or a   *)
(* deleted user lets a former admin act.                                   *)
AdminActsAuthorized ==
    [][\A c \in Clients :
          cl[c].pc = "admin" /\ cl'[c].pc = "invalCheck" =>
              /\ users[cl[c].key] # None
              /\ users[cl[c].key].role = AdminRole]_vars

(* A listing the client paged to its end (a page with no cursor) shows   *)
(* each user once, in key order, never the caller itself, and every user *)
(* that was stored when it began and still is; users deleted, demoted or *)
(* added by the client's own admin requests between its pages included.  *)
UserListingComplete ==
    \A c \in Clients : lister[c].pc = "done" =>
        LET s == lister[c].seen IN
        /\ \A n \in 1..Len(s) - 1 : s[n] < s[n + 1]
        /\ \A n \in DOMAIN s : s[n] # lister[c].caller
        /\ {i \in lister[c].initial : users[i] # None} \subseteq {s[n] : n \in DOMAIN s}
=============================================================================
