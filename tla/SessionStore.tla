---------------------------- MODULE SessionStore ----------------------------
(***************************************************************************)
(* Sessions and refresh-token rotation: login (src/service/mod.rs          *)
(* login_user), the auth middleware's session checks (middleware/auth.rs), *)
(* refresh (service/auth.rs refresh_token) and logout (handlers/auth.rs    *)
(* logout), over the session tree (storage/sled/session_impl.rs).          *)
(*                                                                         *)
(* A request's middleware reads the session, then the handler writes it:   *)
(* two awaits, between which other requests run.  A refresh token is the  *)
(* pair <<session id, jti>>; the session stores the current jti.  Expiry   *)
(* is left out: storage never acts on it, and session.validate only adds   *)
(* an early return to the middleware read.                                 *)
(***************************************************************************)
EXTENDS Naturals, FiniteSets

CONSTANTS
    Users,      \* user ids that can log in
    Sids,       \* session ids SessionId::new may hand out
    Jtis,       \* refresh jtis Jti::new may hand out
    Clients,    \* concurrent requests (a client may retry or replay)
    None

VARIABLES
    sessions,   \* session tree: sid -> [user, jti] or None
    fresh,      \* ids and jtis not yet handed out (uuids never repeat)
    issued,     \* refresh tokens returned to clients: <<sid, jti>> pairs
    redeemed,   \* refresh tokens some refresh request answered with new tokens
    loggedOut,  \* sessions a logout request deleted
    rq          \* per client: the step of its current request

vars == <<sessions, fresh, issued, redeemed, loggedOut, rq>>

Token == Sids \X Jtis

SessionRec == [user : Users, jti : Jtis]

\* tok: the token presented; sess: the Session the middleware read.
ReqState == [pc : {"idle", "refresh", "logout"}, tok : Token \cup {None},
             sess : SessionRec \cup {None}]

IdleReq == [pc |-> "idle", tok |-> None, sess |-> None]

TypeOK ==
    /\ sessions \in [Sids -> SessionRec \cup {None}]
    /\ fresh \subseteq Sids \cup Jtis
    /\ issued \subseteq Token
    /\ redeemed \subseteq issued
    /\ loggedOut \subseteq Sids
    /\ rq \in [Clients -> ReqState]

Init ==
    /\ sessions = [s \in Sids |-> None]
    /\ fresh = Sids \cup Jtis
    /\ issued = {}
    /\ redeemed = {}
    /\ loggedOut = {}
    /\ rq = [c \in Clients |-> IdleReq]

-----------------------------------------------------------------------------
(* The session repository (session_impl.rs), as the tree each call leaves *)
(* and whether it succeeded.                                               *)

\* put: a plain insert.
SessionPut(s, rec) == [sessions EXCEPT ![s] = rec]

\* delete: remove_value_with_span; NoContent when the key is absent.
SessionDelete(s) ==
    [ok |-> sessions[s] # None, tree |-> [sessions EXCEPT ![s] = None]]

\* update: one transaction that overwrites current_refresh_jti without
\* comparing it, or aborts with NoContent when the session is absent.
SessionUpdate(s, j) ==
    IF sessions[s] # None
    THEN [ok |-> TRUE, tree |-> [sessions EXCEPT ![s].jti = j]]
    ELSE [ok |-> FALSE, tree |-> sessions]

-----------------------------------------------------------------------------
(* login_user (mod.rs 75-122): once the password checks out, a new jti and *)
(* a new Session are made and the session is put; the refresh token holds *)
(* both ids.  Session put (session_impl.rs 45-62) is a plain insert.       *)
\* Mutant: the refresh token is generated with the user id for the jti.
LoginTokenUserId(c, u) ==
    /\ rq[c].pc = "idle"
    /\ \E s \in Sids \cap fresh, j \in Jtis \cap fresh :
          /\ sessions' = [sessions EXCEPT ![s] = [user |-> u, jti |-> j]]
          /\ fresh' = fresh \ {s, j}
          /\ issued' = issued \cup {<<s, u>>}
    /\ UNCHANGED <<redeemed, loggedOut, rq>>

Login(c, u) ==
    /\ rq[c].pc = "idle"
    /\ \E s \in Sids \cap fresh, j \in Jtis \cap fresh :
          /\ sessions' = SessionPut(s, [user |-> u, jti |-> j])
          /\ fresh' = fresh \ {s, j}
          /\ issued' = issued \cup {<<s, j>>}
    /\ UNCHANGED <<redeemed, loggedOut, rq>>

(* The auth middleware on /auth/refresh (auth.rs 77-124): validate_session *)
(* reads the session (NotFound is InvalidSession) and validate_refresh_token *)
(* compares its jti with the token's.  Any failure returns 401 and the      *)
(* request ends with nothing changed, so only a pass is a step.             *)
AuthRefresh(c, t) ==
    /\ rq[c].pc = "idle"
    /\ sessions[t[1]] # None
    /\ sessions[t[1]].jti = t[2]
    /\ rq' = [rq EXCEPT ![c] = [pc |-> "refresh", tok |-> t,
                                sess |-> sessions[t[1]]]]
    /\ UNCHANGED <<sessions, fresh, issued, redeemed, loggedOut>>

(* refresh_token (service/auth.rs 55-92) with the session the middleware   *)
(* read: a new jti, then storage.update, the transaction of                *)
(* session_impl.rs 80-122 that overwrites current_refresh_jti without      *)
(* comparing it and fails with NoContent when the session is gone.  Only   *)
(* on success are the new tokens returned.                                 *)
\* Mutant: the rotated session is written back with put, an upsert.
RefreshRotatePut(c) ==
    LET s == rq[c].tok[1]
    IN  /\ rq[c].pc = "refresh"
        /\ \E j \in Jtis \cap fresh :
              /\ fresh' = fresh \ {j}
              /\ sessions' = [sessions EXCEPT ![s] = [rq[c].sess EXCEPT !.jti = j]]
              /\ issued' = issued \cup {<<s, j>>}
              /\ redeemed' = redeemed \cup {rq[c].tok}
        /\ rq' = [rq EXCEPT ![c] = IdleReq]
        /\ UNCHANGED loggedOut

RefreshRotate(c) ==
    LET s == rq[c].tok[1]
    IN  /\ rq[c].pc = "refresh"
        /\ \E j \in Jtis \cap fresh :
              /\ fresh' = fresh \ {j}
              /\ sessions' = SessionUpdate(s, j).tree
              /\ \/ /\ SessionUpdate(s, j).ok
                    /\ issued' = issued \cup {<<s, j>>}
                    /\ redeemed' = redeemed \cup {rq[c].tok}
                 \/ /\ ~SessionUpdate(s, j).ok
                    /\ UNCHANGED <<issued, redeemed>>
        /\ rq' = [rq EXCEPT ![c] = IdleReq]
        /\ UNCHANGED loggedOut

(* The auth middleware on /auth/logout with an access token of session s: *)
(* validate_session finds the session.                                     *)
AuthLogout(c, s) ==
    /\ rq[c].pc = "idle"
    /\ sessions[s] # None
    /\ rq' = [rq EXCEPT ![c] = [pc |-> "logout", tok |-> <<s, sessions[s].jti>>,
                                sess |-> sessions[s]]]
    /\ UNCHANGED <<sessions, fresh, issued, redeemed, loggedOut>>

(* logout (handlers/auth.rs 23-38) -> service delete (service/auth.rs      *)
(* 45-52) -> session delete (session_impl.rs 65-77): remove_value_with_span *)
(* removes the key, or fails with NoContent when it is already gone.       *)
LogoutDelete(c) ==
    LET s == rq[c].tok[1]
    IN  /\ rq[c].pc = "logout"
        /\ sessions' = SessionDelete(s).tree
        /\ loggedOut' = IF SessionDelete(s).ok THEN loggedOut \cup {s}
                                              ELSE loggedOut
        /\ rq' = [rq EXCEPT ![c] = IdleReq]
        /\ UNCHANGED <<fresh, issued, redeemed>>

(* The model's stock of fresh uuids is spent: the service would go on,   *)
(* the bounded model stutters.                                            *)
IdsExhausted ==
    /\ Jtis \cap fresh = {} \/ Sids \cap fresh = {}
    /\ UNCHANGED vars

Next ==
    \/ IdsExhausted
    \/ \E c \in Clients :
          \/ \E u \in Users : Login(c, u)
          \/ \E t \in issued : AuthRefresh(c, t)
          \/ \E s \in Sids : AuthLogout(c, s)
          \/ RefreshRotate(c)
          \/ LogoutDelete(c)

Spec == Init /\ [][Next]_vars
-----------------------------------------------------------------------------
(* Refresh-token rotation is single use (spec: rotating current_refresh_jti *)
(* "invalidat[es] any previously issued refresh token for that session"):  *)
(* every refresh token of a session but the latest has been redeemed, and  *)
(* each redemption issued exactly one successor, so a session's tokens form *)
(* one chain from its login.  Two refreshes presenting one token, both      *)
(* passing validate_refresh_token before either update, fork the chain.     *)
RefreshChain ==
    \A s \in Sids :
        Cardinality({t \in issued : t[1] = s})
            <= Cardinality({t \in redeemed : t[1] = s}) + 1

(* A session that logout deleted is never back in the session tree: a     *)
(* refresh that passed the middleware before the logout must fail in       *)
(* storage.update (NoContent) rather than write the session again.         *)
LoggedOutStaysDeleted ==
    \A s \in loggedOut : sessions[s] = None
=============================================================================
