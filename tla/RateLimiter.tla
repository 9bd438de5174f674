---------------------------- MODULE RateLimiter ----------------------------
(***************************************************************************)
(* The rate limiting of one route (src/middleware/rate_limiter.rs, wired  *)
(* in src/app.rs).  Each limited route is wrapped first in a               *)
(* GlobalRateLimitLayer and then in a PerIpRateLimiter, so a request meets *)
(* the per-IP check first and the global check second, and the global     *)
(* limiter is one Arc shared by every route of its class (crud_light,     *)
(* crud_heavy, ...).  The per-IP key is the peer address from ConnectInfo *)
(* or, when settings.rate_limiter.x_forwarded_for is set, the parsed       *)
(* x-forwarded-for header; a request with no key skips the per-IP check.  *)
(*                                                                         *)
(* governor's limiters (GCRA) are modelled by what they allow: a bucket    *)
(* of Burst cells, refilled by Rate cells per second up to Burst, one cell *)
(* per admitted request.  Time advances in whole seconds.                  *)
(***************************************************************************)
EXTENDS Naturals, Functions, FiniteSetsExt

CONSTANTS
    Ips,            \* client addresses, as ConnectInfo reports them
    Burst,          \* per_ip.burst_per_second
    Rate,           \* per_ip.cells_per_second
    GlobalBurst,    \* global.burst_per_second
    GlobalRate,     \* global.cells_per_second
    XForwardedFor,  \* settings.rate_limiter.x_forwarded_for
    MaxSeconds,     \* bound on the clock
    MaxRequests,    \* bound on requests per client
    None

ASSUME Burst > 0 /\ Rate > 0 /\ GlobalBurst > 0 /\ GlobalRate > 0

\* What a client's x-forwarded-for header can hold once it reaches the
\* service: the client's own address as the proxy appended it, or a chain
\* "forged, real" when the client sent a header of its own.
Headers == {"real", "chain"}

VARIABLES
    now,        \* seconds elapsed
    cells,      \* per-IP limiter: key -> cells left
    gcells,     \* global limiter: cells left
    sent,       \* requests each client has sent
    admitted    \* requests of each client that reached the handler

vars == <<now, cells, gcells, sent, admitted>>

TypeOK ==
    /\ now \in 0..MaxSeconds
    /\ cells \in [Ips -> 0..Burst]
    /\ gcells \in 0..GlobalBurst
    /\ sent \in [Ips -> 0..MaxRequests]
    /\ admitted \in [Ips -> 0..MaxRequests]

Init ==
    /\ now = 0
    /\ cells = [k \in Ips |-> Burst]
    /\ gcells = GlobalBurst
    /\ sent = [i \in Ips |-> 0]
    /\ admitted = [i \in Ips |-> 0]

\* `v.parse::<IpAddr>().ok()`: only a single address parses.
ParseIp(ip, h) == IF h = "real" THEN ip ELSE None

\* The per-IP key of PerIpRateLimitMiddleware::call (lines 138-154): the
\* header's address when x_forwarded_for is set, the peer address else.
PerIpKey(ip, h) == IF XForwardedFor THEN ParseIp(ip, h) ELSE ip

\* Mutant: an off-by-one in the cell check lets a request through on an
\* empty bucket.
PerIpCallOffByOne(ip, h) ==
    LET k == PerIpKey(ip, h) IN
    IF k = None THEN [pass |-> TRUE, cells |-> cells]
    ELSE IF cells[k] >= 0 THEN [pass |-> TRUE, cells |-> [cells EXCEPT ![k] = @ - 1]]
    ELSE [pass |-> FALSE, cells |-> cells]

\* PerIpRateLimitMiddleware::call (lines 156-169): with a key, check_key
\* takes a cell or answers 429; without a key the request goes on.
PerIpCall(ip, h) ==
    LET k == PerIpKey(ip, h) IN
    IF k = None THEN [pass |-> TRUE, cells |-> cells]
    ELSE IF cells[k] > 0 THEN [pass |-> TRUE, cells |-> [cells EXCEPT ![k] = @ - 1]]
    ELSE [pass |-> FALSE, cells |-> cells]

\* RateLimitMiddleware::call (lines 70-84): check takes a cell or 429.
GlobalCall == IF gcells > 0 THEN [pass |-> TRUE, gcells |-> gcells - 1]
                            ELSE [pass |-> FALSE, gcells |-> gcells]

\* Mutant: the layers in the other order, the global one outside, so the
\* global limiter sees every request and the per-IP one what it lets by.
RequestGlobalFirst(ip, h) ==
    /\ sent[ip] < MaxRequests
    /\ sent' = [sent EXCEPT ![ip] = @ + 1]
    /\ gcells' = GlobalCall.gcells
    /\ IF GlobalCall.pass
       THEN \E p \in {PerIpCall(ip, h)} :
               /\ cells' = p.cells
               /\ admitted' = IF p.pass THEN [admitted EXCEPT ![ip] = @ + 1]
                                        ELSE admitted
       ELSE UNCHANGED <<cells, admitted>>
    /\ UNCHANGED now

\* A request to a limited route (app.rs 65-101): the per-IP layer, added
\* last, runs first; the global layer only sees what it lets through.
Request(ip, h) ==
    /\ sent[ip] < MaxRequests
    /\ sent' = [sent EXCEPT ![ip] = @ + 1]
    /\ \E p \in {PerIpCall(ip, h)} :
          /\ cells' = p.cells
          /\ IF p.pass
             THEN /\ gcells' = GlobalCall.gcells
                  /\ admitted' = IF GlobalCall.pass
                                 THEN [admitted EXCEPT ![ip] = @ + 1]
                                 ELSE admitted
             ELSE UNCHANGED <<gcells, admitted>>
    /\ UNCHANGED now

\* A second passes: every limiter regains its cells per second.
Tick ==
    /\ now < MaxSeconds
    /\ now' = now + 1
    /\ cells' = [k \in Ips |-> Min({Burst, cells[k] + Rate})]
    /\ gcells' = Min({GlobalBurst, gcells + GlobalRate})
    /\ UNCHANGED <<sent, admitted>>

\* The clock and the clients' requests are used up: the bounded model
\* stutters.
BoundReached ==
    /\ now = MaxSeconds
    /\ \A i \in Ips : sent[i] = MaxRequests
    /\ UNCHANGED vars

Next ==
    \/ \E ip \in Ips, h \in Headers : Request(ip, h)
    \/ Tick
    \/ BoundReached

Spec == Init /\ [][Next]_vars

-----------------------------------------------------------------------------
(* The per-IP quota holds per client: by second t a client has had at most *)
(* Burst + t * Rate requests reach the handler.  Checked only by           *)
(* MCRateForwarded.cfg, where a forwarded-for chain leaves a client with    *)
(* no per-IP key (rate_limiter.rs 156).                                    *)
PerIpQuotaHolds ==
    \A i \in Ips : admitted[i] <= Burst + now * Rate

(* The layer order of app.rs (per-IP outside, global inside) keeps a      *)
(* client that is over its own quota away from the global bucket that the *)
(* whole route class shares: every step that takes a global cell lets a   *)
(* request reach the handler.  With the layers the other way round, each  *)
(* request a client's per-IP limiter refuses would still use up a global  *)
(* cell, and one client could starve every other one.                     *)
GlobalCellsOnlyForAdmitted ==
    [][gcells' < gcells => \E i \in Ips : admitted'[i] = admitted[i] + 1]_vars
=============================================================================
