----------------------------- MODULE TreeScanMC -----------------------------
(***************************************************************************)
(* Checks TreeScan::collect against the pagination contract over every     *)
(* input in a small bounded domain: each initial state is one call.        *)
(***************************************************************************)
EXTENDS TreeScan, KeyCodec, FiniteSets

CONSTANTS Scopes,   \* owners whose key ranges share the tree
          Ids,      \* entity ids (positive naturals, in key order)
          Limits    \* requested page sizes

VARIABLES tree, query, excluded
vars == <<tree, query, excluded>>

Scope == CHOOSE s \in Scopes : \A t \in Scopes : s <= t
Keys == Scopes \X Ids

\* One GET query: `after` and `limit` each present or not; the users
\* listing filters out one key.
Init == /\ tree \in SUBSET Keys
        /\ query \in [after : {None} \cup Ids, limit : {None} \cup Limits]
        /\ excluded \in {{}} \cup {{k} : k \in {Scope} \X Ids}

Next == UNCHANGED vars

Spec == Init /\ [][Next]_vars

Params == PaginationParamsOf(query)
Pagination == PaginationOf(Params)
HasAfter == Pagination.after # None
limit == Pagination.limit

\* TodoStorage::get_all: the cursor's todo_key, or the bare key
\* Key::new(todo prefix, user_id) that sorts before the owner's todos.
afterKey == IF HasAfter THEN <<Scope, Pagination.after>> ELSE <<Scope, 0>>

\* handlers::todo::get_all through Service::todo::get_all to
\* TodoStorage::get_all: the parsed query becomes a Pagination, and the
\* page is TreeScan::collect's.
Result == Collect(tree, afterKey, HasAfter, Scope, limit, excluded)

\* collect returns exactly the page the contract describes: the first
\* `limit` keys of the owner after the cursor, and a cursor iff more remain
\* (Page::complete_with and the skip/break/filter order of the scan loop).
ScanMatchesContract ==
    Params.ok => Result = ScanContract(tree, afterKey, HasAfter, Scope, limit, excluded)

\* A page without a cursor is the terminal page: every remaining key of
\* the owner is on it (spec 4.4 step 5).  Page::complete_with with limit 0.
TerminalPageIsExhaustive ==
    Params.ok /\ Result.found /\ Result.next = None =>
        Len(Result.items) = Len(Candidates(tree, afterKey, Scope, excluded))

\* The string a key pair stands for: todo_key, or the bare owner key
\* "todo:<user_id>" for id 0.
Encoded(k) == IF k[2] = 0 THEN OwnerKeyOf(k[1]) ELSE TodoKeyOf(k[1], k[2])

\* TreeScan's pairs are faithful to the key strings the call scans (key.rs
\* and the *_key helpers of sled/mod.rs): every key of the tree, and the
\* user key of each id, parses with Key::from_bytes (collect's `?` fails the
\* whole scan otherwise); sled's byte order on the strings of the tree's
\* keys and the after key is KeyLess on the pairs; Key::starts_with of the
\* scope's KeyPrefix holds exactly for the scope's keys; and the users
\* listing, which starts from Key::from_prefix("user:"), finds every user
\* key after its start, within its prefix and in id order.
KeyAbstractionSound ==
    LET seen == tree \cup {afterKey}
        userStart == KeyFromPrefix(KeyPrefixFromKind("user"))
    IN  /\ \A k \in tree : FromBytes(Encoded(k).full).ok
        /\ \A a, b \in seen :
              StrLess(Encoded(a).full, Encoded(b).full) <=> KeyLess(a, b)
        /\ \A k \in tree :
              StartsWith(Encoded(k), KeyPrefixNew("todo", Scope)) <=> k[1] = Scope
        /\ \A i, j \in {k[2] : k \in tree} :
              /\ FromBytes(UserKeyOf(i).full).ok
              /\ StrLess(userStart.full, UserKeyOf(i).full)
              /\ StartsWith(UserKeyOf(i), KeyPrefixFromKind("user"))
              /\ StrLess(UserKeyOf(i).full, UserKeyOf(j).full) <=> i < j
=============================================================================
