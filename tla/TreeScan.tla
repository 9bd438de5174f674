------------------------------ MODULE TreeScan ------------------------------
(***************************************************************************)
(* The cursor-based range scan shared by every listing operation of the    *)
(* sled storage layer: TreeScan::collect (storage/sled/internal/           *)
(* tree_scan.rs) and the Page it fills (storage/page.rs).                  *)
(*                                                                         *)
(* A key of an ordered tree is a pair <<scope, id>>.  The scope stands for *)
(* the key prefix ("todo:<user_id>:" for one owner's todos), the id for    *)
(* the last segment.  Keys are ASCII strings of fixed-width uuids, so the  *)
(* byte order of sled is the lexicographic order on the pairs.  The id 0   *)
(* stands for the bare key "todo:<user_id>" that a first page starts from: *)
(* it sorts before every key of its scope and is never stored.             *)
(***************************************************************************)
EXTENDS Integers, Sequences, SequencesExt, FiniteSets

CONSTANT None   \* Option::None for cursors

\* Byte order of the encoded keys.
KeyLess(a, b) == \/ a[1] < b[1]
                 \/ a[1] = b[1] /\ a[2] < b[2]

\* The keys of a set in byte order: the i-th key has i - 1 keys below it.
Sorted(S) ==
    [i \in 1..Cardinality(S) |->
        CHOOSE k \in S : Cardinality({j \in S : KeyLess(j, k)}) = i - 1]

\* tree.range(after_key..): the stored keys from after_key on, in order.
RangeFrom(tree, afterKey) == Sorted({k \in tree : ~KeyLess(k, afterKey)})

\* PaginationParams::from_request_parts (handlers/types.rs): the query's
\* `after` and `limit`, each optional; without `limit` the request is
\* refused with 400.  Any usize limit is accepted, 0 included.
PaginationParamsOf(query) ==
    [ok |-> query.limit # None, after |-> query.after, limit |-> query.limit]

\* From<PaginationParams> for Pagination: FirstPage has no cursor, NextPage
\* carries its `after`.
PaginationOf(params) == [after |-> params.after, limit |-> params.limit]

\* Page::from(&Pagination): an empty page with the requested limit.
EmptyPage(limit) == [items |-> <<>>, next |-> None, limit |-> limit]

\* Mutation of CompleteWith: the cursor is the item that did not fit.
CompleteWithNextItem(page, item) ==
    IF Len(page.items) = page.limit
    THEN [page |-> [page EXCEPT !.next = item], stop |-> TRUE]
    ELSE [page |-> [page EXCEPT !.items = Append(@, item)], stop |-> FALSE]

\* Page::complete_with: a full page takes its last item as the cursor and
\* stops the scan; otherwise the item is appended.
CompleteWith(page, item) ==
    IF Len(page.items) = page.limit
    THEN [page |-> [page EXCEPT !.next = IF page.items = <<>> THEN None
                                          ELSE Last(page.items)],
          stop |-> TRUE]
    ELSE [page |-> [page EXCEPT !.items = Append(@, item)], stop |-> FALSE]

\* Mutation of ScanLoop: no break at the end of the prefix.
RECURSIVE ScanLoopNoBreak(_, _, _, _, _)
ScanLoopNoBreak(iter, page, afterKey, scope, excluded) ==
    IF iter = <<>> THEN page
    ELSE LET key == Head(iter) IN
         IF key = afterKey \/ key \in excluded
         THEN ScanLoopNoBreak(Tail(iter), page, afterKey, scope, excluded)
         ELSE LET c == CompleteWith(page, key) IN
              IF c.stop THEN c.page
              ELSE ScanLoopNoBreak(Tail(iter), c.page, afterKey, scope, excluded)

\* The body of the `for item in iter` loop of TreeScan::collect: skip the
\* after-key, break at the first key outside the prefix, drop what the
\* filter rejects (the keys in `excluded`), and stop on a complete page.
RECURSIVE ScanLoop(_, _, _, _, _)
ScanLoop(iter, page, afterKey, scope, excluded) ==
    IF iter = <<>> THEN page
    ELSE LET key == Head(iter) IN
         IF key = afterKey THEN ScanLoop(Tail(iter), page, afterKey, scope, excluded)
         ELSE IF key[1] # scope THEN page
         ELSE IF key \in excluded
              THEN ScanLoop(Tail(iter), page, afterKey, scope, excluded)
         ELSE LET c == CompleteWith(page, key) IN
              IF c.stop THEN c.page
              ELSE ScanLoop(Tail(iter), c.page, afterKey, scope, excluded)

\* TreeScan::collect.  With a cursor (pagination.after is Some) the after
\* key must exist in the tree, or the scan fails with NotFound.
Collect(tree, afterKey, hasAfter, scope, limit, excluded) ==
    IF hasAfter /\ afterKey \notin tree
    THEN [found |-> FALSE, items |-> <<>>, next |-> None]
    ELSE LET pg == ScanLoop(RangeFrom(tree, afterKey), EmptyPage(limit),
                            afterKey, scope, excluded)
         IN [found |-> TRUE, items |-> pg.items, next |-> pg.next]

-----------------------------------------------------------------------------
(***************************************************************************)
(* The contract of spec section 4.4, stated directly: the page holds the   *)
(* first `limit` accepted keys of the scope after the after-key, and it    *)
(* carries a cursor (its last item) exactly when accepted keys remain.     *)
(***************************************************************************)
Candidates(tree, afterKey, scope, excluded) ==
    Sorted({k \in tree : /\ k[1] = scope
                         /\ KeyLess(afterKey, k)
                         /\ k \notin excluded})

ScanContract(tree, afterKey, hasAfter, scope, limit, excluded) ==
    LET c == Candidates(tree, afterKey, scope, excluded)
        n == IF Len(c) < limit THEN Len(c) ELSE limit
    IN IF hasAfter /\ afterKey \notin tree
       THEN [found |-> FALSE, items |-> <<>>, next |-> None]
       ELSE [found |-> TRUE,
             items |-> SubSeq(c, 1, n),
             next  |-> IF Len(c) > n THEN c[n] ELSE None]
=============================================================================
