----------------------------- MODULE TodoStore -----------------------------
(***************************************************************************)
(* The "todos" tree of SledStorage and the operations of TodoStorage       *)
(* (storage/sled/todos_impl.rs) that change it or page through it:         *)
(*   put / delete          single sled operations, atomic;                 *)
(*   get_all               one TreeScan page per call, atomic here;        *)
(*   delete_all            the batched cascading delete: a loop of a scan  *)
(*                         and a transaction, each one step, that any      *)
(*                         other request may interleave with.              *)
(* A key is <<owner, todo id>> (TreeScan).  Todo ids come from             *)
(* TodoId::new(), a fresh uuid: an id is never reused.  Record values are  *)
(* abstracted away: no property here depends on text or completion.        *)
(***************************************************************************)
EXTENDS TreeScan, FiniteSets

CONSTANTS Owners,     \* user ids owning todos (naturals, in key order)
          TodoIds,    \* todo ids (positive naturals, in key order)
          BatchSize,  \* SledConfig.delete_batch_size
          PageLimit,  \* the `limit` a client pages with
          Deleters,   \* concurrent delete_all requests
          Pagers,     \* clients paging through get_all
          Actors,     \* owners whose requests are modelled
          InitTodos   \* the keys in the tree initially

ASSUME BatchSize \in Nat /\ PageLimit \in Nat \ {0}

VARIABLES todoTree,   \* the set of keys present in the "todos" tree
          used,       \* todo ids handed out so far (TodoId::new is fresh)
          del,        \* local state of each delete_all call
          pager       \* local state of each client paging loop

todoVars == <<todoTree, used>>
vars == <<todoTree, used, del, pager>>

Keys == Owners \X TodoIds
OwnerKeys(u) == {k \in todoTree : k[1] = u}

\* Key::new(KeyPrefix::from_kind(Todo), user_id): "todo:<user_id>", the key
\* a scan of one owner starts from when there is no cursor.
FirstKey(u) == <<u, 0>>
AfterKey(u, after) == IF after = None THEN FirstKey(u) ELSE after

DelState == [pc: {"idle", "scan", "commit", "done", "failed"},
             owner: Owners, after: Keys \cup {None},
             batch: Seq(Keys), next: Keys \cup {None},
             initial: SUBSET Keys]
PagerState == [pc: {"idle", "paging", "done", "failed"},
               owner: Owners, after: Keys \cup {None},
               seen: Seq(Keys), initial: SUBSET Keys]

TypeOK == /\ todoTree \subseteq Keys
          /\ used \subseteq TodoIds
          /\ del \in [Deleters -> DelState]
          /\ pager \in [Pagers -> PagerState]

\* A tree the puts can build: each todo id belongs to one owner.
ASSUME /\ InitTodos \subseteq Owners \X TodoIds
       /\ \A a, b \in InitTodos : a[2] = b[2] => a = b
       /\ Actors \subseteq Owners

TodoInit ==
    /\ todoTree = InitTodos
    /\ used = {k[2] : k \in todoTree}

Init ==
    /\ TodoInit
    /\ del = [p \in Deleters |-> [pc |-> "idle", owner |-> CHOOSE u \in Owners : TRUE,
                                 after |-> None, batch |-> <<>>, next |-> None,
                                 initial |-> {}]]
    /\ pager = [q \in Pagers |-> [pc |-> "idle", owner |-> CHOOSE u \in Owners : TRUE,
                                  after |-> None, seen |-> <<>>, initial |-> {}]]

-----------------------------------------------------------------------------
(* Single-key operations.                                                  *)

\* TodoStorage::put with the fresh id of ServiceTodoRef::add.
PutTodo(u) ==
    \E t \in TodoIds \ used :
        /\ todoTree' = todoTree \cup {<<u, t>>}
        /\ used' = used \cup {t}

\* TodoStorage::delete of a present key (an absent one is NoContent and
\* changes nothing).
DeleteTodo(u, t) ==
    /\ <<u, t>> \in todoTree
    /\ todoTree' = todoTree \ {<<u, t>>}
    /\ UNCHANGED used

-----------------------------------------------------------------------------
(* delete_all_todos: scan a page of keys, then remove a batch.             *)

\* Mutation of CursorBatch: the previous cursor is not put back.
CursorBatchNoReinsert(after, page) ==
    IF page.next # None THEN Front(page.items) ELSE page.items

\* Mutation of CursorBatch: the previous cursor is put back even on the
\* first iteration, when there is none.
CursorBatchAlwaysPrev(after, page) ==
    LET withPrev == <<after>> \o page.items
    IN IF page.next # None THEN Front(withPrev) ELSE withPrev

\* The page edit between the scan and the transaction: the previous
\* cursor, skipped by the scan, goes in front; when the page has a cursor,
\* the last key is popped to stay as the next after-key.
CursorBatch(after, page) ==
    LET withPrev == IF after = None THEN page.items ELSE <<after>> \o page.items
    IN IF page.next # None THEN Front(withPrev) ELSE withPrev

\* remove_batch_in_transaction_with_span: one sled::Batch removing every
\* key of the page; keys already gone are no error.
RemoveBatch(tree, keys) == tree \ ToSet(keys)

\* The scan of one owner's keys for a delete loop that holds cursor `after`.
DeletePage(u, after) ==
    Collect(todoTree, AfterKey(u, after), after # None, u, BatchSize, {})

DeleteAllStart(p, u) ==
    /\ del[p].pc = "idle"
    /\ del' = [del EXCEPT ![p] = [pc |-> "scan", owner |-> u, after |-> None,
                                  batch |-> <<>>, next |-> None,
                                  initial |-> OwnerKeys(u)]]
    /\ UNCHANGED <<todoVars, pager>>

DeleteAllScan(p) ==
    LET d == del[p] IN
    /\ d.pc = "scan"
    /\ \E r \in {DeletePage(d.owner, d.after)} :
          \/ /\ ~r.found
             /\ del' = [del EXCEPT ![p].pc = "failed"]
          \/ /\ r.found
             /\ del' = [del EXCEPT ![p].pc = "commit",
                                   ![p].batch = CursorBatch(d.after, r),
                                   ![p].next = r.next]
    /\ UNCHANGED <<todoVars, pager>>

\* Mutation of DeleteAllCommit: the cursor is not carried to the next scan.
DeleteAllCommitStale(p) ==
    LET d == del[p] IN
    /\ d.pc = "commit"
    /\ todoTree' = RemoveBatch(todoTree, d.batch)
    /\ \/ d.next = None /\ del' = [del EXCEPT ![p].pc = "done"]
       \/ d.next # None /\ del' = [del EXCEPT ![p].pc = "scan"]
    /\ UNCHANGED <<used, pager>>

\* todo_tree.transaction removing the batch, then the loop test.
DeleteAllCommit(p) ==
    LET d == del[p] IN
    /\ d.pc = "commit"
    /\ todoTree' = RemoveBatch(todoTree, d.batch)
    /\ \/ d.next = None /\ del' = [del EXCEPT ![p].pc = "done"]
       \/ d.next # None /\ del' = [del EXCEPT ![p].pc = "scan", ![p].after = d.next]
    /\ UNCHANGED <<used, pager>>

\* The request returns (Ok or the error) and the task ends.
DeleteAllReturn(p) ==
    /\ del[p].pc \in {"done", "failed"}
    /\ del' = [del EXCEPT ![p].pc = "idle"]
    /\ UNCHANGED <<todoVars, pager>>

-----------------------------------------------------------------------------
(* A client paging through get_all, one call per step.                    *)

PagerStart(q, u) ==
    /\ pager[q].pc = "idle"
    /\ pager' = [pager EXCEPT ![q] = [pc |-> "paging", owner |-> u, after |-> None,
                                      seen |-> <<>>, initial |-> OwnerKeys(u)]]
    /\ UNCHANGED <<todoVars, del>>

\* TodoStorage::get_all with the client's current cursor.
GetAllPage(q) ==
    LET c == pager[q]
        r == Collect(todoTree, AfterKey(c.owner, c.after), c.after # None,
                     c.owner, PageLimit, {})
    IN /\ c.pc = "paging"
       /\ \/ /\ ~r.found
             /\ pager' = [pager EXCEPT ![q].pc = "failed"]
          \/ /\ r.found /\ r.next = None
             /\ pager' = [pager EXCEPT ![q].pc = "done", ![q].seen = @ \o r.items]
          \/ /\ r.found /\ r.next # None
             /\ pager' = [pager EXCEPT ![q].after = r.next, ![q].seen = @ \o r.items]
       /\ UNCHANGED <<todoVars, del>>

PagerEnd(q) ==
    /\ pager[q].pc \in {"done", "failed"}
    /\ pager' = [pager EXCEPT ![q].pc = "idle"]
    /\ UNCHANGED <<todoVars, del>>

-----------------------------------------------------------------------------
TodoWrite ==
    \E u \in Actors : \/ PutTodo(u)
                      \/ \E t \in TodoIds : DeleteTodo(u, t)

DeleterStep(p) == \/ \E u \in Actors : DeleteAllStart(p, u)
                  \/ DeleteAllScan(p)
                  \/ DeleteAllCommit(p)
                  \/ DeleteAllReturn(p)

PagerStep(q) == \/ \E u \in Actors : PagerStart(q, u)
                \/ GetAllPage(q)
                \/ PagerEnd(q)

Next == \/ TodoWrite /\ UNCHANGED <<del, pager>>
        \/ \E p \in Deleters : DeleterStep(p)
        \/ \E q \in Pagers : PagerStep(q)

\* A delete_all runs on a blocking task that is not cancelled once spawned:
\* its scan and commit steps are weakly fair.  Clients are not.
Fairness == \A p \in Deleters : WF_vars(DeleteAllScan(p)) /\ WF_vars(DeleteAllCommit(p))

Spec == Init /\ [][Next]_vars /\ Fairness

-----------------------------------------------------------------------------
(***************************************************************************)
(* Properties                                                              *)
(***************************************************************************)

\* A client that pages through get_all until a page without a cursor has
\* seen each key at most once, in key order, only keys of its own owner,
\* and every key that was present from its first call to its last
\* (TreeScan skip/break rules, Page::complete_with and the cursor hand-off
\* of get_all, with puts and deletes between the calls).
PaginationTotality ==
    \A q \in Pagers : pager[q].pc = "done" =>
        LET s == pager[q].seen IN
        /\ \A i \in 1..Len(s) - 1 : KeyLess(s[i], s[i + 1])
        /\ \A i \in DOMAIN s : s[i][1] = pager[q].owner
        /\ pager[q].initial \cap todoTree \subseteq ToSet(s)

\* When delete_all returns Ok, no todo of the owner that existed when it
\* was called is left (the cursor re-insert and pop of delete_all_todos).
DeleteAllComplete ==
    \A p \in Deleters : del[p].pc = "done" => del[p].initial \cap todoTree = {}

\* Every delete_all that has started eventually returns: the scan boundary
\* advances each iteration (spec 4.6).
DeleteAllTerminates ==
    \A p \in Deleters : del[p].pc \in {"scan", "commit"} ~> del[p].pc \in {"done", "failed"}

\* delete_all never gives up with an error (spec 4.6: every key initially
\* present is deleted and the loop terminates).
DeleteAllNeverFails ==
    \A p \in Deleters : del[p].pc # "failed"
=============================================================================
