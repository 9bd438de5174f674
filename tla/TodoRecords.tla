---------------------------- MODULE TodoRecords ----------------------------
(***************************************************************************)
(* The contents of todos: the handlers of src/handlers/todo.rs, the       *)
(* service of src/service/todo.rs, the record codec of src/storage/todo.rs *)
(* and the single-todo operations of storage/sled/todos_impl.rs.           *)
(*                                                                         *)
(* A stored todo is an encoded TodoVersion: V1 (id, text, completed), as   *)
(* older builds wrote it, or V2 (with group).  Reads decode either into a *)
(* Todo; every write encodes V2.  update runs a sled transaction on the    *)
(* blocking pool that reads, applies the patch and writes back; sled runs  *)
(* transactions optimistically, so the read and the write are two steps   *)
(* and a write that finds the key changed since the read re-runs the      *)
(* closure.  Keys are <<owner, id>> as in todo_key; which keys a scan sees *)
(* is TodoStore's subject.                                                 *)
(***************************************************************************)
EXTENDS Naturals

CONSTANTS
    Owners,     \* user ids
    TodoIds,    \* ids TodoId::new may hand out
    Texts,      \* todo texts
    Groups,     \* todo groups, NoGroup (String::new()) among them
    NoGroup,    \* the empty group
    Patches,    \* UpdateTodo inputs: records of optional fields
    Clients,    \* concurrent requests
    InitV1,     \* todos stored by an older build: key -> V1 record
    None

Fields == {"text", "completed", "group"}

V1 == [v : {1}, text : Texts, completed : BOOLEAN]
V2 == [v : {2}, text : Texts, completed : BOOLEAN, group : Groups]
Todo == [text : Texts, completed : BOOLEAN, group : Groups]

Key == Owners \X TodoIds

VARIABLES
    store,      \* todo tree: key -> encoded TodoVersion or None
    used,       \* todo ids handed out
    lastSet,    \* per key and field: the value the last committed write set
    cl          \* per client: the step of its request

vars == <<store, used, lastSet, cl>>

ClientState == [pc : {"idle", "read", "commit"}, key : Key \cup {None},
                patch : Patches \cup {None}, snap : V1 \cup V2 \cup {None},
                res : Todo \cup {None}]

IdleClient == [pc |-> "idle", key |-> None, patch |-> None, snap |-> None,
               res |-> None]

TypeOK ==
    /\ store \in [Key -> V1 \cup V2 \cup {None}]
    /\ used \subseteq TodoIds
    /\ cl \in [Clients -> ClientState]

-----------------------------------------------------------------------------
(* The codec and the patch (storage/todo.rs).                              *)

\* From<TodoVersion> for Todo: V1 decodes with group String::default().
Decode(r) ==
    IF r.v = 1 THEN [text |-> r.text, completed |-> r.completed, group |-> NoGroup]
               ELSE [text |-> r.text, completed |-> r.completed, group |-> r.group]

\* Mutant: the encoder drops the group, as the V1 layout did.
EncodeWithoutGroup(t) == [v |-> 2, text |-> t.text, completed |-> t.completed]

\* From<Todo> for TodoVersion: always V2.
Encode(t) == [v |-> 2, text |-> t.text, completed |-> t.completed, group |-> t.group]

\* Todo::new: not completed, no group.
NewTodo(text) == [text |-> text, completed |-> FALSE, group |-> NoGroup]

\* Todo::apply with apply_if_changed: each field given in the patch
\* replaces the stored one (the inequality test only skips a no-op write).
Apply(t, p) == [f \in Fields |-> IF p[f] # None THEN p[f] ELSE t[f]]

\* The fields a patch sets.
SetBy(p) == {f \in Fields : p[f] # None}

Init ==
    /\ store = [k \in Key |-> IF k \in DOMAIN InitV1 THEN InitV1[k] ELSE None]
    /\ used = {k[2] : k \in DOMAIN InitV1}
    /\ lastSet = [k \in Key |-> IF k \in DOMAIN InitV1
                                THEN Decode(InitV1[k])
                                ELSE NewTodo(CHOOSE x \in Texts : TRUE)]
    /\ cl = [c \in Clients |-> IdleClient]

-----------------------------------------------------------------------------
(* Requests of an authenticated user u.                                    *)

\* add (handlers 110-132, service 20-30, put 51-71): a fresh TodoId and a
\* plain insert of the encoded Todo::new.
Add(c, u, text) ==
    /\ cl[c].pc = "idle"
    /\ \E t \in TodoIds \ used :
          /\ store' = [store EXCEPT ![<<u, t>>] = Encode(NewTodo(text))]
          /\ used' = used \cup {t}
          /\ lastSet' = [lastSet EXCEPT ![<<u, t>>] = NewTodo(text)]
    /\ UNCHANGED cl

\* get (handlers 71-89, service 32-39, get 29-49): NotFound for an absent
\* key, else the decoded Todo is the response.
Get(c, u, t) ==
    /\ cl[c].pc = "idle"
    /\ store[<<u, t>>] # None
    /\ cl' = [cl EXCEPT ![c].res = Decode(store[<<u, t>>])]
    /\ UNCHANGED <<store, used, lastSet>>

\* delete (handlers 226-242, service 88-97): remove_value, NoContent for
\* an absent key.
Delete(c, u, t) ==
    /\ cl[c].pc = "idle"
    /\ store[<<u, t>>] # None
    /\ store' = [store EXCEPT ![<<u, t>>] = None]
    /\ UNCHANGED <<used, lastSet, cl>>

\* update (handlers 157-177, service 64-77, storage 88-105): a patch with
\* no field is EmptyPatch before any storage call; otherwise the
\* transaction is spawned on the blocking pool.
UpdateStart(c, u, t, p) ==
    /\ cl[c].pc = "idle"
    /\ SetBy(p) # {}
    /\ cl' = [cl EXCEPT ![c] = [IdleClient EXCEPT !.pc = "read", !.key = <<u, t>>,
                                                  !.patch = p]]
    /\ UNCHANGED <<store, used, lastSet>>

\* update_todo's closure reads the key in the transaction: absent is
\* NotFound and the request ends.
UpdateRead(c) ==
    LET k == cl[c].key IN
    /\ cl[c].pc = "read"
    /\ IF store[k] = None
       THEN cl' = [cl EXCEPT ![c] = IdleClient]
       ELSE cl' = [cl EXCEPT ![c].pc = "commit", ![c].snap = store[k]]
    /\ UNCHANGED <<store, used, lastSet>>

\* Mutant: the write goes through without sled's conflict check, as a read
\* outside the transaction followed by a plain insert would.
UpdateCommitUnchecked(c) ==
    LET k == cl[c].key
        new == Apply(Decode(cl[c].snap), cl[c].patch)
    IN  /\ cl[c].pc = "commit"
        /\ store' = [store EXCEPT ![k] = Encode(new)]
        /\ lastSet' = [lastSet EXCEPT ![k] =
                          [f \in Fields |-> IF f \in SetBy(cl[c].patch)
                                            THEN cl[c].patch[f] ELSE @[f]]]
        /\ cl' = [cl EXCEPT ![c] = IdleClient]
        /\ UNCHANGED used

\* The commit: the decoded snapshot with the patch applied, encoded V2.
\* If the key changed since the read, sled aborts and re-runs the closure.
UpdateCommit(c) ==
    LET k == cl[c].key
        new == Apply(Decode(cl[c].snap), cl[c].patch)
    IN  /\ cl[c].pc = "commit"
        /\ \/ /\ store[k] = cl[c].snap
              /\ store' = [store EXCEPT ![k] = Encode(new)]
              /\ lastSet' = [lastSet EXCEPT ![k] =
                                [f \in Fields |-> IF f \in SetBy(cl[c].patch)
                                                  THEN cl[c].patch[f] ELSE @[f]]]
              /\ cl' = [cl EXCEPT ![c] = IdleClient]
           \/ /\ store[k] # cl[c].snap
              /\ cl' = [cl EXCEPT ![c].pc = "read", ![c].snap = None]
              /\ UNCHANGED <<store, lastSet>>
        /\ UNCHANGED used

Next ==
    \E c \in Clients :
        \/ \E u \in Owners, x \in Texts : Add(c, u, x)
        \/ \E u \in Owners, t \in TodoIds :
              \/ Get(c, u, t)
              \/ Delete(c, u, t)
              \/ \E p \in Patches : UpdateStart(c, u, t, p)
        \/ UpdateRead(c)
        \/ UpdateCommit(c)

Spec == Init /\ [][Next]_vars

-----------------------------------------------------------------------------
(* No patch is lost: every field of a stored todo holds the value of the  *)
(* last committed write that set it, whether that write was the todo's    *)
(* creation or a patch; concurrent updates of one todo that set different *)
(* fields both take effect, and a V1 record read and rewritten keeps its  *)
(* text and completed flag.                                               *)
NoLostPatch ==
    \A k \in Key : store[k] # None => Decode(store[k]) = lastSet[k]
=============================================================================
