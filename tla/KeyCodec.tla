------------------------------ MODULE KeyCodec ------------------------------
(***************************************************************************)
(* The key encoding of the sled trees (storage/sled/internal/key.rs and    *)
(* the *_key helpers of storage/sled/mod.rs) as operators on strings.      *)
(*                                                                         *)
(* A string is a sequence of tokens, each tagged with what it is: the     *)
(* separator ":", a PrefixKind name ("todo", "user", ...) or an id.  An id *)
(* stands for the 36 characters of a hyphenated uuid: every id has that    *)
(* one width and none contains ":", so ids compare as wholes and never     *)
(* against a separator.  TreeScan                                          *)
(* abstracts a key to the pair <<scope, id>>; TreeScanMC checks that       *)
(* abstraction against these operators.                                    *)
(***************************************************************************)
EXTENDS Naturals, Sequences, SequencesExt

Sep == <<"sep", 0>>
Kind(k) == <<"kind", k>>
Id(v) == <<"id", v>>

PrefixKinds == {"user", "email", "todo", "session"}

\* Display of a uuid value: one token of fixed width.
Fmt(v) == <<Id(v)>>

\* parts.join(":")
Join(parts) ==
    IF parts = <<>> THEN <<>>
    ELSE FoldLeft(LAMBDA acc, p : acc \o <<Sep>> \o p, Head(parts), Tail(parts))

\* full_key.split(':'): the maximal runs between separators, empty ones
\* included.
Split(s) ==
    FoldLeft(LAMBDA parts, t :
                 IF t = Sep THEN Append(parts, <<>>)
                 ELSE [parts EXCEPT ![Len(parts)] = Append(@, t)],
             <<<<>>>>, s)

\* KeyPrefix::new: "<kind>:<value>:".
KeyPrefixNew(kind, v) == <<Kind(kind), Sep>> \o Fmt(v) \o <<Sep>>

\* KeyPrefix::from_kind: "<kind>:".
KeyPrefixFromKind(kind) == <<Kind(kind), Sep>>

\* KeyPrefix::from_parts: the parts joined with ":" and a trailing ":".
KeyPrefixFromParts(parts) == Join(parts) \o <<Sep>>

\* Key::new: the prefix followed by the value.
KeyNew(prefix, v) == [prefix |-> prefix, full |-> prefix \o Fmt(v)]

\* Key::from_prefix: the prefix itself is the key.
KeyFromPrefix(prefix) == [prefix |-> prefix, full |-> prefix]

\* Mutant: from_bytes asks for at least three parts, as a todo key has.
FromBytesNeedsThree(s) ==
    LET parts == Split(s) IN
    IF /\ Len(parts) >= 3
       /\ parts[1] \in {<<Kind(k)>> : k \in PrefixKinds}
       /\ \A i \in 1..Len(parts) : parts[i] # <<>>
    THEN [ok |-> TRUE,
          key |-> [prefix |-> KeyPrefixFromParts(SubSeq(parts, 1, Len(parts) - 1)),
                   full |-> s]]
    ELSE [ok |-> FALSE, invalid |-> s]

\* Key::from_bytes: InvalidKey(full_key) unless there are two parts or
\* more, the first names a PrefixKind and none is empty; the prefix is
\* every part but the last.
FromBytes(s) ==
    LET parts == Split(s) IN
    IF /\ Len(parts) >= 2
       /\ parts[1] \in {<<Kind(k)>> : k \in PrefixKinds}
       /\ \A i \in 1..Len(parts) : parts[i] # <<>>
    THEN [ok |-> TRUE,
          key |-> [prefix |-> KeyPrefixFromParts(SubSeq(parts, 1, Len(parts) - 1)),
                   full |-> s]]
    ELSE [ok |-> FALSE, invalid |-> s]

\* Key::starts_with
StartsWith(key, prefix) == IsPrefix(prefix, key.full)

\* The *_key helpers of storage/sled/mod.rs.
TodoKeyOf(u, t) == KeyNew(KeyPrefixNew("todo", u), t)
OwnerKeyOf(u) == KeyNew(KeyPrefixFromKind("todo"), u)
UserKeyOf(u) == KeyNew(KeyPrefixFromKind("user"), u)

\* sled's byte order on two encodings: a proper prefix sorts first,
\* otherwise the first differing token decides.
TokenLess(a, b) == a[1] = "id" /\ b[1] = "id" /\ a[2] < b[2]

StrLess(s, t) ==
    \/ IsStrictPrefix(s, t)
    \/ \E i \in 1..Len(s) :
          /\ i <= Len(t)
          /\ SubSeq(s, 1, i - 1) = SubSeq(t, 1, i - 1)
          /\ TokenLess(s[i], t[i])
=============================================================================
