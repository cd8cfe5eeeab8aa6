------------------------------ MODULE JsonPatch ------------------------------
(***************************************************************************)
(* JSON diff and JSON patch (data_tools_service.py): two documents are     *)
(* walked side by side, the patch is applied to the first one by a reader  *)
(* of its own, and the answer says whether that gives the second one.      *)
(*                                                                         *)
(* A document is <<"scalar", name>>, <<"object", function on keys>> or     *)
(* <<"array", sequence>>; a path is a sequence of keys and written indices.*)
(* The recursion is for TLC: nothing is proved about this module.          *)
(***************************************************************************)
EXTENDS Integers, SequencesExt

CONSTANTS
  JsonKeys,   \* the keys of objects, as a sequence in sorted order
  Documents   \* what clients send

ASSUME JsonKeysAssumption == IsInjective(JsonKeys)

VARIABLES
  tool, a, b,   \* the endpoint and its two documents
  entries,      \* of the diff or the patch
  verdict       \* transformable, "none" before the answer

jsonVars == <<tool, a, b, entries, verdict>>

JsonInit ==
  /\ tool \in {"diff", "patch"}
  /\ a \in Documents /\ b \in Documents
  /\ entries = << >>
  /\ verdict = "none"

-----------------------------------------------------------------------------
Nothing == <<"nothing">>

Both(x, y, kind) == x[1] = kind /\ y[1] = kind

\* Python's equality: true is 1.
RECURSIVE Plain(_)
Plain(d) ==
  CASE d = <<"scalar", "true">> -> <<"scalar", "1">>
    [] d[1] \in {"object", "array"} -> <<d[1], [i \in DOMAIN d[2] |-> Plain(d[2][i])]>>
    [] OTHER -> d

Same(x, y) == x[1] \in {y[1]} /\ Plain(x) = Plain(y)

\* _pointer: what follows the first slash.  The root is written as "/", which
\* is also how the key "" of the root is written.
Pointer(path) == IF path = << >> THEN <<"">> ELSE path

Change(op, pointer, before, after) == [op |-> op, path |-> pointer, before |-> before, after |-> after]

\* What one array has more than the other.  The patch adds first, and removes
\* from the end, so that no index shifts before it is used.
Additions(base, x, y) ==
  LET shared == Min({Len(x), Len(y)}) IN
  [n \in 1..Len(y) - shared |-> Change("add", Append(base, ToString(shared + n - 1)), Nothing, y[shared + n])]

Removals(base, x, y) ==
  LET shared == Min({Len(x), Len(y)}) IN
  [n \in 1..Len(x) - shared |-> Change("remove", Append(base, ToString(shared + n - 1)), x[shared + n], Nothing)]

\* Mutant: the patch removes from the front.
RestInOrder(path, x, y) ==
  IF tool = "diff" THEN Removals(path, x, y) \o Additions(path, x, y)
  ELSE Additions(Pointer(path), x, y) \o Removals(Pointer(path), x, y)

Rest(path, x, y) ==
  IF tool = "diff" THEN Removals(path, x, y) \o Additions(path, x, y)
  ELSE Additions(Pointer(path), x, y) \o Reverse(Removals(Pointer(path), x, y))

\* _diff_walk and _patch_walk.
RECURSIVE Walk(_, _, _)
Walk(x, y, path) ==
  CASE Same(x, y) -> << >>
    [] ~Same(x, y) /\ Both(x, y, "object") ->
         FlattenSeq([n \in DOMAIN JsonKeys |->
           LET key == JsonKeys[n]
               child == Append(path, key)
           IN CASE key \in DOMAIN x[2] \ DOMAIN y[2] -> <<Change("remove", child, x[2][key], Nothing)>>
                [] key \in DOMAIN y[2] \ DOMAIN x[2] -> <<Change("add", child, Nothing, y[2][key])>>
                [] key \in DOMAIN x[2] \cap DOMAIN y[2] -> Walk(x[2][key], y[2][key], child)
                [] OTHER -> << >>])
    [] ~Same(x, y) /\ Both(x, y, "array") ->
         FlattenSeq([i \in 1..Min({Len(x[2]), Len(y[2])}) |->
                       Walk(x[2][i], y[2][i], Append(path, ToString(i - 1)))])
         \o Rest(path, x[2], y[2])
    [] OTHER -> <<Change("replace", Pointer(path), x, y)>>

-----------------------------------------------------------------------------
\* _apply_patch.

Failure == <<"failure">>

Parts(pointer) == SelectSeq(pointer, LAMBDA part : part # "")

\* The place of a part in an array, 0 if there is none.
Place(d, part) ==
  IF \E i \in 1..Len(d[2]) + 1 : ToString(i - 1) = part
  THEN CHOOSE i \in 1..Len(d[2]) + 1 : ToString(i - 1) = part ELSE 0

EditObject(d, key, e) ==
  CASE e.op # "remove" -> <<"object", [k \in DOMAIN d[2] \cup {key} |-> IF k = key THEN e.after ELSE d[2][k]]>>
    [] e.op = "remove" /\ key \in DOMAIN d[2] -> <<"object", [k \in DOMAIN d[2] \ {key} |-> d[2][k]]>>
    [] OTHER -> Failure

EditArray(d, part, e) ==
  LET i == Place(d, part) IN
  CASE e.op = "add" /\ i > 0 -> <<"array", InsertAt(d[2], i, e.after)>>
    [] e.op = "remove" /\ i \in 1..Len(d[2]) -> <<"array", RemoveAt(d[2], i)>>
    [] e.op = "replace" /\ i \in 1..Len(d[2]) -> <<"array", ReplaceAt(d[2], i, e.after)>>
    [] OTHER -> Failure

\* Without a part the operation is about the root, which is never removed; an
\* operation on a member of a scalar does nothing.
RECURSIVE Edit(_, _, _)
Edit(d, parts, e) ==
  LET Within(x, rebuilt(_)) == LET new == Edit(x, Tail(parts), e)
                               IN IF new = Failure THEN Failure ELSE rebuilt(new)
  IN CASE d = Failure -> Failure
       [] d # Failure /\ parts = << >> -> IF e.op = "remove" THEN d ELSE e.after
       [] Len(parts) = 1 /\ d[1] = "object" -> EditObject(d, parts[1], e)
       [] Len(parts) = 1 /\ d[1] = "array" -> EditArray(d, parts[1], e)
       [] Len(parts) = 1 /\ d[1] = "scalar" -> d
       [] Len(parts) > 1 /\ d[1] = "object" /\ parts[1] \in DOMAIN d[2] ->
            Within(d[2][parts[1]], LAMBDA new : <<"object", [d[2] EXCEPT ![parts[1]] = new]>>)
       [] Len(parts) > 1 /\ d[1] = "array" /\ Place(d, parts[1]) \in 1..Len(d[2]) ->
            Within(d[2][Place(d, parts[1])],
                   LAMBDA new : <<"array", [d[2] EXCEPT ![Place(d, parts[1])] = new]>>)
       [] OTHER -> Failure

Applied(d, patch) == FoldLeft(LAMBDA doc, e : Edit(doc, Parts(e.path), e), d, patch)

Diff ==
  /\ tool = "diff" /\ verdict = "none"
  /\ entries' = Walk(a, b, << >>)
  /\ verdict' = "listed"
  /\ UNCHANGED <<tool, a, b>>

Patch ==
  /\ tool = "patch" /\ verdict = "none"
  /\ entries' = Walk(a, b, << >>)
  /\ verdict' = IF Same(Applied(a, entries'), b) THEN "transformable" ELSE "not transformable"
  /\ UNCHANGED <<tool, a, b>>

JsonNext == Diff \/ Patch

-----------------------------------------------------------------------------
\* The places of a document.
RECURSIVE Places(_)
Places(d) ==
  {<< >>} \cup
  CASE d[1] = "object" -> UNION {{<<k>> \o p : p \in Places(d[2][k])} : k \in DOMAIN d[2]}
    [] d[1] = "array" -> UNION {{<<ToString(i - 1)>> \o p : p \in Places(d[2][i])} : i \in DOMAIN d[2]}
    [] OTHER -> {}

RECURSIVE At(_, _)
At(d, path) ==
  IF path = << >> THEN d
  ELSE At(IF d[1] = "object" THEN d[2][path[1]] ELSE d[2][Place(d, path[1])], Tail(path))

Common == Places(a) \cap Places(b)

\* Both documents are the same there, in JSON as in Python.
Identical(p) == At(a, p)[1] = At(b, p)[1] /\ At(a, p) = At(b, p)

\* No place where one document has true and the other 1.
Clear == \A p \in Common : Same(At(a, p), At(b, p)) => Identical(p)

Alike(p) == p \in Common /\ (Both(At(a, p), At(b, p), "object") \/ Both(At(a, p), At(b, p), "array"))

\* The places where the documents part: those that only one of them has, or
\* where their values differ and are not both objects or both arrays.
Partings ==
  {p \in Places(a) \cup Places(b) :
     /\ \A n \in 0..Len(p) - 1 : Alike(SubSeq(p, 1, n))
     /\ ~Alike(p)
     /\ p \in Common => ~Identical(p)}

\* A reader for which every part of a pointer counts, as RFC 6901 has it.
ReadByStandard(d, patch) == FoldLeft(LAMBDA doc, e : Edit(doc, e.path, e), d, patch)

EmptyKey(d) == \E p \in Places(d) : "" \in ToSet(p)

\* Where true does not meet 1: the answer denies that the patch works only for
\* documents with empty keys, which its own reader passes over; the patch of
\* two objects does work for a reader that keeps to RFC 6901; and unless it is
\* the root that parts, the diff names, once each and by pointers of RFC 6901,
\* exactly the places where the documents part.
WalkExact ==
  Clear =>
    /\ verdict = "not transformable" => EmptyKey(a) \/ EmptyKey(b)
    /\ tool = "patch" /\ verdict # "none" /\ Both(a, b, "object") => ReadByStandard(a, entries) = b
    /\ verdict = "listed" /\ << >> \notin Partings =>
         /\ {entries[n].path : n \in DOMAIN entries} = Partings
         /\ Len(entries) = Cardinality(Partings)
         /\ \A n \in DOMAIN entries :
              LET p == entries[n].path IN
              /\ entries[n].before = (IF p \in Places(a) THEN At(a, p) ELSE Nothing)
              /\ entries[n].after = (IF p \in Places(b) THEN At(b, p) ELSE Nothing)

\* What is said to be transformable is transformed into the second document, by
\* whoever reads the patch (docs/api.md, "reproduces `document_b` when
\* re-serialized", "any standards-compliant JSON Patch library").
PatchReproduces == verdict = "transformable" => ReadByStandard(a, entries) = b
=============================================================================
