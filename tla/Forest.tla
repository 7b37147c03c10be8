------------------------------- MODULE Forest -------------------------------
(***************************************************************************)
(* What documents and wrappers are to a program.  A document is a tree, a  *)
(* function from the paths that exist in it to what is there; a wrapper is *)
(* the address of a path in a document, whether it exists or not.  Nothing *)
(* here knows of properties that are shared, of pointers back to parents   *)
(* or of wrappers that are resolved late: a call changes one document, and *)
(* that one only at the address of its wrapper and on the way there.       *)
(***************************************************************************)
EXTENDS Naturals, Sequences, SequencesExt

CONSTANTS
  Docs,      \* the documents of the program
  Wrappers,  \* the wrappers it keeps
  Paths,     \* the paths of keys by which it reaches properties
  Targets,   \* the relative paths at which it adds properties
  Leaves,    \* what it adds and assigns: nodes without children
  Nowhere,   \* the address of a wrapper that leads to nothing
  Default    \* the value of a scalar that nobody has set

VARIABLES
  forest,    \* [Docs -> trees]
  address    \* [Wrappers -> addresses]

vars == <<forest, address>>

Node(type, value) == [type |-> type, value |-> value]

ElementNode == Node("Element", 0)

Leaf(node) == [path \in {<<>>} |-> node]

EmptyTree == Leaf(ElementNode)

Below(T, path) == {q \in DOMAIN T : IsPrefix(path, q)}

From(path, q) == SubSeq(q, Len(path) + 1, Len(q))

Subtree(T, path) ==
  [q \in {From(path, r) : r \in Below(T, path)} |-> T[path \o q]]

\* T with S in place of whatever is at path.
Graft(T, path, S) ==
  LET kept == DOMAIN T \ Below(T, path)
  IN  [q \in kept \cup {path \o r : r \in DOMAIN S} |->
         IF q \in kept THEN T[q] ELSE S[From(path, q)]]

\* T with elements all along path, in place of values that are in the way.
WithElements(T, path) ==
  [q \in DOMAIN T \cup Prefixes(path) |->
     IF q \in Prefixes(path) THEN ElementNode ELSE T[q]]

(***************************************************************************)
(* T with S merged over it.  A path belongs to both as long as it leads    *)
(* through elements of both.  Where the two part, a value of S replaces    *)
(* what T has; an element or array of S replaces something of another type *)
(* only if existing properties are to be overwritten.  Arrays are replaced *)
(* or joined.                                                              *)
(***************************************************************************)
Common(T, S) ==
  {q \in DOMAIN T \cap DOMAIN S : \A r \in Prefixes(q) : {T[r], S[r]} = {ElementNode}}

Collection(node) == node.type \in {"Element", "Array"}

Overlay(T, S, overwrite) ==
  LET common == Common(T, S)
      border == {q \in DOMAIN T \cup DOMAIN S : q \notin common /\ (q # <<>> => Front(q) \in common)}
      Yields(q) == q \in DOMAIN S /\ (q \in DOMAIN T => ~Collection(S[q]) \/ overwrite)
      Winner(q) ==
        IF q \in DOMAIN T \cap DOMAIN S /\ {T[q].type, S[q].type} = {"Array"}
          THEN Leaf(Node("Array", IF overwrite THEN S[q].value ELSE T[q].value + S[q].value))
        ELSE Subtree(IF Yields(q) THEN S ELSE T, q)
      won == UNION {{q \o r : r \in DOMAIN Winner(q)} : q \in border}
  IN  [p \in common \cup won |->
         IF p \in common THEN ElementNode
         ELSE LET q == CHOOSE q \in border : IsPrefix(q, p) IN Winner(q)[From(q, p)]]

-----------------------------------------------------------------------------
Address(d, path) == [doc |-> d, path |-> path]

Leads(w) == address[w] # Nowhere

Doc(w) == address[w].doc

Path(w) == address[w].path

Init ==
  /\ forest = [d \in Docs |-> EmptyTree]
  /\ address = [w \in Wrappers |-> Nowhere]

\* Document d becomes one of some trees.  A wrapper into it may lead nowhere
\* from then on.
Change(d, trees) ==
  LET before == forest
  IN  forest' \in {[before EXCEPT ![d] = T] : T \in trees}

KeepsOrLoses(v, d) ==
  address'[v] = address[v] \/ (Leads(v) /\ Doc(v) = d /\ address'[v] = Nowhere)

OthersStay(d) == \A v \in Wrappers : KeepsOrLoses(v, d)

\* Under a property that is not an element, a path leads nowhere.
Take(w, d, path) ==
  /\ address' \in {[address EXCEPT ![w] = at] : at \in {Address(d, path), Nowhere}}
  /\ UNCHANGED forest

New(leaf) == IF Collection(leaf) THEN leaf ELSE Node(leaf.type, Default)

\* A new property, or the old one if it has the type asked for; an array gets
\* the size asked for.
Added(T, at, leaf) ==
  IF at \in DOMAIN T /\ T[at].type = leaf.type
    THEN IF leaf.type = "Array" THEN [T EXCEPT ![at] = leaf] ELSE T
  ELSE Graft(T, at, Leaf(New(leaf)))

\* The wrapper may go on as the one of the property that was added.
Add(w, target) ==
  LET at == Path(w) \o target
      T == WithElements(forest[Doc(w)], IF target = <<>> THEN at ELSE Front(at))
  IN  /\ \A v \in Wrappers :
           KeepsOrLoses(v, Doc(w)) \/ (v = w /\ address'[v] = Address(Doc(w), at))
      /\ Change(Doc(w), {Added(T, at, leaf) : leaf \in Leaves})

\* A scalar takes the place of what is there.  A refused assignment may have
\* made the elements on its way, nothing more.
Assign(w) ==
  LET T == WithElements(forest[Doc(w)], Path(w))
      scalars == {leaf \in Leaves : ~Collection(leaf) /\ Path(w) # <<>>}
  IN  /\ OthersStay(Doc(w))
      /\ Change(Doc(w), {T} \cup {Graft(T, Path(w), Leaf(leaf)) : leaf \in scalars})

Merge(w, src) ==
  LET T == forest[Doc(w)]
      S == forest[src]
      Alike(path) == path \in DOMAIN S /\ S[path].type = T[Path(w)].type
  IN  /\ OthersStay(Doc(w))
      /\ Path(w) \in DOMAIN T /\ Collection(T[Path(w)])
      /\ Change(Doc(w),
                {Graft(T, Path(w), Overlay(Subtree(T, Path(w)), Subtree(S, path), overwrite)) :
                   path \in {path \in Paths : Alike(path)}, overwrite \in BOOLEAN})

\* A document is given up for a new one, or for one that was saved and loaded.
Create(d) == OthersStay(d) /\ Change(d, {EmptyTree})

Load(d) == OthersStay(d) /\ Change(d, {forest[src] : src \in Docs})

Next ==
  \/ \E w \in Wrappers :
       \/ \E d \in Docs, path \in Paths : Take(w, d, path)
       \/ /\ Leads(w)
          /\ \/ Assign(w)
             \/ \E target \in Targets : Add(w, target)
             \/ \E src \in Docs : Merge(w, src)
  \/ \E d \in Docs : Create(d) \/ Load(d)

Spec == Init /\ [][Next]_vars
=============================================================================
