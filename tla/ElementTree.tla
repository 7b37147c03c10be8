----------------------------- MODULE ElementTree -----------------------------
(***************************************************************************)
(* A program edits documents through property wrappers: it adds, assigns,  *)
(* merges, saves and loads, and it keeps wrappers from one call to a later *)
(* one while the documents change.  A document is a property of type       *)
(* Element that the program itself holds: the root of a udm::Data, or what *)
(* Data::LoadProperty returned.                                            *)
(*                                                                         *)
(* Each rule below is something the library leaves to its callers;         *)
(* ClientRules says which of them this program observes.                   *)
(***************************************************************************)
EXTENDS ElementHeap

CONSTANTS
  Docs,         \* the documents of the program
  Wrappers,     \* the wrappers it keeps
  Paths,        \* the paths of keys for which it takes wrappers
  Names,        \* the names, sequences of path steps, of what it adds
  Leaves,       \* what it adds and assigns
  Nowhere,      \* no wrapper
  Orders,       \* the orders in which hash tables of elements iterate
  MaxProps,     \* bound on the properties that exist between two calls
  MaxSize,      \* bound on the sizes of arrays
  ClientRules

AllRules ==
  { "AddToElement",       \* nothing is added through a wrapper of nothing
    "PathOfElements",     \* pathToElements leads through elements only
    "Named",              \* what is added has a name that is not empty
    "SameType",           \* a scalar is assigned values of its type
    "MergeApart",         \* two elements that are merged share nothing
    "NoCycles",           \* no property becomes its own descendant
    "LiveParent",         \* elements are assigned while their parent exists
    "LiveHolder",         \* properties are put in place while the element exists
    "NoSharing" }         \* merges are deep, only scalars are assigned

\* A program that shares nothing makes no cycles, no element loses its parent, and
\* no property is put in place by hand.
Careful == AllRules \ {"NoCycles", "LiveParent", "LiveHolder"}

ASSUME RulesAssumption == ClientRules \subseteq AllRules
ASSUME BoundAssumption == MaxProps \in Nat /\ MaxSize \in Nat
ASSUME DocsAssumption == IsFiniteSet(Docs)
ASSUME OrdersAssumption == Orders \subseteq Seq(Keys)

\* operator[] refuses a key that is empty.
ASSUME PathsAssumption == Paths \subseteq Seq(Keys)

\* A name is one key or several.
ASSUME NamesAssumption == Names \subseteq Seq(STRING)

\* An element has no value of its own.
ASSUME LeavesAssumption ==
  \A leaf \in Leaves : /\ leaf = [type |-> leaf.type, value |-> leaf.value]
                       /\ leaf.type = "Element" => leaf.value = 0

\* Pointers that lead to no property differ from each other and from those that do.
ASSUME PointersAssumption == Null # Gone /\ {Null, Gone} \cap Seq(Docs \cup Nat \cup Keys) = {}

\* To lead nowhere is no address, and no wrapper that leads to one.
ASSUME NowhereAssumption ==
  /\ \A d \in Docs, path \in Paths : Nowhere # [doc |-> d, path |-> path]
  /\ Nowhere \notin [doc : Docs, path : Paths,
                     links : Seq([prop : Seq(Docs \cup Nat \cup Keys) \cup {Null, Gone},
                                  propName : Seq(STRING)])]

VARIABLES
  heap,      \* the properties
  wrapper,   \* [Wrappers -> wrappers the program keeps]
  undefined  \* whether the last call ran into undefined behaviour

vars == <<heap, wrapper, undefined>>

\* Between two calls the property of a document is at the document.
docs == [d \in Docs |-> <<d>>]

Rule(name, obeyed) == name \in ClientRules => obeyed

Roots(r) == {r[d] : d \in Docs}

Here == State(heap, Roots(docs))

Find(d, path) == GetFromPath(Here, docs[d], path)

Kept(d, path, links) == [doc |-> d, path |-> path, links |-> links]

Held == {w \in Wrappers : wrapper[w] # Nowhere}

Links(w) == wrapper[w].links

OfNothing(links) == links[1].prop = Null

(***************************************************************************)
(* A wrapper can be used as long as the property it has to start from      *)
(* exists.  The program forgets one that can not.                          *)
(***************************************************************************)
Usable(links) == \A i \in DOMAIN links :
  links[i].prop = Gone => \E j \in (i + 1)..Len(links) : links[j].prop \notin {Null, Gone}

Swept(kept, met) ==
  IF kept = Nowhere THEN kept
  ELSE LET links == SweepLinks(kept.links, met)
       IN  IF Usable(links) THEN [kept EXCEPT !.links = links] ELSE Nowhere

Acyclic(s) == \A p \in DOMAIN s.heap :
  p \notin Reach(s.heap, {s.heap[p].children[key] : key \in DOMAIN s.heap[p].children})

\* The state after a call that ends in s, with the documents and wrappers as
\* given.
End(s, newDocs, newWrapper) ==
  \E met \in {Survivors(s, newDocs)} :
    /\ ~undefined
    /\ Cardinality(Ends(met)) <= MaxProps
    /\ \A p \in Ends(met) : s.heap[p].type = "Array" => s.heap[p].value <= MaxSize
    /\ Rule("NoCycles", Acyclic(s))
    /\ undefined' = (s.outcome = "undefined")
    /\ heap' = Sweep(s.heap, met)
    /\ wrapper' = [w \in Wrappers |-> Swept(newWrapper[w], met)]

\* The end of a call through w, which has been resolved by it.
EndCall(result, w) ==
  \E s \in {result} :
    LET links == IF s.links = <<>> THEN Links(w) ELSE s.links
    IN  End(s, docs, [wrapper EXCEPT ![w].links = links])

-----------------------------------------------------------------------------
Init ==
  /\ heap = [p \in Roots(docs) |-> Property("Element", 0, p)]
  /\ wrapper = [w \in Wrappers |-> Nowhere]
  /\ undefined = FALSE

\* Data::operator[], GetFromPath: a wrapper that is kept.
CallTake(w, d, path) ==
  /\ ~undefined
  /\ wrapper' = [wrapper EXCEPT ![w] = Kept(d, path, Find(d, path))]
  /\ UNCHANGED <<heap, undefined>>

\* The name is one key, or two: its first step, and all the others together.
Target(name, pathToElements) ==
  IF name = <<>> THEN <<>>
  ELSE IF pathToElements /\ Len(name) > 1 THEN <<SubSeq(name, 1, 1), Tail(name)>>
  ELSE <<name>>

KeysInUse ==
  UNION {Range(path) : path \in Paths \cup {Target(name, b) : name \in Names, b \in BOOLEAN}}

\* The loop over a hash table comes to every key once.
ASSUME HashTablesAssumption ==
  \A order \in Orders : KeysInUse \subseteq Range(order) /\ IsInjective(order)

Addable(w, name, leaf, pathToElements) ==
  LET t == InitializeProperty(Here, Links(w), FALSE)
      first == Child(t, t.prop, SubSeq(name, 1, 1))
  IN  /\ pathToElements => Len(name) > 1
      /\ Rule("AddToElement", ~OfNothing(Links(w)))
      /\ Rule("Named", name # NoName)
      /\ Rule("PathOfElements",
              pathToElements /\ IsType(t, t.prop, "Element") =>
                first = Null \/ IsType(t, first, "Element"))

Place(w, name, pathToElements) == wrapper[w].path \o Target(name, pathToElements)

\* PropertyWrapper::Add, AddArray.  The program may go on with the wrapper it
\* gets back.
CallAdd(w, name, leaf, pathToElements) ==
  /\ Addable(w, name, leaf, pathToElements)
  /\ \E s \in {WrapperAdd(Here, Links(w), name, leaf, pathToElements)} :
       \/ EndCall(s, w)
       \/ LET at == Place(w, name, pathToElements)
          IN  /\ s.outcome = "ok" /\ at \in Paths
              /\ End(s, docs, [wrapper EXCEPT ![w] = Kept(wrapper[w].doc, at, Returned(s))])

\* An element is assigned to by way of its parent.
Assignable(links) ==
  LET t == InitializeProperty(Here, links, FALSE)
  IN  Rule("LiveParent",
           IsType(t, t.prop, "Element") => t.heap[t.prop].parentProperty # Gone)

SameType(links, type) ==
  Rule("SameType",
       Resolved(links) # Null => heap[Resolved(links)].type \in {"Element", "Array", type})

CallAssign(w, leaf, order) ==
  /\ ~Collection(leaf.type)
  /\ Assignable(Links(w)) /\ SameType(Links(w), leaf.type)
  /\ EndCall(Assign(Here, Links(w), leaf, order), w)

CallAssignElement(w, d, path, order) ==
  LET el == Resolved(Find(d, path))
  IN  /\ Rule("NoSharing", FALSE)
      /\ Assignable(Links(w)) /\ SameType(Links(w), "Element")
      /\ IsType(Here, el, "Element")
      /\ EndCall(AssignElement(Here, Links(w), el, order), w)

\* The property that a wrapper was made from exists, if there was one.
HolderLives(links) == Len(links) > 1 => Resolved(Front(links)) # Gone

CallAssignProperty(w, d, path) ==
  LET p == ClaimOwnership(Here, Find(d, path))
  IN  /\ Rule("NoSharing", FALSE)
      /\ Rule("LiveHolder", HolderLives(Links(w)))
      /\ p # Null
      /\ EndCall(AssignProperty(Here, Links(w), p), w)

Apart(p, q) ==
  Rule("MergeApart", Reach(heap, {p}) \cap Reach(heap, {q}) = {})

CallMerge(w, d, path, overwrite, deep, order) ==
  LET p == Resolved(Links(w))
      q == Resolved(Find(d, path))
  IN  /\ Rule("NoSharing", deep)
      /\ Null \notin {p, q} /\ Apart(p, q)
      /\ EndCall(WrapperMerge(Here, p, q, overwrite, deep, order), w)

\* Data::Create, for a document that is given up.
CallCreate(d) ==
  \E s \in {Create(Here, "Element", 0)} :
    End(s, [docs EXCEPT ![d] = s.prop], wrapper)

\* Data::Save of src and Data::Load of the file, in place of d.
CallLoad(d, src) ==
  \E s \in {Read(Here, docs[src])} :
    End(s, [docs EXCEPT ![d] = s.prop], wrapper)

Next ==
  \/ \E d \in Docs : CallCreate(d) \/ \E src \in Docs : CallLoad(d, src)
  \/ \E w \in Wrappers, d \in Docs, path \in Paths : CallTake(w, d, path)
  \/ \E w \in Held :
       \/ \E name \in Names, leaf \in Leaves, pathToElements \in BOOLEAN :
            CallAdd(w, name, leaf, pathToElements)
       \/ \E leaf \in Leaves, order \in Orders : CallAssign(w, leaf, order)
       \/ \E d \in Docs, path \in Paths :
            \/ \E order \in Orders : CallAssignElement(w, d, path, order)
            \/ CallAssignProperty(w, d, path)
            \/ \E overwrite, deep \in BOOLEAN, order \in Orders :
                 CallMerge(w, d, path, overwrite, deep, order)

Spec == Init /\ [][Next]_vars

-----------------------------------------------------------------------------
(***************************************************************************)
(* The inductive invariant.  Addresses are sequences: those of what a call *)
(* has made begin with a number, the others with a document.               *)
(***************************************************************************)
Steps == Docs \cup Keys \cup Nat

\* R are the properties that documents hold.
Sound(h, R) ==
  /\ IsFiniteSet(DOMAIN h)
  /\ DOMAIN h \subseteq Seq(Steps) \ {<<>>}
  /\ Linked(h, Keys)
  /\ HeldOnce(h)
  /\ \A p \in DOMAIN h : CellOK(h, p)
  /\ \A r \in R : RootOK(h, r)

\* Between two calls the address of a property is the place of the property.
IsTree(h) ==
  /\ \A a \in DOMAIN h : \A key \in DOMAIN h[a].children : h[a].children[key] = Append(a, key)
  /\ \A a \in DOMAIN h :
       \/ a \in Roots(docs)
       \/ \E b \in DOMAIN h : \E key \in DOMAIN h[b].children : a = Append(b, key)

KeptOK(h, kept) ==
  /\ kept = Kept(kept.doc, kept.path, kept.links)
  /\ kept.doc \in Docs /\ kept.path \in Paths
  /\ LinksOK(h, kept.links)

ConsistentState(h, kept, bad) ==
  /\ Sound(h, Roots(docs)) /\ IsTree(h)
  /\ kept = [w \in Wrappers |-> kept[w]]
  /\ \A w \in Wrappers : kept[w] # Nowhere => KeptOK(h, kept[w]) /\ Usable(kept[w].links)
  /\ ~bad

Consistent == ConsistentState(heap, wrapper, undefined)

\* The keys of the wrappers after the i-th, up to the j-th.
KeysBetween(links, i, j) == [k \in 1..(j - i) |-> links[i + k].propName]

\* From the last property that a wrapper was resolved to, the keys it has yet to
\* go complete the path.  In a call, home has the places of the properties.
LeadsTo(links, home, path) ==
  \A i \in DOMAIN links :
    links[i].prop \in DOMAIN home /\ (\A j \in (i + 1)..Len(links) : links[j].prop = Null) =>
      home[links[i].prop] \o KeysBetween(links, i, Len(links)) = path

\* A wrapper that was taken earlier is still on the way it was taken for.
WrappersOnPath ==
  \A w \in Held : LeadsTo(Links(w), [p \in DOMAIN heap |-> p], docs[wrapper[w].doc] \o wrapper[w].path)

-----------------------------------------------------------------------------
(***************************************************************************)
(* Properties.                                                             *)
(***************************************************************************)
Holders(p) == {q \in DOMAIN heap : \E key \in DOMAIN heap[q].children : heap[q].children[key] = p}

Pointers == DOMAIN heap \cup {Null, Gone}

\* Everything is of its type, and nothing but what documents hold exists.
TypeOK ==
  /\ DOMAIN heap = Reach(heap, Roots(docs))
  /\ \A p \in DOMAIN heap :
       /\ {heap[p].fromProperty, heap[p].parentProperty} \subseteq Pointers
       /\ heap[p].type # "Element" => DOMAIN heap[p].children = {}
  /\ \A w \in Held : \A i \in DOMAIN Links(w) : Links(w)[i].prop \in Pointers

\* A program that observes all rules never meets undefined behaviour.
NothingUndefined == ~undefined

\* The raw pointers of an element lead to the property it is the value of and
\* to the one property that holds it, or nowhere.
BackPointersSound ==
  \A p \in DOMAIN heap : heap[p].type = "Element" =>
    /\ heap[p].fromProperty \in {Null, p}
    /\ heap[p].parentProperty # Null => Holders(p) = {heap[p].parentProperty}

\* However the documents have changed since a wrapper was taken: to a reader it
\* leads where its path leads now, unless it never led anywhere.
HeldLeadsToPath ==
  \A w \in Held : ~OfNothing(Links(w)) =>
    InitializeProperty(Here, Links(w), TRUE).prop
      = Resolved(Find(wrapper[w].doc, wrapper[w].path))

\* What can be added through a kept wrapper is then found by the path of the
\* wrapper and the name, and has the type asked for, whatever was there before.
AddedIsAtItsPath ==
  \A w \in Held, name \in Names, leaf \in Leaves, pathToElements \in BOOLEAN :
    Addable(w, name, leaf, pathToElements) =>
      \A s \in {WrapperAdd(Here, Links(w), name, leaf, pathToElements)} :
        s.outcome = "ok" =>
          /\ IsType(s, s.prop, leaf.type)
          /\ Resolved(GetFromPath(s, docs[wrapper[w].doc], Place(w, name, pathToElements))) = s.prop

(***************************************************************************)
(* The documents and wrappers as the program sees them.                    *)
(***************************************************************************)
Nodes(h, places) ==
  [path \in {place[1] : place \in places} |->
     LET q == EndOf(places, path) IN [type |-> h[q].type, value |-> h[q].value]]

\* The choice is of one only, and is there for TLC, which then computes the
\* places once.
TreeOf(h, p) == CHOOSE tree \in {Nodes(h, places) : places \in {Places(h, p)}} : TRUE

Trees == [d \in Docs |-> TreeOf(heap, docs[d])]

Addresses ==
  [w \in Wrappers |->
     IF w \in Held /\ ~OfNothing(Links(w))
       THEN [doc |-> wrapper[w].doc, path |-> wrapper[w].path]
       ELSE Nowhere]

Promise == INSTANCE Forest WITH
  forest <- Trees, address <- Addresses,
  Targets <- {Target(name, b) : name \in Names, b \in BOOLEAN}

\* With the rules kept, a call changes the document of its wrapper at the path
\* of its wrapper, whenever that was taken, and nothing else.
KeepsPromise == Promise!Spec

(***************************************************************************)
(* Merging, whatever the documents share.                                  *)
(***************************************************************************)
Found == {Resolved(Find(d, path)) : d \in Docs, path \in Paths} \ {Null}

Mergeable ==
  {pq \in Found \X Found :
     /\ Collection(heap[pq[1]].type) /\ heap[pq[1]].type = heap[pq[2]].type
     /\ Apart(pq[1], pq[2])}

\* No property is at two places below p.
TreeLike(p) ==
  LET slots == UNION {{q} \X DOMAIN heap[q].children : q \in Reach(heap, {p})}
  IN  Cardinality(slots) < Cardinality(Reach(heap, {p}))

Merged(pq, overwrite, deep, order) == WrapperMerge(Here, pq[1], pq[2], overwrite, deep, order)

\* Deep or not, in whatever order it takes the children, and whatever else holds
\* them: a merge turns the target into its own tree with the source's over it.
MergeOverlays ==
  \A pq \in {pq \in Mergeable : TreeLike(pq[1])}, overwrite, deep \in BOOLEAN, order \in Orders :
    \A s \in {Merged(pq, overwrite, deep, order)} :
      TreeOf(s.heap, pq[1])
        = Promise!Overlay(TreeOf(heap, pq[1]), TreeOf(heap, pq[2]), overwrite)

\* A deep merge gives the target no property that exists already.
DeepMergeSharesNothing ==
  \A pq \in Mergeable, overwrite \in BOOLEAN, order \in Orders :
    LET s == Merged(pq, overwrite, TRUE, order)
    IN  Reach(s.heap, {pq[1]}) \cap DOMAIN heap \subseteq Reach(heap, {pq[1]})
=============================================================================
