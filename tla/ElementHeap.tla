----------------------------- MODULE ElementHeap -----------------------------
(***************************************************************************)
(* Properties, the elements that hold them and the wrappers that lead to   *)
(* them: src/src/element.cpp, src/src/property.cpp,                        *)
(* src/src/property_wrapper.cpp, src/src/linked_property_wrapper.cpp and   *)
(* the templates of src/include/udm.hpp.                                   *)
(*                                                                         *)
(* A property lives as long as an element or a document holds it by a      *)
(* shared pointer.  An element keeps raw pointers: fromProperty to the     *)
(* property it is the value of, parentProperty to the property of the      *)
(* element that holds that one.  Some functions that put properties into   *)
(* elements write them, and some do not.                                   *)
(***************************************************************************)
EXTENDS Naturals, FiniteSets, SequencesExt

CONSTANTS
  Null,    \* no property
  Gone,    \* what a raw pointer to a destroyed property is
  Default  \* the value of a scalar that nobody has set: indeterminate for
           \* trivial types, the empty string and the like for others

(***************************************************************************)
(* A state of the program inside a call: the properties that exist, those  *)
(* that documents hold, how the call is going, the property it returns and *)
(* the wrapper it is made through.  The value of a scalar is opaque, that  *)
(* of an array is its size; keys are sequences of path steps.              *)
(***************************************************************************)
NoName == <<>>

Keys == Seq(STRING) \ {NoName}

State(heap, roots) ==
  [heap |-> heap, roots |-> roots, outcome |-> "ok", prop |-> Null, links |-> <<>>]

Return(s, p) == [s EXCEPT !.prop = p]
Throw(s, exception) == [s EXCEPT !.outcome = exception]
Undefined(s) == [s EXCEPT !.outcome = "undefined"]

IsType(s, p, type) == p \notin {Null, Gone} /\ s.heap[p].type = type

Collection(type) == type \in {"Element", "Array"}

Children(s, e) == s.heap[e].children

Child(s, e, key) == IF key \in DOMAIN Children(s, e) THEN Children(s, e)[key] ELSE Null

(***************************************************************************)
(* Walks from child to child.  A place is a path of keys with the property *)
(* it leads to.                                                            *)
(***************************************************************************)
Below(heap, place) ==
  {<<Append(place[1], key), heap[place[2]].children[key]>> : key \in DOMAIN heap[place[2]].children}

Ends(places) == {place[2] : place \in places}

Onward(heap, met) ==
  met \cup {next \in UNION {Below(heap, place) : place \in met} : next[2] \notin Ends(met)}

\* The places where walks that begin at those in start, and go on as long as
\* they come to properties that none of them has met, meet the properties.
Met(heap, start) ==
  LET met[n \in 0..Cardinality(DOMAIN heap)] ==
        IF n = 0 THEN start ELSE Onward(heap, met[n - 1])
  IN  met[Cardinality(DOMAIN heap)]

\* The properties that those in P keep alive.
Reach(heap, P) == Ends(Met(heap, {<<<<>>, p>> : p \in P}))

Alive(s, p) == p \in Reach(s.heap, s.roots)

Deeper(heap, places) == UNION {{place} \cup Below(heap, place) : place \in places}

\* All places in the tree below p.
Places(heap, p) ==
  LET places[n \in 0..Cardinality(DOMAIN heap)] ==
        IF n = 0 THEN {<<<<>>, p>>} ELSE Deeper(heap, places[n - 1])
  IN  places[Cardinality(DOMAIN heap)]

EndOf(places, path) == (CHOOSE place \in places : place[1] = path)[2]

(***************************************************************************)
(* Making properties and putting them into elements.                       *)
(***************************************************************************)
\* An address where nothing is, nor at any that begins with it.
Fresh(s) == <<CHOOSE n \in 0..Cardinality(DOMAIN s.heap) : \A p \in DOMAIN s.heap : Head(p) # n>>

Only(x, y) == [z \in {x} |-> y]

With(f, g) == [x \in DOMAIN f \cup DOMAIN g |-> IF x \in DOMAIN g THEN g[x] ELSE f[x]]

New(s, members) ==
  Return([s EXCEPT !.heap = With(@, Only(Fresh(s), members))], Fresh(s))

Property(type, value, from) ==
  [type |-> type, value |-> value, children |-> <<>>,
   fromProperty |-> from, parentProperty |-> Null]

Initial(type) == IF Collection(type) THEN 0 ELSE Default

Create(s, type, value) ==
  New(s, Property(type, value, IF Collection(type) THEN Fresh(s) ELSE Null))

Put(s, e, key, p) ==
  [s EXCEPT !.heap[e].children = With(Children(s, e), Only(key, p))]

AddChild(s, e, key, p) ==
  LET t == Put(s, e, key, p)
  IN  CASE IsType(s, p, "Element") ->
             [t EXCEPT !.heap[p].parentProperty = s.heap[e].fromProperty,
                       !.heap[p].fromProperty = p]
        [] IsType(s, p, "Array") -> [t EXCEPT !.heap[p].fromProperty = p]
        [] OTHER -> t

\* A mutant of AddNamed: a property of another type is taken for what was to be
\* added.
AddNamedKeepsAny(s, e, name, type, isLast) ==
  LET old == Child(s, e, name)
      made == Create(s, type, Initial(type))
  IN  IF name = <<>> THEN Return(s, s.heap[e].fromProperty)
      ELSE IF old # Null THEN Return(s, old)
      ELSE AddChild(made, e, name, made.prop)

\* Element::Add, the child of that name: what is there is kept if it is of the
\* type, or if the path goes on.
AddNamed(s, e, name, type, isLast) ==
  LET old == Child(s, e, name)
      made == Create(s, type, Initial(type))
  IN  IF name = <<>> THEN Return(s, s.heap[e].fromProperty)
      ELSE IF old # Null /\ (isLast => s.heap[old].type = type) THEN Return(s, old)
      ELSE AddChild(made, e, name, made.prop)

\* Element::Add.  The first step of the path, or all of it, names a child.  The
\* call for the remaining steps leaves pathToElements out: they name one child
\* together.
Add(s, e, path, type, pathToElements) ==
  LET t == AddNamed(s, e, SubSeq(path, 1, 1), "Element", FALSE)
  IN  IF ~pathToElements \/ Len(path) <= 1 THEN AddNamed(s, e, path, type, TRUE)
      ELSE IF IsType(t, t.prop, "Element") THEN AddNamed(t, t.prop, Tail(path), type, TRUE)
      ELSE Undefined(t)

AddArray(s, e, path, size, pathToElements) ==
  LET t == Add(s, e, path, "Array", pathToElements)
  IN  IF t.outcome # "ok" \/ t.prop = Null THEN t
      ELSE IF IsType(t, t.prop, "Array") THEN [t EXCEPT !.heap[t.prop].value = size]
      ELSE Undefined(t)

(***************************************************************************)
(* Property::Copy and Property::Read make the tree below p anew, a property *)
(* for each place in it.  A copy is filled before it is put anywhere, so   *)
(* that nothing in it learns of a parent.  Read tells an element that is   *)
(* not the first of the property it was put into.                          *)
(***************************************************************************)
NewTree(s, p, isRead) ==
  LET places == Places(s.heap, p)
      At(path) == Fresh(s) \o path
      Made(path, old) ==
        LET inner == path # <<>> /\ old.type = "Element"
        IN  [type |-> old.type, value |-> old.value,
             children |-> [key \in DOMAIN old.children |-> At(Append(path, key))],
             fromProperty |->
               IF inner \/ (old.type = "Array" /\ (isRead \/ path # <<>>)) THEN At(path) ELSE Null,
             parentProperty |-> IF inner /\ isRead THEN At(Front(path)) ELSE Null]
      made == [a \in {At(place[1]) : place \in places} |->
                 Made(Tail(a), s.heap[EndOf(places, Tail(a))])]
  IN  Return([s EXCEPT !.heap = With(@, made)], Fresh(s))

\* Three mutants of Copy: the property itself is returned, its children are not
\* copied, and the pointers of an element are copied with it.
CopyNothing(s, p) == Return(s, p)

CopyTop(s, p) == New(s, [s.heap[p] EXCEPT !.fromProperty = Null, !.parentProperty = Null])

CopyPointers(s, p) ==
  LET t == NewTree(s, p, FALSE)
      Source(a) == s.heap[EndOf(Places(s.heap, p), Tail(a))]
  IN  [t EXCEPT !.heap =
         [a \in DOMAIN @ |->
            IF a \in DOMAIN s.heap THEN @[a] ELSE [@[a] EXCEPT !.parentProperty = Source(a).parentProperty]]]

Copy(s, p) == NewTree(s, p, FALSE)

Read(s, p) == NewTree(s, p, TRUE)

(***************************************************************************)
(* Element::Merge.  The children are merged in some order of the hash      *)
(* table; where both have an element, that of the source is gone over      *)
(* before the loop goes on to look at the source again.                    *)
(***************************************************************************)
MergeArray(s, a, b, overwrite) ==
  [s EXCEPT !.heap[a].value =
     IF ~overwrite THEN s.heap[a].value + s.heap[b].value
     ELSE IF a = b THEN 0 ELSE s.heap[b].value]

\* A mutant of MergeChild: properties are overwritten unasked.
MergeChildOverwrites(s, e, key, p, overwrite, deep) ==
  LET old == Child(s, e, key)
      t == IF deep THEN Copy(s, p) ELSE Return(s, p)
  IN  IF IsType(s, p, "Array") /\ IsType(s, old, "Array") THEN MergeArray(s, old, p, overwrite)
      ELSE AddChild(t, e, key, t.prop)

MergeChild(s, e, key, p, overwrite, deep) ==
  LET old == Child(s, e, key)
      t == IF deep THEN Copy(s, p) ELSE Return(s, p)
  IN  IF IsType(s, p, "Array") /\ IsType(s, old, "Array") THEN MergeArray(s, old, p, overwrite)
      ELSE IF Collection(s.heap[p].type) /\ old # Null /\ ~overwrite THEN s
      ELSE AddChild(t, e, key, t.prop)

\* The visits that merge the children of a source into e.  The loops under way
\* are those over the sources, each a child of the one before.
Visits(e, sources, order) ==
  [i \in DOMAIN order |-> [into |-> e, key |-> order[i], sources |-> sources]]

Visited(m, overwrite, deep, order) ==
  LET s == m.state
      v == Head(m.todo)
      p == Child(s, Last(v.sources), v.key)
      old == Child(s, v.into, v.key)
      t == MergeChild(s, v.into, v.key, p, overwrite, deep)
  IN  IF m.todo = <<>> \/ s.outcome # "ok" THEN m
      ELSE IF p = Null THEN [m EXCEPT !.todo = Tail(@)]
      ELSE IF IsType(s, p, "Element") /\ IsType(s, old, "Element")
        THEN [m EXCEPT !.todo = Visits(old, Append(v.sources, p), order) \o Tail(@)]
      ELSE [state |-> IF \A i \in DOMAIN v.sources : Alive(t, v.sources[i]) THEN t ELSE Undefined(t),
            todo |-> Tail(m.todo)]

Merge(s, e, other, overwrite, deep, order) ==
  LET visits == Cardinality(Places(s.heap, other)) * Len(order)
      after[n \in 0..visits] ==
        IF n = 0 THEN [state |-> s, todo |-> Visits(e, <<other>>, order)]
        ELSE Visited(after[n - 1], overwrite, deep, order)
  IN  after[visits].state

(***************************************************************************)
(* A LinkedPropertyWrapper is the chain of wrappers it was made from by    *)
(* operator[], itself the last: each has the property it is resolved to,   *)
(* if any, and the key it was asked for.                                   *)
(***************************************************************************)
Link(p, name) == [prop |-> p, propName |-> name]

Wrapper(p) == <<Link(p, NoName)>>

Resolved(links) == Last(links).prop

\* A mutant of Index: what is no element is taken for one without children.
IndexAnywhere(s, links, key) ==
  IF Resolved(links) = Null THEN Append(links, Link(Null, key))
  ELSE Append(links, Link(Child(s, Resolved(links), key), key))

\* operator[]: a property that exists, one that may exist later, or, below
\* what is no element, a wrapper of nothing.
Index(s, links, key) ==
  IF Resolved(links) = Null THEN Append(links, Link(Null, key))
  ELSE IF IsType(s, Resolved(links), "Element")
    THEN Append(links, Link(Child(s, Resolved(links), key), key))
  ELSE Wrapper(Null)

GetFromPath(s, p, path) ==
  LET links[i \in 0..Len(path)] == IF i = 0 THEN Wrapper(p) ELSE Index(s, links[i - 1], path[i])
  IN  links[Len(path)]

\* A mutant of ResolveLink: to a reader, a wrapper that was made before its
\* property leads nowhere.
ResolveLinkOnce(t, name, getOnly) ==
  LET u == IF ~IsType(t, t.prop, "Element") \/ getOnly THEN Return(t, Null)
           ELSE AddNamed(t, t.prop, name, "Element", TRUE)
  IN  [u EXCEPT !.links = Append(@, Link(u.prop, name))]

\* One wrapper, after that it was made from.
ResolveLink(t, name, getOnly) ==
  LET u == IF ~IsType(t, t.prop, "Element") THEN Return(t, Null)
           ELSE IF getOnly THEN Return(t, Child(t, t.prop, name))
           ELSE AddNamed(t, t.prop, name, "Element", TRUE)
  IN  [u EXCEPT !.links = Append(@, Link(u.prop, name))]

\* Resolves a wrapper, and those it was made from, after making the elements
\* that are missing unless it is to be read only.
InitializeProperty(s, links, getOnly) ==
  LET after[i \in 1..Len(links)] ==
        IF links[i].prop # Null \/ i = 1 \/ links[i].propName = NoName
          THEN [s EXCEPT !.links = SubSeq(links, 1, i), !.prop = links[i].prop]
          ELSE ResolveLink(after[i - 1], links[i].propName, getOnly)
  IN  after[Len(links)]

(***************************************************************************)
(* PropertyWrapper::Add and AddArray.  The message of the exception for a  *)
(* wrapper without property is made from the type of that property.  What  *)
(* is returned knows the property it was added to, but no key and no path. *)
(***************************************************************************)
\* A mutant of WrapperAdd: children are added to what is no element.
WrapperAddUnchecked(s, links, path, leaf, pathToElements) ==
  LET t == InitializeProperty(s, links, FALSE)
      u == IF leaf.type = "Array" THEN AddArray(t, t.prop, path, leaf.value, pathToElements)
           ELSE Add(t, t.prop, path, leaf.type, pathToElements)
  IN  IF t.prop = Null THEN Undefined(t) ELSE u

WrapperAdd(s, links, path, leaf, pathToElements) ==
  LET t == InitializeProperty(s, links, FALSE)
      u == IF leaf.type = "Array" THEN AddArray(t, t.prop, path, leaf.value, pathToElements)
           ELSE Add(t, t.prop, path, leaf.type, pathToElements)
  IN  IF t.prop = Null THEN Undefined(t)
      ELSE IF ~IsType(t, t.prop, "Element") THEN Throw(t, "InvalidUsageError")
      ELSE u

\* A mutant of Returned: what is returned is still the element added to.
ReturnedElement(t) == <<Link(Resolved(t.links), NoName)>>

Returned(t) == <<Link(Resolved(t.links), NoName), Link(t.prop, NoName)>>

(***************************************************************************)
(* Assignment through a wrapper.  An element is replaced in the element    *)
(* its parentProperty leads to, wherever that is.                          *)
(***************************************************************************)
\* A mutant of SetValue: the parent is used without a check.
SetValueUnchecked(s, el, p, order) ==
  LET parent == s.heap[el].parentProperty
      held == {i \in DOMAIN order : Child(s, parent, order[i]) = el}
  IN  IF parent \in {Null, Gone} THEN Undefined(s)
      ELSE IF held = {} THEN s
      ELSE Put(s, parent, order[Min(held)], p)

SetValue(s, el, p, order) ==
  LET parent == s.heap[el].parentProperty
      held == {i \in DOMAIN order : Child(s, parent, order[i]) = el}
  IN  IF parent = Null THEN Throw(s, "InvalidUsageError")
      ELSE IF parent = Gone THEN Undefined(s)
      ELSE IF held = {} THEN s
      ELSE Put(s, parent, order[Min(held)], p)

\* Assign writes a value of its own type into the property, of whatever type
\* that is.
Assign(s, links, leaf, order) ==
  LET t == InitializeProperty(s, links, FALSE)
      made == Create(t, leaf.type, leaf.value)
  IN  IF t.prop = Null \/ IsType(t, t.prop, "Array") THEN Throw(t, "LogicError")
      ELSE IF IsType(t, t.prop, "Element") THEN SetValue(made, t.prop, made.prop, order)
      ELSE IF IsType(t, t.prop, leaf.type) THEN [t EXCEPT !.heap[t.prop].value = leaf.value]
      ELSE Undefined(t)

\* The value is an element, which is copied with its pointers.
AssignElement(s, links, el, order) ==
  LET t == InitializeProperty(s, links, FALSE)
      made == New(t, t.heap[el])
  IN  IF t.prop = Null \/ IsType(t, t.prop, "Array") THEN Throw(t, "LogicError")
      ELSE IF IsType(t, t.prop, "Element") THEN SetValue(made, t.prop, made.prop, order)
      ELSE Undefined(t)

\* The value is a shared pointer to a property, which is put in place as it is:
\* into the element that the wrapper before the last leads to, if that is one.
AssignProperty(s, links, p) ==
  LET t == InitializeProperty(s, links, FALSE)
      name == Last(links).propName
      holder == Resolved(Front(t.links))
  IN  IF t.prop = Null \/ IsType(t, t.prop, "Array") \/ name = NoName THEN Throw(t, "LogicError")
      ELSE IF holder = Gone THEN Undefined(t)
      ELSE IF IsType(t, holder, "Element") THEN Put(t, holder, name, p)
      ELSE Throw(t, "LogicError")

\* The shared pointer a wrapper gets for its property, by key.
ClaimOwnership(s, links) ==
  IF Len(links) > 1 /\ IsType(s, Resolved(Front(links)), "Element")
    THEN Child(s, Resolved(Front(links)), Last(links).propName)
    ELSE Null

WrapperMerge(s, p, q, overwrite, deep, order) ==
  IF IsType(s, p, "Element") /\ IsType(s, q, "Element") THEN Merge(s, p, q, overwrite, deep, order)
  ELSE IF IsType(s, p, "Array") /\ IsType(s, q, "Array") THEN MergeArray(s, p, q, overwrite)
  ELSE s

-----------------------------------------------------------------------------
(***************************************************************************)
(* The end of a call: what nobody holds is destroyed, and raw pointers to  *)
(* it dangle.  Addresses mean nothing: between two calls that of a property*)
(* is one of the places where documents hold it.                           *)
(***************************************************************************)
Survivors(s, docs) == Met(s.heap, {<<<<d>>, docs[d]>> : d \in DOMAIN docs})

PlaceOf(met, p) == (CHOOSE place \in met : place[2] = p)[1]

Moved(met, p) ==
  IF p = Null THEN Null ELSE IF p \in Ends(met) THEN PlaceOf(met, p) ELSE Gone

Sweep(heap, met) ==
  LET Cell(c) ==
        [type |-> c.type, value |-> c.value,
         children |-> [key \in DOMAIN c.children |-> Moved(met, c.children[key])],
         fromProperty |-> Moved(met, c.fromProperty),
         parentProperty |-> Moved(met, c.parentProperty)]
  IN  [a \in {PlaceOf(met, p) : p \in Ends(met)} |-> Cell(heap[EndOf(met, a)])]

SweepLinks(links, met) ==
  [i \in DOMAIN links |-> [links[i] EXCEPT !.prop = Moved(met, @)]]
-----------------------------------------------------------------------------
(***************************************************************************)
(* What is true of the properties at every moment of a call, and of the    *)
(* wrappers that lead to them, in a program that observes its rules.       *)
(***************************************************************************)
\* The children of every property exist, under keys of X.
Linked(heap, X) ==
  \A p \in DOMAIN heap : \A key \in DOMAIN heap[p].children :
    key \in X /\ heap[p].children[key] \in DOMAIN heap

\* No property is held twice.
HeldOnce(heap) ==
  \A p, q \in DOMAIN heap :
    \A k \in DOMAIN heap[p].children, l \in DOMAIN heap[q].children :
      heap[p].children[k] = heap[q].children[l] => p = q /\ k = l

IsCell(c) ==
  c = [type |-> c.type, value |-> c.value, children |-> c.children,
       fromProperty |-> c.fromProperty, parentProperty |-> c.parentProperty]

Holds(h, q, p) == \E key \in DOMAIN h[q].children : h[q].children[key] = p

Unheld(h, p) == \A q \in DOMAIN h : ~Holds(h, q, p)

\* Only elements have children and know their parent.  What has been taken out
\* of its parent, and not yet been destroyed, may still point there.
CellOK(h, p) ==
  /\ IsCell(h[p])
  /\ h[p].fromProperty \in {Null, p}
  /\ h[p].type # "Element" => h[p].parentProperty = Null /\ DOMAIN h[p].children = {}
  /\ h[p].parentProperty # Null =>
       /\ h[p].parentProperty \in DOMAIN h
       /\ Holds(h, h[p].parentProperty, p) \/ Unheld(h, p)

RootOK(h, r) ==
  r \in DOMAIN h /\ h[r].type = "Element" /\ h[r].parentProperty = Null /\ Unheld(h, r)

\* Wrappers: those before the last lead to elements, and what has yet to be made
\* has a name.
LinkType(h) == [prop : DOMAIN h \cup {Null, Gone}, propName : Seq(STRING)]

LinksOK(h, links) ==
  /\ links \in Seq(LinkType(h)) /\ links # <<>>
  /\ \A i \in 1..(Len(links) - 1) :
       links[i].prop \in DOMAIN h => h[links[i].prop].type = "Element"
  /\ \A i \in 2..Len(links) : links[i].prop = Null => links[i].propName # NoName
=============================================================================
