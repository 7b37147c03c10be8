------------------------------ MODULE References ------------------------------
(***************************************************************************)
(* References: a path and a raw pointer to the property that was found at  *)
(* it (Data::ResolveReferences, src/src/data.cpp;                          *)
(* Reference::InitializeProperty, src/src/util.cpp).                       *)
(*                                                                         *)
(* The tree does not change while its references are resolved, and so a    *)
(* property is told by its place: the keys and items that lead to it from  *)
(* the asset data.                                                         *)
(***************************************************************************)
EXTENDS BinaryFormat

Nothing == << <<>> >>  \* the null pointer: no key is empty

Item(i) == <<"[", ToString(i), "]">>

Step(p, step) ==
  IF p.type = "Element" THEN p.value[step]
  ELSE [type |-> p.value.valueType,
        value |-> p.value.items[CHOOSE i \in DOMAIN p.value.items : Item(i) = step]]

At(data, place) == FoldLeft(Step, data, place)

RECURSIVE Steps(_), Visited(_, _), VisitedInElements(_, _)

\* The names in a path.
Steps(path) ==
  LET i == SelectInSeq(path, LAMBDA c : c = "/")
  IN  IF i = 0 THEN <<path>>
      ELSE <<SubSeq(path, 1, i - 1)>> \o Steps(SubSeq(path, i + 1, Len(path)))

Below(step, places) == [i \in DOMAIN places |-> <<step>> \o places[i]]

VisitedInElements(p, order) ==  \* mutant: the elements in arrays are overlooked
  CASE p.type = "Reference" -> << <<>> >>
    [] p.type = "Element" ->
         Concat(LAMBDA key : Below(key, VisitedInElements(p.value[key], order)),
                KeysOf(p.value, order))
    [] OTHER -> <<>>

\* The places of the references that ResolveReferences comes to, in the order of
\* the hash tables: in elements, and in elements in arrays, but in no other array.
Visited(p, order) ==
  CASE p.type = "Reference" -> << <<>> >>
    [] p.type = "Element" ->
         Concat(LAMBDA key : Below(key, Visited(p.value[key], order)), KeysOf(p.value, order))
    [] p.type = "Array" /\ p.value.valueType = "Element" ->
         Concat(LAMBDA i : Below(Item(i), Visited(Step(p, Item(i)), order)),
                [i \in DOMAIN p.value.items |-> i])
    [] OTHER -> <<>>

\* operator[]: the child of an element, or of the element that a reference leads to.
Index(data, property, place, key) ==
  IF place = Nothing THEN Nothing
  ELSE LET el == IF At(data, place).type = "Reference" THEN property[place] ELSE place
       IN  IF /\ el # Nothing /\ At(data, el).type = "Element"
              /\ key \in DOMAIN At(data, el).value
             THEN Append(el, key) ELSE Nothing

GetFromPath(data, property, path) ==
  IF path = <<>> THEN Nothing
  ELSE FoldLeft(LAMBDA place, key : Index(data, property, place, key), <<>>, Steps(path))

\* What was loaded is not resolved yet.
Unresolved(data, order) == [place \in ToSet(Visited(data, order)) |-> Nothing]

\* One reference after the other, each with what the others lead to by then.
ResolveReferences(data, property, order) ==
  FoldLeft(LAMBDA resolved, place :
             [resolved EXCEPT ![place] = GetFromPath(data, resolved, At(data, place).value)],
           property, Visited(data, order))
=============================================================================
