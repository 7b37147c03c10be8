---------------------------- MODULE MCElementTree ----------------------------
(***************************************************************************)
(* Instances of ElementTree for TLC.  Documents have the children a and b  *)
(* and, where longer names are added, ones whose keys are paths.           *)
(***************************************************************************)
EXTENDS ElementTree

KeyA  == <<"a">>
KeyB  == <<"b">>
KeyBB == <<"b", "b">>
KeyABB == <<"a", "b", "b">>

\* Paths: two children of a root and one below; one branch; one child.
MCPaths == {<<>>, <<KeyA>>, <<KeyA, KeyB>>, <<KeyB>>}

OneBranch == {<<>>, <<KeyA>>, <<KeyA, KeyB>>}

Shallow == {<<>>, <<KeyA>>}

\* The name of a child, and one of three steps: one key, or a and the rest.
MCNames == {<<"b">>, <<"a", "b", "b">>}

OneName == {<<"b">>}

\* What is added and assigned.
Node(type, value) == [type |-> type, value |-> value]

NoArrays == {Node("Element", 0), Node("Int32", 1)}

MCLeaves == NoArrays \cup {Node("Array", 1)}

\* The orders of hash tables, of all keys there are: one where no property depends on it, else two.
OneOrder == {<<KeyA, KeyB, KeyBB, KeyABB>>}

MCOrders == OneOrder \cup {<<KeyABB, KeyBB, KeyB, KeyA>>}

\* No wrapper differs from another.
WrappersAlike == Permutations(Wrappers)

\* One that lets documents hold the same properties.
Sharing == AllRules \ {"NoSharing"}
=============================================================================
